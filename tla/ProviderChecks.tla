--------------------------- MODULE ProviderChecks ---------------------------
(***************************************************************************)
(* The data providers against reference definitions: what a load makes of  *)
(* the rows of a mapped CSV, of the Olist tables and of a file of canonical*)
(* records.                                                                *)
(***************************************************************************)
EXTENDS CheckedInput, Providers, Integers, Sequences, FiniteSets, FiniteSetsExt, SequencesExt


-----------------------------------------------------------------------------
(* Inputs *)

At(t) == [state |-> "set", at |-> t]
Local(t) == [state |-> "local", at |-> t]
NoTime(state) == [state |-> state, at |-> 0]

MappedRows ==
    [cells : {"full"}, id : 0..2, text : BOOLEAN, time : {Local(6), At(5)}, rating : {<<>>, <<3>>, <<9>>}, product : {1}]
        \cup {[cells |-> "short", id |-> 1, text |-> TRUE, time |-> At(5), rating |-> <<>>, product |-> 0]}
MappedSources ==
    [kind : {"mapped csv"}, mapping : BOOLEAN, zoneKnown : BOOLEAN, named : {TRUE}, file : {"read", "broken"}, language : {""},
     zone : {[shift |-> 6, before |-> b, after |-> 1] : b \in 0..2}, scale : {[min |-> 1, max |-> 5]},
     rows : BoundedSeq(MappedRows, 2)]
        \cup [kind : {"mapped csv"}, mapping : {TRUE}, zoneKnown : {TRUE}, named : BOOLEAN, file : {"read", "columns", "absent"},
              language : {"sv"}, zone : {[shift |-> 6, before |-> 1, after |-> 1]},
              scale : {[min |-> 1, max |-> 5], [min |-> 5, max |-> 5]}, rows : BoundedSeq(MappedRows, 1)]

Review(id) == [id |-> id, order |-> 1, body |-> "b", title |-> "t", score |-> 4, time |-> Local(6), short |-> FALSE]
Reviews == {Review(id) : id \in 0..2}
               \cup {[Review(1) EXCEPT !.order = 2], [Review(1) EXCEPT !.score = 9], [Review(1) EXCEPT !.short = TRUE],
                     [Review(1) EXCEPT !.body = ""], [Review(1) EXCEPT !.body = "", !.title = ""],
                     [Review(2) EXCEPT !.time = NoTime("malformed")]}
Order(id, delivered) == [id |-> id, delivered |-> delivered, expected |-> At(9), short |-> FALSE]
Orders == {<<Order(1, At(4))>>, <<Order(1, NoTime("blank")), Order(0, At(4))>>, <<Order(1, NoTime("malformed"))>>,
           <<[Order(1, At(4)) EXCEPT !.short = TRUE]>>, <<Order(1, At(4)), Order(1, At(5))>>}
Item(product, price) == [order |-> 1, product |-> product, seller |-> product, price |-> price, freight |-> <<2>>,
                         short |-> FALSE]
Items == {Item(p, price) : p \in 0..2, price \in {<<>>, <<5>>}}
             \cup {[Item(1, <<5>>) EXCEPT !.order = 2], [Item(1, <<5>>) EXCEPT !.short = TRUE],
                   [Item(1, <<7>>) EXCEPT !.seller = 3, !.freight = <<>>]}
ProductItem(id, category) == [id |-> id, category |-> category]
Word(from, to) == [from |-> from, to |-> to, short |-> FALSE]
OlistSource(reviews, orders, items, products, words, tables) ==
    [kind |-> "olist", zone |-> [shift |-> 6, before |-> 1, after |-> 0], reviews |-> reviews, orders |-> orders,
     items |-> items, products |-> products, translations |-> words, translated |-> words # <<>>, tables |-> tables]
OlistSources ==
    {OlistSource(reviews, orders, items, <<ProductItem(1, "c")>>, <<>>, tables) :
        reviews \in BoundedSeq(Reviews, 2), orders \in Orders, items \in BoundedSeq({Item(1, <<5>>)}, 1),
        tables \in {"read", "missing_source_table", "unsupported_schema"}}
    \cup {OlistSource(<<Review(1)>>, <<Order(1, At(4))>>, items, products, words, "read") :
             items \in BoundedSeq(Items, 2),
             products \in {<<ProductItem(1, "c")>>, <<ProductItem(1, ""), ProductItem(2, "c")>>, <<ProductItem(1, "c"), ProductItem(1, "d")>>},
             words \in BoundedSeq({Word("c", "x"), Word("c", "y"), Word("", "z"), [Word("d", "x") EXCEPT !.short = TRUE]}, 2)}

Payload == [plain |-> {}, rating |-> <<>>, products |-> <<>>, context |-> "valid"]
Unread == [Payload EXCEPT !.context = "raises"]
Line(state, id, provider) == [state |-> state, id |-> id, provider |-> provider, payload |-> Payload]
LineSources == [kind : {"lines"}, file : {"read", "broken", "absent"},
                lines : BoundedSeq({Line("blank", 1, ""), Line("invalid", 1, ""), [Line("object", 1, "") EXCEPT !.payload = Unread],
                                    Line("object", 1, "synthetic"), Line("object", 2, "synthetic"),
                                    Line("object", 1, "csv")}, 3)]

ReadRatings == {<<>>} \cup {<<[readable |-> r, min |-> 1, max |-> x, value |-> 3]>> : r \in BOOLEAN, x \in {1, 2, 5}}
ReadProducts == [id : 0..2, quantity : 0..1, readable : BOOLEAN, sellers : {<<1, 2>>, <<1, 1>>}]
Payloads == [kind : {"payload"}, plain : SUBSET {"source", "occurred_at", "privacy_status"}, rating : ReadRatings,
             products : BoundedSeq(ReadProducts, 1), context : {"valid", "invalid", "raises"}]
                \cup [kind : {"payload"}, plain : {{}}, rating : {<<>>}, products : BoundedSeq(ReadProducts, 2),
                      context : {"valid"}]

ProviderInit == input \in MappedSources \/ input \in OlistSources \/ input \in LineSources \/ input \in Payloads

-----------------------------------------------------------------------------
(* Properties *)

(* A load that is not blocked has made of every row a record or one error;  *)
(* a blocked one has no records and is not usable. Ids occur once, refusals *)
(* for one reason are among the refused, and the profile adds up.          *)
Accounted(load) ==
    LET report == load.report
        profile == Profile(load, [t \in {r.at[1] : r \in Range(load.records)} |-> t \div 3])
        sum(counts) == MapThenSumSet(LAMBDA v : counts[v], DOMAIN counts)
    IN  /\ IF report.blocking THEN load.records = <<>> /\ ~IsUsable(report)
           ELSE /\ report.discovered = report.valid + report.rejected
                /\ Len(load.records) = report.valid
                /\ IsUsable(report) = (load.records # <<>>)
        /\ Cardinality({e \in report.errors : e[2] # 0}) = report.rejected
        /\ report.duplicates + report.missingText <= report.rejected
        /\ IsInjective([i \in DOMAIN load.records |-> load.records[i].id])
        /\ sum(profile.months) = profile.count /\ sum(profile.languages) = profile.count
        /\ sum(profile.ratings) <= profile.count
        /\ profile.missing[1] <= profile.missing[2]
        /\ profile.range # <<>> => \A m \in DOMAIN profile.months : m \in (profile.range[1] \div 3)..(profile.range[2] \div 3)

(* A full row with the id of an earlier one is refused, even when the       *)
(* earlier one was; more rows only add records.                            *)
MappedIsStable(source) ==
    LET load == MappedCsv(source)
        rows == source.rows
        full == {i \in DOMAIN rows : rows[i].cells = "full"}
    IN  /\ Accounted(load)
        /\ ~load.report.blocking =>
              /\ \A i, j \in full : i < j /\ rows[i].id = rows[j].id /\ rows[i].id # 0 =>
                    <<"duplicate_source_record", j>> \in load.report.errors
              /\ \A n \in 1..(Len(rows) - 1) :
                    IsPrefix(MappedCsv([source EXCEPT !.rows = SubSeq(@, 1, n)]).records, load.records)

(* Two orders, or two products, with the same identity block an Olist load. *)
KeysBlock(source) ==
    LET twice(rows) == \E i, j \in DOMAIN rows : i < j /\ rows[i].id # 0 /\ rows[i].id = rows[j].id
    IN  twice(source.orders) \/ twice(source.products)

(* The Olist loads that raise instead of counting the row: the tables are   *)
(* read and there are reviews, and either a translation is short or, unless *)
(* the keys block the load, a review that passes every check before it is   *)
(* short before its time, or has a time and a short order or item.          *)
OlistRaises(source) ==
    LET read(i) == LET r == source.reviews[i]
                   IN  /\ r.id # 0 /\ \A j \in 1..(i - 1) : source.reviews[j].id # r.id
                       /\ \E o \in Range(source.orders) : o.id = r.order /\ o.id # 0
                       /\ r.body # "" \/ r.title # ""
                       /\ r.score \in 1..5
        joined(r) == {o \in Range(source.orders) : o.id = r.order}
                         \cup {x \in Range(source.items) : x.order = r.order /\ x.product # 0}
        short(rows) == \E row \in rows : row.short
    IN  /\ source.tables = "read" /\ source.reviews # <<>>
        /\ \/ short(Range(source.translations))
           \/ /\ ~KeysBlock(source)
              /\ \E i \in DOMAIN source.reviews :
                    LET r == source.reviews[i]
                    IN  /\ read(i)
                        /\ \/ r.short
                           \/ r.time.state \in {"set", "local"} /\ short(joined(r))

(* A load that does not raise has made of every review a record or one      *)
(* error. What a record says of its order is what the rows of the order say:*)
(* each usable item counts once, totals are sums of the amounts that can be *)
(* read, and one that cannot is warned of; a category has the first         *)
(* translation there is.                                                    *)
OlistIsFaithful(source) ==
    LET load == Olist(source)
        report == load[1].report
        items(r) == {i \in DOMAIN source.items : source.items[i].order = r.order /\ source.items[i].product # 0}
        priced(r) == {i \in items(r) : source.items[i].price # <<>>}
        words(c) == {i \in DOMAIN source.translations :
                        source.translations[i].from = c /\ source.translations[i].to # ""}
        category(p) == LET raw == {x.category : x \in {y \in Range(source.products) : y.id = p}} \ {""}
                       IN  IF raw = {} THEN <<>>
                           ELSE LET c == CHOOSE x \in raw : TRUE
                                IN  IF words(c) = {} THEN <<[name |-> c, language |-> "pt-BR"]>>
                                    ELSE <<[name |-> source.translations[Min(words(c))].to, language |-> "en"]>>
    IN  /\ load = <<>> <=> OlistRaises(source)
        /\ load # <<>> =>
             /\ Accounted(load[1])
             /\ (source.tables = "read" /\ source.reviews # <<>>) => report.blocking = KeysBlock(source)
             /\ \A r \in Range(load[1].records) :
                   /\ MapThenSumSet(LAMBDA p : r.related[p].quantity, r.products) = Cardinality(items(r))
                   /\ r.context.price = IF priced(r) = {} THEN <<>>
                                        ELSE <<MapThenSumSet(LAMBDA i : source.items[i].price[1], priced(r))>>
                   /\ (<<"invalid_price", r.id>> \in report.warnings) = (priced(r) # items(r))
                   /\ r.context.sellers = Cardinality({source.items[i].seller : i \in items(r)} \ {0})
                   /\ \A p \in r.products : r.related[p].category = category(p)
                   /\ (r.context.delta = <<>>) = (<<>> \in {r.context.delivered, r.context.expected})
                   /\ r.text # ""

(* A local time of a mapped CSV is accepted when it is exactly one instant, *)
(* and an Olist time that is some instant is its first.                    *)
TimesAreInstants(zone, local) ==
    LET instants == {t \in (local - 4)..(local + 4) : t + OffsetAt(zone, t) = local}
    IN  /\ MappedTimestamp(zone, Local(local)) =
               IF Cardinality(instants) = 1 THEN <<CHOOSE t \in instants : TRUE>> ELSE <<>>
        /\ instants # {} => OlistTimestamp(zone, Local(local)) = <<Min(instants)>>

(* A payload is a record exactly when each of its parts is good, and raises *)
(* only for a number, or a context, that cannot be converted.              *)
PayloadIsRead(payload) ==
    LET read == ReadRecord(payload)
        good(p) == p.readable /\ p.id # 0 /\ p.quantity = 1 /\ p.sellers = <<1, 2>>
        twice == \E i, j \in DOMAIN payload.products : i < j /\ payload.products[i].id = payload.products[j].id
    IN  /\ (read = "record") = (/\ payload.plain = {} /\ payload.context = "valid" /\ ~twice
                                /\ \A p \in Range(payload.products) : good(p)
                                /\ payload.rating # <<>> => payload.rating[1].readable /\ payload.rating[1].max = 5)
        /\ read = "raises" => \/ payload.context = "raises"
                              \/ \E p \in Range(payload.products) \cup Range(payload.rating) : ~p.readable

(* Of the rows of its source a load makes a record or one counted error,    *)
(* unless it raises, which leaves no report at all, against                 *)
(* docs/data-sources.md:97. A mapped CSV refuses the rows that are short;   *)
(* Olist raises exactly for those that OlistRaises names, and a file of     *)
(* records exactly where the conversion of a line does, as that of a number *)
(* that cannot be read (_load of the three providers, from_dict,            *)
(* ReportBuilder, profile_dataset).                                         *)
ProvidedIsAccounted ==
    /\ input.kind = "mapped csv" => MappedIsStable(input)
    /\ input.kind = "olist" => OlistIsFaithful(input)
    /\ input.kind = "lines" =>
          LET load == SyntheticLines(input)
              good(id) == {i \in DOMAIN input.lines : input.lines[i] = Line("object", id, "synthetic")}
          IN  /\ load = <<>> <=> input.file = "read" /\ \E line \in Range(input.lines) : line.payload = Unread
              /\ load # <<>> => /\ Accounted(load[1])
                                /\ \A r \in Range(load[1].records) : r.at[1] = Min(good(r.id))
    /\ input.kind = "payload" => PayloadIsRead(input)
    /\ input.kind = "local" =>
          TimesAreInstants([shift |-> 6, before |-> input.before, after |-> input.after], input.local)
=============================================================================
