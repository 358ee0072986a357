----------------------------- MODULE Operations -----------------------------
(***************************************************************************)
(* The operations a step can be recorded from (record.rs): their           *)
(* catalogue, what a request must bring, the probes a piece of SQL must    *)
(* pass, the SQL a step is recorded as, and the reading of a query back    *)
(* as an operation.  SQL is a sequence of signs, and a small reader        *)
(* stands in for DuckDB's: it knows comments, parentheses, lists, aliases  *)
(* and the clauses of a SELECT.                                            *)
(***************************************************************************)
EXTENDS Naturals, FiniteSets, SequencesExt, Functions

(***************************************************************************)
(* DuckDB's reading, as far as a fragment can disturb it.                  *)
(***************************************************************************)
Refusal == [is |-> "none"]

(* The places of a set, in order.                                          *)
InOrder(places) ==
    [k \in 1..Cardinality(places) |->
        CHOOSE p \in places : Cardinality({q \in places : q < p}) = k - 1]

Shown(s) ==
    LET Hidden(i) == \E j \in 1..i : s[j] = "--" /\ \A k \in j..i : s[k] # "LF"
    IN  InOrder({i \in DOMAIN s : s[i] # "LF" /\ ~Hidden(i)})

At(s, places) == [k \in DOMAIN places |-> s[places[k]]]
Read(s) == At(s, Shown(s))

Count(s, sign, upto) == Cardinality({i \in 1..upto : s[i] = sign})

Balanced(s) ==
    /\ \A i \in DOMAIN s : Count(s, ")", i) <= Count(s, "(", i)
    /\ Count(s, "(", Len(s)) = Count(s, ")", Len(s))

Top(s, signs) ==
    {i \in DOMAIN s : s[i] \in signs /\ Count(s, "(", i) = Count(s, ")", i)}

Between(s, at) == [k \in 1..(Len(at) - 1) |-> SubSeq(s, at[k] + 1, at[k + 1] - 1)]
Pieces(s, cuts) == Between(s, <<0>> \o InOrder(cuts) \o <<Len(s) + 1>>)

List(s) == Pieces(s, Top(s, {","}))

RECURSIVE Expr(_), Item(_)

Exprs(list) == [k \in DOMAIN list |-> Expr(list[k])]
Items(list) == [k \in DOMAIN list |-> Item(list[k])]
\* An item of an ORDER BY list: its direction is not kept.
OrderItem(s) == IF s # <<>> /\ Last(s) = "desc" THEN Front(s) ELSE s
OrderItems(list) == Exprs([k \in DOMAIN list |-> OrderItem(list[k])])
NoValue(e) == e.is \in {"none", "star"}

Coalesced(args) ==
    IF \E k \in DOMAIN args : NoValue(args[k]) THEN Refusal ELSE [is |-> "coalesce", args |-> args]
Windowed(p, o) ==
    IF \E e \in Range(p) \cup Range(o) : NoValue(e) THEN Refusal
    ELSE [is |-> "window", partitions |-> p, orders |-> o]
\* PARTITION BY list ORDER BY list, cut at its ORDER, with nothing after.
Window(inner, order) ==
    Windowed(Exprs(List(SubSeq(inner, 2, order - 1))),
             OrderItems(List(SubSeq(inner, order + 1, Len(inner)))))

Called(name, inner) ==
    CASE name = "coalesce" -> Coalesced(Exprs(List(inner)))
      [] name = "CAST" /\ Top(inner, {"AS"}) = {2} /\ inner[1] \in {"NULL", "c", "a"}
            /\ SubSeq(inner, 3, Len(inner)) \in {<<"T">>, <<"T", "(", "1", ")">>} ->
            [is |-> "cast", of |-> inner[1]]
      [] name = "row_number" /\ inner[1] = "PARTITION"
            /\ Cardinality(Top(inner, {"ORDER"})) = 1 ->
            Window(inner, CHOOSE i \in Top(inner, {"ORDER"}) : TRUE)
      [] OTHER -> Refusal

Expr(s) ==
    LET n == Len(s)
        inner == SubSeq(s, 3, n - 1)
    IN  CASE n = 1 /\ s[1] \in {"a", "c"} -> [is |-> "column", of |-> s[1]]
          [] n = 1 /\ s[1] = "1" -> [is |-> "constant"]
          [] n = 1 /\ s[1] = "*" -> [is |-> "star"]
          [] n = 1 /\ s[1] = "unnest" -> [is |-> "rows"]
          [] n > 2 /\ s[1] = "(" /\ s[n] = ")" /\ Balanced(s) ->
                IF SubSeq(s, 2, n - 1) = <<"*">> THEN Refusal ELSE Expr(SubSeq(s, 2, n - 1))
          [] n > 3 /\ s[2] = "(" /\ s[n] = ")" /\ Balanced(inner) -> Called(s[1], inner)
          [] OTHER -> Refusal

Replaced(items) ==
    IF \E k \in DOMAIN items : items[k].e.is = "none" THEN Refusal
    ELSE [is |-> "replace", items |-> items]

Item(s) ==
    LET n == Len(s)
        inner == SubSeq(s, 4, n - 1)
        named == n > 2 /\ s[n - 1] = "AS" /\ s[n] \in {"a", "c", "probe", "derived"}
    IN  IF n > 4 /\ SubSeq(s, 1, 3) = <<"*", "REPLACE", "(">> /\ s[n] = ")" /\ Balanced(inner)
        THEN [e |-> Replaced(Items(List(inner))), alias |-> ""]
        ELSE [e |-> Expr(IF named THEN SubSeq(s, 1, n - 2) ELSE s),
              alias |-> IF named THEN s[n] ELSE ""]

Clauses == <<"SELECT", "FROM", "ON", "WHERE", "GROUP", "QUALIFY", "UNION", "ORDER", "OFFSET",
             "LIMIT">>
Rank(word) == CHOOSE r \in DOMAIN Clauses : Clauses[r] = word

\* What each clause's word at one of those places has after it.
Bodies(s, at) ==
    [word \in Range(At(s, at)) |->
        LET k == CHOOSE k \in DOMAIN at : s[at[k]] = word
        IN  SubSeq(s, at[k] + 1, (IF k = Len(at) THEN Len(s) + 1 ELSE at[k + 1]) - 1)]
Under(bodies, word) == IF word \in DOMAIN bodies THEN bodies[word] ELSE <<>>
ListUnder(bodies, word) == IF word \in DOMAIN bodies THEN List(bodies[word]) ELSE <<>>

Tree(bodies) ==
    [is |-> "query", items |-> Items(ListUnder(bodies, "SELECT")),
     where |-> Exprs(ListUnder(bodies, "WHERE")), on |-> Exprs(ListUnder(bodies, "ON")),
     order |-> OrderItems(ListUnder(bodies, "ORDER")),
     qualify |-> Exprs(ListUnder(bodies, "QUALIFY")),
     union |-> "UNION" \in DOMAIN bodies, from |-> Under(bodies, "FROM"),
     offset |-> "OFFSET" \in DOMAIN bodies, limit |-> Under(bodies, "LIMIT"),
     group |-> Under(bodies, "GROUP")]

Sound(bodies, q) ==
    LET Is(word, texts) == word \in DOMAIN bodies => bodies[word] \in texts
    IN  /\ \A k \in DOMAIN q.items : q.items[k].e.is # "none"
        /\ \A k \in DOMAIN q.order : q.order[k].is # "none"
        /\ \A one \in {q.where, q.on, q.qualify} : one # <<>> => Len(one) = 1 /\ ~NoValue(one[1])
        /\ Is("UNION", {<<>>}) /\ Is("OFFSET", {<<"1">>}) /\ Is("LIMIT", {<<"1">>, <<"count">>})
        /\ Is("FROM", {<<"t">>, <<"t", "JOIN", "u">>})
        /\ "GROUP" \in DOMAIN bodies => q.group # <<>>

(* The tree of one SELECT: its clauses in their order, each at most once.  *)
IfSound(bodies, q) == IF Sound(bodies, q) THEN q ELSE Refusal
QueryOf(bodies) == IfSound(bodies, Tree(bodies))
QueryAt(s, at) ==
    IF /\ s # <<>> /\ s[1] = "SELECT" /\ Balanced(s)
       /\ \A k \in 1..(Len(at) - 1) : Rank(s[at[k]]) < Rank(s[at[k + 1]])
    THEN QueryOf(Bodies(s, at)) ELSE Refusal
Query(s) == QueryAt(s, InOrder(Top(s, Range(Clauses))))

Statement(s) ==
    IF s \in {<<"BEGIN">>, <<"ALTER">>, <<"COMMIT">>} THEN [is |-> "other"]
    ELSE Query(IF s[1] = "CREATE" THEN Tail(s) ELSE s)

(* The statements of a text: none when one of them cannot be read.         *)
AllOrNone(read) == IF \E k \in DOMAIN read : read[k].is = "none" THEN <<>> ELSE read
StatementsOf(cut) == AllOrNone([k \in DOMAIN cut |-> Statement(cut[k])])
Cut(s) == SelectSeq(Pieces(s, {i \in DOMAIN s : s[i] = ";"}), LAMBDA p : p # <<>>)
Statements(s) == StatementsOf(Cut(Read(s)))

duckdb_statement_count(s) == Len(Statements(s))

(***************************************************************************)
(* The SQL each operation's step is recorded as.  A request's arguments    *)
(* are a function from their names to values: a text is the signs of a     *)
(* fragment.                                                               *)
(***************************************************************************)
Text(s) == [is |-> "string", text |-> s, size |-> Len(s), names |-> <<>>]
Whole(n) == [is |-> "integer", text |-> <<>>, size |-> n, names |-> <<>>]
Names(l) == [is |-> "array", text |-> <<>>, size |-> Len(l), names |-> l]
Tenths(n) == [is |-> "number", text |-> <<>>, size |-> n, names |-> <<>>]

TextOf(args, key) == IF key \in DOMAIN args THEN args[key].text ELSE <<>>

Given(args, key) == key \in DOMAIN args

dedupe_rows_window(key, order) ==
    <<"row_number", "(", "PARTITION">> \o key \o <<"ORDER">> \o order \o <<"LF", ")">>

(* The SELECT list a probe reads: nothing but a bare SELECT is admitted.   *)
Bare(q) == /\ q.is = "query"
           /\ q.from = <<>> /\ q.where = <<>> /\ q.group = <<>>
           /\ q.order = <<>> /\ q.qualify = <<>> /\ q.limit = <<>> /\ ~q.offset /\ ~q.union
ItemsIfBare(tree) == IF Len(tree) = 1 /\ Bare(tree[1]) THEN tree[1].items ELSE <<>>
probe_items(s) == ItemsIfBare(Statements(s))

(* Mutant of ProbeText: nothing follows the list, so what ends early is    *)
(* not seen to.                                                            *)
ProbeText_open(kind, v) ==
    CASE kind = "expression" -> <<"SELECT", "1", ",">> \o v \o <<"AS", "probe">>
      [] kind \in {"select-list", "partition"} ->
            <<"SELECT", "1", ",">> \o v \o <<"LF", ",", "1", "AS", "probe">>
      [] kind = "type" -> <<"SELECT", "CAST", "(", "NULL", "AS">> \o v \o <<")", "AS", "probe">>

ProbeText(kind, v) ==
    CASE kind = "expression" -> <<"SELECT", "1", ",">> \o v \o <<"AS", "probe">>
      [] kind \in {"select-list", "partition"} ->
            <<"SELECT", "1", ",">> \o v \o <<",", "1", "AS", "probe">>
      [] kind = "type" -> <<"SELECT", "CAST", "(", "NULL", "AS">> \o v \o <<")", "AS", "probe">>

Inside(items) == IF Len(items) < 2 THEN <<>> ELSE SubSeq(items, 2, Len(items) - 1)
ListedBy(s) == Inside(probe_items(ProbeText("select-list", s)))

From == <<"FROM", "t">>
Table(q) == <<"CREATE">> \o q \o <<";", "LF">>
Transaction(q) == <<"BEGIN", ";", "CREATE">> \o q \o <<";", "ALTER", ";", "COMMIT", ";", "LF">>
Replacing(e) == Table(<<"SELECT", "*", "REPLACE", "(">> \o e \o <<"AS", "c", ")">> \o From)

filter_rows_query(condition) == <<"SELECT", "*">> \o From \o <<"WHERE">> \o condition
filter_rows_sql(args) == Table(filter_rows_query(TextOf(args, "where")))

sort_rows_sql(args) ==
    Table(<<"SELECT", "*">> \o From \o <<"ORDER">> \o TextOf(args, "order_by"))

hide_column_sql == Table(<<"SELECT", "*">> \o From)
rename_column_sql == Transaction(<<"SELECT", "*">> \o From)

derive_column_sql(args) ==
    Transaction(<<"SELECT", "*", ",">> \o TextOf(args, "expression") \o <<"AS", "derived">> \o From)

cast_column_sql(args) ==
    Replacing(<<"CAST", "(", "c", "AS">> \o TextOf(args, "type") \o <<")">>)

fill_nulls_sql(args) ==
    Replacing(<<"coalesce", "(", "c", ",">> \o TextOf(args, "value") \o <<")">>)

(* Grouped by each item of group_by by its place, or by nothing.           *)
ByPlace(list) == IF list = <<>> THEN <<"nothing">> ELSE [k \in DOMAIN list |-> "place"]
summarise_rows_sql(args) ==
    LET group_by == TextOf(args, "group_by")
        grouped == Given(args, "group_by")
    IN  Table(<<"SELECT">> \o (IF grouped THEN group_by \o <<",">> ELSE <<>>)
              \o TextOf(args, "aggregates") \o <<"LF">> \o From \o <<"GROUP">>
              \o (IF grouped THEN ByPlace(ListedBy(group_by)) ELSE <<"nothing">>))

dedupe_rows_sql(args) ==
    Table(<<"SELECT", "*">> \o From
          \o (IF Given(args, "key")
              THEN <<"QUALIFY">>
                   \o dedupe_rows_window(TextOf(args, "key"), TextOf(args, "order_by"))
              ELSE <<>>))

limit_rows_sql(args) ==
    Table(<<"SELECT", "*">> \o From
          \o (IF Given(args, "order_by")
              THEN <<"ORDER">> \o TextOf(args, "order_by") \o <<"LF">> ELSE <<>>)
          \o <<"LIMIT", "count">>)

join_tables_sql(args) ==
    Table(<<"SELECT", "*", "FROM", "t", "JOIN", "u">>
          \o (IF Given(args, "condition") THEN <<"ON">> \o TextOf(args, "condition") ELSE <<>>))

append_rows_sql == Table(<<"SELECT", "*">> \o From)
read_file_sql == Table(<<"SELECT", "*">> \o From)

Sql(op, args) ==
    CASE op = "filter-rows" -> filter_rows_sql(args)
      [] op = "sort-rows" -> sort_rows_sql(args)
      [] op = "hide-column" -> hide_column_sql
      [] op = "rename-column" -> rename_column_sql
      [] op = "derive-column" -> derive_column_sql(args)
      [] op = "cast-column" -> cast_column_sql(args)
      [] op = "summarise-rows" -> summarise_rows_sql(args)
      [] op = "dedupe-rows" -> dedupe_rows_sql(args)
      [] op = "limit-rows" -> limit_rows_sql(args)
      [] op = "fill-nulls" -> fill_nulls_sql(args)
      [] op = "join-tables" -> join_tables_sql(args)
      [] op = "append-rows" -> append_rows_sql
      [] op = "read-file" -> read_file_sql

(***************************************************************************)
(* What an operation's request must bring, and what is asked of each       *)
(* piece of SQL in it.                                                     *)
(***************************************************************************)
Prop(type, kind) == [type |-> type, kind |-> kind]

P == [condition |-> Prop("string", "condition"), order |-> Prop("string", "order"),
      column |-> Prop("string", "column"), expression |-> Prop("string", "expression"),
      ty |-> Prop("string", "type"), list |-> Prop("string", "select-list"),
      partition |-> Prop("string", "partition"), count |-> Prop("integer", "count"),
      kind |-> Prop("string", "kind"), using |-> Prop("array", "column"),
      prefix |-> Prop("string", "prefix"), path |-> Prop("string", "path")]

filter_rows_parameters == "where" :> P.condition
sort_rows_parameters == "order_by" :> P.order
hide_column_parameters == "column" :> P.column
rename_column_parameters == "column" :> P.column @@ "to" :> P.column
derive_column_parameters == "column" :> P.column @@ "expression" :> P.expression
cast_column_parameters == "column" :> P.column @@ "type" :> P.ty
summarise_rows_parameters == "aggregates" :> P.list @@ "group_by" :> P.list
dedupe_rows_parameters == "key" :> P.partition @@ "order_by" :> P.order
limit_rows_parameters == "count" :> P.count @@ "order_by" :> P.order
fill_nulls_parameters == "column" :> P.column @@ "value" :> P.expression
join_tables_parameters ==
    "kind" :> P.kind @@ "using" :> P.using @@ "condition" :> P.condition @@ "prefix" :> P.prefix
append_rows_parameters == [key \in {} |-> P.path]
read_file_parameters == "path" :> P.path

Parameters ==
    "filter-rows" :> filter_rows_parameters @@ "sort-rows" :> sort_rows_parameters
    @@ "hide-column" :> hide_column_parameters @@ "rename-column" :> rename_column_parameters
    @@ "derive-column" :> derive_column_parameters @@ "cast-column" :> cast_column_parameters
    @@ "summarise-rows" :> summarise_rows_parameters @@ "dedupe-rows" :> dedupe_rows_parameters
    @@ "limit-rows" :> limit_rows_parameters @@ "fill-nulls" :> fill_nulls_parameters
    @@ "join-tables" :> join_tables_parameters @@ "append-rows" :> append_rows_parameters
    @@ "read-file" :> read_file_parameters

Required(op) ==
    CASE op = "summarise-rows" -> {"aggregates"}
      [] op = "limit-rows" -> {"count"}
      [] op \in {"dedupe-rows", "join-tables", "append-rows"} -> {}
      [] OTHER -> DOMAIN Parameters[op]

DependentRequired(op) ==
    IF op = "dedupe-rows" THEN {<<"key", "order_by">>, <<"order_by", "key">>} ELSE {}

JoinKinds == {"left", "inner", "right", "full", "semi", "anti", "cross"}

(* A `;` in the value would end the statement: with or without more after. *)
ends_no_statement(opening, v) ==
    /\ duckdb_statement_count(opening \o v) <= 1
    /\ duckdb_statement_count(opening \o v \o <<"LF", "SELECT", "1">>) <= 1

Spreads(e) ==
    LET Alone(x) == x.is \in {"star", "rows"}
    IN  IF e.is = "coalesce" THEN \E k \in DOMAIN e.args : Alone(e.args[k]) ELSE Alone(e)

ProbeReads(kind, items) ==
    LET n == Len(items)
    IN  /\ n > 0 /\ items[n].alias = "probe"
        /\ kind = "expression" => n = 2 /\ ~Spreads(items[2].e)
        /\ kind \in {"select-list", "partition"} =>
                n > 2 /\ \A k \in 2..(n - 1) : ~Spreads(items[k].e)
        /\ kind = "type" => n = 1 /\ items[1].e.is = "cast" /\ items[1].e.of = "NULL"
probed(kind, v) ==
    /\ "probe" \notin Range(v)
    /\ ends_no_statement(<<"SELECT">>, v)
    /\ ProbeReads(kind, probe_items(ProbeText(kind, v)))

Constant(e) == e.is = "constant"

Wellformed(kind, value) ==
    CASE kind \in {"condition", "order"} ->
            duckdb_statement_count(<<"SELECT", "1", IF kind = "order" THEN "ORDER" ELSE "WHERE">>
                                   \o value.text) = 1
      [] kind \in {"expression", "type", "select-list", "partition"} -> probed(kind, value.text)
      [] kind = "count" -> value.size >= 0
      [] kind = "kind" -> value.text \in {<<k>> : k \in JoinKinds}
      [] kind = "column" /\ value.is = "array" ->
            value.names # <<>> /\ \A k \in DOMAIN value.names : value.names[k] # " "
      [] kind \in {"column", "path"} -> value.text \notin {<<>>, <<" ">>}
      [] OTHER -> TRUE

summarise_rows_checks(args) ==
    Given(args, "group_by") =>
        \A item \in Range(ListedBy(args["group_by"].text)) : ~Constant(item.e)

OneWindow(items) ==
    /\ Len(items) = 1 /\ items[1].alias = "probe" /\ items[1].e.is = "window"
    /\ \A e \in Range(items[1].e.partitions) \cup Range(items[1].e.orders) : ~Constant(e)
dedupe_rows_checks(args) ==
    LET key == args["key"].text
        order == args["order_by"].text
    IN  Given(args, "key") =>
          /\ ends_no_statement(<<"SELECT", "1", "ORDER">>, order)
          /\ "probe" \notin Range(order)
          /\ OneWindow(probe_items(<<"SELECT">> \o dedupe_rows_window(key, order) \o <<"AS", "probe">>))

OneLimit(tree) ==
    /\ Len(tree) = 1 /\ tree[1].order # <<>> /\ tree[1].limit # <<>>
    /\ ~tree[1].offset /\ ~tree[1].union
limit_rows_checks(args) ==
    LET order == args["order_by"].text
    IN  Given(args, "order_by") =>
          /\ ends_no_statement(<<"SELECT", "1", "ORDER">>, order)
          /\ OneLimit(Statements(<<"SELECT", "1", "ORDER">> \o order \o <<"LF", "LIMIT", "1">>))

join_tables_checks(args) ==
    LET kind == IF Given(args, "kind") THEN args["kind"].text[1] ELSE "left"
        keyed == {"using", "condition"} \cap DOMAIN args
    IN  /\ IF kind = "cross" THEN keyed = {} ELSE Cardinality(keyed) = 1
        /\ Given(args, "using") => IsInjective(args["using"].names)
        /\ Given(args, "prefix") =>
              kind \notin {"semi", "anti"} /\ args["prefix"].text \notin {<<>>, <<"backslash">>}
        /\ Given(args, "condition") =>
              ends_no_statement(<<"SELECT", "1", "FROM", "t", "JOIN", "u", "ON">>,
                                args["condition"].text)

Checks(op, args) ==
    CASE op = "summarise-rows" -> summarise_rows_checks(args)
      [] op = "dedupe-rows" -> dedupe_rows_checks(args)
      [] op = "limit-rows" -> limit_rows_checks(args)
      [] op = "join-tables" -> join_tables_checks(args)
      [] OTHER -> TRUE

admit(op, args) ==
    LET props == Parameters[op]
    IN  /\ DOMAIN args \subseteq DOMAIN props
        /\ Required(op) \subseteq DOMAIN args
        /\ \A d \in DependentRequired(op) : Given(args, d[1]) => Given(args, d[2])
        /\ \A key \in DOMAIN args :
              args[key].is = props[key].type /\ Wellformed(props[key].kind, args[key])
        /\ Checks(op, args)

(***************************************************************************)
(* The tables a request reads.  `on` is a table or "none"; `reads` maps    *)
(* roles to one name or to a list of them.                                 *)
(***************************************************************************)
One(t) == [list |-> FALSE, tables |-> <<t>>]
Many(l) == [list |-> TRUE, tables |-> l]

Roles(op) ==
    CASE op = "read-file" -> {}
      [] op \in {"join-tables", "append-rows"} -> {"table", "other"}
      [] OTHER -> {"table"}

ListRole(op, role) == op = "append-rows" /\ role = "other"

(* --read role=table, as often as it is given.                             *)
typed_reads(op, pairs) ==
    LET Of(role) == SelectSeq(pairs, LAMBDA p : p[1] = role)
    IN  [role \in {pairs[k][1] : k \in DOMAIN pairs} |->
            LET tables == [k \in DOMAIN Of(role) |-> Of(role)[k][2]]
            IN  IF Len(tables) = 1 /\ ~ListRole(op, role) THEN One(tables[1]) ELSE Many(tables)]

ReadBy(op, on, reads, role) ==
    IF role = "table" /\ on # "none" THEN <<on>> ELSE reads[role].tables

admit_reads(op, on, reads) ==
    /\ DOMAIN reads \subseteq Roles(op)
    /\ on # "none" => "table" \in Roles(op) \ DOMAIN reads
    /\ Roles(op) \subseteq DOMAIN reads \cup (IF on = "none" THEN {} ELSE {"table"})
    /\ \A role \in DOMAIN reads :
          /\ reads[role].list = ListRole(op, role)
          /\ reads[role].tables # <<>>

Fold(t) == IF t = "T" THEN "t" ELSE t

join_tables_reads_checks(op, on, reads) ==
    op = "join-tables" =>
        Fold(ReadBy(op, on, reads, "table")[1]) # Fold(ReadBy(op, on, reads, "other")[1])

TablesOf(op, on, reads) ==
    FlattenSeq([k \in 1..Cardinality(Roles(op)) |->
                  ReadBy(op, on, reads, <<"table", "other">>[k])])

made_by_a_step(made, t) == Fold(t) \in made

(* Mutant of Admitted: no table is looked up under the name as DuckDB      *)
(* folds it.                                                               *)
Admitted_as_spelt(op, args, on, reads, made) ==
    /\ admit(op, args)
    /\ admit_reads(op, on, reads)
    /\ \A k \in DOMAIN TablesOf(op, on, reads) : TablesOf(op, on, reads)[k] \in made

Admitted(op, args, on, reads, made) ==
    /\ admit(op, args)
    /\ admit_reads(op, on, reads)
    /\ join_tables_reads_checks(op, on, reads)
    /\ \A k \in DOMAIN TablesOf(op, on, reads) :
          made_by_a_step(made, TablesOf(op, on, reads)[k])

(***************************************************************************)
(* A query read back as filter-rows, the one operation that recognises its *)
(* own text.                                                               *)
(***************************************************************************)
Trim(s) ==
    LET kept == {i \in DOMAIN s : s[i] # "LF"}
    IN  IF kept = {} THEN <<>> ELSE SubSeq(s, Min(kept), Max(kept))

(* What may be the condition: from after some WHERE to some cut.           *)
conditions(s) ==
    UNION {{Trim(SubSeq(s, i + 1, j - 1)) :
              j \in {j \in (i + 1)..Len(s) : s[j] \in {";", "--"}} \cup {Len(s) + 1}} :
           i \in {i \in DOMAIN s : s[i] = "WHERE"}}

(* Mutant of Recognises: the candidate is read only inside parentheses.    *)
Recognises_enclosed(s, condition) ==
    Statements(filter_rows_query(<<"(", "LF">> \o condition \o <<"LF", ")">>)) = Statements(s)

Recognises(s, condition) ==
    \A written \in {<<"(", "LF">> \o condition \o <<"LF", ")">>, condition} :
        Statements(filter_rows_query(written)) = Statements(s)

filter_rows_recognised(s) ==
    IF duckdb_statement_count(s) # 1 THEN {}
    ELSE {c \in conditions(s) : Recognises(s, c)}

(* What is recorded of a query that is no operation's: the step's table    *)
(* from it when DuckDB reads that as one statement, else the text itself.  *)
sql_step_contents(s) ==
    IF duckdb_statement_count(<<"CREATE", "LF">> \o s) = 1 THEN <<"CREATE", "LF">> \o s ELSE s

(***************************************************************************)
(* Properties.                                                             *)
(***************************************************************************)
InOneTransaction(op) == op \in {"derive-column", "rename-column"}

(* The step's SELECT is the operation's: its clauses are there, hold what  *)
(* the operation puts in them, and are joined by no other that would       *)
(* change which rows it keeps.                                             *)
AsTheOperationMeans(op, args, q) ==
    LET items == q.items
        plain == q.where = <<>> /\ ~q.union /\ ~q.offset
        all == Len(items) = 1 /\ items[1].e.is = "star"
    IN  CASE op = "filter-rows" -> all /\ q.where # <<>>
          [] op = "sort-rows" -> all /\ q.order # <<>>
          [] op = "derive-column" ->
                /\ plain /\ Len(items) = 2 /\ items[1].e.is = "star"
                /\ items[2].alias = "derived" /\ ~Spreads(items[2].e)
          [] op \in {"cast-column", "fill-nulls"} ->
                /\ plain /\ Len(items) = 1 /\ items[1].e.is = "replace"
                /\ Len(items[1].e.items) = 1 /\ items[1].e.items[1].alias = "c"
                /\ LET e == items[1].e.items[1].e
                   IN  IF op = "cast-column" THEN e.is = "cast" /\ e.of = "c"
                       ELSE e.is = "coalesce" /\ Len(e.args) = 2 /\ e.args[1].of = "c"
          [] op = "summarise-rows" ->
                LET grouped == Cardinality({k \in DOMAIN q.group : q.group[k] = "place"})
                IN  /\ plain /\ q.order = <<>> /\ q.limit = <<>> /\ Len(items) > grouped
                    /\ \A k \in 1..grouped : ~Constant(items[k].e)
                    /\ Given(args, "group_by") => grouped = Len(List(Read(args["group_by"].text)))
          [] op = "dedupe-rows" ->
                /\ all /\ plain /\ q.order = <<>> /\ q.limit = <<>>
                /\ Given(args, "key") =>
                      /\ q.qualify[1].is = "window"
                      /\ \A k \in DOMAIN q.qualify[1].orders : ~Constant(q.qualify[1].orders[k])
                      /\ \A k \in DOMAIN q.qualify[1].partitions :
                            ~Constant(q.qualify[1].partitions[k])
          [] op = "limit-rows" ->
                /\ all /\ plain /\ q.limit = <<"count">>
                /\ (q.order # <<>>) = Given(args, "order_by")
          [] OTHER -> all

StaysInPlace(op, args, tree) ==
    LET made == tree[IF InOneTransaction(op) THEN 2 ELSE 1]
    IN  /\ Len(tree) = IF InOneTransaction(op) THEN 4 ELSE 1
        /\ made.is = "query"
        /\ AsTheOperationMeans(op, args, made)

(* A fragment of SQL that is admitted stays in its place: the step it is   *)
(* written into holds the operation's statements and no other, and its     *)
(* SELECT means what the operation says.  The probes read the fragment in  *)
(* another text than the step's.                                           *)
FragmentsStayInPlace(op, args) ==
    admit(op, args) => StaysInPlace(op, args, Statements(Sql(op, args)))

(* Every table a request names is read, once for each time it is named,    *)
(* and is a table a step makes, whichever way the request is given; a      *)
(* join never has one table on both sides.                                 *)
EveryNamedTableIsRead(op, args, on, pairs, made) ==
    LET reads == typed_reads(op, pairs)
        read == TablesOf(op, on, reads)
        Times(t) == Cardinality({k \in DOMAIN pairs : pairs[k][2] = t})
                      + (IF on = t THEN 1 ELSE 0)
    IN  Admitted(op, args, on, reads, made) =>
            /\ \A t \in {"t", "T", "u", "w"} :
                  Cardinality({k \in DOMAIN read : read[k] = t}) = Times(t)
            /\ \A k \in DOMAIN read : Fold(read[k]) \in made
            /\ op = "join-tables" => Fold(read[1]) # Fold(read[2])

(* A query read back as filter-rows can be recorded as one, and the step   *)
(* then reads as the query did; and a bare filter of a table is never      *)
(* missed, whatever comments and breaks it holds.  Any other text is       *)
(* recorded as one statement that reads as it did.                         *)
RecordedAsItReads(s) ==
    LET Step(c) == "where" :> Text(c)
        q == Statements(s)[1]
        bare == /\ duckdb_statement_count(s) = 1
                /\ q = [Statements(filter_rows_query(<<"a">>))[1] EXCEPT !.where = q.where]
                /\ q.where # <<>>
    IN  /\ \A c \in filter_rows_recognised(s) :
              /\ admit("filter-rows", Step(c))
              /\ Statements(Sql("filter-rows", Step(c))) = Statements(s)
        /\ bare => filter_rows_recognised(s) # {}
        /\ duckdb_statement_count(s) = 1 => Statements(sql_step_contents(s)) = Statements(s)

=============================================================================
