------------------------------ MODULE MCReadings ------------------------------
(***************************************************************************)
(* What arc reads: a behaviour grows one input of one part, sign by sign   *)
(* or piece by piece, and each property is asked of each input on the way. *)
(***************************************************************************)
EXTENDS Integers, Sequences, SequencesExt, FiniteSets, TLC

VARIABLES part, input

vars == <<part, input>>

B == INSTANCE CliBatches WITH Room <- 2
W == INSTANCE WithBlocks
U == INSTANCE Pins
D == INSTANCE Descriptor
S == INSTANCE Settings
O == INSTANCE Operations
I == INSTANCE Introspection
T == INSTANCE SqlText
C == INSTANCE Contract
V == INSTANCE Inspection
M == INSTANCE Mcp
K == INSTANCE Making
L == INSTANCE Cli
F == INSTANCE Files
R == INSTANCE Measures
H == INSTANCE Links

Empty == [k \in {} |-> 0]

-----------------------------------------------------------------------------
(* SQL files, over four sets of signs.                                     *)
Alphabets == <<{"a", "LF", "NUL", ";", ".", "^C"}, {"SQ", ";", "/", "*", "-", "LF"},
               {"$", "a", "1", ";", "LF", "NUL"}, {"C2", "A0", "SQ", "$", "LF", ";"}>>
NoFile == {[signs |-> n, file |-> <<>>] : n \in DOMAIN Alphabets}
GrowFile ==
    /\ part = "batches" /\ Len(input.file) < 5
    /\ \E sign \in Alphabets[input.signs] : input' = [input EXCEPT !.file = Append(@, sign)]

(* with: blocks: the required keys, then two of them set, added or left out.*)
GoodText(k) == CASE k = "sha256" -> W!Text("digest") [] OTHER -> W!Text("name")
GoodList(k) == W!List(<<IF k = "deps" THEN W!Text("pkg==1") ELSE W!Text("name")>>)
Good(op, k) ==
    IF W!with_schema[op].properties[k].type = "array" THEN GoodList(k) ELSE GoodText(k)
Cred(type, env) == W!Map("type" :> W!Text(type) @@ "env" :> W!Map(env))
Odd(k) == CASE k = "sha256" -> {"DIGEST", " digest "} [] k = "pattern" -> {"("}
            [] k = "table" -> {"s.name"} [] k = "metric" -> {"cosine"} [] OTHER -> {}
Values(op, k) ==
    {W!Null} \cup
    CASE W!with_schema[op].properties[k].type = "string" ->
           {W!Text(t) : t \in {"", " ", "name"} \cup Odd(k)} \cup {W!Whole(1)}
      [] W!with_schema[op].properties[k].type = "array" ->
           {W!List(<<>>), W!List(<<W!Null>>), W!List(<<W!Text("name"), W!Text("name")>>), W!Text("name")}
           \cup {W!List(<<W!Text(t)>>) : t \in {"name", " ", "pkg==1", "pkg == 1", "pkg", "dir/", "*"}}
      [] W!with_schema[op].properties[k].type \in {"integer", "number"} ->
           {W!Whole(n) : n \in {-1, 0, 1, 2}} \cup {W!Tenths(5), W!Text("name")}
      [] OTHER -> {W!Map(Empty), W!Map("name" :> W!Text("name")), W!Map("name" :> W!Whole(1)),
                   Cred("s3", "name" :> W!Text("x")), Cred("no", "name" :> W!Text("x")),
                   Cred("s3", Empty), Cred("s3", " " :> W!Text("x"))}
Blocks == {[op |-> op, left |-> 2,
            with |-> [k \in W!with_schema[op].required |-> Good(op, k)]] :
           op \in DOMAIN W!with_schema}
ChangeBlock ==
    LET with == input.with IN
    /\ part = "with" /\ input.left > 0
    /\ \/ \E k \in DOMAIN W!with_schema[input.op].properties : \E v \in Values(input.op, k) :
             input' = [input EXCEPT !.left = @ - 1, !.with = (k :> v) @@ with]
       \/ \E k \in DOMAIN with : input' = [input EXCEPT !.left = @ - 1,
             !.with = [x \in DOMAIN with \ {k} |-> with[x]]]
       \/ input' = [input EXCEPT !.left = 0, !.with = ("other" :> W!Null) @@ with]

(* A requirement, sign by sign, and a script, line by line.                *)
GrowSpec ==
    /\ part = "spec" /\ Len(input) < 6
    /\ \E sign \in {"p", "=", "<", "[", "]", ",", " "} : input' = Append(input, sign)
Dep(words) == <<"#", " ", "dependencies", "=", "[">> \o words
Pinned == <<"DQ", "p", "=", "=", "p", "DQ">>
Lines == {<<"# /// script">>, <<"# ///">>, <<"#">>, <<"x">>, <<"x", "# /// script">>,
          Dep(Pinned \o <<"]">>), Dep(<<"DQ", "p", "DQ", "]">>), Dep(Pinned \o <<",">>),
          <<"#", " ", " ", "dependencies", "=", "[", "DQ", "p", "DQ", "]">>,
          <<"#", " ", "DQ", "dependencies", "DQ", "=", "[", "DQ", "p", "DQ", "]">>,
          <<"#", " ", "DQ", "p", "[", "p", "]", "DQ">>, <<"#", "]">>}
GrowScript == /\ part = "script" /\ Len(input) < 5
              /\ \E line \in Lines : input' = Append(input, line)

(* A descriptor of two columns and what a sidecar lays over it.            *)
Field(n) == "name" :> n @@ "type" :> "text" @@ "x-finetype-label" :> "label"
Marked(n) == Field(n) @@ D!NOMINATED_KEY :> "true"
Bases == {[root |-> "title" :> "t", resource |-> "path" :> "p", fields |-> f,
           primaryKey |-> D!Absent, foreignKeys |-> D!Absent] :
            f \in {<<Field("a"), Field("b")>>, <<Field("a"), Marked("b")>>}}
NoSidecar == [root |-> Empty, resource |-> Empty, fields |-> Empty, schema |-> <<>>,
              resources |-> <<>>, primaryKey |-> D!Absent, foreignKeys |-> D!Absent]
FieldBlocks == {Empty, "description" :> "d", "type" :> "number", "constraints" :> "c",
                D!NOMINATED_KEY :> "true", D!NOMINATED_KEY :> "no",
                "x-finetype-label" :> "mine", "name" :> "c",
                "name" :> "c" @@ "type" :> "number"}
RelationsOf == {[as |-> as, cols |-> cols] :
                  as \in {"list", "text"}, cols \in {<<"a">>, <<"a", "b">>, <<"c">>}}
Sidecars == {[base |-> base, over |-> NoSidecar, left |-> 3] : base \in Bases}
Curate ==
    /\ part = "descriptor" /\ input.left > 0
    /\ \E over \in
          {[input.over EXCEPT !.fields = (n :> b) @@ @] : n \in {"a", "b", "c"}, b \in FieldBlocks}
          \cup {[input.over EXCEPT !.primaryKey = r] : r \in RelationsOf}
          \cup {[input.over EXCEPT !.foreignKeys = r] : r \in RelationsOf}
          \cup {[input.over EXCEPT !.root = "title" :> "mine"],
                [input.over EXCEPT !.resource = "title" :> "mine"],
                [input.over EXCEPT !.schema = <<Field("a"), Marked("c")>>],
                [input.over EXCEPT !.resources = <<Field("c")>>]} :
          input' = [input EXCEPT !.over = over, !.left = @ - 1]

(* A manifest's steps and hooks, and a step's parameters.                  *)
Retries == {<<>>} \cup {<<[attempts |-> a, backoff |-> b]>> : a \in {0, 1, 3, 64, 65, 1024, 1025},
              b \in {S!Float("number", n) : n \in {-1, 0, 61, 63, 1000}}
                    \cup {S!Float(is, 0) : is \in {"zero", "negative", "nan", "inf"}}}
Step(name, arms) == [name |-> name, preconditions |-> <<>>, arms |-> arms, with |-> "takes",
                     output |-> FALSE, retry |-> <<>>]
Hook(name, arms) == [name |-> name, arms |-> arms, preconditions |-> <<>>, declares |-> FALSE,
                     retry |-> <<>>, output |-> FALSE]
Arms == SUBSET {"sql", "command", "op"}
Preconditions == [is : {"modified_after", "fresh", "command"}, gives : SUBSET {"path", "period", "command"}]
                   \cup [is : {"tool"}, gives : SUBSET S!ToolKeys]
Settings ==
    {[m |-> [name |-> <<"m">>, retry |-> <<>>, constraint |-> "none", pins |-> {"digest"},
             steps |-> <<Step(<<"a">>, {"sql"})>>, hooks |-> Empty],
      params |-> <<>>, dotenv |-> Empty, cli |-> Empty, left |-> 2]}
Change(new) == input' = [new EXCEPT !.left = @ - 1]
Configure ==
    /\ part = "settings" /\ input.left > 0
    /\ \/ \E n \in {<<"a">>, <<"A">>, <<" ">>} : \E arms \in Arms :
             Change([input EXCEPT !.m.steps = Append(@, Step(n, arms))])
       \/ \E s \in {[input.m.steps[1] EXCEPT !.preconditions = Append(@, p)] : p \in Preconditions}
                   \cup {[input.m.steps[1] EXCEPT !.output = TRUE],
                    [input.m.steps[1] EXCEPT !.arms = {"op"}, !.with = "refused"]}
                   \cup {[input.m.steps[1] EXCEPT !.retry = r] : r \in Retries} :
             Change([input EXCEPT !.m.steps[1] = s])
       \/ \E r \in Retries : Change([input EXCEPT !.m.retry = r])
       \/ \E n \in {<<"a">>, <<"h">>, <<>>} : \E arms \in Arms : \E slot \in {"on_init", "on_exit"} :
             Change([input EXCEPT !.m.hooks = (slot :> Hook(n, arms)) @@ @])
       \/ \E n \in {<<"a">>, <<"A">>, <<"b">>} : \E v \in {"d", S!None} :
             Change([input EXCEPT !.params = Append(@, [name |-> n, default |-> v])])
       \/ \E n \in {<<"a">>, <<"b">>} :
             \/ Change([input EXCEPT !.dotenv = (n :> "dotenv") @@ @])
             \/ Change([input EXCEPT !.cli = (n :> "cli") @@ @])

Tree == <<<<"a">>>> :> "file" @@ <<<<"b">>>> :> "dir" @@ <<<<"b">>, <<"a">>>> :> "file"
        @@ <<<<"b">>, <<"b">>>> :> "dir" @@ <<<<"b">>, <<"b">>, <<"a", "b">>>> :> "file"
        @@ <<<<"-">>>> :> "file"
Signs == {"*", "?", "[", "]", "-", "a", "b", "!"}
GrowPattern ==
    /\ part = "pattern" /\ \E more \in {FALSE, TRUE} :
          IF more
          THEN /\ Len(input) < 3 /\ input[Len(input)] # <<>> /\ input' = Append(input, <<>>)
          ELSE /\ \A k \in 1..(Len(input) - 1) : Len(input[k]) < 3
               /\ Len(input[Len(input)]) < (IF Len(input) = 1 THEN 5 ELSE 2)
               /\ \E sign \in (IF Len(input) = 1 THEN Signs ELSE {"*", "a", "b"}) :
                     input' = [input EXCEPT ![Len(input)] = Append(@, sign)]

(* A request to record: the fragment of one argument, sign by sign, and    *)
(* the tables it reads.                                                    *)
Places == {<<"filter-rows", "where">>, <<"sort-rows", "order_by">>,
           <<"derive-column", "expression">>, <<"cast-column", "type">>, <<"fill-nulls", "value">>,
           <<"summarise-rows", "aggregates">>, <<"summarise-rows", "group_by">>,
           <<"dedupe-rows", "key">>, <<"dedupe-rows", "order_by">>, <<"limit-rows", "order_by">>,
           <<"join-tables", "condition">>}
Others(place) ==
    CASE place[1] \in {"derive-column", "cast-column", "fill-nulls"} -> "column" :> O!Text(<<"c">>)
      [] place[2] = "group_by" -> "aggregates" :> O!Text(<<"a">>)
      [] place[1] = "dedupe-rows" ->
            (IF place[2] = "key" THEN "order_by" ELSE "key") :> O!Text(<<"a">>)
      [] place[1] = "limit-rows" -> "count" :> O!Whole(3)
      [] OTHER -> Empty
SignsOf(place) ==
    {"a", "1", "AS", "UNION", ",", ";", "--", "LF", "(", ")", "LIMIT", "ORDER", "probe"}
       \cup (IF place[2] = "type" THEN {"T"} ELSE {"*", "unnest", "desc", "OFFSET"})
Fragments == {[place |-> place, text |-> <<>>] : place \in Places}
GrowFragment ==
    /\ part = "operation" /\ Len(input.text) < 3
    /\ \E sign \in SignsOf(input.place) : input' = [input EXCEPT !.text = Append(@, sign)]

Commented == <<"SELECT", "*", "FROM", "t", "--", "WHERE", "a", ")", "ORDER", "(", "a", ";",
               "LF">>
Queries == {[text |-> <<"SELECT", "*", "FROM", "t", "WHERE">>, left |-> 4],
            [text |-> Commented, left |-> 4]}
GrowQuery ==
    /\ part = "query" /\ input.left > 0
    /\ \E sign \in {"a", "WHERE", ";", "--", "LF", "(", ")", "ORDER"} :
          input' = [text |-> Append(input.text, sign), left |-> input.left - 1]

Asked == {[op |-> op, on |-> on, pairs |-> <<>>] :
            op \in {"hide-column", "join-tables", "append-rows", "read-file"},
            on \in {"none", "t", "T", "u", "w"}}
ArgumentsOf(op) ==
    CASE op = "join-tables" -> "using" :> O!Names(<<"k">>)
      [] op = "hide-column" -> "column" :> O!Text(<<"c">>)
      [] op = "read-file" -> "path" :> O!Text(<<"p">>)
      [] OTHER -> Empty
Ask ==
    /\ part = "request" /\ Len(input.pairs) < 3
    /\ \E role \in {"table", "other", "column"} : \E t \in {"t", "T", "u", "w"} :
          input' = [input EXCEPT !.pairs = Append(@, <<role, t>>)]

(* A statement: its kind, then its flags, options and the pieces of its    *)
(* query, one at a time.                                                   *)
From1(name) == I!Query(<<>>, <<I!TableSource(name)>>, <<>>)
Statement(kind, query) ==
    [kind |-> kind, name |-> "T", query |-> query, path |-> "d.csv", options |-> <<>>,
     flags |-> {}, duckdb |-> TRUE, sqlparser |-> TRUE]
NamedKinds == {"table", "insert", "copy to", "copy from", "pivot", "drop", "alter", "merge"}
Stated == {[st |-> Statement(kind, <<>>), left |-> 2] : kind \in NamedKinds \cup {"install"}}
          \cup {[st |-> Statement(kind, <<I!NoQuery>>), left |-> 2] :
                   kind \in {"table", "view", "macro", "insert", "copy to", "set variable"}}
          \cup {[st |-> Statement("query", <<I!NoQuery>>), left |-> 3],
                [st |-> Statement("pivot", <<From1("t")>>), left |-> 2]}
          \cup {[st |-> Statement(kind, <<I!Query(<<>>, <<I!Pivoted("t")>>, <<>>)>>), left |-> 1] :
                   kind \in {"table", "query"}}
Flags(kind) ==
    CASE kind \in {"table", "view"} -> {"replace", "temp", "exists", "columns", "qualified"}
      [] kind = "insert" -> {"replace", "alias", "columns", "by name", "group", "conflict",
                             "returning", "qualified"}
      [] kind = "copy to" -> {"columns", "qualified", "with"}
      [] kind = "copy from" -> {"columns", "qualified"}
      [] kind = "pivot" -> {"file", "alias", "join", "qualified"}
      [] OTHER -> {}
OptionsOf == {<<"HEADER">>, <<"PARTITION_BY", "(", "a", ")">>, <<"PARTITION_BY", "(", ")">>,
              <<"FILE_SIZE_BYTES", "1">>, <<"PER_THREAD_OUTPUT">>}
             \cup {<<"PER_THREAD_OUTPUT", v>> : v \in {"true", "false", "0", "1", "'no'"}}
Sources ==
    {I!TableSource(n) : n \in {"t", "T", "u", "c"}} \cup {I!MainTable("t"), I!Derived(From1("c"))}
    \cup {I!FileSource(p) : p \in {"d.csv", "d/*"}}
    \cup {I!Call(f, <<I!String(p)>>) : f \in {"read_csv", "READ_CSV", "glob", "f"}, p \in I!Paths}
    \cup {I!Call("read_csv", <<a>>) :
             a \in {I!ListOf(<<I!String("d.csv"), I!String("http://d")>>), I!Passed(I!String("d.csv"))}}
    \cup {I!Call("range", <<I!Number>>)}
    \cup {I!Call("f", <<a>>) : a \in {I!Number, I!Bare("x"), I!QuotedName("x"), I!Held(From1("c")),
             I!Expr(TRUE), I!Expr(FALSE), I!Passed(I!String("x")), I!ListOf(<<I!String("x")>>)}}
Ctes == {I!Cte(n, rec, From1(body)) : n \in {"c", "t"}, rec \in BOOLEAN, body \in {"t", "c", "u"}}
State ==
    LET st == input.st
        Grown(new) == input' = [st |-> new, left |-> input.left - 1]
    IN  /\ part = "lineage" /\ input.left > 0
        /\ \/ \E flag \in Flags(st.kind) \ st.flags : Grown([st EXCEPT !.flags = @ \cup {flag}])
           \/ /\ st.kind = "copy to"
              /\ \E o \in OptionsOf :
                    Grown([st EXCEPT !.options = IF @ = <<>> THEN o ELSE @ \o <<",">> \o o])
           \/ /\ st.kind = "copy to" /\ Grown([st EXCEPT !.path = "http://d"])
           \/ /\ st.duckdb /\ Grown([st EXCEPT !.duckdb = FALSE])
           \/ /\ st.sqlparser /\ Grown([st EXCEPT !.sqlparser = FALSE])
           \/ /\ st.query # <<>> /\ ~\E i \in DOMAIN st.query[1].from : st.query[1].from[i].is = "pivot"
              /\ \/ \E s \in Sources : Grown([st EXCEPT !.query[1].from = Append(@, s)])
                 \/ \E c \in Ctes :
                       /\ \A i \in DOMAIN st.query[1].with : st.query[1].with[i].name # c.name
                       /\ Grown([st EXCEPT !.query[1].with = Append(@, c)])
                 \/ \E n \in {"t", "c"} : Grown([st EXCEPT !.query[1].subs = Append(@, From1(n))])

(* A SQL file, said statement by statement, each then said otherwise.      *)
Sp(value, how) == T!Spelling(value, how)
Says == {T!Said("install", Sp(<<"a">>, "bare")), T!Said("call", Sp(<<"query">>, "bare")),
         T!Said("call", Sp(<<"json">>, "bare")), T!Said("declare", Sp(<<"query">>, "bare")),
         T!Said("value", Sp(<<"a", ";">>, "SQ")), T!Said("set", Sp(<<"setting">>, "bare")),
         T!Said("import", Sp(<<"a">>, "SQ")), T!Said("nothing", Sp(<<>>, "bare"))}
Texts == {"SQ", "E", "$", "$a", "lines"}
NameValues(does) ==
    CASE does = "install" -> {<<"a">>, <<"a", ".", "a">>}
      [] does = "value" -> {<<"a", ";">>, <<"SQ", ";">>, <<"dialect", "a">>, <<"a", "duckdbrc">>}
      [] does = "set" -> {<<"setting">>, <<"dialect">>, <<"duckdbrc">>}
      [] does = "call" -> {<<"query">>, <<"json">>} [] OTHER -> {}
NamesOf(does) ==
    {Sp(v, how) : v \in NameValues(does),
        how \in IF does = "call" THEN {"bare", "DQ", "BT"}
                ELSE IF does = "set" THEN {"bare", "DQ", "BT"} ELSE Texts \cup {"DQ", "BT"}}
    \cup (IF does = "install"
          THEN {Sp(<<"FROM">>, "DQ"), Sp(<<"a">>, "bare"), Sp(<<"a", "BS", "a">>, "SQ"), Sp(<<"a", "BS", "a">>, "E")}
          ELSE {})
Repositories == {Sp(<<r>>, how) : r \in {"core", "community", "nightly"}, how \in {"bare", "DQ"}}
                \cup {Sp(<<"a", "/">>, how) : how \in {"SQ", "$a", "lines"}}
Gaps == {<<"LF">>, <<"--", ";", "SQ", "LF">>, <<"/*", "SQ", ";", "*/">>}
Inner == {T!Said("value", Sp(<<"a", ";">>, "SQ")), T!Said("value", Sp(<<"dialect">>, "DQ")),
          T!Said("nothing", Sp(<<"1">>, "bare")), T!Said("call", Sp(<<"query">>, "bare")),
          [T!Said("call", Sp(<<"query">>, "bare")) EXCEPT
             !.arg = <<[st |-> T!Said("value", Sp(<<"a">>, "SQ")), how |-> "SQ"]>>],
          [T!Said("call", Sp(<<"query">>, "DQ")) EXCEPT
             !.arg = <<[st |-> T!Said("call", Sp(<<"query">>, "bare")), how |-> "SQ"]>>]}
Say ==
    LET last == Len(input.file)
        Said(st) == input' = [input EXCEPT !.file[last] = st, !.left = @ - 1]
        st == input.file[last]
    IN  /\ part = "text" /\ input.left > 0
        /\ \/ \E new \in Says : input' = [input EXCEPT !.file = Append(@, new), !.left = @ - 1]
           \/ ~input.open /\ st.does # "nothing" /\ input' = [input EXCEPT !.open = TRUE, !.left = @ - 1]
           \/ \E name \in NamesOf(st.does) : Said([st EXCEPT !.name = name])
           \/ st.does = "install" /\ \E from \in Repositories : Said([st EXCEPT !.from = <<from>>])
           \/ st.does # "nothing" /\ \E gap \in Gaps : Said([st EXCEPT !.gap = gap])
           \/ \E gap \in Gaps : Said([st EXCEPT !.before = gap])
           \/ st.does \in {"call", "declare"} /\ Said([st EXCEPT !.schema = <<"a", ".">>])
           \/ st.does = "call" /\ \E inner \in Inner : \E how \in {"SQ", "$a", "lines"} :
                 Said([st EXCEPT !.arg = <<[st |-> inner, how |-> how]>>])

(* A manifest, what stands when its run ends, and a report's prose; a day  *)
(* and its date; settings with secrets among them.                         *)
SqlRead(outputs, inputs, files) ==
    <<[is |-> "read", outputs |-> outputs, inputs |-> inputs, files |-> files, calls |-> FALSE]>>
Task(name, sql) == [name |-> name, sql |-> sql, op |-> <<>>, produces |-> <<>>, depends_on |-> <<>>]
Names == {"t", "T", "d.csv", "D.csv", "out/", "http://d", "*.csv", "s.t"}
Accounts ==
    {[m |-> [steps |-> <<Task("a", one), Task("b", two)>>, assets |-> <<>>], left |-> 2,
      world |-> [files |-> "d.csv" :> "file" @@ "D.csv" :> "other", trees |-> "out/" :> "tree",
                 sidecars |-> Empty, tables |-> "T" :> "rows" @@ "s.t" :> "others", db |-> TRUE],
      outcomes |-> "a" :> "success", prose |-> <<>>, runs |-> {1}] :
        one \in {<<>>, SqlRead(<<"t">>, <<"d.csv">>, {"d.csv"})},
        two \in {<<>>, SqlRead(<<>>, <<"t">>, {}), SqlRead(<<"d.csv">>, <<"t">>, {"d.csv"})}}
Account ==
    /\ part = "account" /\ input.left > 0
    /\ \/ \E k \in 1..2 : \E n \in Names :
             \/ Change([input EXCEPT !.m.steps[k].produces = Append(@, n)])
             \/ Change([input EXCEPT !.m.steps[k].depends_on = Append(@, n)])
             \/ Change([input EXCEPT !.m.assets =
                           Append(@, [name |-> n, produced_by |-> input.m.steps[k].name, depends_on |-> <<"t">>])])
             \/ /\ input.m.steps[k].sql = <<>>
                /\ Change([input EXCEPT !.m.steps[k].op =
                              <<[takes |-> n # "s.t", produces |-> <<n>>, reads |-> <<"t">>]>>])
       \/ \E k \in 1..2 : \E sql \in {[SqlRead(<<"t">>, <<>>, {})[1] EXCEPT !.calls = TRUE],
                [SqlRead(<<>>, <<>>, {})[1] EXCEPT !.is = "missing"],
                [SqlRead(<<>>, <<>>, {})[1] EXCEPT !.is = "refused"]} :
             Change([input EXCEPT !.m.steps[k].sql = <<sql>>])
       \/ Change([input EXCEPT !.world.sidecars = "d.csv" :> "fetched"])
       \/ \E files \in {Empty, "D.csv" :> "other"} : Change([input EXCEPT !.world.files = files])
       \/ Change([input EXCEPT !.world.db = FALSE])
       \/ Change([input EXCEPT !.prose = Append(@, C!Line("- Run: ", 2, {}))])
       \/ Change([input EXCEPT !.runs = @ \cup {2}])

Days == {[day |-> 0, date |-> <<1970, 1, 1>>, left |-> 1500],
         [day |-> 10956, date |-> <<1999, 12, 31>>, left |-> 430],
         [day |-> 47482, date |-> <<2100, 1, 1>>, left |-> 430]}
NextDay ==
    /\ part = "date" /\ input.left > 0
    /\ input' = [day |-> input.day + 1, date |-> C!DayAfter(input.date), left |-> input.left - 1]

Keys == {<<"name">>, <<"my", "TOKEN">>, <<"secret">>}
Given == {C!Leaf("x"), C!Value("map", "", <<>>, <<"secret">> :> C!Leaf("y")),
          C!Value("list", "", <<C!Leaf("z")>>, Empty)}
GiveSecret ==
    LET v == input.value IN
    /\ part = "secret" /\ input.left > 0
    /\ \/ \E k \in Keys : \E new \in {v} \cup Given :
             Change([input EXCEPT !.value = C!Value("map", "", <<>>, k :> new @@
                        IF v.is = "map" THEN v.map ELSE <<"other">> :> v)])
       \/ \E new \in Given :
             Change([input EXCEPT !.value = C!Value("list", "", <<v, new>>, Empty)])
       \/ \E k \in Keys : \E v0 \in {"d", C!None} :
             Change([input EXCEPT !.params = Append(@, [name |-> k, default |-> v0])])
       \/ \E k \in Keys : \/ Change([input EXCEPT !.dotenv = (k :> "dotenv") @@ @])
                          \/ Change([input EXCEPT !.cli = (k :> "cli") @@ @])

(* A database and a name asked of it; a query; a panel over a database.    *)
Tables == {<<V!main, <<"t">>>>, <<V!main, <<"u">>>>, <<<<"a">>, <<"t">>>>, <<<<"a">>, <<"T">>>>,
           <<<<"b">>, <<"t">>>>, <<V!main, <<"a", ".", "t">>>>, <<<<"a">>, <<"b", ".", "t">>>>}
New(db) == {e \in Tables : \A o \in DOMAIN db : ~(V!same(o[1], e[1]) /\ V!same(o[2], e[2]))}
AskName ==
    /\ part = "names"
    /\ \/ Len(input.table) < 4 /\ \E sign \in {"t", "T", "a", "b", ".", "main"} :
             input' = [input EXCEPT !.table = Append(@, sign)]
       \/ Cardinality(DOMAIN input.db) < 3 /\ \E e \in New(input.db) :
             input' = [input EXCEPT !.db = (e :> {<<"c">>}) @@ @]

Rows(n) == [i \in 1..n |-> i]
Queried == {[is |-> is, rows |-> Rows(n), later |-> k, fails |-> f] :
              is \in {"select", "other"}, n \in {0, 2, 4}, k \in {0, 2, 4}, f \in BOOLEAN}
AskQuery ==
    /\ part = "answer" /\ Len(input.sql) < 2
    /\ \E st \in Queried : input' = [input EXCEPT !.sql = Append(@, st)]

Mark(from) == [from |-> from, channels |-> Empty]
Plot(marks) == [plot |-> marks, children |-> <<>>, data |-> {}]
Froms == {<<>>, <<"t">>, <<"T">>, <<"u">>, <<"a", ".", "t">>, <<"a", ".", "b", ".", "t">>}
Settled == {<<"c">>, <<"C">>, <<"$", "c">>, <<"#", "c">>, <<"steelblue">>}
GrowPanel ==
    LET panel == input.panel IN
    /\ part = "panel" /\ input.left > 0
    /\ \/ \E e \in New(input.db) : \E columns \in SUBSET {<<"c">>, <<"T">>} :
             Change([input EXCEPT !.db = (e :> columns) @@ @])
       \/ \E from \in Froms :
             \/ Change([input EXCEPT !.panel.plot = <<IF @ = <<>> THEN <<Mark(from)>> ELSE Append(@[1], Mark(from))>>])
             \/ Change([input EXCEPT !.panel.children = Append(@, Plot(<<<<Mark(from)>>>>))])
       \/ \E c \in {"x", "fill", "other"} : \E v \in Settled :
             \/ /\ panel.plot # <<>>
                /\ Change([input EXCEPT !.panel.plot[1][1].channels = (c :> v) @@ @])
             \/ /\ panel.children # <<>> /\ panel.children[1].plot # <<>>
                /\ Change([input EXCEPT !.panel.children[1].plot[1][1].channels = (c :> v) @@ @])
       \/ Change([input EXCEPT !.panel = [plot |-> <<>>, children |-> <<panel>>, data |-> panel.data]])
       \/ Change([input EXCEPT !.panel.data = {<<"t">>}])

(* A tool and what it is called with; the lines a client sends; a run in   *)
(* a child process.                                                        *)
Versions == {[is |-> "absent"], [is |-> "unreadable"]}
            \cup {[is |-> "version", numbers |-> n] : n \in {<<0, 6, 53>>, <<0, 6, 54>>, <<0, 7, 0>>, <<1, 0, 0>>}}
Sorts == {"text", "true", "7", "0", "-1", "[text]", "{}", "null"}
GivenTo(k) == CASE k \in {"params", "values", "reads"} -> M!Values \ (M!Edits \cup M!Formats)
               [] k = "edit" -> M!Edits \cup Sorts [] k = "format" -> M!Formats \cup Sorts [] OTHER -> Sorts
First(k) == IF k = "with" THEN "{}" ELSE "text"
Calls == {[tool |-> tool, said |-> [is |-> "version", numbers |-> M!MIN_VERSION], left |-> 2,
           args |-> [k \in M!tools[tool].schema.required |-> First(k)]] : tool \in DOMAIN M!tools}
         \cup {[tool |-> "protocol_edit", said |-> [is |-> "absent"], left |-> 2,
                args |-> "path" :> "text" @@ "edit" :> e] : e \in M!Edits}
CallTool ==
    LET args == input.args IN
    /\ part = "call" /\ input.left > 0
    /\ \/ \E k \in DOMAIN M!tools[input.tool].schema.properties \cup {"path", "other"} :
             \E v \in GivenTo(k) : Change([input EXCEPT !.args = (k :> v) @@ @])
       \/ \E k \in DOMAIN args : Change([input EXCEPT !.args = [x \in DOMAIN args \ {k} |-> args[x]]])
       \/ \E said \in Versions : Change([input EXCEPT !.said = said])

Messages ==
    {M!NoMessage(is) : is \in {"garbage", "array", "blank", "not text"}}
    \cup {M!Message(id, <<>>, <<>>) : id \in {<<>>, <<"null">>}}
    \cup {M!Message(id, <<method>>, <<>>) : id \in {<<>>, <<"1">>, <<"2">>},
             method \in {"initialize", "ping", "tools/list", "tools/call", "notifications/", "other"}}
    \cup {M!Message(<<"3">>, <<"tools/call">>, <<tool, how>>) :
             tool \in {"sql_query", "unknown"}, how \in {"works", "fails"}}
Send == /\ part = "session" /\ Len(input) < 3 /\ \E line \in Messages : input' = Append(input, line)

Chunks == {<<"a", "b">>, <<"ESC", "[", "1", "m", "a">>, <<"ESC", "m">>}
WatchRun ==
    /\ part = "child" /\ input.answer = "none"
    /\ \/ \E s \in M!Streams : \E chunk \in Chunks :
             /\ ~input.exited \/ s \in input.held
             /\ Len(input.said) + Len(input.unread["out"]) + Len(input.unread["err"]) < 6
             /\ input' = M!Prints(input, s, chunk)
       \/ \E contract \in {"own", "other"} \ {input.contracts[i] : i \in DOMAIN input.contracts} :
             /\ contract = "own" => ~input.exited
             /\ input' = M!Writes(input, contract)
       \/ ~input.exited /\ \E held \in SUBSET M!Streams : input' = M!Exits(input, held)
       \/ \E s \in M!Streams : M!Drains(input, s) /\ input' = M!drain(input, s)
       \/ input.exited /\ ~input.late /\ input' = [input EXCEPT !.late = TRUE]
       \/ M!Collected(input) /\ input' = M!answer_run(input)

(* A descriptor of tables; a folder a Protocol is made in; where its       *)
(* database lies.                                                          *)
Key1(fields, to, status) == [fields |-> fields, to |-> to, refers |-> <<"id">>, status |-> status]
Resource(n, format, path) == [name |-> n, format |-> format, path |-> path, keys |-> <<>>]
Described ==
    /\ part = "bridge" /\ input.left > 0
    /\ \/ \E n \in {<<"a">>, <<"b">>, <<"a", "_", "b">>} :
          \E r \in {Resource(n, "csv", <<>>), Resource(n, "duckdb", <<"db", n>>)} :
             Change([input EXCEPT !.resources = Append(@, r)])
       \/ \E path \in {<<>>, <<"db", <<"b">>>>, <<"other", <<"a">>>>} :
             Change([input EXCEPT !.resources = Append(@, Resource(<<"a">>, "duckdb", path))])
       \/ \E i \in DOMAIN input.resources : \E to \in {<<"a">>, <<"b">>, <<"b", "_", "a">>} :
          \E fields \in {<<"x">>, <<"x", "y">>} : \E status \in {"accepted", "suggested"} :
             Change([input EXCEPT !.resources[i].keys = Append(@, Key1(fields, to, status))])
       \/ input.fails = 0 /\ \E f \in {1, 2, 4, 5, 6} : Change([input EXCEPT !.fails = f])
       \/ \E k \in {"named", "readable", "stands"} : Change([input EXCEPT ![k] = ~@])

Attributes == {K!Line("/log", {"merge=ours"}), K!Line("log", {"-merge"}), K!Line("log", {"text"}),
               K!Line("*", {"merge=ours"}), K!Line("# log", {"merge=union"})}
File(is) == [is |-> is, lines |-> <<>>]
Founds == {K!FolderWith(m, i, a) : m \in {"none", "mine"}, i \in {File("none"), File("file")},
                                a \in {File("none"), File("file"), File("link")}}

MakeIt ==
    /\ part = "making" /\ input.left > 0
    /\ \/ input.found.attributes.is = "file" /\ \E line \in Attributes :
             Change([input EXCEPT !.found.attributes.lines = Append(@, line)])
       \/ \E f \in 1..4 : Change([input EXCEPT !.fails = f])
       \/ \E k \in {"named", "loads"} : Change([input EXCEPT ![k] = ~@])

Segments == {"", ".", "..", "a", "a b", "a*", "CTRL", "p", "l"}
Place ==
    /\ part = "place" /\ Len(input.db) < 4
    /\ \/ input.db = <<>> /\ input' = [input EXCEPT !.db = <<"/">>]
       \/ \E s \in Segments : input' = [input EXCEPT !.db = Append(@, s)]
Move ==
    /\ part = "folders" /\ input.left > 0
    /\ \/ \E d \in {"d1", "d2", "d3"} : \E to \in {"f1", "f2"} : Change([input EXCEPT !.links = (d :> to) @@ @])
       \/ \E env \in {"none", "", "root"} : Change([input EXCEPT !.env = env])
       \/ Change([input EXCEPT !.home = "none"])

(* What is typed for an operation; an edit's address; an upgrade and what  *)
(* is edited meanwhile; what a command's work gave.                        *)
TypeArgument ==
    /\ part = "argument" /\ Len(input.text) < 4
    /\ \E sign \in {"0", "1", "7", "+", "-", "a", " "} \cup (IF input.type = "array" THEN {","} ELSE {}) :
          input' = [input EXCEPT !.text = Append(@, sign)]
TypeEntry ==
    /\ part = "entries" /\ Len(input) < 3
    /\ \E e \in {<<"a", "=", "b", "=", "c">>, <<"a", "=">>, <<"b", "=", "a">>, <<"=", "b">>, <<"a">>} :
          input' = Append(input, e)
TypeAddress ==
    /\ part = "address" /\ Len(input) < 5
    /\ \E sign \in {"a", ".", "[", "]", "1", "0", "+"} : input' = Append(input, sign)
Manifests == [depth : 0..4, pin : {"old", "new", "mine"}, other : {"absent", "old"}]
Upgrading ==
    /\ part = "upgrade" /\ input.left > 0
    /\ \/ \E text \in Manifests : \/ Change([input EXCEPT !.met = text])
                             \/ Change([input EXCEPT !.read = text, !.met = text])
       \/ \E k \in {"loads", "listed", "version"} : Change([input EXCEPT !.asked[k] = ~@])
       \/ Change([input EXCEPT !.asked.installed = "absent"])
       \/ Change([input EXCEPT !.asked.installed = "old"])
Commands == {"panel check", "table validate", "sql query", "skills install", "protocol write-file",
             "operation record", "run"}
EndWork ==
    /\ part = "ends"
    /\ \/ \E f \in {"StepFailed", "SqlNotRead", "other"} : input' = [input EXCEPT !.is = "refused", !.fault = f]
       \/ \E t \in {"one", "two"} : input' = [input EXCEPT !.told = @ \cup {t}]
       \/ /\ input.command \notin {"protocol write-file", "operation record", "run"}
          /\ \E t \in input.told : input' = [input EXCEPT !.wrong = @ \cup {t}]
       \/ input' = [input EXCEPT !.warned = {"warning"}]

(* A Protocol's folder, what a person lays in it and what arc writes.      *)
Bare == <<"p">> :> F!Directory @@ <<"p", "arcform.yaml">> :> F!File("words")
        @@ <<"out">> :> F!Directory @@ <<"out", "a.json">> :> F!File("words")
Laid == {<<"README.md">>, <<"schemas">>, <<"schemas", "a.json">>, <<"panels">>, <<"panels", "a.yaml">>}
Things == {F!Directory, F!File("json")}
          \cup {F!Link(to) : to \in {<<"out">>, <<"out", "a.json">>, <<"gone">>, <<"p", "panels">>}}
Rels == Laid \cup {<<"panels", "a.json">>, <<"..", "out">>, <<"/", "out">>, <<"report.md">>, <<".">>}
LayFiles ==
    /\ part = "files" /\ input.left > 0
    /\ \/ \E at \in Laid : \E thing \in Things :
             /\ Front(<<"p">> \o at) \in DOMAIN input.disk
             /\ input.disk[Front(<<"p">> \o at)].is = "dir"
             /\ ~\E under \in DOMAIN input.disk : Len(under) > Len(at) + 1 /\ IsPrefix(<<"p">> \o at, under)
             /\ Change([input EXCEPT !.disk = ((<<"p">> \o at) :> thing) @@ @])
       \/ \E at \in Laid : \E text \in {"json", "plot"} :
             \E after \in {F!write_protocol_file(input, at, text, 0)} :
               /\ after.is = "written"
               /\ Change([input EXCEPT !.disk = after.disk, !.history = after.history])
       \/ Change([input EXCEPT !.disk = [at \in DOMAIN @ \ {<<"p", "arcform.yaml">>} |-> @[at]]])

(* A table's rows; the links of a page.                                    *)
RowsOf == {<<"a", "a">>, <<"null", "b">>, <<"b", "a">>, <<"c", "a">>, <<"d", "null">>}
FillTable == /\ part = "rows" /\ Len(input) < 5 /\ \E row \in RowsOf : input' = Append(input, row)
Pages == {[scheme |-> <<"http">>, host |-> <<"b">>, directory |-> d, file |-> f, query |-> q] :
             d \in {<<"/">>, <<"/", "b", "/">>}, f \in {<<>>, <<"a">>}, q \in {<<>>, <<"?", "/", "a">>}}
         \cup {[scheme |-> <<"http">>, host |-> <<"b">>, directory |-> <<>>, file |-> <<>>, query |-> q] :
                  q \in {<<>>, <<"#", "/">>}}
AddLink ==
    /\ part = "links" /\ Len(FlattenSeq(input.hrefs)) < 4
    /\ \E sign \in {"http", ":", "/", "#", "?", "a", " "} :
          \/ input' = [input EXCEPT !.hrefs[Len(input.hrefs)] = Append(@, sign)]
          \/ Len(input.hrefs) < 2 /\ input' = [input EXCEPT !.hrefs = Append(@, <<sign>>)]

-----------------------------------------------------------------------------
Init ==
    \/ part = "batches" /\ input \in NoFile
    \/ part = "with" /\ input \in Blocks
    \/ part \in {"spec", "script"} /\ input = <<>>
    \/ part = "descriptor" /\ input \in Sidecars
    \/ part = "settings" /\ input \in Settings
    \/ part = "pattern" /\ input = <<<<>>>>
    \/ part = "operation" /\ input \in Fragments
    \/ part = "query" /\ input \in Queries
    \/ part = "request" /\ input \in Asked
    \/ part = "lineage" /\ input \in Stated
    \/ part = "text" /\ input \in {[file |-> <<st>>, open |-> FALSE, left |-> 2] :
                                       st \in Says \cup {[st EXCEPT !.gap = gap] : st \in Says, gap \in Gaps}}
    \/ part = "account" /\ input \in Accounts
    \/ part = "names" /\ input = [db |-> Empty, table |-> <<>>]
    \/ /\ part = "answer"
       /\ input \in {[file |-> f, limit |-> n, sql |-> <<>>] : f \in {"free", "held", "absent"}, n \in 0..4}
    \/ /\ part = "panel"
       /\ input \in {[db |-> db, panel |-> Plot(<<>>), left |-> 3] :
                        db \in {Empty} \cup {e :> {<<"c">>} : e \in Tables}}
    \/ part = "date" /\ input \in Days
    \/ /\ part = "secret"
       /\ input \in {[value |-> v, params |-> <<>>, dotenv |-> Empty, cli |-> Empty, left |-> 3] : v \in Given}
    \/ part = "call" /\ input \in Calls
    \/ part = "bridge" /\ input = [resources |-> <<>>, named |-> TRUE, readable |-> TRUE,
                                    stands |-> FALSE, fails |-> 0, left |-> 3]
    \/ /\ part = "making"
       /\ input \in {[found |-> f, db |-> db, named |-> TRUE, loads |-> TRUE, fails |-> 0, left |-> 4] :
                        f \in Founds, db \in {<<>>, <<"w">>}}
    \/ part = "place" /\ input \in {[db |-> <<>>, dir |-> d] : d \in {K!Folder, K!Link}}
    \/ part = "folders" /\ input = [links |-> Empty, env |-> "none", home |-> "h", left |-> 5]
    \/ part = "files" /\ input = [disk |-> Bare, history |-> Empty, left |-> 3]
    \/ part = "links" /\ input \in {[page |-> page, hrefs |-> <<<<>>>>] : page \in Pages}
    \/ part \in {"session", "entries", "address", "rows"} /\ input = <<>>
    \/ part = "argument" /\ input \in {[type |-> t, text |-> <<>>] : t \in {"integer", "array", "string"}}
    \/ /\ part = "upgrade"
       /\ input \in {[loaded |-> t, read |-> t, met |-> t, left |-> 2,
                      asked |-> [loads |-> TRUE, listed |-> TRUE, version |-> TRUE, installed |-> "new"]] : t \in Manifests}
    \/ /\ part = "ends"
       /\ input \in {[command |-> c, is |-> "done", fault |-> "none", told |-> {}, wrong |-> {}, warned |-> {}] :
                        c \in Commands}
    \/ part = "child" /\ input \in {M!Child(<<>>), M!Child(<<"old">>)}

Next ==
    /\ \/ GrowFile \/ ChangeBlock \/ GrowSpec \/ GrowScript \/ Curate \/ Configure \/ GrowPattern
       \/ GrowFragment \/ GrowQuery \/ Ask \/ State \/ Say \/ Account \/ NextDay \/ GiveSecret
       \/ AskName \/ AskQuery \/ GrowPanel \/ CallTool \/ Send \/ WatchRun
       \/ Described \/ MakeIt \/ Place \/ Move
       \/ TypeArgument \/ TypeEntry \/ TypeAddress \/ Upgrading \/ EndWork \/ LayFiles
       \/ FillTable \/ AddLink
    /\ UNCHANGED part

Spec == Init /\ [][Next]_vars

-----------------------------------------------------------------------------
(* engine.rs, duckdb_tokens.rs and introspect.rs: a SQL file is cut as     *)
(* DuckDB cuts it, each byte of a batch is one of the file's, and what a   *)
(* statement installs is found, however it is spelt.                       *)
SqlIsReadAsRun ==
    /\ part = "batches" => B!BatchesAreTheFiles(input.file)
    /\ part = "text" =>
          /\ T!StatementsAreCut(input.file, input.open)
          /\ T!InstallsAreRead(input.file, input.open)


(* manifest.rs, runner.rs and operator.rs: a run takes the settings the    *)
(* manifest gives it, a pattern stands for the files it matches, and what  *)
(* is said of an operator's `with:` is what it runs with.                  *)
SettingsAreHonoured ==
    /\ part = "settings" => S!SettingsAreHonoured(input.m, input.params, input.dotenv, input.cli)
    /\ part = "pattern" => S!PatternIsItsFiles(Tree, input)
    /\ part = "with" => W!DescribedAsRun(input.op, input.with)

(* operator.rs and inspect.rs: a descriptor keeps what a person curated, a *)
(* profile and a verdict are of the rows that are there, and the links of  *)
(* a page are those it holds, where a browser finds them.                  *)
OperatorsTellWhatIsThere ==
    /\ part = "descriptor" => D!DescriptorIsCurated(input.base, input.over)
    /\ part = "rows" =>
          /\ R!DescribedWhole(input)
          /\ \A file \in {"free", "held", "absent"} : \A found \in BOOLEAN :
                /\ \A format \in {"json", "json-schema"} : \A size \in {<<>>, <<0>>, <<1>>, <<3>>} :
                   \A fails \in {"none", "version", "copy", "profile"} : \A standing \in SUBSET R!Attempts :
                      R!ProfiledAsTold(file, found, input, format, size, fails, standing)
                /\ \A inside, schema \in BOOLEAN : \A is \in {"free", "held", "gone"} :
                   \A rows \in {input, <<>>, Append(input, <<"b", "a">>)} :
                   \A x \in [configured : BOOLEAN, there : BOOLEAN, loads : BOOLEAN] :
                      R!ValidAsTold(inside, schema, x, file, found, [is |-> is, rows |-> rows])
          /\ \A column \in 1..R!Columns \ R!Nested : R!DriftIsShown(input, column)
    /\ part = "links" => \A limit \in {<<>>, <<1>>} : H!LinksAreFound(input.hrefs, input.page, limit)

(* record.rs: a fragment of SQL stays in its place in the recorded step, a *)
(* query is read back as the operation it is, and every table a request    *)
(* names is one the step reads.                                            *)
RecordedAsItReads ==
    /\ part = "query" => O!RecordedAsItReads(input.text)
    /\ part = "operation" =>
          O!FragmentsStayInPlace(input.place[1],
              input.place[2] :> O!Text(input.text) @@ Others(input.place))
    /\ part = "request" =>
          O!EveryNamedTableIsRead(input.op, ArgumentsOf(input.op), input.on, input.pairs, {"t", "u"})

(* duckdb_lineage.rs and introspect.rs: a step is said to read and produce *)
(* what running its statement touches.                                     *)
StepsTellWhatTheyTouch == part = "lineage" => I!StepsTellWhatTheyTouch(input.st)

(* contract.rs, report.rs, inspect.rs and panel_check.rs: a run's contract *)
(* and the inspection of its database tell what was done and what is       *)
(* there, and no secret.                                                   *)
RunIsTold ==
    /\ part = "account" => C!RunIsTold(input.m, input.world, input.outcomes, input.prose, input.runs)
    /\ part = "date" => C!DaysAreDated(input.day, input.date)
    /\ part = "secret" => C!SecretsStayOut(input.value, input.params, input.dotenv, input.cli)
    /\ part = "names" => V!NamesResolve(input.db, input.table)
    /\ part = "answer" => V!QueriesAreAnswered(input.file, input.sql, input.limit)
    /\ part = "panel" => V!PanelsAreChecked(input.panel, input.db)

(* mcp/ and cli.rs: a tool and its command take the same arguments, and    *)
(* each request has its one answer, which tells what was done.             *)
ToolsAnswerAsTold ==
    /\ part = "call" =>
          /\ M!ArgumentsAsTold(input.tool, input.args, input.said)
          /\ L!AskedByEitherDoor(input.tool, input.args)
    /\ part = "session" => M!EveryRequestIsAnswered(input)
    /\ part = "child" => M!RunIsAnsweredFor(input)
    /\ part = "argument" => L!TypedAsMeant(input.type, input.text)
    /\ part = "entries" => L!ArgumentsStand(input)
    /\ part = "address" => L!AddressesAsWritten(input)
    /\ part = "upgrade" => L!UpgradeIsPinned(input.loaded, input.read, input.met, input.asked)
    /\ part = "ends" => L!EndsAsTold(input.command, input)

(* protocol_files.rs, edit.rs, bridge.rs and working_db.rs: a named file   *)
(* is written and restored inside its folder, and a Protocol is made whole *)
(* or not at all.                                                          *)
FilesStayInside ==
    /\ part = "files" =>
          \A rel \in Rels : \A fails \in 0..4 :
             /\ \A text \in F!Texts : F!WritesStayInside(input, rel, text, fails)
             /\ F!RestoresStayInside(input, rel, fails)
    /\ part = "bridge" =>
          /\ K!Runnable(input.resources, {"db"})
          /\ K!GeneratedWhole(input.named, input.readable, input.stands, input.resources, {"db"}, input.fails)
    /\ part = "making" => K!MadeWhole(input.found, input.named, input.loads, input.db, input.fails)
    /\ part = "place" => K!ListedWhereItLies(input.db, input.dir)
    /\ part = "folders" => K!DatabasesApart(input.env, input.home, input.links, {"p", "q", "a/b"})
=============================================================================
