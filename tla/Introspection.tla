---------------------------- MODULE Introspection ----------------------------
(***************************************************************************)
(* introspect.rs: a step's assets, from DuckDB's reading of each statement *)
(* and, for what that cannot read, from sqlparser-rs's; and what running   *)
(* the statement touches, to hold them against.                            *)
(*                                                                         *)
(* A statement is a kind with a name, a query, a path, options and flags;  *)
(* duckdb and sqlparser say which of the two parsers takes its text.       *)
(* Names are read as pairs <<name, kind>>.                                 *)
(***************************************************************************)
EXTENDS Lineage, TLC

If(st, flag, words) == IF flag \in st.flags THEN Word(words) ELSE << >>
NameWords(st) == If(st, "qualified", <<"s", ".">>) \o <<W(st.name)>>
Options(st) == IF st.options = << >> THEN << >>
               ELSE If(st, "with", <<"with">>) \o <<W("(")>> \o Word(st.options) \o <<W(")")>>
Quote(path) == CASE path = "d.csv" -> "'d.csv'" [] path = "d/*" -> "'d/*'" [] OTHER -> "'http://d'"
Held1(st) == IF st.query = << >> \/ st.kind = "macro" THEN NoQuery ELSE st.query[1]
QueryOr(st, words) == IF st.query = << >> THEN Word(words) ELSE QueryWords(st.query[1])
InGroup(words) == <<W("(")>> \o words \o <<W(")")>>

\* The words of a statement, as DuckDB's tokenizer cuts them.
Words(st) ==
    CASE st.kind \in {"table", "view", "macro"} ->
           <<W("create")>> \o If(st, "replace", <<"or", "replace">>) \o If(st, "temp", <<"temp">>)
           \o <<W(st.kind)>> \o If(st, "exists", <<"if", "not", "exists">>) \o NameWords(st)
           \o If(st, "columns", <<"(", "a", ")">>)
           \o (IF st.query = << >> THEN << >> ELSE <<W("as")>> \o QueryWords(st.query[1]))
      [] st.kind = "insert" ->
           <<W("insert")>> \o If(st, "replace", <<"or", "replace">>) \o <<W("into")>> \o NameWords(st)
           \o If(st, "alias", <<"as", "a">>) \o If(st, "columns", <<"(", "a", ")">>)
           \o If(st, "by name", <<"by", "name">>)
           \o (IF "group" \in st.flags THEN InGroup(QueryOr(st, <<"values", "1">>))
               ELSE QueryOr(st, <<"default", "values">>))
           \o If(st, "conflict", <<"on", "conflict", "(", "a", ")", "do", "nothing">>)
           \o If(st, "returning", <<"returning", "a">>)
      [] st.kind = "copy to" ->
           <<W("copy")>> \o (IF st.query = << >> THEN NameWords(st) \o If(st, "columns", <<"(", "a", ")">>)
                             ELSE InGroup(QueryWords(st.query[1])))
           \o Word(<<"to", Quote(st.path)>>) \o Options(st)
      [] st.kind = "copy from" -> <<W("copy")>> \o NameWords(st) \o If(st, "columns", <<"(", "a", ")">>)
                                  \o Word(<<"from", Quote(st.path)>>)
      [] st.kind = "pivot" ->
           <<W("pivot")>> \o (IF st.query # << >> THEN InGroup(QueryWords(st.query[1]))
                              ELSE IF "file" \in st.flags THEN Word(<<Quote(st.path)>>) ELSE NameWords(st))
           \o If(st, "alias", <<"as", "a">>) \o If(st, "join", <<"join", "u", "using", "(", "a", ")">>)
           \o Word(<<"on", "a">>)
      [] st.kind = "set variable" ->
           Word(<<"set", "variable", "v", "=">>)
           \o (IF st.query = << >> THEN <<W("1")>> ELSE InGroup(QueryWords(st.query[1])))
      [] st.kind = "query" -> QueryOr(st, <<"select", "1">>)
      [] st.kind = "drop"  -> Word(<<"drop", "table">>) \o NameWords(st)
      [] st.kind = "alter" -> Word(<<"alter", "table">>) \o NameWords(st)
      [] st.kind = "merge" -> Word(<<"merge", "into">>) \o NameWords(st) \o Word(<<"using", "u">>)
      [] OTHER -> Word(<<st.kind, "x">>)

-----------------------------------------------------------------------------
(* The rules both readers' statements pass through.                        *)
read_path_kind(path) ==
    IF is_remote(path) THEN "remote" ELSE IF is_glob(path) THEN "pattern" ELSE "file"

DIRECTORY_WRITING_COPY_OPTIONS == {"PARTITION_BY", "PER_THREAD_OUTPUT", "FILE_SIZE_BYTES"}
boolean_arg(value) == value \notin {"false", "0", "'no'"}

\* Mutant of copy_option_is_on: presence is the whole test for every option.
copy_option_is_on_present(name, value) == TRUE

copy_option_is_on(name, value) ==
    CASE name = "PARTITION_BY" -> value # "empty list"
      [] name = "PER_THREAD_OUTPUT" -> boolean_arg(value)
      [] OTHER -> TRUE

copy_to_target_kind(path, options) ==
    IF is_remote(path) THEN "remote"
    ELSE IF \E o \in options : o[1] \in DIRECTORY_WRITING_COPY_OPTIONS /\ copy_option_is_on(o[1], o[2])
    THEN "directory" ELSE "file"

SqlAssets(outputs, inputs, internal, unread) ==
    [outputs |-> outputs, inputs |-> inputs, internal |-> internal, unread |-> unread, destroys |-> {}]
NoAssets == SqlAssets({}, {}, {}, {})
merge(a, b) == [k \in DOMAIN a |-> a[k] \cup b[k]]
MergeAll(assets) == FoldSet(merge, NoAssets, assets)

is_file_reader(f) == f \in {"read_csv", "glob"}
reads_no_table(f) == f = "range"

RECURSIVE paths(_)
paths(arg) == IF arg.is = "string" THEN {arg.text}
              ELSE IF arg.is = "list" THEN UNION {paths(arg.items[i]) : i \in DOMAIN arg.items} ELSE {}
RECURSIVE names_something(_)
names_something(arg) ==
    \/ arg.is \in {"string", "quoted"}
    \/ arg.is = "expr" /\ arg.quotes
    \/ arg.is = "list" /\ \E i \in DOMAIN arg.items : names_something(arg.items[i])

record_table_call(call) ==
    LET f     == Lower(call.name)
        given == {call.args[i] : i \in DOMAIN call.args}
        read  == UNION {paths(a) : a \in {a \in given : ~a.param}}
    IN  IF is_file_reader(f) THEN SqlAssets({}, {<<p, read_path_kind(p)>> : p \in read}, {}, {})
        ELSE IF reads_no_table(f) THEN NoAssets
        ELSE IF \E a \in given : names_something(a) THEN SqlAssets({}, {}, {}, {f})
        ELSE IF \E a \in given : a.is = "query" THEN NoAssets
        ELSE SqlAssets({}, {<<f, "table">>}, {}, {})

-----------------------------------------------------------------------------
(* DuckDB's reading of a statement.                                        *)
duckdb_statement(s) ==
    LET Named(r, kind) == IF r[1] = "table" THEN <<Lower(r[2]), "table">> ELSE <<r[2], kind>>
    IN  merge(SqlAssets({Named(r, copy_to_target_kind(r[2], s.options)) : r \in s.produces},
                        {Named(r, read_path_kind(r[2])) : r \in s.reads}, s.with, {}),
              MergeAll({record_table_call(c) : c \in s.calls}))

-----------------------------------------------------------------------------
(* sqlparser-rs's: the FROM clauses, in no scope; a statement's WITH names *)
(* are taken from its inputs at the end.                                   *)
RECURSIVE extract_inputs_from_query(_)
extract_inputs_from_table_factor(source) ==
    CASE source.is \in {"table", "pivot"} -> SqlAssets({}, {<<Lower(source.name), "table">>}, {}, {})
      [] source.is = "file" -> SqlAssets({}, {<<source.name, "table">>}, {}, {})
      [] source.is = "call" ->
           merge(record_table_call(source),
                 MergeAll({extract_inputs_from_query(q) : q \in QueriesOf(source.args)}))
      [] OTHER -> extract_inputs_from_query(source.held[1])
extract_inputs_from_query(q) ==
    merge(MergeAll({extract_inputs_from_table_factor(q.from[i]) : i \in DOMAIN q.from}),
          merge(SqlAssets({}, {}, {Lower(q.with[i].name) : i \in DOMAIN q.with}, {}),
                MergeAll({extract_inputs_from_query(q.with[i].query) : i \in DOMAIN q.with})))

extract_from_statement(st) ==
    LET own  == SqlAssets({<<Lower(st.name), "table">>}, {}, {}, {})
        reads(name) == SqlAssets({}, {<<Lower(name), "table">>}, {}, {})
        held == IF st.query = << >> THEN NoAssets ELSE extract_inputs_from_query(st.query[1])
        file == SqlAssets({<<st.path, copy_to_target_kind(st.path, copy_options(Options(st)))>>}, {}, {}, {})
    IN  CASE st.kind \in {"table", "view", "insert"} -> merge(own, held)
          [] st.kind = "alter" -> own
          [] st.kind = "merge" -> merge(own, reads("u"))
          [] st.kind \in {"copy to", "copy from"} ->
               merge(file, IF st.query = << >> THEN reads(st.name) ELSE held)
          [] st.kind = "drop" -> [NoAssets EXCEPT !.destroys = {Lower(st.name)}]
          [] st.kind = "query" -> held
          [] st.kind = "pivot" /\ "join" \notin st.flags ->
               IF st.query = << >> THEN reads(IF "file" \in st.flags THEN st.path ELSE st.name) ELSE held
          [] OTHER -> NoAssets

sqlparser_per_statement(st) ==
    LET found == extract_from_statement(st)
    IN  [found EXCEPT !.inputs = {r \in @ : r[1] \notin found.internal}]

-----------------------------------------------------------------------------
(* A step.  Each reading is of [assets, by].                               *)
Reading(assets, by) == [assets |-> assets, by |-> by]

\* s: DuckDB's reading of st.
Settled(st, s) ==
    LET sure == duckdb_statement(s)
    IN  IF s.form \notin {"unread", "not parsed"} THEN Reading(sure, "duckdb")
        ELSE IF st.sqlparser THEN Reading(merge(sure, sqlparser_per_statement(st)), "sqlparser")
        ELSE Reading(sure, "nothing")

\* duckdb_lineage::read_step: DuckDB's reading of each statement, in their order.
read_step(statements) ==
    [i \in DOMAIN statements |-> read_statement(Words(statements[i]), statements[i].duckdb)]

duckdb_step(statements) ==
    LET readings == read_step(statements)
    IN  [i \in DOMAIN statements |-> Settled(statements[i], readings[i])]

sqlparser_step(statements) ==
    [i \in DOMAIN statements |->
        IF statements[i].sqlparser THEN Reading(sqlparser_per_statement(statements[i]), "sqlparser")
        ELSE Reading(NoAssets, "nothing")]

read_sql(statements, reader, answer) ==
    IF reader = "duckdb" /\ answer = "read" THEN duckdb_step(statements) ELSE sqlparser_step(statements)

-----------------------------------------------------------------------------
(***************************************************************************)
(* What running a query touches: a name means the nearest WITH query of    *)
(* that name, which touches what its own query does; any other name means  *)
(* the table.                                                              *)
(***************************************************************************)
RECURSIVE Touched(_, _)
TouchedBy(source, env) ==
    LET given == {source.args[i] : i \in DOMAIN source.args}
        f     == Lower(source.name)
    IN  CASE source.is = "file" -> {<<source.name, read_path_kind(source.name)>>}
          [] source.is \in {"table", "pivot"} ->
               IF ~source.qualified /\ Lower(source.name) \in DOMAIN env THEN env[Lower(source.name)]
               ELSE {<<Lower(source.name), "table">>}
          [] source.is = "derived" -> Touched(source.held[1], env)
          [] f \in {"read_csv", "glob"} ->
               UNION {{<<p, read_path_kind(p)>> : p \in paths(a)} : a \in {a \in given : ~a.param}}
               \cup UNION {Touched(q, env) : q \in QueriesOf(source.args)}
          [] f = "range" -> UNION {Touched(q, env) : q \in QueriesOf(source.args)}
          [] OTHER -> UNION {Touched(q, env) : q \in QueriesOf(source.args)} \cup
               (IF \E a \in given : names_something(a) THEN {<<f, "unknown">>}
                ELSE IF \E a \in given : a.is = "query" THEN {} ELSE {<<f, "table">>})

Touched(q, env) ==
    LET Bind[i \in 0..Len(q.with)] ==
            IF i = 0 THEN env
            ELSE LET n == Lower(q.with[i].name)
                     sees == IF q.with[i].rec THEN (n :> {}) @@ Bind[i - 1] ELSE Bind[i - 1]
                 IN  (n :> Touched(q.with[i].query, sees)) @@ Bind[i - 1]
        bound == Bind[Len(q.with)]
    IN  UNION {bound[Lower(q.with[i].name)] : i \in DOMAIN q.with}
        \cup UNION {TouchedBy(q.from[i], bound) : i \in DOMAIN q.from}
        \cup UNION {Touched(q.subs[i], bound) : i \in DOMAIN q.subs}

\* DuckDB: a COPY makes a directory when it partitions, writes per thread, or rotates files.
MakesDirectory(options) ==
    \/ \E v \in {"absent", "other"} : <<"PARTITION_BY", v>> \in options
    \/ \E v \in {"absent", "true", "1", "other"} : <<"PER_THREAD_OUTPUT", v>> \in options
    \/ \E v \in {"absent", "0", "1", "true", "other"} : <<"FILE_SIZE_BYTES", v>> \in options

RunReads(st) ==
    Touched(Held1(st), [x \in {} |-> {}]) \cup
    CASE st.kind = "copy to" /\ st.query = << >> -> {<<Lower(st.name), "table">>}
      [] st.kind = "copy from" -> {<<st.path, read_path_kind(st.path)>>}
      [] st.kind = "merge" -> {<<"u", "table">>}
      [] st.kind = "pivot" /\ st.query = << >> ->
           {IF "file" \in st.flags THEN <<st.path, read_path_kind(st.path)>> ELSE <<Lower(st.name), "table">>}
           \cup (IF "join" \in st.flags THEN {<<"u", "table">>} ELSE {})
      [] OTHER -> {}
RunWrites(st) ==
    IF st.kind \in {"table", "view", "insert", "copy from", "alter", "merge"}
    THEN {<<Lower(st.name), "table">>}
    ELSE IF st.kind = "copy to"
    THEN {<<st.path, IF is_remote(st.path) THEN "remote"
                     ELSE IF MakesDirectory(copy_options(Options(st))) THEN "directory" ELSE "file">>}
    ELSE {}

Tells(assets, st) ==
    /\ assets.inputs = {r \in RunReads(st) : r[2] # "unknown"}
    /\ assets.unread = {r[1] : r \in {r \in RunReads(st) : r[2] = "unknown"}}
    /\ assets.outputs = RunWrites(st)

\* What sqlparser-rs's reading is not asked for: subqueries in expressions, files named
\* by a string alone, a table that has the name of a WITH query, COPY FROM, SET VARIABLE,
\* a joined PIVOT.
Plain(st) ==
    /\ st.kind \notin {"copy from", "set variable"} /\ st.flags \cap {"join", "file"} = {}
    /\ \A q \in Within(Held1(st)) :
          q.subs = << >> /\ \A i \in DOMAIN q.from : q.from[i].is # "file"
    /\ \A r \in RunReads(st) : r[1] \notin Declared(Held1(st))

\* said: the reading of st with each answer DuckDB gives.
TellWhatIsTouched(st, said) ==
    /\ \A answer \in DOMAIN said :
         said[answer].by = "duckdb" \/ (said[answer].by = "sqlparser" /\ Plain(st))
           => Tells(said[answer].assets, st)
    /\ said["read"].by = "nothing" => ~st.sqlparser

(***************************************************************************)
(* A statement DuckDB's reading takes tells exactly what running it reads  *)
(* and writes, and one it leaves to sqlparser-rs does so when plain; one   *)
(* no reader takes is listed as unread (duckdb_lineage.rs:30,              *)
(* introspect.rs:577).                                                     *)
(***************************************************************************)
StepsTellWhatTheyTouch(st) ==
    TellWhatIsTouched(st, [answer \in {"read", "not run"} |-> read_sql(<<st>>, "duckdb", answer)[1]])
=============================================================================
