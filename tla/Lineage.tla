------------------------------- MODULE Lineage -------------------------------
(***************************************************************************)
(* What a SQL step reads and produces: duckdb_lineage.rs, which takes it   *)
(* from the words of a statement and from DuckDB's tree of the query it    *)
(* holds, and introspect.rs, which reads what that leaves with a parser of *)
(* its own, and says of each name whether it is a table or a file.         *)
(*                                                                         *)
(* A query is a record of its WITH clause, of its FROM clause and of the   *)
(* subqueries in its expressions.  A statement is a record; Words is its   *)
(* text, cut into words, in which a query is one word after SELECT.        *)
(***************************************************************************)
EXTENDS Naturals, Sequences, SequencesExt, FiniteSetsExt

-----------------------------------------------------------------------------
(* Queries, their sources and the arguments of a call.                     *)
Query(with, from, subs) == [with |-> with, from |-> from, subs |-> subs]
NoQuery == Query(<< >>, << >>, << >>)
Cte(name, rec, query) == [name |-> name, rec |-> rec, query |-> query]

Source(is, name, qualified, args, held) ==
    [is |-> is, name |-> name, qualified |-> qualified, args |-> args, held |-> held]
TableSource(name) == Source("table", name, FALSE, << >>, << >>)
MainTable(name)   == Source("table", name, TRUE, << >>, << >>)
FileSource(path)  == Source("file", path, FALSE, << >>, << >>)
Call(name, args)  == Source("call", name, FALSE, args, << >>)
Pivoted(name)     == Source("pivot", name, FALSE, << >>, << >>)
Derived(query)    == Source("derived", "", FALSE, << >>, <<query>>)

\* param: whether the argument is passed by name.
Arg(is, text, items, held) ==
    [is |-> is, text |-> text, items |-> items, held |-> held, quotes |-> FALSE, param |-> FALSE]
String(text)  == Arg("string", text, << >>, << >>)
Number        == Arg("number", "1", << >>, << >>)
Bare(name)    == Arg("name", name, << >>, << >>)
QuotedName(name) == Arg("quoted", name, << >>, << >>)
ListOf(items) == Arg("list", "", items, << >>)
Held(query)   == Arg("query", "", << >>, <<query>>)
Expr(quotes)  == [Arg("expr", "", << >>, << >>) EXCEPT !.quotes = quotes]
Passed(arg)   == [arg EXCEPT !.param = TRUE]

\* A name's letters in the case the asset graph keeps.
Lower(name) == CASE name = "T" -> "t" [] name = "READ_CSV" -> "read_csv" [] OTHER -> name

Paths   == {"d.csv", "d/*", "http://d"}
is_glob(path) == path = "d/*"
is_remote(path) == path = "http://d"

-----------------------------------------------------------------------------
(* What a tree reads: base_table, visit, table_call.                       *)
base_table(source, scope) ==
    IF source.is = "file" THEN {<<"file", source.name>>}
    ELSE IF source.is = "table" /\ (source.qualified \/ Lower(source.name) \notin scope)
    THEN {<<"table", source.name>>} ELSE {}

\* Mutant of BodyScope: a WITH query sees its own name, recursive or not.
BodyScope_own(with, i, scope) == scope \cup {Lower(with[k].name) : k \in 1..i}

\* A WITH query sees the ones before it, and itself when it is recursive.
BodyScope(with, i, scope) ==
    scope \cup {Lower(with[k].name) : k \in {k \in 1..i : k < i \/ with[i].rec}}

QueriesOf(args) == {args[i].held[1] : i \in {i \in DOMAIN args : args[i].held # << >>}}

RECURSIVE visit(_, _)
visit(q, scope) ==
    LET inner  == scope \cup {Lower(q.with[i].name) : i \in DOMAIN q.with}
        bodies == {visit(q.with[i].query, BodyScope(q.with, i, scope)) : i \in DOMAIN q.with}
        held   == UNION {ToSet(q.from[i].held) \cup QueriesOf(q.from[i].args) :
                            i \in DOMAIN q.from} \cup ToSet(q.subs)
    IN  UNION bodies
        \cup UNION {base_table(q.from[i], inner) : i \in DOMAIN q.from}
        \cup UNION {visit(h, inner) : h \in held}

RECURSIVE Within(_)
\* q and every query it holds.
Within(q) ==
    LET held == {q.with[i].query : i \in DOMAIN q.with} \cup ToSet(q.subs)
                \cup UNION {ToSet(q.from[i].held) \cup QueriesOf(q.from[i].args) :
                              i \in DOMAIN q.from}
    IN  {q} \cup UNION {Within(h) : h \in held}

\* The calls of a tree, and the names its WITH clauses declare.
CallsOf(q) ==
    UNION {{h.from[i] : i \in {i \in DOMAIN h.from : h.from[i].is = "call"}} : h \in Within(q)}
Declared(q) == UNION {{Lower(h.with[i].name) : i \in DOMAIN h.with} : h \in Within(q)}

-----------------------------------------------------------------------------
(* The words of a statement.                                               *)
W(word) == [word |-> word, query |-> << >>]
Word(words) == [i \in DOMAIN words |-> W(words[i])]
QueryWords(q) ==
    IF q.from # << >> /\ q.from[1].is = "pivot" THEN Word(<<"pivot", q.from[1].name, "on", "a">>)
    ELSE <<W("select"), [word |-> "query", query |-> <<q>>]>>

\* DuckDB's parse of a text that may be a query: its tree, if it gives one.
RECURSIVE TreeOf(_)
TreeOf(s) ==
    IF s = << >> THEN << >>
    ELSE IF Len(s) = 2 /\ s[1].word = "select" /\ s[2].query # << >> THEN s[2].query
    ELSE IF Len(s) = 2 /\ s[1].word = "select" THEN <<NoQuery>>
    ELSE IF s[1].word = "select" /\ s[2].word = "("
    THEN <<Query(<< >>, << >>, TreeOf(SubSeq(s, 3, Len(s) - 1)))>>
    ELSE IF s[1].word = "(" THEN TreeOf(SubSeq(s, 2, Len(s) - 1))
    ELSE IF s[1].word = "values" THEN <<NoQuery>> ELSE << >>

Names   == {"t", "T", "u", "a", "c", "v", "s", "x"}
Keyword == {"if", "not", "exists", "as", "or", "on", "into", "by", "to", "join", "using"}
Strings == {"'d.csv'", "'d/*'", "'http://d'", "'no'"}
Unquoted(word) == CHOOSE p \in Paths \cup {"no"} :
    word = CASE p = "d.csv" -> "'d.csv'" [] p = "d/*" -> "'d/*'" [] p = "no" -> "'no'" [] OTHER -> "'http://d'"
OptionNames == {"PARTITION_BY", "PER_THREAD_OUTPUT", "FILE_SIZE_BYTES", "HEADER"}

(* Cursor: what is left of the words.                                      *)
Is(s, i, kw) == i \in DOMAIN s /\ s[i].word = kw
From(s, i)   == SubSeq(s, i, Len(s))
Eats(s, kws) == \A i \in DOMAIN kws : Is(s, i, kws[i])
eat_all(s, kws) == IF Eats(s, kws) THEN From(s, Len(kws) + 1) ELSE s
EatAny(s, kws)  == IF \E kw \in kws : Is(s, 1, kw) THEN From(s, 2) ELSE s

IsIdent(s) == s # << >> /\ s[1].word \in Names \cup Keyword \cup OptionNames
                          \cup {"true", "false", "select", "values", "from", "with", "returning"}
IsString(s) == s # << >> /\ s[1].word \in Strings

\* name: one part, or schema.name.
HasName(s) == IsIdent(s)
Parts(s)   == IF Is(s, 2, ".") THEN 3 ELSE 1
NameOf(s)  == s[Parts(s)].word
PastName(s) == From(s, Parts(s) + 1)

DepthAt(s, i) == Cardinality({k \in 1..i : s[k].word = "("})
                   - Cardinality({k \in 1..i : s[k].word = ")"})
\* group: where the group at the cursor closes.
CloseOf(s) == Min({i \in DOMAIN s : s[i].word = ")" /\ DepthAt(s, i) = 0})
Inside(s)  == SubSeq(s, 2, CloseOf(s) - 1)
PastGroup(s) == From(s, CloseOf(s) + 1)
SkipGroup(s) == IF Is(s, 1, "(") THEN PastGroup(s) ELSE s

rest_until_insert_tail(s) ==
    LET tails == {i \in DOMAIN s : DepthAt(s, i) = 0
                    /\ (s[i].word = "returning" \/ (s[i].word = "on" /\ Is(s, i + 1, "conflict")))}
    IN  IF tails = {} THEN s ELSE SubSeq(s, 1, Min(tails) - 1)

-----------------------------------------------------------------------------
(* frame: what the words make certain.                                     *)
Frame(form, reads, produces, query, options) ==
    [form |-> form, reads |-> reads, produces |-> produces, query |-> query, options |-> options]
Unread == Frame("unread", {}, {}, << >>, {})
no_data == Frame("no data", {}, {}, << >>, {})
NO_DATA == {"install", "load", "pragma", "reset", "use", "checkpoint", "begin", "commit",
            "rollback", "abort"}

create(s0) ==
    LET s1 == EatAny(eat_all(s0, <<"or", "replace">>), {"temp", "temporary", "persistent"})
        s2 == eat_all(From(s1, 2), <<"if", "not", "exists">>)
        s3 == SkipGroup(PastName(s2))
    IN  IF ~(Is(s1, 1, "table") \/ Is(s1, 1, "view")) \/ ~HasName(s2) THEN Unread
        ELSE Frame(s1[1].word, {}, {<<"table", NameOf(s2)>>},
                   IF Is(s3, 1, "as") THEN <<From(s3, 2)>> ELSE << >>, {})

insert(s0) ==
    LET s1 == IF Is(s0, 1, "or") THEN From(s0, 3) ELSE s0
        s2 == From(s1, 2)
        s3 == IF Is(PastName(s2), 1, "as") THEN From(PastName(s2), 3) ELSE PastName(s2)
        opens_query == \E kw \in {"select", "with", "from", "values", "("} : Is(s3, 2, kw)
        s4 == IF opens_query THEN s3 ELSE SkipGroup(s3)
        s5 == IF Is(s4, 1, "by") THEN From(s4, 3) ELSE s4
    IN  IF \/ Is(s0, 1, "or") /\ ~(Is(s0, 2, "replace") \/ Is(s0, 2, "ignore"))
           \/ ~Is(s1, 1, "into") \/ ~HasName(s2)
           \/ Is(s4, 1, "by") /\ ~(Is(s4, 2, "name") \/ Is(s4, 2, "position"))
        THEN Unread
        ELSE Frame("insert", {}, {<<"table", NameOf(s2)>>},
                   IF Eats(s5, <<"default", "values">>) THEN << >>
                   ELSE <<rest_until_insert_tail(s5)>>, {})

\* value and duckdb_copy_option: what the words of an option's value are.
ValueOf(s) ==
    IF s = << >> THEN "absent"
    ELSE IF Len(s) = 1
    THEN CASE s[1].word \in {"true", "false", "0", "1", "'no'"} -> s[1].word
           [] OTHER -> "other"
    ELSE IF s[1].word = "(" /\ CloseOf(s) = Len(s) THEN IF Len(s) = 2 THEN "empty list" ELSE "other"
    ELSE "other"

\* copy_options, each option one group of words up to a comma.
copy_options(s0) ==
    LET s    == eat_all(s0, <<"with">>)
        list == Inside(s)
        cuts == {0, Len(list) + 1} \cup {i \in DOMAIN list : list[i].word = "," /\ DepthAt(list, i) = 0}
        Next(i) == Min({k \in cuts : k > i})
    IN  IF ~Is(s, 1, "(") \/ list = << >> THEN {}
        ELSE {<<list[i + 1].word, ValueOf(SubSeq(list, i + 2, Next(i) - 1))>> :
                 i \in cuts \ {Len(list) + 1}}

copy(s) ==
    LET s1 == SkipGroup(PastName(s))
        s2 == PastGroup(s)
    IN  IF ~HasName(s)
        THEN IF Is(s2, 1, "to") /\ IsString(From(s2, 2))
             THEN Frame("copy", {}, {<<"file", Unquoted(s2[2].word)>>}, <<Inside(s)>>,
                        copy_options(From(s2, 3)))
             ELSE Unread
        ELSE IF ~IsString(From(s1, 2)) THEN Unread
        ELSE IF Is(s1, 1, "to")
        THEN Frame("copy", {<<"table", NameOf(s)>>}, {<<"file", Unquoted(s1[2].word)>>}, << >>,
                   copy_options(From(s1, 3)))
        ELSE IF Is(s1, 1, "from")
        THEN Frame("copy", {<<"file", Unquoted(s1[2].word)>>}, {<<"table", NameOf(s)>>}, << >>, {})
        ELSE Unread

pivot(s) ==
    LET named == HasName(s)
        s1 == IF named THEN PastName(s) ELSE IF IsString(s) THEN From(s, 2) ELSE PastGroup(s)
        s2 == EatAny(s1, {"as"})
        ons == Is(s1, 1, "on") \/ (IsIdent(s2) /\ Is(s2, 2, "on"))
    IN  IF (named /\ Is(s1, 1, "(")) \/ ~ons THEN Unread
        ELSE Frame("pivot", IF named THEN {<<"table", NameOf(s)>>}
                            ELSE IF IsString(s) THEN {<<"file", Unquoted(s[1].word)>>} ELSE {},
                   {}, IF named \/ IsString(s) THEN << >> ELSE <<Inside(s)>>, {})

set(s) ==
    IF ~Is(s, 1, "variable") THEN no_data
    ELSE IF ~(Is(s, 3, "=") \/ Is(s, 3, "to")) THEN Unread
    ELSE Frame("set variable", {}, {}, <<<<W("select")>> \o From(s, 4)>>, {})

frame(s) ==
    CASE s[1].word = "create" -> create(From(s, 2))
      [] s[1].word = "insert" -> insert(From(s, 2))
      [] s[1].word = "copy"   -> copy(From(s, 2))
      [] s[1].word \in {"pivot", "unpivot", "pivot_wider", "pivot_longer"} -> pivot(From(s, 2))
      [] s[1].word = "set"    -> set(From(s, 2))
      [] s[1].word \in NO_DATA \cup {"force"} -> no_data
      [] OTHER -> Unread

\* read_statement: the frame, with the tree of the statement or of its query.
Statement(form, reads, produces, query, options) ==
    [form |-> form, reads |-> reads, produces |-> produces, options |-> options,
     calls |-> CallsOf(query), with |-> Declared(query)]

Framed(f, form, query) ==
    Statement(form, f.reads \cup visit(query, {}), f.produces, query, f.options)
HeldBy(f) == IF f.query = << >> THEN << >> ELSE TreeOf(f.query[1])
\* held: the tree of the query the frame holds, if DuckDB gives one.
ReadFrame(f, parsed, held) ==
    IF ~parsed THEN Framed(f, "not parsed", NoQuery)
    ELSE IF f.query = << >> THEN Framed(f, f.form, NoQuery)
    ELSE IF held = << >> THEN Framed(f, "unread", NoQuery)
    ELSE Framed(f, f.form, held[1])
ReadAs(f, parsed) == ReadFrame(f, parsed, HeldBy(f))

read_statement(words, parsed) ==
    LET own == IF parsed THEN TreeOf(words) ELSE << >>
    IN  IF own # << >> THEN Statement("query", visit(own[1], {}), {}, own[1], {})
        ELSE ReadAs(frame(words), parsed)
=============================================================================
