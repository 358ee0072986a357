------------------------------ MODULE Inspection ------------------------------
(***************************************************************************)
(* Reading a Protocol's database without a run: which table a name means,  *)
(* the rows a query returns and the values told, and what a panel reads    *)
(* that is not there (inspect.rs, panel_check.rs).                         *)
(*                                                                         *)
(* A name is a sequence of signs, "." among them.  A database is a         *)
(* function from <<schema, table>> to the set of its columns; DuckDB has   *)
(* no two names that differ by case alone.                                 *)
(***************************************************************************)
EXTENDS Integers, Sequences, SequencesExt, FiniteSetsExt, TLC

None == "none"
main == <<"main">>

Lower(name) == [i \in DOMAIN name |-> IF name[i] = "T" THEN "t" ELSE name[i]]
Dots(name) == {i \in DOMAIN name : name[i] = "."}
same(a, b) == Lower(a) = Lower(b)

\* open_read_only: a database that is not made yet, or that another process
\* holds for writing, is refused.
open_read_only(file) == IF file \in {"absent", "held"} THEN "refused" ELSE "opened"

-----------------------------------------------------------------------------
(* Which table a name means.                                               *)
Found(entry) == [is |-> "found", of |-> {entry}]
display(entry) == IF entry[1] = main THEN entry[2] ELSE entry[1] \o <<".">> \o entry[2]

\* Mutant of resolve: the one of several schemas that is met first.
resolve_first(entries, table) ==
    LET candidates == {e \in entries : same(e[2], table)}
        whole == {e \in entries : Dots(table) # {} /\ same(display(e), table) /\ e[1] # main}
    IN  IF whole # {} THEN Found(CHOOSE e \in whole : TRUE)
        ELSE IF candidates = {} THEN [is |-> "none", of |-> {}]
        ELSE Found(CHOOSE e \in candidates : TRUE)

resolve(entries, table) ==
    LET dot == IF Dots(table) = {} THEN 0 ELSE Min(Dots(table))
        whole == {e \in entries : /\ dot # 0 /\ same(e[1], SubSeq(table, 1, dot - 1))
                                  /\ same(e[2], SubSeq(table, dot + 1, Len(table)))}
        candidates == {e \in entries : same(e[2], table)}
        mine == {e \in candidates : e[1] = main}
    IN  CASE whole # {} -> Found(CHOOSE e \in whole : TRUE)
          [] whole = {} /\ mine # {} -> Found(CHOOSE e \in mine : TRUE)
          [] OTHER -> IF Cardinality(candidates) = 1 THEN Found(CHOOSE e \in candidates : TRUE)
                      ELSE [is |-> IF candidates = {} THEN "none" ELSE "several", of |-> candidates]

(***************************************************************************)
(* A name stands for the table DuckDB finds under it, in main or in the    *)
(* schema it names; one DuckDB finds nowhere stands for the only table of  *)
(* that name in some other schema, and never for one of several.  A table  *)
(* can be asked for by the name it is listed under, when no name has a     *)
(* dot of its own.                                                         *)
(***************************************************************************)
NamesResolve(db, table) ==
    LET entries == DOMAIN db
        answer == resolve(entries, table)
        parts(e) == same(display(e), table) \/ same(e[1] \o <<".">> \o e[2], table)
        own == {e \in entries : parts(e)}
        plain == \A e \in entries : Dots(e[1]) = {} /\ Dots(e[2]) = {}
    IN  /\ answer.is = "found" =>
             \E e \in answer.of : parts(e) \/ (same(e[2], table) /\ \A o \in entries : same(o[2], table) => o = e)
        /\ plain /\ own # {} => answer.is = "found" /\ answer.of \subseteq own
        /\ answer.is = "several" => Cardinality(answer.of) > 1 /\ own = {}
        /\ plain => \A e \in entries : resolve(entries, display(e)) = Found(e)

-----------------------------------------------------------------------------
(* A query: statements [is, rows, later, fails], rows being what it        *)
(* returns, later how many it returns when it is run again to be counted.  *)
MAX_LIMIT == 3

gate(sql) == sql # << >> /\ \A i \in DOMAIN sql : sql[i].is = "select"

run_statement(st, limit) ==
    LET fetched == SubSeq(st.rows, 1, Min({limit + 1, Len(st.rows)}))
        capped == Len(fetched) > limit
    IN  IF st.fails THEN [is |-> "error", rows |-> << >>, capped |-> FALSE, held_back |-> 0]
        ELSE [is |-> "rows", rows |-> IF capped THEN SubSeq(fetched, 1, limit) ELSE fetched, capped |-> capped,
              held_back |-> IF capped THEN Max({st.later - limit, 0}) ELSE 0]

query(file, sql, limit) ==
    IF limit > MAX_LIMIT \/ open_read_only(file) = "refused" \/ ~gate(sql)
    THEN [is |-> "refused", results |-> << >>]
    ELSE [is |-> "ran", results |-> [i \in DOMAIN sql |-> run_statement(sql[i], limit)]]

failed_statements(answer) == {i \in DOMAIN answer.results : answer.results[i].is = "error"}

(* A cell: a number of a type, and the text DuckDB makes of it.  EXACT     *)
(* stands for 2^53: past it a double holds the even integers alone.        *)
EXACT == 4
Double(n) == IF -EXACT <= n /\ n <= EXACT THEN n ELSE n - (n % 2)

Written(is, n) == [is |-> is, n |-> n]
json_value_sql(n, type) ==
    CASE type = "HUGEINT" -> Written(IF -EXACT <= n /\ n <= EXACT THEN "number" ELSE "string", n)
      [] type = "UHUGEINT" -> Written(IF n <= EXACT THEN "number" ELSE "string", n)
      [] type = "DECIMAL(18,0)" -> Written("string", n)
      [] OTHER -> Written("number", n)
ReadBack(cell) == IF cell.is = "number" THEN Double(cell.n) ELSE cell.n

(***************************************************************************)
(* Either the whole text is refused and nothing of it runs, or each        *)
(* statement is answered in its place, one that fails leaving the others'  *)
(* answers; a capped answer and what it holds back are all the rows, when  *)
(* the data stays as it is.  An integer too wide for 64 bits, or a wide    *)
(* decimal, is told so that a reader who takes numbers for doubles has it. *)
(***************************************************************************)
QueriesAreAnswered(file, sql, limit) ==
    LET answer == query(file, sql, limit) IN
    /\ answer.is = "refused" <=> \/ limit > MAX_LIMIT \/ file # "free" \/ sql = << >>
                                 \/ \E i \in DOMAIN sql : sql[i].is # "select"
    /\ answer.is = "ran" =>
         /\ failed_statements(answer) = {i \in DOMAIN sql : sql[i].fails}
         /\ \A i \in DOMAIN sql \ failed_statements(answer) :
              LET told == answer.results[i] IN
              /\ IsPrefix(told.rows, sql[i].rows) /\ Len(told.rows) <= limit
              /\ told.capped <=> told.rows # sql[i].rows
              /\ sql[i].later = Len(sql[i].rows) => Len(told.rows) + told.held_back = Len(sql[i].rows)
    /\ \A n \in -7..7, type \in {"HUGEINT", "UHUGEINT", "DECIMAL(18,0)"} :
         (type = "UHUGEINT" => n >= 0) => ReadBack(json_value_sql(n, type)) = n

-----------------------------------------------------------------------------
(* A panel: a node [plot, children, data], plot being << >> or one list of *)
(* marks; a mark is [from, channels], channels a function from the names   *)
(* of channels to what they are set to.                                    *)
CHANNELS == {"x", "y", "fill", "stroke"}
COLOUR_CHANNELS == {"fill", "stroke"}
COLOUR_NAMES == {<<"steelblue">>}
is_colour(value) == value[1] \in {"#", "rgb("} \/ Lower(value) \in COLOUR_NAMES

bare(name) == IF Dots(name) = {} THEN name ELSE SubSeq(name, Max(Dots(name)) + 1, Len(name))

\* Catalogue::load: the database's columns, or the names the steps make.
Database(db) == [is |-> "database", tables |-> [k \in {Lower(e[1] \o <<".">> \o e[2]) : e \in DOMAIN db} |->
    {Lower(c) : c \in db[CHOOSE e \in DOMAIN db : Lower(e[1] \o <<".">> \o e[2]) = k]}]]
Produced(names) == [is |-> "produced", tables |-> [n \in {bare(name) : name \in names} |-> {}]]

Missing(is, from, column) == [is |-> is, from |-> from, column |-> column]

check(catalogue, from, columns) ==
    LET wanted == Lower(from)
        inMain == <<"main", ".">> \o wanted
        elsewhere == {k \in DOMAIN catalogue.tables : bare(k) = wanted}
        found == CASE catalogue.is = "produced" -> {bare(wanted)} \cap DOMAIN catalogue.tables
                   [] Dots(wanted) # {} -> {wanted} \cap DOMAIN catalogue.tables
                   [] OTHER -> IF inMain \in DOMAIN catalogue.tables THEN {inMain}
                               ELSE IF elsewhere = {} THEN {} ELSE {CHOOSE k \in elsewhere : TRUE}
    IN  CASE Cardinality(Dots(wanted)) >= 2 -> {}
          [] found = {} -> {Missing("table", from, << >>)}
          [] OTHER -> IF catalogue.is = "produced" THEN {}
                      ELSE {Missing("column", from, c) :
                              c \in {x \in columns : \A k \in found : Lower(x) \notin catalogue.tables[k]}}

\* Mutant of marks: the plots of a panel set beside or under another.
RECURSIVE marks_shallow(_)
marks_shallow(node) ==
    (IF node.plot = << >> THEN << >> ELSE <<node.plot[1]>>)
        \o FlattenSeq([i \in DOMAIN node.children |->
              IF node.children[i].plot = << >> THEN << >> ELSE node.children[i].plot])

\* The plots of a node and of what it sets side by side, each a list of marks.
RECURSIVE marks(_)
marks(node) ==
    (IF node.plot = << >> THEN << >> ELSE <<node.plot[1]>>)
        \o FlattenSeq([i \in DOMAIN node.children |-> marks(node.children[i])])

ColumnsRead(mark) ==
    {mark.channels[c] : c \in {x \in DOMAIN mark.channels \cap CHANNELS :
        /\ mark.channels[x][1] # "$"
        /\ ~(x \in COLOUR_CHANNELS /\ is_colour(mark.channels[x]))}}

findings_in(panel, catalogue) ==
    LET plots == marks(panel)
        all == UNION {ToSet(plots[i]) : i \in DOMAIN plots}
    IN  (IF plots = << >> THEN {Missing("plot", << >>, << >>)} ELSE {})
        \cup UNION {check(catalogue, m.from, ColumnsRead(m)) :
                      m \in {x \in all : x.from # << >> /\ x.from \notin panel.data}}

(***************************************************************************)
(* What stands for the panel's reader: each mark, however deep, reads a    *)
(* table by the name DuckDB would look it up by, main first.  A panel is   *)
(* told of each table that is nowhere and each column its table lacks, and *)
(* of nothing that is there, where no name has a dot of its own; and what  *)
(* it is told of before the first run, it is told of after it.             *)
(***************************************************************************)
RECURSIVE Nodes(_)
Nodes(node) == {node} \cup UNION {Nodes(node.children[i]) : i \in DOMAIN node.children}

PanelsAreChecked(panel, db) ==
    LET told == findings_in(panel, Database(db))
        read == {m \in UNION {IF n.plot = << >> THEN {} ELSE ToSet(n.plot[1]) : n \in Nodes(panel)} :
                    m.from # << >> /\ m.from \notin panel.data /\ Cardinality(Dots(m.from)) < 2}
        Named(from) == {e \in DOMAIN db : same(e[2], from) \/ same(e[1] \o <<".">> \o e[2], from)}
        InMain(from) == {e \in Named(from) : same(<<"main", ".">> \o e[2], from) \/ (e[1] = main /\ same(e[2], from))}
        Mine(from) == IF InMain(from) # {} THEN InMain(from) ELSE Named(from)
        Lacks(e, column) == \A c \in db[e] : ~same(c, column)
        plain == \A e \in DOMAIN db : Dots(e[1]) = {} /\ Dots(e[2]) = {}
        before == findings_in(panel, Produced({Lower(e[1] \o <<".">> \o e[2]) : e \in DOMAIN db}))
    IN  plain =>
        /\ before \subseteq told
        /\ \A m \in read :
             /\ Mine(m.from) = {} <=> Missing("table", m.from, << >>) \in told
             /\ \A column \in ColumnsRead(m) :
                  Mine(m.from) # {} /\ (\A e \in Mine(m.from) : Lacks(e, column))
                    => Missing("column", m.from, column) \in told
        /\ \A f \in told : f.is # "plot" =>
             \E m \in read : /\ m.from = f.from
                             /\ f.is = "column" => /\ f.column \in ColumnsRead(m)
                                                   /\ \E e \in Mine(m.from) : Lacks(e, f.column)
        /\ Missing("plot", << >>, << >>) \in told <=> \A n \in Nodes(panel) : n.plot = << >>
=============================================================================
