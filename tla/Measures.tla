-------------------------------- MODULE Measures --------------------------------
(***************************************************************************)
(* What is measured of a table without a run (inspect.rs): its rows and    *)
(* their nulls, a profile of a sample copied for FineType, its validation  *)
(* against a schema; and the values behind a drifted column a gate refuses *)
(* (operator.rs).                                                          *)
(*                                                                         *)
(* A table is a sequence of rows, a row a sequence of cells.  The schema   *)
(* admits the cells of Admitted and passes over the columns of Nested.     *)
(***************************************************************************)
EXTENDS Integers, Sequences, SequencesExt, FiniteSetsExt, TLC

V == INSTANCE Inspection

Columns == 2
Null == "null"
Admitted == {"a", Null}
Nested == {2}
Count(rows, Holds(_)) == Cardinality({i \in DOMAIN rows : Holds(rows[i])})
TableFound(file, found) == V!open_read_only(file) = "opened" /\ found

-----------------------------------------------------------------------------
SAMPLE_ROWS == 1
describe_in(rows) ==
    [row_count |-> Len(rows),
     null_counts |-> [c \in 1..Columns |-> Len(rows) - Count(rows, LAMBDA r : r[c] # Null)],
     sample |-> SubSeq(rows, 1, Min({SAMPLE_ROWS, Len(rows)}))]

(* A profile: a scratch directory is made beside those that stand, the     *)
(* rows are copied to it, FineType reads them, and it is removed.  `fails` *)
(* names the step that does not succeed.                                   *)
DEFAULT_SAMPLE_SIZE == 2
Attempts == 1..2
\* Mutant of ScratchDir: a directory that stands is used for it.
ScratchDir_reused(standing) == <<1>>
ScratchDir(standing) ==
    IF Attempts \subseteq standing THEN <<>> ELSE <<Min(Attempts \ standing)>>
\* FineType samples its own default of the rows it is given, or the size asked.
FineType(csv, size) ==
    SubSeq(csv, 1, Min({Len(csv), IF size = <<>> THEN 2 ELSE size[1]}))
Profiled(is, n, of, id, standing) ==
    [is |-> is, rows_profiled |-> n, of |-> of, id |-> id, standing |-> standing]
profile_table(file, found, rows, format, size, fails, standing) ==
    LET limit == IF size = <<>> THEN DEFAULT_SAMPLE_SIZE ELSE size[1]
        csv == SubSeq(rows, 1, Min({limit, Len(rows)}))
        scratch == ScratchDir(standing)
        Refused(left) == Profiled("refused", 0, <<>>, "none", left)
    IN  IF size = <<0>> \/ ~TableFound(file, found) THEN Refused(standing)
        ELSE IF csv = <<>>
        THEN IF format = "json-schema" THEN Refused(standing)
             ELSE Profiled("told", 0, <<>>, "table", standing)
        ELSE IF fails = "version" \/ scratch = <<>> THEN Refused(standing)
        ELSE IF fails \in {"copy", "profile"} THEN Refused(standing \ {scratch[1]})
        ELSE Profiled("told", Len(csv), FineType(csv, size), "table", standing \ {scratch[1]})

(* Validation: the table is found, the database is let go and attached     *)
(* again, when it may have been taken, changed or emptied meanwhile.       *)
resolve_finetype_ext(configured, there) == configured /\ there
open_finetype_connection(loads) == loads
ft_validate_report(rows) ==
    [c \in 1..Columns |->
        IF c \in Nested THEN [total |-> 0, rejects |-> 0]
        ELSE [total |-> Len(rows), rejects |-> Count(rows, LAMBDA r : r[c] \notin Admitted)]]
validate_table(inside, schema, extension, file, found, again) ==
    IF \/ ~inside \/ ~schema \/ ~resolve_finetype_ext(extension.configured, extension.there)
       \/ ~TableFound(file, found) \/ ~open_finetype_connection(extension.loads)
       \/ again.is # "free"
    THEN [is |-> "refused", valid |-> FALSE, columns |-> <<>>]
    ELSE LET report == ft_validate_report(again.rows)
         IN  [is |-> "told", valid |-> \A c \in DOMAIN report : report[c].rejects = 0, columns |-> report]

(* The values behind a drifted column, the most frequent first.            *)
DRIFT_SAMPLE_LIMIT == 2
sample_offending_values(rows, column, limit) ==
    LET bad == {rows[i][column] : i \in DOMAIN rows} \ Admitted
        Rows(v) == Count(rows, LAMBDA r : r[column] = v)
        ordered == SetToSortSeq(bad, LAMBDA v, w : Rows(v) > Rows(w))
    IN  [values |-> [i \in 1..Min({limit, Len(ordered)}) |-> [v |-> ordered[i], n |-> Rows(ordered[i])]],
         distinct_total |-> Cardinality(bad), limit |-> limit]
render(sample) ==
    [told |-> IF sample.values = <<>> THEN "none re-derived" ELSE "values",
     cut |-> sample.values # <<>> /\ Len(sample.values) < sample.distinct_total,
     values |-> {sample.values[i].v : i \in DOMAIN sample.values}]

(***************************************************************************)
(* What is told of a table is of all its rows, or of as many as it says.   *)
(* FineType reads every row copied for it, and never an empty table; the   *)
(* directories that stood stand and none is left.  A table told valid has  *)
(* no row the schema refuses in a column it looks at, as the table was     *)
(* when it was validated; a list of a column's bad values that is not all  *)
(* of them says so, and none left out is more frequent than one shown.     *)
(***************************************************************************)
DescribedWhole(rows) ==
    LET told == describe_in(rows)
    IN  /\ \A c \in 1..Columns : told.null_counts[c] = Count(rows, LAMBDA r : r[c] = Null)
        /\ IsPrefix(told.sample, rows) /\ told.sample = <<>> => rows = <<>>
ProfiledAsTold(file, found, rows, format, size, fails, standing) ==
    LET told == profile_table(file, found, rows, format, size, fails, standing)
    IN  /\ told.standing = standing
        /\ told.is = "told" => /\ told.rows_profiled = Len(told.of) /\ IsPrefix(told.of, rows)
                               /\ told.of = <<>> => rows = <<>> /\ format = "json"
                               /\ size = <<>> \/ Len(rows) <= size[1] => Len(told.of) = Min({Len(rows),
                                      IF size = <<>> THEN DEFAULT_SAMPLE_SIZE ELSE size[1]})
        /\ file = "free" /\ found /\ fails = "none" /\ size # <<0>> /\ ~(Attempts \subseteq standing) =>
              (told.is = "refused") = (rows = <<>> /\ format = "json-schema")
Passes(rows) == \A i \in DOMAIN rows : \A c \in (1..Columns) \ Nested : rows[i][c] \in Admitted
ValidAsTold(inside, schema, extension, file, found, again) ==
    LET told == validate_table(inside, schema, extension, file, found, again)
    IN  /\ told.valid => told.is = "told" /\ Passes(again.rows)
        /\ told.is = "told" /\ ~told.valid => \E c \in DOMAIN told.columns : told.columns[c].rejects > 0
        /\ told.is = "told" => inside /\ schema /\ file = "free" /\ found /\ told.valid = Passes(again.rows)
DriftIsShown(rows, column) ==
    LET sample == sample_offending_values(rows, column, DRIFT_SAMPLE_LIMIT)
        shown == render(sample)
        bad == {rows[i][column] : i \in DOMAIN rows} \ Admitted
        Rows(v) == Count(rows, LAMBDA r : r[column] = v)
    IN  /\ shown.values \subseteq bad
        /\ shown.cut = (shown.values # bad)
        /\ \A v \in shown.values, w \in bad \ shown.values : Rows(w) <= Rows(v)
        /\ (shown.told = "values") = (ft_validate_report(rows)[column].rejects > 0)
=============================================================================
