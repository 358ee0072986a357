------------------------------- MODULE Contract -------------------------------
(***************************************************************************)
(* What a run leaves to read: the assets and steps of its contract, told   *)
(* from the graph of the manifest and measured on the disk and in the      *)
(* database, the parameters and settings without their secrets, the name   *)
(* and age of the contract, and the report written from it (contract.rs,   *)
(* asset.rs, report.rs, protocol_read.rs).                                 *)
(*                                                                         *)
(* A manifest is [steps, assets]; a step is [name, sql, op, produces,      *)
(* depends_on], sql being << >> or what its file reads as.  A world is     *)
(* what stands when the run ends: [files, trees, sidecars, tables, db],    *)
(* each a function from a spelling to what is there.                       *)
(***************************************************************************)
EXTENDS Integers, Sequences, SequencesExt, FiniteSetsExt, TLC

None == "none"

(* Names: three in two spellings, a URL, a pattern, a folder, and a table  *)
(* whose name has to be quoted.                                            *)
Lowered == "T" :> "t" @@ "D.csv" :> "d.csv"
Lower(raw) == IF raw \in DOMAIN Lowered THEN Lowered[raw] ELSE raw

default_kind_for_declared_name(raw) ==
    CASE raw = "http://d" -> "remote" [] raw = "*.csv" -> "pattern"
      [] raw = "out/" -> "directory" [] OTHER -> "file"

is_simple_ident(name) == name \in {"t", "u"}

-----------------------------------------------------------------------------
(* AssetGraph::build: every declaration of a step, in the order recorded.  *)
Declared(side, raws, kinds) ==
    [i \in DOMAIN raws |-> [side |-> side, raw |-> raws[i], kind |-> kinds[raws[i]]]]

ByName(side, raws) ==
    Declared(side, raws, [raw \in ToSet(raws) |-> default_kind_for_declared_name(raw)])

SqlAssets(step) ==
    IF step.sql = << >> \/ step.sql[1].is # "read" THEN << >>
    ELSE LET outs == step.sql[1].outputs
             ins == step.sql[1].inputs
             kinds == [raw \in ToSet(outs \o ins) |-> IF raw \in step.sql[1].files THEN "file" ELSE "table"]
         IN  Declared("produces", outs, kinds) \o Declared("reads", ins, kinds)

OpAssets(step) ==
    IF step.op = << >> \/ ~step.op[1].takes THEN << >>
    ELSE ByName("produces", step.op[1].produces) \o ByName("reads", step.op[1].reads)

Overrides(m, name) ==
    FlattenSeq([i \in DOMAIN m.assets |->
        IF m.assets[i].produced_by # name THEN << >>
        ELSE ByName("produces", <<m.assets[i].name>>) \o ByName("reads", m.assets[i].depends_on)])

Declarations(m, k) ==
    SqlAssets(m.steps[k]) \o OpAssets(m.steps[k]) \o ByName("produces", m.steps[k].produces)
        \o ByName("reads", m.steps[k].depends_on) \o Overrides(m, m.steps[k].name)

\* StepAssets::record: the first kind told of a name stays.
record(ds) ==
    LET Named(side) == {Lower(d.raw) : d \in {x \in ToSet(ds) : x.side = side}} IN
    [produces |-> Named("produces"), reads |-> Named("reads"),
     declared_case |-> [n \in {Lower(d.raw) : d \in ToSet(ds)} |->
         {d.raw : d \in {x \in ToSet(ds) : Lower(x.raw) = n}}],
     declared_kind |-> [n \in {Lower(d.raw) : d \in ToSet(ds)} |->
         SelectSeq(ds, LAMBDA x : Lower(x.raw) = n)[1].kind]]

\* The steps the graph warns of: it could not read them, or not all they do.
Warned(m) ==
    {m.steps[k].name : k \in {i \in DOMAIN m.steps :
        LET s == m.steps[i] IN
        \/ s.sql # << >> /\ s.sql[1].is \in {"missing", "refused"}
        \/ s.op # << >> /\ ~s.op[1].takes
        \/ /\ s.sql # << >> /\ s.sql[1].is = "read" /\ s.sql[1].calls
           /\ s.produces = << >> /\ s.depends_on = << >>
           /\ \A j \in DOMAIN m.assets : m.assets[j].produced_by # s.name}}

StepNames(m) == {m.steps[k].name : k \in DOMAIN m.steps}

build(m) ==
    [steps |-> [s \in StepNames(m) |->
        record(Declarations(m, CHOOSE k \in DOMAIN m.steps : m.steps[k].name = s))],
     warnings |-> Warned(m)]

(* validate_no_case_collisions: the spellings of a name its declarations   *)
(* carry, and the ones of them a producer carries.                         *)
Spellings(g, n, sides) ==
    UNION {IF \E side \in sides : n \in g.steps[s][side] THEN g.steps[s].declared_case[n] ELSE {} :
             s \in DOMAIN g.steps}

validate_no_case_collisions(g) ==
    \A n \in UNION {g.steps[s].produces \cup g.steps[s].reads : s \in DOMAIN g.steps} :
        \/ Cardinality(Spellings(g, n, {"produces"})) = 1
        \/ Cardinality(Spellings(g, n, {"produces", "reads"})) <= 1

-----------------------------------------------------------------------------
(* Measures: bytes, rows and hash, of which each may be absent.            *)
Measure(bytes, rows, hash) == [bytes |-> bytes, rows |-> rows, hash |-> hash]
Unmeasured == Measure(None, None, None)

At(things, name) == IF name \in DOMAIN things THEN things[name] ELSE None

\* A fetch's sidecar tells the hash, when it has one, whether or not the file is there.
measure_file(world, name) ==
    Measure(At(world.files, name), None,
            IF At(world.sidecars, name) # None THEN world.sidecars[name] ELSE At(world.files, name))

measure_directory(world, name) == Measure(At(world.trees, name), None, At(world.trees, name))

\* The size is looked up under the name as it is spelt, the rows are not.
measure_table(world, name) ==
    LET of == {raw \in DOMAIN world.tables : Lower(raw) = name} IN
    IF ~world.db \/ ~is_simple_ident(name) \/ of = {} THEN Unmeasured
    ELSE LET rows == world.tables[CHOOSE raw \in of : TRUE]
         IN  Measure(At(world.tables, name), rows, rows)

FirstOf(m, those) ==
    LET names == SelectSeq([k \in DOMAIN m.steps |-> m.steps[k].name], LAMBDA s : s \in those)
    IN  IF names = << >> THEN None ELSE names[1]

\* Mutant of AssetKind: whoever reads an asset knows best what it is.
AssetKind_read(m, g, name) ==
    LET makers == {s \in DOMAIN g.steps : name \in g.steps[s].produces}
        readers == {s \in DOMAIN g.steps : name \in g.steps[s].reads}
        tells == IF FirstOf(m, readers) # None THEN FirstOf(m, readers) ELSE FirstOf(m, makers)
        kind == g.steps[tells].declared_kind[name]
    IN  IF kind \in {"pattern", "table"}
        THEN IF FirstOf(m, makers) = None THEN "source" ELSE "table"
        ELSE kind

AssetKind(m, g, name) ==
    LET makers == {s \in DOMAIN g.steps : name \in g.steps[s].produces}
        readers == {s \in DOMAIN g.steps : name \in g.steps[s].reads}
        tells == IF FirstOf(m, makers) # None THEN FirstOf(m, makers) ELSE FirstOf(m, readers)
        kind == g.steps[tells].declared_kind[name]
    IN  IF kind \in {"pattern", "table"}
        THEN IF FirstOf(m, makers) = None THEN "source" ELSE "table"
        ELSE kind

AssetEntry(m, g, world, name) ==
    LET makers == {s \in DOMAIN g.steps : name \in g.steps[s].produces}
        readers == {s \in DOMAIN g.steps : name \in g.steps[s].reads}
        kind == AssetKind(m, g, name)
        measure == CASE kind = "remote" -> Unmeasured
                     [] kind = "file" -> measure_file(world, name)
                     [] kind = "directory" -> measure_directory(world, name)
                     [] OTHER -> measure_table(world, name)
    IN  [id |-> <<kind, name>>, kind |-> kind, name |-> name, bytes |-> measure.bytes,
         path |-> IF kind \in {"file", "directory"} THEN name ELSE None,
         row_count |-> measure.rows, content_hash |-> measure.hash, produced_by |-> FirstOf(m, makers),
         consumed_by |-> SelectSeq([k \in DOMAIN m.steps |-> m.steps[k].name], LAMBDA s : s \in readers)]

build_assets(m, g, world) ==
    {AssetEntry(m, g, world, name) :
       name \in UNION {g.steps[s].produces \cup g.steps[s].reads : s \in DOMAIN g.steps}}

StepKind(step) == IF step.sql # << >> THEN "sql" ELSE IF step.op # << >> THEN "op" ELSE "command"

\* A step the loop did not reach is told as skipped, without a reason.
build_step(m, g, world, outcomes, k) ==
    LET step == m.steps[k]
        fetched == {n \in g.steps[step.name].produces : At(world.sidecars, n) # None}
    IN  [name |-> step.name, kind |-> StepKind(step),
         state |-> IF step.name \in DOMAIN outcomes THEN outcomes[step.name] ELSE "skipped",
         statements |-> IF step.sql = << >> \/ step.sql[1].is # "read" THEN << >>
                        ELSE <<[produces |-> ToSet(step.sql[1].outputs), reads |-> ToSet(step.sql[1].inputs)]>>,
         ingress_meta |-> {world.sidecars[n] : n \in fetched}]

build_contract(m, world, outcomes, run) ==
    [run |-> run, assets |-> build_assets(m, build(m), world),
     steps |-> [k \in DOMAIN m.steps |-> build_step(m, build(m), world, outcomes, k)]]

run_tables(contract) == {<<a.name, a.content_hash>> : a \in {x \in contract.assets : x.kind = "table"}}

-----------------------------------------------------------------------------
(* The report: lines, each [is, text, of]; prose is what a model wrote.    *)
Line(is, text, of) == [is |-> is, text |-> text, of |-> of]

derivation(contract, described) ==
    [k \in DOMAIN contract.steps |->
        LET s == contract.steps[k] IN
        Line("step", <<s.name, s.state, s.name \in described>>,
             {a.name : a \in {x \in contract.assets : x.produced_by = s.name}})]

charts(panels) == <<Line("charts", panels, {})>>

run_section(contract) ==
    <<Line("- Run: ", contract.run, {}),
      Line("assets", << >>, {<<a.id, a.content_hash>> : a \in contract.assets})>>

write_report(prose, contract, described, panels) ==
    prose \o derivation(contract, described) \o charts(panels) \o run_section(contract)

\* report_run: the last line that says which run it is.
report_run(text) ==
    LET said == SelectSeq(text, LAMBDA l : l.is = "- Run: ") IN
    IF said = << >> THEN None ELSE Last(said).text

\* newest_contract: of the ids in a runs folder, which begin with the time.
newest_contract(runs) == Max(runs)

-----------------------------------------------------------------------------
(* The calendar: days since 1970 to a date.                                *)
days_to_date(days) ==
    LET z == days + 719468
        era == z \div 146097
        doe == z - era * 146097
        yoe == (doe - doe \div 1460 + doe \div 36524 - doe \div 146096) \div 365
        doy == doe - (365 * yoe + yoe \div 4 - yoe \div 100)
        mp == (5 * doy + 2) \div 153
        m == IF mp < 10 THEN mp + 3 ELSE mp - 9
    IN  <<yoe + era * 400 + (IF m <= 2 THEN 1 ELSE 0), m, doy - (153 * mp + 2) \div 5 + 1>>

Leap(y) == y % 4 = 0 /\ (y % 100 # 0 \/ y % 400 = 0)
DaysIn(y, m) == CASE m = 2 -> IF Leap(y) THEN 29 ELSE 28 [] m \in {4, 6, 9, 11} -> 30 [] OTHER -> 31
DayAfter(date) ==
    CASE date[3] < DaysIn(date[1], date[2]) -> <<date[1], date[2], date[3] + 1>>
      [] date[3] = DaysIn(date[1], date[2]) /\ date[2] < 12 -> <<date[1], date[2] + 1, 1>>
      [] OTHER -> <<date[1] + 1, 1, 1>>

\* Days are told as the calendar counts them, so that run ids are in the
\* order their runs began (state.rs timestamp_id, contract.rs now_iso).
DaysAreDated(day, date) == days_to_date(day) = date

-----------------------------------------------------------------------------
(* Settings and parameters, and their secrets: a value is [is, text,       *)
(* items, map]; a key is a sequence of words, written in either case.      *)
Value(is, text, items, map) == [is |-> is, text |-> text, items |-> items, map |-> map]
Leaf(text) == Value("leaf", text, << >>, << >>)
REDACTED == Leaf("redacted")

Folded(word) == IF word = "TOKEN" THEN "token" ELSE word
is_secret_key(key) ==
    \E i \in DOMAIN key : Folded(key[i]) \in
        {"secret", "token", "password", "passwd", "credential", "api_key", "apikey", "access_key", "auth"}

\* Mutant of redact_json: a list is left as it is.
RECURSIVE redact_json_maps(_)
redact_json_maps(v) ==
    CASE v.is = "map" -> [v EXCEPT !.map = [k \in DOMAIN v.map |->
                              IF is_secret_key(k) THEN REDACTED ELSE redact_json_maps(v.map[k])]]
      [] OTHER -> v

RECURSIVE redact_json(_)
redact_json(v) ==
    CASE v.is = "map" -> [v EXCEPT !.map = [k \in DOMAIN v.map |->
                              IF is_secret_key(k) THEN REDACTED ELSE redact_json(v.map[k])]]
      [] v.is = "list" -> [v EXCEPT !.items = [i \in DOMAIN v.items |-> redact_json(v.items[i])]]
      [] OTHER -> v

\* Each way into a value and the text at its end.
RECURSIVE Leaves(_)
Leaves(v) ==
    CASE v.is = "leaf" -> {<<<< >>, v.text>>}
      [] v.is = "list" -> UNION {{<<<<<<ToString(i)>>>> \o l[1], l[2]>> : l \in Leaves(v.items[i])} : i \in DOMAIN v.items}
      [] v.is = "map" -> UNION {{<<<<k>> \o l[1], l[2]>> : l \in Leaves(v.map[k])} : k \in DOMAIN v.map}

\* param_entries: what the command line, a dotenv file or the default gives.
param_entries(params, dotenv, cli) ==
    LET From(p) == IF p.name \in DOMAIN cli THEN <<cli[p.name], "cli">>
                   ELSE IF p.name \in DOMAIN dotenv THEN <<dotenv[p.name], "env">>
                   ELSE <<p.default, "default">>
        given == SelectSeq(params, LAMBDA p : From(p)[1] # None)
    IN  [i \in DOMAIN given |->
           [key |-> given[i].name, source |-> From(given[i])[2],
            value |-> IF is_secret_key(given[i].name) THEN "redacted" ELSE From(given[i])[1]]]

(***************************************************************************)
(* SecretsStayOut: what a step was given is told in the contract whole but *)
(* for what stands under a secret's key, at any depth, and nothing under   *)
(* one is told; a secret parameter is told by its name alone.              *)
(***************************************************************************)
SecretsStayOut(v, params, dotenv, cli) ==
    LET Hidden(way) == \E i \in DOMAIN way : is_secret_key(way[i])
        told == Leaves(redact_json(v))
        open == {l \in Leaves(v) : ~Hidden(l[1])}
        entries == param_entries(params, dotenv, cli)
    IN  /\ open \subseteq told
        /\ \A l \in told \ open : Hidden(l[1]) /\ l[2] = "redacted"
        /\ \A i \in DOMAIN entries : is_secret_key(entries[i].key) => entries[i].value = "redacted"

-----------------------------------------------------------------------------
(* RunIsTold, against the manifest and the world themselves.               *)
Sides(m, k, side) == {d \in ToSet(Declarations(m, k)) : d.side = side}
SaysIt(m, k, side, name) == \E d \in Sides(m, k, side) : Lower(d.raw) = name

\* What stands under a name, whatever it is taken for.
Standing(world, name) ==
    {world.files[n] : n \in {x \in DOMAIN world.files : x = name}}
        \cup {world.trees[n] : n \in {x \in DOMAIN world.trees : x = name}}
        \cup {world.tables[n] : n \in {x \in DOMAIN world.tables : Lower(x) = name}}

(***************************************************************************)
(* Each asset is told with its first maker and all its readers; a table or *)
(* a file some step made is told as one, whatever its readers take it for, *)
(* with the content it has when the run ends, and no content is told that  *)
(* stands under no such name.  A sidecar is believed over its file.  The   *)
(* report tells each asset under its step, and says which run it is of,    *)
(* whatever its prose says.                                                *)
(***************************************************************************)
Tells(contract, text, m, world, run) ==
    LET told == contract.assets
        steps == SelectSeq(text, LAMBDA l : l.is = "step")
    IN  validate_no_case_collisions(build(m)) =>
        /\ \A a \in told :
             /\ a.produced_by # None <=> \E k \in DOMAIN m.steps : SaysIt(m, k, "produces", a.name)
             /\ \A k \in DOMAIN m.steps :
                  /\ m.steps[k].name \in ToSet(a.consumed_by) <=> SaysIt(m, k, "reads", a.name)
                  /\ SaysIt(m, k, "produces", a.name) =>
                       \E j \in 1..k : m.steps[j].name = a.produced_by /\ SaysIt(m, j, "produces", a.name)
             /\ a.content_hash # None =>
                  a.content_hash \in Standing(world, a.name) \cup {At(world.sidecars, a.name)}
        /\ \A k \in DOMAIN m.steps : \A d \in Sides(m, k, "produces") :
             LET mine == \A j \in DOMAIN m.steps : j # k => ~SaysIt(m, j, "produces", Lower(d.raw))
                 alike == \A e \in ToSet(Declarations(m, k)) :
                            Lower(e.raw) = Lower(d.raw) => e.raw = d.raw /\ e.kind = d.kind
                 a == CHOOSE x \in told : x.name = Lower(d.raw)
             IN  mine /\ alike =>
                 /\ d.kind = "table" /\ world.db /\ is_simple_ident(a.name) =>
                      /\ <<a.name, a.content_hash>> \in run_tables(contract)
                      /\ Standing([world EXCEPT !.files = << >>, !.trees = << >>], a.name) \subseteq {a.content_hash}
                 /\ d.kind = "file" /\ d.raw = a.name /\ At(world.sidecars, a.name) = None =>
                      a.content_hash = At(world.files, a.name)
        /\ \A s \in StepNames(m) : (\E k \in DOMAIN m.steps : m.steps[k].name = s /\ Declarations(m, k) = << >>
                                     /\ StepKind(m.steps[k]) = "sql" /\ m.steps[k].sql[1].is # "read")
                                   => s \in build(m).warnings
        /\ \A a \in told : a.produced_by # None =>
             \E i \in DOMAIN steps : steps[i].text[1] = a.produced_by /\ a.name \in steps[i].of
        /\ report_run(text) = run
ContractIsTold(contract, prose, m, world, run) ==
    Tells(contract, write_report(prose, contract, {}, "panels"), m, world, run)
RunIsTold(m, world, outcomes, prose, runs) ==
    LET run == newest_contract(runs)
    IN  ContractIsTold(build_contract(m, world, outcomes, run), prose, m, world, run)
=============================================================================
