------------------------------ MODULE WithBlocks ------------------------------
(***************************************************************************)
(* An operator step's with: block, as operator.rs reads it three times     *)
(* over: the typed parse a manifest's load and a run go by, the JSON       *)
(* Schema a recorded step is checked against before it is written, and the *)
(* description a page or a program is shown.  The tables are kept by hand. *)
(*                                                                         *)
(* A block is a function from keys to values.  A value carries what it is; *)
(* a number counts tenths; a text is a class of strings, below.            *)
(***************************************************************************)
EXTENDS Integers, Sequences, SequencesExt, Functions, FiniteSets, TLC

None == "none"
Null       == [is |-> "null"]
Whole(k)     == [is |-> "integer", n |-> 10 * k]
Tenths(k)  == [is |-> "number", n |-> k]
Text(t)    == [is |-> "string", text |-> t]
List(s)    == [is |-> "array", items |-> s]
Map(f)     == [is |-> "object", members |-> f]

(* A text, with the spaces around it and around what it holds trimmed, and *)
(* the classes of texts the tables tell apart.                             *)
Trimmed(t) ==
    CASE t = " " -> ""
      [] t = " digest " -> "digest"
      [] t = "pkg == 1" -> "pkg==1"
      [] OTHER -> t
Lower   == {"digest"}            \* 64 hex digits, and with capitals
Hex     == {"digest", "DIGEST"}
Pinned  == {"pkg==1", "pkg == 1"}
BadRegex == {"("}
Identifiers == {"name", "s3"}
Tables  == {"name", "s.name"}
UMAP_METRICS == {"euclidean", "cosine"}

-----------------------------------------------------------------------------
(* with_schema: the sub-schemas, and each operator's properties.           *)
Type(t)      == [type |-> t]
Nothing      == Type("nothing")  \* additionalProperties: false
TextType     == Type("string")
OneOf(texts) == [type |-> "string", pattern |-> texts]
Choice(texts) == [type |-> "string", enum |-> texts]
Least(k)     == [type |-> "integer", minimum |-> 10 * k]
Texts        == [type |-> "array", items |-> TextType]
SomeTexts    == [type |-> "array", items |-> TextType, minItems |-> 1]
TextMap      == [type |-> "object", extra |-> TextType]

Schema(properties, required) ==
    [type |-> "object", extra |-> Nothing, properties |-> properties, required |-> required]

FetchSchemas ==
    [parquet_export |-> Schema(
        [k \in {"input", "dest", "compression", "order_by"} |-> TextType]
            @@ [row_group_size |-> Least(0), metadata |-> TextMap], {"input", "dest"}),
     http_fetch |-> Schema(
        [k \in {"url", "out"} |-> TextType] @@ [headers |-> TextMap, sha256 |-> OneOf(Hex)],
        {"url", "out"}),
     opendal_fetch |-> Schema(
        [k \in {"from", "to"} |-> TextType] @@ [headers |-> TextMap], {"from", "to"}),
     html_link_discover |-> Schema(
        [k \in {"url", "pattern", "out"} |-> TextType] @@ [headers |-> TextMap],
        {"url", "pattern", "out"}),
     archive_extract |-> Schema(
        [k \in {"archive", "pattern", "dest"} |-> TextType] @@ [members |-> Texts],
        {"archive", "dest"})]

FinetypeSchemas ==
    [datapackage_describe |-> Schema(
        [k \in {"parquet", "overrides", "out", "expect_finetype_version", "nominations"}
           |-> TextType], {"parquet", "overrides", "out"}),
     finetype_validate |-> Schema(
        [k \in {"parquet", "schema", "extension"} |-> TextType], {"parquet", "schema"}),
     splink_resolve |-> Schema(
        [k \in {"edgar", "gleif", "out"} |-> TextType] @@ [sample |-> Least(0)],
        {"edgar", "gleif", "out"}),
     gleif_ra_fetch |-> Schema(
        [k \in {"ra", "out", "user_agent"} |-> TextType] @@ [page_size |-> Least(1)],
        {"ra", "out"})]

Credential == Schema([type |-> TextType, env |-> TextMap @@ [minProperties |-> 1]], {"type", "env"})

ScriptSchemas ==
    [umap_project |-> Schema(
        [k \in {"input", "out", "fit"} |-> TextType]
            @@ [columns |-> SomeTexts, neighbors |-> Least(2), metric |-> Choice(UMAP_METRICS),
                min_dist |-> [type |-> "number", minimum |-> 0, exclusiveMaximum |-> 10]],
        {"input", "columns", "out"}),
     text_embed |-> Schema(
        [k \in {"input", "text_column", "extension", "out", "vector_column", "model",
                "model_release"} |-> TextType], {"input", "text_column", "extension", "out"}),
     uv |-> Schema(
        [script |-> TextType, sha256 |-> OneOf(Lower),
         deps |-> [type |-> "array", items |-> OneOf({"pkg==1"})], args |-> Texts,
         reads |-> SomeTexts, produces |-> SomeTexts], {"script", "sha256", "reads", "produces"}),
     ducklake_publish |-> Schema(
        [k \in {"file", "catalog", "data_path", "table"} |-> TextType]
            @@ [credential |-> Credential], {"file", "catalog", "table"})]

with_schema == FetchSchemas @@ FinetypeSchemas @@ ScriptSchemas

-----------------------------------------------------------------------------
(***************************************************************************)
(* check_against: the faults of a value against a schema, each where it is *)
(* and the keyword it falls short of; a value of another type has no other.*)
(***************************************************************************)
IsType(type, v) == v.is = type \/ (type = "number" /\ v.is = "integer")

Breaks(s, k, v) ==
    CASE k = "enum" -> ~(v.is = "string" /\ v.text \in s.enum)
      [] k = "pattern" -> v.is = "string" /\ v.text \notin s.pattern
      [] k = "minimum" -> v.is \in {"integer", "number"} /\ v.n < s.minimum
      [] k = "exclusiveMaximum" -> v.is \in {"integer", "number"} /\ v.n >= s.exclusiveMaximum
      [] k = "minItems" -> v.is = "array" /\ Len(v.items) < s.minItems
      [] k = "minProperties" -> v.is = "object" /\ Cardinality(DOMAIN v.members) < s.minProperties
      [] k = "required" -> v.is = "object" /\ ~(s.required \subseteq DOMAIN v.members)
      [] OTHER -> FALSE

RECURSIVE check_against(_, _, _)
check_against(s, v, at) ==
    IF "type" \in DOMAIN s /\ ~IsType(s.type, v) THEN {<<at, "type">>}
    ELSE {<<at, k>> : k \in {k \in DOMAIN s : Breaks(s, k, v)}}
         \cup (IF v.is = "array" /\ "items" \in DOMAIN s
               THEN UNION {check_against(s.items, v.items[i], at) : i \in DOMAIN v.items}
               ELSE {})
         \cup (IF v.is # "object" THEN {}
               ELSE UNION {
                 IF "properties" \in DOMAIN s /\ k \in DOMAIN s.properties
                 THEN check_against(s.properties[k], v.members[k], k)
                 ELSE IF "extra" \notin DOMAIN s THEN {}
                 ELSE IF s.extra = Nothing THEN {<<k, "additionalProperties">>}
                 ELSE check_against(s.extra, v.members[k], at) : k \in DOMAIN v.members})

check_with(op, with) == check_against(with_schema[op], Map(with), "with")

-----------------------------------------------------------------------------
(***************************************************************************)
(* The typed configs: a field's type, whether it may be left out, and      *)
(* whether a null is then the same as leaving it out (an Option).          *)
(***************************************************************************)
F(type)  == [type |-> type, default |-> FALSE, option |-> FALSE]
D(type)  == [type |-> type, default |-> TRUE, option |-> FALSE]
O(type)  == [type |-> type, default |-> TRUE, option |-> TRUE]
String   == F("string")
Strings(keys) == [k \in keys |-> String]

ParquetExportConfig == Strings({"input", "dest"}) @@
    [compression |-> D("string"), row_group_size |-> O("u64"), order_by |-> O("string"),
     metadata |-> D("map")]
HttpFetchConfig == Strings({"url", "out"}) @@ [headers |-> D("map"), sha256 |-> O("string")]
OpendalFetchConfig == Strings({"from", "to"}) @@ [headers |-> D("map")]
HtmlLinkDiscoverConfig == Strings({"url", "pattern", "out"}) @@ [headers |-> D("map")]
ArchiveExtractConfig == Strings({"archive", "dest"}) @@
    [members |-> D("vec"), pattern |-> O("string")]
DatapackageDescribeConfig == Strings({"parquet", "overrides", "out"}) @@
    [expect_finetype_version |-> O("string"), nominations |-> O("string")]
FinetypeValidateConfig == Strings({"parquet", "schema"}) @@ [extension |-> O("string")]
SplinkResolveConfig == Strings({"edgar", "gleif", "out"}) @@ [sample |-> O("u64")]
GleifRaFetchConfig == Strings({"ra", "out"}) @@
    [page_size |-> O("u64"), user_agent |-> O("string")]
UmapProjectConfig == Strings({"input", "out"}) @@
    [columns |-> F("vec"), fit |-> O("string"), neighbors |-> O("u64"), min_dist |-> O("f64"),
     metric |-> O("string")]
TextEmbedConfig == Strings({"input", "text_column", "extension", "out"}) @@
    [vector_column |-> O("string"), model |-> O("string"), model_release |-> O("string")]
UvConfig == Strings({"script", "sha256"}) @@
    [k \in {"deps", "args", "reads", "produces"} |-> D("vec")]
DucklakePublishConfig == Strings({"file", "catalog", "table"}) @@
    [data_path |-> O("string"), credential |-> O("credential")]
CredentialConfig == [type |-> String, env |-> F("map")]

Config ==
    [parquet_export |-> ParquetExportConfig, http_fetch |-> HttpFetchConfig,
     opendal_fetch |-> OpendalFetchConfig, html_link_discover |-> HtmlLinkDiscoverConfig,
     archive_extract |-> ArchiveExtractConfig, datapackage_describe |-> DatapackageDescribeConfig,
     finetype_validate |-> FinetypeValidateConfig, splink_resolve |-> SplinkResolveConfig,
     gleif_ra_fetch |-> GleifRaFetchConfig, umap_project |-> UmapProjectConfig,
     text_embed |-> TextEmbedConfig, uv |-> UvConfig, ducklake_publish |-> DucklakePublishConfig]

\* serde: the keys are the fields', none but those with a default is left
\* out, and each value is of its field's type.
RECURSIVE Parses(_, _)
Parses(config, with) ==
    /\ DOMAIN with \subseteq DOMAIN config
    /\ \A k \in DOMAIN config \ DOMAIN with : config[k].default
    /\ \A k \in DOMAIN with :
         LET v == with[k] IN
         CASE v.is = "null" -> config[k].option
           [] config[k].type = "string" -> v.is = "string"
           [] config[k].type = "u64" -> v.is = "integer" /\ v.n >= 0
           [] config[k].type = "f64" -> v.is \in {"integer", "number"}
           [] config[k].type = "vec" ->
                v.is = "array" /\ \A i \in DOMAIN v.items : v.items[i].is = "string"
           [] config[k].type = "map" ->
                v.is = "object" /\ \A m \in DOMAIN v.members : v.members[m].is = "string"
           [] config[k].type = "credential" ->
                v.is = "object" /\ Parses(CredentialConfig, v.members)

\* A field that is set: a key that is there, and is not null.
Set(with, k) == k \in DOMAIN with /\ with[k] # Null
TextsOf(with, k) ==
    IF Set(with, k) THEN [i \in DOMAIN with[k].items |-> with[k].items[i].text] ELSE << >>

-----------------------------------------------------------------------------
(* What a config is held to once it is parsed.                             *)
ValidUmap(with) ==
    LET columns == TextsOf(with, "columns") IN
    /\ columns # << >> /\ IsInjective(columns)
    /\ Set(with, "neighbors") => with["neighbors"].n >= 20
    /\ Set(with, "min_dist") => with["min_dist"].n >= 0 /\ with["min_dist"].n < 10
    /\ Set(with, "metric") => with["metric"].text \in UMAP_METRICS

ValidTextEmbed(with) ==
    /\ Set(with, "vector_column") => Trimmed(with["vector_column"].text) # ""
    /\ Set(with, "model") <=> Set(with, "model_release")

ValidUv(with) ==
    /\ Trimmed(with["script"].text) # ""
    /\ \A k \in {"reads", "produces"} :
         \E t \in ToSet(TextsOf(with, k)) : Trimmed(t) # ""
    /\ Trimmed(with["sha256"].text) \in Lower
    /\ ToSet(TextsOf(with, "deps")) \subseteq Pinned

ValidPublish(with) ==
    /\ with["table"].text \in Tables
    /\ Set(with, "credential") =>
         LET c == with["credential"].members IN
         /\ c["type"].text \in Identifiers
         /\ DOMAIN c["env"].members # {} /\ DOMAIN c["env"].members \subseteq Identifiers

Valid(op, with) ==
    CASE op = "http_fetch" -> Set(with, "sha256") => Trimmed(with["sha256"].text) \in Hex
      [] op = "html_link_discover" -> with["pattern"].text \notin BadRegex
      [] op = "archive_extract" ->
           /\ TextsOf(with, "members") # << >> \/ Set(with, "pattern")
           /\ Set(with, "pattern") => with["pattern"].text \notin BadRegex
      [] op = "umap_project" -> ValidUmap(with)
      [] op = "text_embed" -> ValidTextEmbed(with)
      [] op = "uv" -> ValidUv(with)
      [] op = "ducklake_publish" -> ValidPublish(with)
      [] OTHER -> TRUE

\* A manifest with this step loads.
Loads(op, with) == Parses(Config[op], with) /\ Valid(op, with)

-----------------------------------------------------------------------------
(* What assets() declares: the names, each with the kind it is given.      *)
default_kind_for_declared_name(t) ==
    CASE t = "dir/" -> "directory" [] t = "*" -> "pattern" [] OTHER -> "file"

Asset(with, k, kind) == IF Set(with, k) THEN {<<with[k].text, kind>>} ELSE {}
Files(with, keys) == UNION {Asset(with, k, "file") : k \in keys}
Named(with, k) ==
    {<<Trimmed(t), default_kind_for_declared_name(t)>> :
        t \in {t \in ToSet(TextsOf(with, k)) : Trimmed(t) # ""}}

ReadsOf(op, with) ==
    CASE op = "parquet_export" -> Asset(with, "input", "table")
      [] op = "archive_extract" -> Files(with, {"archive"})
      [] op = "datapackage_describe" -> Files(with, {"parquet", "overrides", "nominations"})
      [] op = "finetype_validate" -> Files(with, {"parquet", "schema"})
      [] op = "splink_resolve" -> Files(with, {"edgar", "gleif"})
      [] op = "umap_project" -> Files(with, {"input", "fit"})
      [] op = "text_embed" -> Files(with, {"input", "extension"}) \cup Asset(with, "model", "directory")
      [] op = "uv" -> Named(with, "reads")
      [] op = "ducklake_publish" -> Files(with, {"file"})
      [] OTHER -> {}

ProducesOf(op, with) ==
    CASE op = "parquet_export" -> Files(with, {"dest"})
      [] op = "opendal_fetch" -> Files(with, {"to"})
      [] op = "archive_extract" ->
           IF TextsOf(with, "members") = << >> THEN Asset(with, "dest", "directory")
           ELSE Files(with, {"dest"})  \* each member's, by the directory it lies in
      [] op = "umap_project" -> Files(with, {"out", "fit"})
      [] op = "uv" -> Named(with, "produces")
      [] op \in {"finetype_validate", "ducklake_publish"} -> {}
      [] OTHER -> Files(with, {"out"})

-----------------------------------------------------------------------------
(***************************************************************************)
(* DESCRIBED: the keys each operator reads and writes through, with the    *)
(* kind its value names; a column role belongs to a read.                  *)
(***************************************************************************)
role(key, kind) == [key |-> key, kind |-> kind, of |-> None]
column_of(key, of) == [key |-> key, kind |-> "column", of |-> of]
FileRoles(keys) == {role(k, "file") : k \in keys}
Described(reads, writes) == [reads |-> reads, writes |-> writes]

DescribedFetches ==
    [parquet_export |-> Described({role("input", "table")}, FileRoles({"dest"})),
     http_fetch |-> Described({}, FileRoles({"out"})),
     opendal_fetch |-> Described({}, FileRoles({"to"})),
     html_link_discover |-> Described({}, FileRoles({"out"})),
     archive_extract |-> Described(FileRoles({"archive"}), {role("dest", "directory")})]

DescribedFinetype ==
    [datapackage_describe |->
        Described(FileRoles({"parquet", "overrides", "nominations"}), FileRoles({"out"})),
     finetype_validate |-> Described(FileRoles({"parquet", "schema"}), {}),
     splink_resolve |-> Described(FileRoles({"edgar", "gleif"}), FileRoles({"out"})),
     gleif_ra_fetch |-> Described({}, FileRoles({"out"}))]

\* Mutant of DescribedScripts: the fit is read, and what keeps it is left out.
DescribedScripts_fit_read ==
    [umap_project |->
        Described(FileRoles({"input", "fit"}) \cup {column_of("columns", "input")},
                  FileRoles({"out"})),
     text_embed |->
        Described(FileRoles({"input", "extension"}) \cup
                  {column_of("text_column", "input"), role("model", "directory")},
                  FileRoles({"out"})),
     uv |-> Described({role("reads", "any")}, {role("produces", "any")}),
     ducklake_publish |-> Described(FileRoles({"file"}), {})]

DescribedScripts ==
    [umap_project |->
        Described(FileRoles({"input", "fit"}) \cup {column_of("columns", "input")},
                  FileRoles({"out", "fit"})),
     text_embed |->
        Described(FileRoles({"input", "extension"}) \cup
                  {column_of("text_column", "input"), role("model", "directory")},
                  FileRoles({"out"})),
     uv |-> Described({role("reads", "any")}, {role("produces", "any")}),
     ducklake_publish |-> Described(FileRoles({"file"}), {})]

described == DescribedFetches @@ DescribedFinetype @@ DescribedScripts

\* A role, with what the schema says of its key; the parameters are the
\* schema's other keys.
resolved_role(op, r) ==
    LET s == with_schema[op] IN
    [name |-> r.key, kind |-> r.kind, of |-> r.of,
     list |-> s.properties[r.key].type = "array", required |-> r.key \in s.required,
     min_items |-> IF "minItems" \in DOMAIN s.properties[r.key]
                   THEN s.properties[r.key].minItems ELSE 0]

description(op) ==
    LET d    == described[op]
        s    == with_schema[op]
        keys == {r.key : r \in d.reads \cup d.writes}
    IN  [reads  |-> {resolved_role(op, r) : r \in d.reads},
         writes |-> {resolved_role(op, r) : r \in d.writes},
         parameters |-> DOMAIN s.properties \ keys,
         required   |-> s.required \ keys]

-----------------------------------------------------------------------------
(***************************************************************************)
(* What the three readings owe one another.                                *)
(***************************************************************************)
\* A block as the load reads it: nulls left out, and spaces trimmed.
PlainValue(v) ==
    CASE v.is = "string" -> Text(Trimmed(v.text))
      [] v.is = "array" ->
           List([i \in DOMAIN v.items |-> IF v.items[i].is = "string"
                                          THEN Text(Trimmed(v.items[i].text)) ELSE v.items[i]])
      [] v.is = "object" ->
           Map([k \in {k \in DOMAIN v.members : v.members[k] # Null} |-> v.members[k]])
      [] OTHER -> v
Plain(with) == [k \in {k \in DOMAIN with : with[k] # Null} |-> PlainValue(with[k])]

\* The names a description says the block reads or writes.
Told(roles, with) ==
    UNION {IF ~Set(with, r.name) THEN {}
           ELSE IF r.list THEN {Trimmed(t) : t \in ToSet(TextsOf(with, r.name))} \ {""}
           ELSE {with[r.name].text} : r \in {r \in roles : r.kind # "column"}}
Declared(assets) == {a[1] : a \in assets}

(* operator.rs:218, operator.rs:604: what a manifest may load, a Protocol's*)
(* author could also have recorded, but for a GLEIF page of no rows; and   *)
(* the reads and writes a program is told of are the assets the step       *)
(* declares when it loads, of the kinds it is told, so a graph drawn from  *)
(* descriptions is the graph arc runs by.                                  *)
DescribedAsRun(op, with) ==
    Loads(op, with) =>
      LET d == description(op) IN
      /\ check_with(op, Plain(with)) \subseteq {<<"page_size", "minimum">>}
      /\ Declared(ReadsOf(op, with)) = Told(d.reads, with)
      /\ Declared(ProducesOf(op, with)) = Told(d.writes, with)
      /\ \A a \in ReadsOf(op, with) \cup ProducesOf(op, with) :
           \E r \in d.reads \cup d.writes :
             \/ r.kind \in {a[2], "any"}
             \/ <<r.kind, a[2]>> = <<"directory", "file">>
      /\ d.required \cup {r.name : r \in {r \in d.reads \cup d.writes : r.required}}
           \subseteq DOMAIN with
=============================================================================
