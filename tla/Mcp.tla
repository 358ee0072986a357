---------------------------------- MODULE Mcp ----------------------------------
(***************************************************************************)
(* The MCP server: what each tool's schema asks for and what its handler   *)
(* reads of the arguments (mcp/hero.rs, mcp/finetype.rs), the lines of     *)
(* JSON-RPC it answers (mcp/mod.rs), and the run it starts in a child      *)
(* process and tells of (mcp/hero.rs).                                     *)
(*                                                                         *)
(* An argument is one of the values below, each a JSON value by the text   *)
(* that writes it; what is not given reads as null.                        *)
(***************************************************************************)
EXTENDS Integers, Sequences, SequencesExt, FiniteSets, TLC

Edits == {"replace", "rewrite", "add", "append", "delete", "reorder"}
Formats == {"json", "json-schema"}
Strings == {"text", "plain"} \cup Edits \cup Formats
Booleans == {"true", "false"}
Positive == {"7"}
Wholes == {"0"} \cup Positive
TextLists == {"[]", "[text]"}
Objects == {"{}", "{a: b=c}", "{=: b}", "{a: 7}"}
TextObjects == Objects \ {"{a: 7}"}
Values == Strings \cup Booleans \cup Wholes \cup TextLists \cup Objects
             \cup {"null", "-1", "[7]", "[a=b=c]", "[=b]"}

\* What of `params` is pairs, and the entries of a list of them.
Pair(key, value) == [key |-> key, value |-> value]
PairsOf == "{}" :> <<>> @@ "{a: b=c}" :> <<Pair(<<"a">>, <<"b", "=", "c">>)>>
           @@ "{=: b}" :> <<Pair(<<"=">>, <<"b">>)>> @@ "{a: 7}" :> <<Pair(<<"a">>, <<"7">>)>>
EntriesOf == "[]" :> <<>> @@ "[text]" :> <<<<"text">>>>
             @@ "[a=b=c]" :> <<<<"a", "=", "b", "=", "c">>>> @@ "[=b]" :> <<<<"=", "b">>>>

-----------------------------------------------------------------------------
(* The schemas: the values each property admits, and the required ones.    *)
Schema(properties, required) == [properties |-> properties, required |-> required]

infer_schema == Schema("values" :> TextLists @@ "value" :> Strings @@ "header" :> Strings, {})
profile_schema ==
    Schema("file" :> Strings @@ "format" :> Formats @@ "sample_size" :> Positive
           @@ "delimiter" :> Strings @@ "stats" :> Booleans, {"file"})
taxonomy_schema ==
    Schema("type_key" :> Strings @@ "domain" :> Strings @@ "category" :> Strings
           @@ "format" :> Formats \cup {"plain"} @@ "full" :> Booleans @@ "taxonomy_file" :> Strings, {})
validate_schema ==
    Schema("file" :> Strings @@ "schema" :> Strings @@ "format" :> {"json", "plain"}
           @@ "strict" :> Booleans, {"file", "schema"})
generate_schema ==
    Schema("samples" :> Positive @@ "seed" :> Wholes \cup {"-1"} @@ "localized" :> Booleans
           @@ "taxonomy_file" :> Strings, {})

Dir == "dir" :> Strings
protocol_run_schema == Schema(Dir @@ "force" :> Booleans @@ "params" :> TextObjects, {})
operator_describe_schema == Schema("operator" :> Strings, {})
operation_describe_schema == Schema("operation" :> Strings, {})
operation_record_schema ==
    Schema(Dir @@ "operation" :> Strings @@ "on" :> Strings @@ "reads" :> TextObjects
           @@ "name" :> Strings @@ "arguments" :> Objects @@ "description" :> Strings,
           {"operation", "name"})
operator_record_schema ==
    Schema(Dir @@ "operator" :> Strings @@ "name" :> Strings @@ "with" :> Objects
           @@ "description" :> Strings, {"operator", "name", "with"})
protocol_edit_schema ==
    Schema(Dir @@ "edit" :> Edits @@ "path" :> Strings @@ "value" :> Strings @@ "from" :> Values
           @@ "to" :> Values @@ "key" :> Strings @@ "item" :> Strings, {"edit", "path"})
history_list_schema == Schema(Dir @@ "file" :> Strings, {})
history_restore_schema == Schema(Dir @@ "id" :> Strings @@ "file" :> Strings, {"id"})
sql_recognise_schema == Schema("sql" :> Strings, {"sql"})
sql_record_schema ==
    Schema(Dir @@ "sql" :> Strings @@ "name" :> Strings @@ "description" :> Strings, {"sql", "name"})
protocol_create_schema ==
    Schema(Dir @@ "name" :> Strings @@ "engine" :> Strings @@ "db" :> Strings, {"dir"})
protocol_write_file_schema ==
    Schema(Dir @@ "path" :> Strings @@ "content" :> Strings, {"path", "content"})
report_write_schema == Schema(Dir @@ "prose" :> Strings @@ "run" :> Strings, {"prose"})
table_describe_schema == Schema(Dir @@ "table" :> Strings, {"table"})
panel_check_schema == Schema(Dir, {})
table_profile_schema ==
    Schema(Dir @@ "table" :> Strings @@ "format" :> Formats @@ "sample_size" :> Positive, {"table"})
table_validate_schema == Schema(Dir @@ "table" :> Strings @@ "schema" :> Strings, {"table", "schema"})
sql_query_schema == Schema(Dir @@ "sql" :> Strings @@ "limit" :> Wholes, {"sql"})

-----------------------------------------------------------------------------
(* Reading an argument: what was made of it, or that it was refused.       *)
Reading(key, took, value) == [key |-> key, took |-> took, value |-> value]
At(args, key) == IF key \in DOMAIN args THEN args[key] ELSE "null"

required_string(args, key) == Reading(key, At(args, key) \in Strings, At(args, key))
Optional(args, key, admitted, default) ==
    IF At(args, key) = "null" THEN Reading(key, TRUE, default)
    ELSE Reading(key, At(args, key) \in admitted, At(args, key))
optional_string(args, key) == Optional(args, key, Strings, "null")
dir_arg(args) == Optional(args, "dir", Strings, ".")
edit_index(args, key) == Reading(key, At(args, key) \in Wholes, At(args, key))

(* FineType's tools read what they can use and pass over the rest.         *)
Passed(args, key, admitted, default) ==
    Reading(key, TRUE, IF At(args, key) \in admitted THEN At(args, key) ELSE default)
opt_str(args, key) == Passed(args, key, Strings, "null")
opt_bool(args, key) == Passed(args, key, Booleans, "false")
opt_u64(args, key, default) == Passed(args, key, Wholes, default)
Either(args, one, other) ==
    Reading(one, {At(args, one), At(args, other)} \cap Strings # {},
            IF At(args, one) \in Strings THEN At(args, one) ELSE At(args, other))

infer_with(args) ==
    <<IF At(args, "values") \in {"[]", "[7]", "[text]", "[a=b=c]", "[=b]"}
      THEN Reading("values", At(args, "values") \notin {"[]", "[7]"}, At(args, "values"))
      ELSE Reading("value", At(args, "value") \in Strings, At(args, "value")),
      opt_str(args, "header")>>
profile_with(args) ==
    <<Either(args, "file", "path"), Passed(args, "format", Strings, "json"),
      opt_u64(args, "sample_size", "null"), opt_str(args, "delimiter"), opt_bool(args, "stats")>>
taxonomy_with(args) ==
    <<Passed(args, "format", Strings, "json"),
      Reading("type_key", TRUE, IF At(args, "type_key") \in Strings THEN At(args, "type_key")
                                ELSE opt_str(args, "key").value),
      opt_str(args, "domain"), opt_str(args, "category"), opt_bool(args, "full"),
      opt_str(args, "taxonomy_file")>>
validate_with(args) ==
    <<Either(args, "file", "path"), required_string(args, "schema"),
      Passed(args, "format", Strings, "json"), opt_bool(args, "strict")>>
generate_with(args) ==
    <<opt_u64(args, "samples", "10"), opt_u64(args, "seed", "null"), opt_bool(args, "localized"),
      opt_str(args, "taxonomy_file")>>

(* protocol_run's parameters, as handed to `arc run` and read by it.       *)
Cut(entry) ==
    IF "=" \notin ToSet(entry) THEN <<>>
    ELSE LET at == CHOOSE i \in DOMAIN entry :
                      entry[i] = "=" /\ \A j \in 1..(i - 1) : entry[j] # "="
         IN  <<Pair(SubSeq(entry, 1, at - 1), SubSeq(entry, at + 1, Len(entry)))>>
parse_params(args) ==
    LET given == At(args, "params")
        pairs == CASE given = "null" -> <<>>
                   [] given \in DOMAIN PairsOf -> PairsOf[given]
                   [] given \in DOMAIN EntriesOf ->
                        FlattenSeq([i \in DOMAIN EntriesOf[given] |-> Cut(EntriesOf[given][i])])
                   [] OTHER -> <<>>
        whole == CASE given = "null" -> TRUE
                   [] given \in DOMAIN PairsOf -> TRUE
                   [] given \in DOMAIN EntriesOf -> Len(pairs) = Len(EntriesOf[given])
                   [] OTHER -> FALSE
    IN  [took |-> whole /\ \A i \in DOMAIN pairs : pairs[i].key # <<>> /\ "=" \notin ToSet(pairs[i].key),
         pairs |-> pairs]
CommandLine(pairs) == [i \in DOMAIN pairs |-> pairs[i].key \o <<"=">> \o pairs[i].value]
cli_params(entries) == FlattenSeq([i \in DOMAIN entries |-> Cut(entries[i])])

protocol_run(args) ==
    <<Optional(args, "dir", Strings, "."), Optional(args, "force", Booleans, "false"),
      Reading("params", parse_params(args).took, At(args, "params"))>>
operator_describe(args) == <<opt_str(args, "operator")>>
operation_describe(args) == <<optional_string(args, "operation")>>
operation_record(args) ==
    <<dir_arg(args), required_string(args, "operation"), optional_string(args, "on"),
      Optional(args, "reads", Objects, "{}"), required_string(args, "name"),
      Optional(args, "arguments", Objects, "{}"), optional_string(args, "description")>>
operator_record(args) ==
    <<dir_arg(args), required_string(args, "operator"), required_string(args, "name"),
      Reading("with", At(args, "with") \in Objects, At(args, "with")),
      optional_string(args, "description")>>
protocol_edit(args) ==
    <<dir_arg(args), required_string(args, "path"),
      Reading("edit", At(args, "edit") \in Edits, At(args, "edit"))>> \o
    CASE At(args, "edit") = "replace" -> <<required_string(args, "value")>>
      [] At(args, "edit") = "rewrite" -> <<required_string(args, "from"), required_string(args, "to")>>
      [] At(args, "edit") = "add" -> <<required_string(args, "key"), required_string(args, "value")>>
      [] At(args, "edit") = "append" -> <<required_string(args, "item")>>
      [] At(args, "edit") = "reorder" -> <<edit_index(args, "from"), edit_index(args, "to")>>
      [] OTHER -> <<>>
history_list(args) == <<dir_arg(args), optional_string(args, "file")>>
history_restore(args) ==
    <<dir_arg(args), required_string(args, "id"), optional_string(args, "file")>>
sql_recognise(args) == <<required_string(args, "sql")>>
sql_record(args) ==
    <<dir_arg(args), required_string(args, "sql"), required_string(args, "name"),
      optional_string(args, "description")>>
protocol_create(args) ==
    <<required_string(args, "dir"), optional_string(args, "name"), optional_string(args, "engine"),
      optional_string(args, "db")>>
protocol_write_file(args) ==
    <<dir_arg(args), required_string(args, "path"), required_string(args, "content")>>
report_write(args) == <<dir_arg(args), required_string(args, "prose"), optional_string(args, "run")>>
table_describe(args) == <<required_string(args, "table"), dir_arg(args)>>
panel_check(args) == <<dir_arg(args)>>
table_profile(args) ==
    <<required_string(args, "table"), dir_arg(args), Optional(args, "format", Formats, "json"),
      Optional(args, "sample_size", Wholes, "null")>>
table_validate(args) ==
    <<required_string(args, "table"), required_string(args, "schema"), dir_arg(args)>>
sql_query(args) ==
    <<required_string(args, "sql"), dir_arg(args), Optional(args, "limit", Wholes, "100")>>

(* FineType's command line stands behind five of the tools, from a version *)
(* on; a world says what `finetype --version` answers.                     *)
MIN_VERSION == <<0, 6, 54>>
parse_version(said) == IF said.is = "version" THEN <<said.numbers>> ELSE <<>>
ensure_min_version(said) ==
    LET found == parse_version(said) IN
    /\ found # <<>>
    /\ \/ found[1] = MIN_VERSION
       \/ \E i \in 1..3 : /\ found[1][i] > MIN_VERSION[i]
                          /\ \A j \in 1..(i - 1) : found[1][j] = MIN_VERSION[j]

-----------------------------------------------------------------------------
(* The tools, and what each lets a client believe of it.                   *)
READ_ONLY == {"read only"}
READS_OPEN == {"read only", "open world"}
WRITES == {}
EDITS == {"destructive"}
RUNS == {"open world", "destructive"}

ToolDef(schema, hints) == [schema |-> schema, hints |-> hints]
FinetypeTools ==
    "infer" :> ToolDef(infer_schema, READ_ONLY) @@ "profile" :> ToolDef(profile_schema, READ_ONLY)
    @@ "taxonomy" :> ToolDef(taxonomy_schema, READ_ONLY)
    @@ "validate" :> ToolDef(validate_schema, READ_ONLY)
    @@ "generate" :> ToolDef(generate_schema, READ_ONLY)
HeroTools ==
    "protocol_run" :> ToolDef(protocol_run_schema, RUNS)
    @@ "operator_describe" :> ToolDef(operator_describe_schema, READ_ONLY)
    @@ "operation_describe" :> ToolDef(operation_describe_schema, READ_ONLY)
    @@ "operation_record" :> ToolDef(operation_record_schema, WRITES)
    @@ "operator_record" :> ToolDef(operator_record_schema, WRITES)
    @@ "protocol_edit" :> ToolDef(protocol_edit_schema, EDITS)
    @@ "history_list" :> ToolDef(history_list_schema, READ_ONLY)
    @@ "history_restore" :> ToolDef(history_restore_schema, EDITS)
    @@ "sql_recognise" :> ToolDef(sql_recognise_schema, READ_ONLY)
    @@ "sql_record" :> ToolDef(sql_record_schema, WRITES)
    @@ "protocol_create" :> ToolDef(protocol_create_schema, WRITES)
    @@ "protocol_write_file" :> ToolDef(protocol_write_file_schema, EDITS)
    @@ "report_write" :> ToolDef(report_write_schema, EDITS)
    @@ "panel_check" :> ToolDef(panel_check_schema, READS_OPEN)
    @@ "table_describe" :> ToolDef(table_describe_schema, READS_OPEN)
    @@ "table_profile" :> ToolDef(table_profile_schema, READS_OPEN)
    @@ "table_validate" :> ToolDef(table_validate_schema, READS_OPEN)
    @@ "sql_query" :> ToolDef(sql_query_schema, READS_OPEN)
tools == FinetypeTools @@ HeroTools

\* What a tool's handler reads of its arguments, in the order it reads it.
handler(tool, args) ==
    CASE tool = "infer" -> infer_with(args) [] tool = "profile" -> profile_with(args)
      [] tool = "taxonomy" -> taxonomy_with(args) [] tool = "validate" -> validate_with(args)
      [] tool = "generate" -> generate_with(args) [] tool = "protocol_run" -> protocol_run(args)
      [] tool = "operator_describe" -> operator_describe(args)
      [] tool = "operation_describe" -> operation_describe(args)
      [] tool = "operation_record" -> operation_record(args)
      [] tool = "operator_record" -> operator_record(args)
      [] tool = "protocol_edit" -> protocol_edit(args) [] tool = "history_list" -> history_list(args)
      [] tool = "history_restore" -> history_restore(args)
      [] tool = "sql_recognise" -> sql_recognise(args) [] tool = "sql_record" -> sql_record(args)
      [] tool = "protocol_create" -> protocol_create(args)
      [] tool = "protocol_write_file" -> protocol_write_file(args)
      [] tool = "report_write" -> report_write(args) [] tool = "panel_check" -> panel_check(args)
      [] tool = "table_describe" -> table_describe(args) [] tool = "table_profile" -> table_profile(args)
      [] tool = "table_validate" -> table_validate(args) [] tool = "sql_query" -> sql_query(args)

Took(readings) == \A i \in DOMAIN readings : readings[i].took
Called(tool, args, version) ==
    /\ tool \in DOMAIN FinetypeTools => ensure_min_version(version)
    /\ Took(handler(tool, args))

-----------------------------------------------------------------------------
(* A line in: what it parses to.  An answer: the id it carries and either  *)
(* a result or an error; a failed tool's result says so.                   *)
Message(id, method, params) == [is |-> "object", id |-> id, method |-> method, params |-> params]
NoMessage(is) == [is |-> is, id |-> <<>>, method |-> <<>>, params |-> <<>>]

Result(is) == [result |-> is, error |-> "none"]
Fault(code) == [result |-> "none", error |-> code]
SUPPORTED_PROTOCOL_VERSIONS == <<"2025-06-18", "2025-11-25">>
negotiate(requested) ==
    IF requested # <<>> /\ requested[1] \in ToSet(SUPPORTED_PROTOCOL_VERSIONS)
    THEN requested[1] ELSE Last(SUPPORTED_PROTOCOL_VERSIONS)
initialize_result(params) == negotiate(params)
tools_call(params) ==
    CASE params = <<>> -> Fault("invalid params")
      [] params[1] \notin DOMAIN tools -> Result("isError")
      [] OTHER -> Result(IF params[2] = "fails" THEN "isError" ELSE "content")
dispatch(method, params) ==
    CASE method = "initialize" -> Result(initialize_result(params))
      [] method = "ping" -> Result("pong")
      [] method = "tools/list" -> Result("tools")
      [] method = "tools/call" -> tools_call(params)
      [] OTHER -> Fault("method not found")

Response(id, answer) == <<[id |-> id, answer |-> answer]>>
handle_line(line) ==
    CASE line.is = "garbage" -> Response("null", Fault("invalid request"))
      [] line.is # "object" \/ line.id = <<>> -> <<>>
      [] line.method = <<>> -> Response(line.id[1], Fault("invalid request"))
      [] line.method[1] = "notifications/" -> <<>>
      [] OTHER -> Response(line.id[1], dispatch(line.method[1], line.params))
\* A line that is not UTF-8 ends the server; the blank ones are passed over.
Ends(lines) == \E i \in DOMAIN lines : lines[i].is = "not text"
serve(lines) ==
    LET read == IF Ends(lines)
                THEN SubSeq(lines, 1, (CHOOSE i \in DOMAIN lines : lines[i].is = "not text"
                                          /\ \A j \in 1..(i - 1) : lines[j].is # "not text") - 1)
                ELSE lines
    IN  FlattenSeq([i \in DOMAIN read |-> IF read[i].is = "blank" THEN <<>> ELSE handle_line(read[i])])

-----------------------------------------------------------------------------
(* A run in a child process: what it prints waits in two pipes, a thread   *)
(* for each reads it into one tail, and a process it leaves behind may     *)
(* hold a pipe open.  Bound: the tail keeps three signs.                   *)
TAIL_BYTES == 3
Streams == {"out", "err"}
Child(contracts) ==
    [unread |-> [s \in Streams |-> <<>>], held |-> {}, exited |-> FALSE, ended |-> {},
     late |-> FALSE, tail |-> <<>>, said |-> <<>>, contracts |-> contracts,
     before |-> ToSet(contracts), answer |-> "none"]

Prints(c, s, chunk) == [c EXCEPT !.unread[s] = @ \o chunk]
Exits(c, held) == [c EXCEPT !.exited = TRUE, !.held = held]
Writes(c, contract) == [c EXCEPT !.contracts = <<contract>> \o @]

TailOf(bytes) == SubSeq(bytes, (IF Len(bytes) > TAIL_BYTES THEN Len(bytes) - TAIL_BYTES ELSE 0) + 1,
                        Len(bytes))
drain(c, s) ==
    IF c.unread[s] # <<>>
    THEN [c EXCEPT !.tail = TailOf(@ \o c.unread[s]), !.said = @ \o c.unread[s], !.unread[s] = <<>>]
    ELSE [c EXCEPT !.ended = @ \cup {s}]
Drains(c, s) == s \notin c.ended /\ (c.unread[s] # <<>> \/ (c.exited /\ s \notin c.held))

\* Mutant of Collected: the run has exited, so all it printed is here.
Collected_exited(c) == c.exited
\* The readers are done, or the grace they are given has run out.
Collected(c) == c.exited /\ (c.ended = Streams \/ c.late)

\* A sign ends a control sequence when it is a letter or a bracket.
strip_ansi(text) ==
    LET Sign(out, sign) ==
            CASE out.mode = "text" /\ sign = "ESC" -> [out EXCEPT !.mode = "escape"]
              [] out.mode = "text" -> [out EXCEPT !.text = Append(@, sign)]
              [] out.mode = "escape" -> [out EXCEPT !.mode = IF sign = "[" THEN "control" ELSE "text"]
              [] OTHER -> [out EXCEPT !.mode = IF sign \in {"a", "m", "["} THEN "text" ELSE @]
    IN  FoldLeft(Sign, [mode |-> "text", text |-> <<>>], text).text

newest_new_contract(contracts, before) ==
    LET new == SelectSeq(contracts, LAMBDA k : k \notin before)
    IN  IF new = <<>> THEN "failed" ELSE new[1]
answer_run(c) == [c EXCEPT !.answer = newest_new_contract(c.contracts, c.before)]

-----------------------------------------------------------------------------
(* A tool and its schema say the same: what meets the schema is not        *)
(* refused for its arguments (an edit's own keys, infer's values and a     *)
(* parameter's name apart, which a schema does not tell of); what lacks a  *)
(* required argument, or comes with a FineType too old, is; one of arc's   *)
(* own tools takes no argument of another type than told, a few it reads   *)
(* more freely apart; every property told of is read, and read as given (a *)
(* negative seed, which generate passes over, apart);                      *)
(* and a tool said to be read only, or not to destroy, asks for nothing    *)
(* that writes, or replaces.                                               *)
Meets(schema, args) ==
    /\ schema.required \subseteq DOMAIN args
    /\ \A k \in DOMAIN args \cap DOMAIN schema.properties : args[k] \in schema.properties[k]
FitsBeyond(tool, args) ==
    CASE tool = "protocol_edit" -> Took(handler(tool, args))
      [] tool = "infer" -> At(args, "values") = "[text]" \/ (At(args, "values") = "null" /\ At(args, "value") # "null")
      [] OTHER -> At(args, "params") # "{=: b}"
Freely == {<<"operator", v>> : v \in Values} \cup {<<"sample_size", "0">>, <<"reads", "{a: 7}">>}
          \cup {<<"params", v>> : v \in {"[]", "[a=b=c]", "{a: 7}"}}
EditKeys == {"value", "from", "to", "key", "item"}
WritesFiles == {"protocol_run", "operation_record", "operator_record", "sql_record", "protocol_edit",
                "history_restore", "protocol_create", "protocol_write_file", "report_write"}
Replaces == {"protocol_run", "protocol_edit", "history_restore", "protocol_write_file", "report_write"}
ArgumentsAsTold(tool, args, said) ==
    LET def == tools[tool]
        asked == handler(tool, args)
        reads == {asked[i].key : i \in DOMAIN asked}
        Own == tool \in DOMAIN HeroTools
    IN  /\ Meets(def.schema, args) /\ FitsBeyond(tool, args) /\ ensure_min_version(said)
             => Called(tool, args, said)
        /\ Called(tool, args, said) =>
             /\ Own \/ ensure_min_version(said)
             /\ \A k \in def.schema.required : At(args, k) # "null" \/ (~Own /\ "path" \in DOMAIN args)
             /\ Own => \A k \in reads \cap DOMAIN args :
                   \/ args[k] \in def.schema.properties[k] \cup {"null"} \/ <<k, args[k]>> \in Freely
             /\ \A i \in DOMAIN asked :
                   At(args, asked[i].key) \in def.schema.properties[asked[i].key]
                      => \/ asked[i].value = args[asked[i].key]
                         \/ tool = "generate" /\ args[asked[i].key] = "-1"
             /\ tool = "protocol_run" =>
                   cli_params(CommandLine(parse_params(args).pairs)) = parse_params(args).pairs
        /\ tool # "infer" => DOMAIN def.schema.properties \subseteq
               reads \cup (IF tool = "protocol_edit" THEN EditKeys ELSE {})
        /\ "read only" \in def.hints => tool \notin WritesFiles
        /\ "destructive" \notin def.hints => tool \notin Replaces

(* Each request is answered once, in the order asked, under its id, and    *)
(* nothing else is; what a tool fails with, or a tool unknown, is a result *)
(* that says so, and an error is kept for what is not a request the server *)
(* knows.                                                                  *)
Expects(line) ==
    \/ line.is = "garbage"
    \/ /\ line.is = "object" /\ line.id # <<>>
       /\ line.method = <<>> \/ line.method[1] # "notifications/"
Known == {"initialize", "ping", "tools/list", "tools/call"}
Told(line) ==
    IF line.is = "garbage" \/ line.method = <<>> \/ line.method[1] \notin Known
         \/ (line.method[1] = "tools/call" /\ line.params = <<>>)
    THEN "error"
    ELSE IF line.method[1] = "tools/call"
              /\ (line.params[1] \notin DOMAIN tools \/ line.params[2] = "fails")
    THEN "failure" ELSE "result"
EveryRequestIsAnswered(lines) ==
    LET asked == SelectSeq(lines, Expects)
        answers == serve(lines)
    IN  /\ Ends(lines) \/ Len(answers) = Len(asked)
        /\ Len(answers) <= Len(asked)
        /\ \A i \in DOMAIN answers :
              LET given == answers[i].answer IN
              /\ answers[i].id = IF asked[i].is = "garbage" THEN "null" ELSE asked[i].id[1]
              /\ (given.error # "none") = (Told(asked[i]) = "error")
              /\ (given.result = "isError") = (Told(asked[i]) = "failure")

(* A run is answered with the contract it wrote itself, unless another run *)
(* wrote one in the folder meanwhile, and with a failure when it wrote     *)
(* none; the failure tells the end of all that the run printed, unless a   *)
(* process it left behind held its output longer than the grace.           *)
RunIsAnsweredFor(c) ==
    c.answer # "none" =>
        /\ "other" \notin ToSet(c.contracts) =>
              c.answer = IF "own" \in ToSet(c.contracts) THEN "own" ELSE "failed"
        /\ c.answer \notin c.before
        /\ ~c.late => (\A s \in Streams : c.unread[s] = <<>>) /\ c.tail = TailOf(c.said)
        /\ "ESC" \notin ToSet(strip_ansi(c.tail))
=============================================================================
