---------------------------------- MODULE Cli ----------------------------------
(***************************************************************************)
(* The command line (cli.rs): what each command takes and hands on, beside *)
(* what the MCP tool of the same work takes; the texts it reads itself (an *)
(* operation's arguments and tables, an edit's address); `arc upgrade`'s   *)
(* pin; and how each command ends.                                         *)
(*                                                                         *)
(* A value is one of Mcp's, and is typed as the text that writes it; an    *)
(* argument given many times is a sequence of entries, each a sequence of  *)
(* signs.                                                                  *)
(***************************************************************************)
EXTENDS Integers, Sequences, SequencesExt, FiniteSetsExt, TLC

M == INSTANCE Mcp

Absent == "absent"

-----------------------------------------------------------------------------
(* What a command takes under a name: whether it must be given, and what   *)
(* stands for it where it is not.                                          *)
Kind(is, needed, default) == [is |-> is, needed |-> needed, default |-> default]
Text == Kind("text", TRUE, Absent)
Maybe == Kind("text", FALSE, "null")
Directory == "dir" :> Kind("text", FALSE, ".")
Flag == Kind("flag", FALSE, "false")
Entries == Kind("entries", FALSE, <<>>)
Index == Kind("whole", TRUE, Absent)

CreateProtocol == "dir" :> Text @@ "name" :> Maybe @@ "engine" :> Maybe @@ "db" :> Maybe
Run == "force" :> Flag @@ "params" :> Entries
ProtocolWriteFile == "path" :> Text @@ "content" :> Text @@ Directory
ReportWrite == "prose" :> Text @@ "run" :> Maybe @@ Directory
PanelCheck == Directory
TableDescribe == "table" :> Text @@ Directory
parse_sample_size == Kind("size", FALSE, "null")
ProfileFormatArg == Kind("format", FALSE, "json")
TableProfile ==
    "table" :> Text @@ "format" :> ProfileFormatArg @@ "sample_size" :> parse_sample_size @@ Directory
TableValidate == "table" :> Text @@ "schema" :> Text @@ Directory
SqlRecognise == "sql" :> Text
SqlRecord == "sql" :> Text @@ "name" :> Text @@ "description" :> Maybe @@ Directory
SqlQuery == "sql" :> Text @@ Directory @@ "limit" :> Kind("whole", FALSE, "100")
OperationDescribe == "operation" :> Text
OperationRecord ==
    "operation" :> Text @@ "on" :> Maybe @@ "reads" :> Entries @@ "name" :> Text
    @@ "arguments" :> Entries @@ "description" :> Maybe @@ Directory
OperatorRecord ==
    "operator" :> Text @@ "name" :> Text @@ "with" :> Kind("json", TRUE, Absent)
    @@ "description" :> Maybe @@ Directory
EditOp(edit) ==
    "path" :> Text @@ Directory @@
    CASE edit = "replace" -> "value" :> Text
      [] edit = "rewrite" -> "from" :> Text @@ "to" :> Text
      [] edit = "add" -> "key" :> Text @@ "value" :> Text
      [] edit = "append" -> "item" :> Text
      [] edit = "reorder" -> "from" :> Index @@ "to" :> Index
      [] OTHER -> [k \in {} |-> Text]
HistoryList == "file" :> Maybe @@ Directory
HistoryRestore == "id" :> Text @@ "file" :> Maybe @@ Directory

\* The tools a command does the same work as, and that command.
Command(tool, args) ==
    CASE tool = "protocol_create" -> CreateProtocol [] tool = "protocol_run" -> Run
      [] tool = "protocol_write_file" -> ProtocolWriteFile [] tool = "report_write" -> ReportWrite
      [] tool = "panel_check" -> PanelCheck [] tool = "table_describe" -> TableDescribe
      [] tool = "table_profile" -> TableProfile [] tool = "table_validate" -> TableValidate
      [] tool = "sql_recognise" -> SqlRecognise [] tool = "sql_record" -> SqlRecord
      [] tool = "sql_query" -> SqlQuery [] tool = "operation_record" -> OperationRecord
      [] tool = "operator_record" -> OperatorRecord [] tool = "history_list" -> HistoryList
      [] tool = "history_restore" -> HistoryRestore
      [] tool = "operation_describe" /\ M!At(args, "operation") # "null" -> OperationDescribe
      [] tool = "protocol_edit" /\ M!At(args, "edit") \in M!Edits -> EditOp(args["edit"])
      [] OTHER -> [k \in {} |-> Text]

Takes(kind, typed) ==
    CASE kind.is = "whole" -> typed \in M!Wholes
      [] kind.is = "size" -> typed \in M!Wholes \ {"0"}
      [] kind.is = "format" -> typed \in M!Formats
      [] OTHER -> TRUE
Taken(command, typed, key) ==
    IF key \in DOMAIN typed THEN typed[key] ELSE command[key].default
Parsed(command, typed) ==
    \A key \in DOMAIN command :
        IF key \in DOMAIN typed THEN Takes(command[key], typed[key]) ELSE ~command[key].needed

(***************************************************************************)
(* One request by either door: what a tool is called with, typed for the   *)
(* command of the same work, is taken by the one where it is by the other, *)
(* and reads the same, defaults and all.                                   *)
(***************************************************************************)
Named(pairs) == \A i \in DOMAIN pairs : pairs[i].key # <<>> /\ "=" \notin ToSet(pairs[i].key)
Typable(kind, value) ==
    CASE kind.is \in {"text", "format"} -> value \in M!Strings
      [] kind.is = "flag" -> value \in M!Booleans
      [] kind.is = "json" -> value \in M!Objects
      [] kind.is = "entries" -> value \in M!TextObjects /\ Named(M!PairsOf[value])
      [] OTHER -> TRUE
AsTyped(kind, value) == IF kind.is = "entries" THEN M!CommandLine(M!PairsOf[value]) ELSE value
Given(command, args) ==
    {k \in DOMAIN command \cap DOMAIN args :
        args[k] # "null" /\ (command[k].is = "flag" => args[k] # "false")}
Typed(command, args) == [k \in Given(command, args) |-> AsTyped(command[k], args[k])]
\* inspect.rs refuses what the tool let through and the command did not.
profile_table(readings) ==
    \A i \in DOMAIN readings : readings[i].key = "sample_size" => readings[i].value # "0"
Same(kind, read, taken) ==
    IF kind.is = "entries"
    THEN (IF read \in {"{}", "null"} THEN <<>> ELSE M!PairsOf[read]) = M!cli_params(taken)
    ELSE read = taken
AskedByEitherDoor(tool, args) ==
    LET command == Command(tool, args)
        readings == M!handler(tool, args)
        typed == Typed(command, args)
        heard == SelectSeq(readings, LAMBDA r : r.key \in DOMAIN command)
        asked == M!Took(heard) /\ (tool = "table_profile" => profile_table(readings))
    IN  DOMAIN command # {} /\ (\A k \in Given(command, args) : Typable(command[k], args[k])) =>
            /\ asked = Parsed(command, typed)
            /\ asked => \A i \in DOMAIN heard :
                  LET k == heard[i].key IN Same(command[k], heard[i].value, Taken(command, typed, k))

-----------------------------------------------------------------------------
(* An operation's arguments and tables, and a whole number of a text of    *)
(* signs; wide integers have 64 bits, here a few.                          *)
I64_MAX == 17
U64_MAX == 71
Sign == {"+", "-"}
Digits == "0" :> 0 @@ "1" :> 1 @@ "7" :> 7
AreDigits(text) == text # <<>> /\ ToSet(text) \subseteq DOMAIN Digits
Unsigned(text) == IF text # <<>> /\ text[1] \in Sign THEN Tail(text) ELSE text
Magnitude(text) == FoldLeft(LAMBDA n, d : 10 * n + Digits[d], 0, text)
WholeOf(text) == IF text[1] = "-" THEN -Magnitude(Unsigned(text)) ELSE Magnitude(Unsigned(text))

Json(is, n, text, items) == [is |-> is, n |-> n, text |-> text, items |-> items]
Left(text) == Json("text", 0, text, <<>>)
whole_number(text) ==
    IF ~AreDigits(Unsigned(text)) THEN Left(text)
    ELSE LET n == WholeOf(text)
         IN  CASE -I64_MAX - 1 <= n /\ n <= I64_MAX -> Json("i64", n, <<>>, <<>>)
               [] n > I64_MAX /\ n <= U64_MAX -> Json("u64", n, <<>>, <<>>)
               [] OTHER -> Json("f64", n, <<>>, <<>>)
SplitAt(text, sign) ==
    FoldLeft(LAMBDA pieces, s : IF s = sign THEN Append(pieces, <<>>)
                                ELSE Append(Front(pieces), Append(Last(pieces), s)), <<<<>>>>, text)
Trimmed(text) ==
    LET Seen == {i \in DOMAIN text : text[i] # " "}
    IN  IF Seen = {} THEN <<>> ELSE SubSeq(text, Min(Seen), Max(Seen))
SplitList(text) == LET pieces == SplitAt(text, ",") IN [i \in DOMAIN pieces |-> Trimmed(pieces[i])]
\* Mutant of typed_arguments: whatever reads as a number becomes one.
typed_arguments_any(type, text) ==
    CASE type \in {"integer", "string"} -> whole_number(text)
      [] type = "array" -> Json("list", 0, <<>>, SplitList(text))
typed_arguments(type, text) ==
    CASE type = "integer" -> whole_number(text)
      [] type = "array" -> Json("list", 0, <<>>, SplitList(text))
      [] OTHER -> Left(text)

Refusal == [is |-> "refused", pairs |-> <<>>]
operation_reads(entries) ==
    IF \E i \in DOMAIN entries : "=" \notin ToSet(entries[i]) THEN Refusal
    ELSE [is |-> "read", pairs |-> M!cli_params(entries)]
operation_arguments(entries) ==
    LET read == operation_reads(entries)
    IN  IF \E i, j \in DOMAIN read.pairs : i # j /\ read.pairs[i].key = read.pairs[j].key
        THEN Refusal ELSE read

(***************************************************************************)
(* A text typed for an operation keeps what was meant: a whole number is   *)
(* that number however wide, anything else for a number and any text for a *)
(* string stay as typed, and a list of plain items is that list; of two    *)
(* values for one argument none silently wins.                             *)
(***************************************************************************)
Plain(item) == item # <<>> /\ "," \notin ToSet(item) /\ Trimmed(item) = item
Joined(items) == FoldLeft(LAMBDA text, item : IF text = <<>> THEN item ELSE text \o <<",", " ">> \o item, <<>>, items)
TypedAsMeant(type, text) ==
    LET typed == typed_arguments(type, text)
    IN  /\ type = "integer" =>
              /\ (typed.is = "text") = ~\E signed \in {text, Unsigned(text)} : AreDigits(signed)
              /\ typed.is # "text" => typed.n = WholeOf(text)
        /\ typed.is = "text" => typed.text = text
        /\ type = "string" => typed.is = "text"
        /\ type = "array" /\ (\A i \in DOMAIN typed.items : Plain(typed.items[i])) =>
              typed_arguments(type, Joined(typed.items)) = typed
ArgumentsStand(entries) ==
    LET read == operation_arguments(entries)
    IN  read.is = "read" =>
            /\ Len(read.pairs) = Len(entries)
            /\ \A i \in DOMAIN entries : read.pairs[i].key \o <<"=">> \o read.pairs[i].value = entries[i]
            /\ Cardinality({read.pairs[i].key : i \in DOMAIN read.pairs}) = Len(entries)

-----------------------------------------------------------------------------
(* An edit's address: keys and indexes, or a refusal.                      *)
Key(name) == [is |-> "key", key |-> name, n |-> 0]
At(n) == [is |-> "index", key |-> <<>>, n |-> n]
BadPath == [is |-> "refused", parts |-> <<>>]
Path(parts) == [is |-> "path", parts |-> parts]

usize(text) == AreDigits(IF text # <<>> /\ text[1] = "+" THEN Tail(text) ELSE text)
Bracket(segment) == Min({i \in DOMAIN segment : segment[i] = "["} \cup {Len(segment) + 1})
\* `rest` is what follows a segment's key: each index closed, with nothing between.
IndexesOf(rest) ==
    LET pieces == SplitAt(rest, "]") IN
    IF rest = <<>> THEN Path(<<>>)
    ELSE IF \/ Last(pieces) # <<>>
            \/ \E i \in 1..(Len(pieces) - 1) :
                  pieces[i] = <<>> \/ pieces[i][1] # "[" \/ ~usize(Tail(pieces[i]))
         THEN BadPath
         ELSE Path([i \in 1..(Len(pieces) - 1) |-> At(Magnitude(Unsigned(Tail(pieces[i]))))])
SegmentOf(segment) ==
    LET at == Bracket(segment)
        indexes == IndexesOf(SubSeq(segment, at, Len(segment)))
    IN  IF segment = <<>> \/ indexes = BadPath THEN BadPath
        ELSE Path((IF at = 1 THEN <<>> ELSE <<Key(SubSeq(segment, 1, at - 1))>>) \o indexes.parts)
parse_path(raw) ==
    LET segments == SplitAt(raw, ".") IN
    IF raw = <<".">> THEN Path(<<>>)
    ELSE IF \E i \in DOMAIN segments : SegmentOf(segments[i]) = BadPath THEN BadPath
    ELSE Path(FlattenSeq([i \in DOMAIN segments |-> SegmentOf(segments[i]).parts]))

(***************************************************************************)
(* An address is read as it is written: written out again from its parts,  *)
(* it is read as the same parts; and what of its text is not there then is *)
(* a sign or a zero before an index, or a dot before one.                  *)
(***************************************************************************)
Decimal(n) ==
    LET digits == {k \in 0..5 : k = 0 \/ 10^k <= n}
        count == Cardinality(digits)
    IN  [i \in 1..count |-> CHOOSE d \in DOMAIN Digits : Digits[d] = (n \div 10^(count - i)) % 10]
WrittenPath(parts) ==
    IF parts = <<>> THEN <<".">>
    ELSE FlattenSeq([i \in DOMAIN parts |->
            IF parts[i].is = "index" THEN <<"[">> \o Decimal(parts[i].n) \o <<"]">>
            ELSE (IF i = 1 THEN <<>> ELSE <<".">>) \o parts[i].key])
Bare(raw) == SelectSeq(raw, LAMBDA s : s \notin {"+", "0", "."})
AddressesAsWritten(raw) ==
    LET path == parse_path(raw)
    IN  path.is = "path" =>
            /\ parse_path(WrittenPath(path.parts)) = path
            /\ Bare(raw) = Bare(WrittenPath(path.parts))
            /\ path.parts = <<>> => raw = <<".">>
            /\ \A i \in DOMAIN path.parts : path.parts[i].is = "key" =>
                  path.parts[i].key # <<>> /\ ToSet(path.parts[i].key) \cap {".", "["} = {}

-----------------------------------------------------------------------------
(* `arc upgrade`: the manifest as it stands when it is loaded, when its    *)
(* text is read after the install, and when the edit is made.  Of a text,  *)
(* how many of the pin's four keys it holds, the pin where it holds them   *)
(* all, and another pin.                                                   *)
Keys == 4
Pin(text) == IF text.depth = Keys THEN text.pin ELSE Absent
\* Mutant of scalar_edits: the pin's keys are added whatever is there.
scalar_edits_add(text, value) == [is |-> "add", from |-> Min({text.depth, Keys - 1}), value |-> value]
scalar_edits(text, value) ==
    [is |-> IF text.depth = Keys THEN "replace" ELSE "add", from |-> text.depth, value |-> value]
edit_spec(text, edit) ==
    IF text.depth # edit.from THEN [is |-> "refused", text |-> text]
    ELSE [is |-> "edited", text |-> [text EXCEPT !.depth = Keys, !.pin = edit.value]]
upgrade_extension(loaded, read, met, asked) ==
    LET refused == [is |-> "refused", text |-> met]
        edited == edit_spec(met, scalar_edits(read, asked.installed))
    IN  IF ~asked.loads \/ ~asked.listed \/ ~asked.version \/ asked.installed = Absent THEN refused
        ELSE IF Pin(loaded) = asked.installed THEN [is |-> "already", text |-> met]
        ELSE IF edited.is = "refused" THEN refused
        ELSE [is |-> "pinned", text |-> edited.text]

(***************************************************************************)
(* An upgrade pins what was installed and nothing else, and an edit made   *)
(* while it installed stands; a refusal leaves the manifest as it was.     *)
(* Where the pin itself was edited meanwhile, "pinned already" is said of  *)
(* the manifest loaded first.                                              *)
(***************************************************************************)
UpgradeIsPinned(loaded, read, met, asked) ==
    LET answer == upgrade_extension(loaded, read, met, asked)
        fit == asked.loads /\ asked.listed /\ asked.version /\ asked.installed # Absent
    IN  /\ answer.text.other = met.other
        /\ answer.is \in {"refused", "already"} => answer.text = met
        /\ answer.is = "pinned" => Pin(answer.text) = asked.installed
        /\ answer.is = "already" => Pin(met) = asked.installed \/ Pin(met) # Pin(loaded)
        /\ answer.is # "refused" => fit
        /\ fit /\ read.depth = met.depth => answer.is # "refused"

-----------------------------------------------------------------------------
(* How a command ends.  What its work gave: refused, by a fault; or done,  *)
(* with what it tells, what of that is wrong, and what it warns of.        *)
RunFaults ==
    {"StepFailed", "StepExecution", "Precondition", "ToolPrecondition", "StepTimeout",
     "PipelineTimeout", "ExtensionChanged", "ExtensionRefusedBeforeItRan",
     "ExtensionPinRefusedBeforeItRan", "SqlNotRead", "NoTokenizer"}
exit_code(fault) == IF fault \in RunFaults THEN 2 ELSE 1
Ended(out, exit) == [out |-> out, exit |-> exit]
cli_main(work) == Ended({}, exit_code(work.fault))

dispatch_panel(work) == Ended(work.wrong, IF work.wrong = {} THEN 0 ELSE 1)
dispatch_table(work) == Ended(work.told, IF work.wrong = {} THEN 0 ELSE 1)
\* Mutant of dispatch_sql: the answer is printed, whatever failed of it.
dispatch_sql_answered(work) == Ended(work.told, 0)
dispatch_sql(work) == Ended(work.told, IF work.wrong = {} THEN 0 ELSE 1)
dispatch_skills(work) == Ended(work.told \ work.wrong, IF work.wrong = {} THEN 0 ELSE 1)
dispatch_protocol(work) == Ended(work.told \cup work.warned, 0)
Recorded(work) == Ended(work.told, 0)
dispatch(command, work) ==
    CASE work.is = "refused" -> cli_main(work)
      [] work.is # "refused" /\ command = "panel check" -> dispatch_panel(work)
      [] work.is # "refused" /\ command = "table validate" -> dispatch_table(work)
      [] work.is # "refused" /\ command = "sql query" -> dispatch_sql(work)
      [] work.is # "refused" /\ command = "skills install" -> dispatch_skills(work)
      [] work.is # "refused" /\ command = "protocol write-file" -> dispatch_protocol(work)
      [] OTHER -> Recorded(work)

(***************************************************************************)
(* A command ends well only when all it was asked is done and nothing is   *)
(* wrong, and as a failed run only for a step's or the run's own fault;    *)
(* what is done is told even where some of it is wrong, and what was       *)
(* refused prints nothing a reader could take for an answer.               *)
(***************************************************************************)
EndsAsTold(command, work) ==
    LET ended == dispatch(command, work)
    IN  /\ (ended.exit = 0) = (work.is = "done" /\ work.wrong = {})
        /\ (ended.exit = 2) = (work.is = "refused" /\ work.fault \in RunFaults)
        /\ work.is = "refused" => ended.out = {}
        /\ work.is = "done" => work.told \ work.wrong \subseteq ended.out \/ command = "panel check"
        /\ work.is = "done" /\ command = "panel check" => ended.out = work.wrong
=============================================================================
