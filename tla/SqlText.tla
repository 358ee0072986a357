------------------------------- MODULE SqlText -------------------------------
(***************************************************************************)
(* The text of a SQL file as arc reads it: duckdb_tokens.rs, which makes   *)
(* words, strings and signs of DuckDB's tokens and asks for the tokens of  *)
(* each text a query() is given; duckdb_lineage.rs and introspect.rs,      *)
(* which cut a text into statements by the tokens and without them; and    *)
(* engine.rs's scans for what installs an extension or runs other SQL.     *)
(*                                                                         *)
(* A text is a sequence of signs.  A Spelled sign is a word and the space  *)
(* after it; "SQ", "DQ" and "BT" are the quotes, "BS" is a backslash.      *)
(* Texts are rendered from statements, each of its names and values in one *)
(* of the ways DuckDB reads it, which is what the readings are held to.    *)
(***************************************************************************)
EXTENDS Naturals, Sequences, SequencesExt, FiniteSetsExt

Spelled == {"INSTALL", "FROM", "SELECT", "SET", "core", "community", "nightly", "query", "json",
            "table", "dialect", "setting", "IMPORT", "DATABASE", "duckdbrc"}
Letters == {"a", "E"}
FirstAt(text, from, Ends(_)) ==
    Min({Len(text) + 1} \cup {k \in from..Len(text) : Ends(text[k])})
LineOf(text, start) == 1 + Cardinality({k \in 1..(start - 1) : k <= Len(text) /\ text[k] = "LF"})
IsSpace(sign) == sign \in {" ", "LF"}

-----------------------------------------------------------------------------
(* DuckDB's sql_tokenize: each token as [start, end), in signs.            *)
RECURSIVE QuoteEnd(_, _, _, _)
QuoteEnd(text, i, quote, escapes) ==
    IF i > Len(text) THEN Len(text) + 1
    ELSE IF escapes /\ text[i] = "BS" THEN QuoteEnd(text, i + 2, quote, escapes)
    ELSE IF text[i] # quote THEN QuoteEnd(text, i + 1, quote, escapes)
    ELSE IF i < Len(text) /\ text[i + 1] = quote THEN QuoteEnd(text, i + 2, quote, escapes)
    ELSE i + 1

DollarTag(text, i) ==
    LET close == FirstAt(text, i + 1, LAMBDA s : s \notin Letters)
    IN  IF close <= Len(text) /\ text[close] = "$" THEN SubSeq(text, i, close) ELSE << >>
\* Past the text that tag opened before i.
DollarEnd(text, i, tag) ==
    Min({Len(text) + 1} \cup
        {k + Len(tag) : k \in {k \in i..(Len(text) - Len(tag) + 1) :
                                  SubSeq(text, k, k + Len(tag) - 1) = tag}})

TokenEnd(text, i) ==
    CASE text[i] = "--" -> FirstAt(text, i, LAMBDA s : s = "LF")
      [] text[i] = "/*" -> Min({Len(text) + 1, FirstAt(text, i, LAMBDA s : s = "*/") + 1})
      [] text[i] \in {"SQ", "DQ", "BT"} -> QuoteEnd(text, i + 1, text[i], FALSE)
      [] text[i] = "E" /\ i < Len(text) /\ text[i + 1] = "SQ" -> QuoteEnd(text, i + 2, "SQ", TRUE)
      [] text[i] = "$" /\ DollarTag(text, i) # << >> ->
           DollarEnd(text, i + Len(DollarTag(text, i)), DollarTag(text, i))
      [] text[i] \in Letters -> FirstAt(text, i, LAMBDA s : s \notin Letters \cup {"1"})
      [] OTHER -> i + 1

RECURSIVE TokensFrom(_, _)
TokensFrom(text, i) ==
    IF i > Len(text) THEN << >>
    ELSE IF IsSpace(text[i]) THEN TokensFrom(text, i + 1)
    ELSE LET end == TokenEnd(text, i)
         IN  <<[start |-> i, word |-> SubSeq(text, i, end - 1)]>> \o TokensFrom(text, end)
Tokens(text) == TokensFrom(text, 1)

-----------------------------------------------------------------------------
(* duckdb_tokens.rs: a token as the refusals read it, by its text alone.   *)
is_comment(word) == word[1] \in {"--", "/*"}

\* 0 for no single-quoted string.
quote_prefix(word) ==
    IF word[1] = "SQ" THEN 1 ELSE IF word[1] = "E" /\ Len(word) > 1 /\ word[2] = "SQ" THEN 2 ELSE 0
closed_quoted(word, prefix) == Len(word) > prefix /\ word[Len(word)] = "SQ"

RECURSIVE Undoubled(_, _)
Undoubled(body, quote) ==
    IF body = << >> THEN << >>
    ELSE IF Len(body) > 1 /\ body[1] = quote /\ body[2] = quote
    THEN <<quote>> \o Undoubled(SubSeq(body, 3, Len(body)), quote)
    ELSE <<body[1]>> \o Undoubled(Tail(body), quote)
Body(word, prefix, closed) == SubSeq(word, prefix + 1, Len(word) - (IF closed THEN 1 ELSE 0))
strip_quoted(word, prefix) == Undoubled(Body(word, prefix, closed_quoted(word, prefix)), "SQ")

\* The escape of a line end; any other sign stands for itself.
RECURSIVE e_unescape(_)
e_unescape(raw) ==
    IF raw = << >> THEN << >>
    ELSE IF raw[1] # "BS" \/ Len(raw) = 1 THEN <<raw[1]>> \o e_unescape(Tail(raw))
    ELSE <<IF raw[2] = "n" THEN "LF" ELSE raw[2]>> \o e_unescape(SubSeq(raw, 3, Len(raw)))

dollar_body(word) ==
    LET tag  == DollarTag(word, 1)
        body == SubSeq(word, Len(tag) + 1, Len(word))
    IN  IF Len(word) >= 2 * Len(tag) /\ IsSuffix(tag, body)
        THEN SubSeq(body, 1, Len(body) - Len(tag)) ELSE body

\* The token that continues a string ending before end, from the one at from on; else 0.
continuation(text, tokens, from, end) ==
    LET next  == Min({Len(tokens) + 1} \cup {k \in from..Len(tokens) : ~is_comment(tokens[k].word)})
        block == \E k \in from..(next - 1) : tokens[k].word[1] = "/*"
    IN  IF /\ next <= Len(tokens)
           /\ tokens[next].word[1] = "SQ" /\ closed_quoted(tokens[next].word, 1)
           /\ ~block /\ \E k \in end..(tokens[next].start - 1) : text[k] = "LF"
        THEN next ELSE 0

Tok(is, text, raw, quoted, line) ==
    [is |-> is, text |-> text, raw |-> raw, quoted |-> quoted, line |-> line]

\* What the string at k joins: its raw text, and the token after it.
RECURSIVE Joined(_, _, _, _, _)
Joined(text, tokens, k, prefix, raw) ==
    LET word  == tokens[k].word
        whole == raw \o strip_quoted(word, prefix)
        next  == IF closed_quoted(word, prefix)
                 THEN continuation(text, tokens, k + 1, tokens[k].start + Len(word)) ELSE 0
    IN  IF next = 0 THEN <<whole, k + 1>> ELSE Joined(text, tokens, next, 1, whole)

RECURSIVE to_tok_from(_, _, _)
to_tok_from(text, tokens, k) ==
    IF k > Len(tokens) THEN << >>
    ELSE
    LET word == tokens[k].word
        line == LineOf(text, tokens[k].start)
        rest == to_tok_from(text, tokens, k + 1)
        prefix == quote_prefix(word)
        joined == Joined(text, tokens, k, prefix, << >>)
        closed == Len(word) >= 2 /\ word[Len(word)] = word[1]
        name == Undoubled(Body(word, 1, closed), word[1])
    IN  IF is_comment(word) THEN rest
        ELSE IF prefix > 0
        THEN <<Tok("str", IF word[1] = "E" THEN e_unescape(joined[1]) ELSE joined[1], joined[1],
                   FALSE, line)>> \o to_tok_from(text, tokens, joined[2])
        ELSE IF word[1] = "$" /\ DollarTag(word, 1) # << >>
        THEN <<Tok("str", dollar_body(word), dollar_body(word), FALSE, line)>> \o rest
        ELSE IF word[1] \in {"DQ", "BT"} THEN <<Tok("word", name, name, TRUE, line)>> \o rest
        ELSE IF word[1] \in Letters \cup Spelled THEN <<Tok("word", word, word, FALSE, line)>> \o rest
        ELSE [i \in DOMAIN word |-> Tok("other", <<word[i]>>, << >>, FALSE, line)] \o rest
to_tok(text) == to_tok_from(text, Tokens(text), 1)

IsWord(tok, name) == tok.is = "word" /\ tok.text = <<name>>
IsSign(tok, sign) == tok.is = "other" /\ tok.text = <<sign>>

\* add_query_literals: the texts query(...) is given in text, and those they hold.
add_query_literals(text) ==
    LET toks == to_tok(text)
    IN  {toks[k + 2].text : k \in {k \in 1..(Len(toks) - 2) :
            IsWord(toks[k], "query") /\ IsSign(toks[k + 1], "(") /\ toks[k + 2].is = "str"}}
RECURSIVE LiteralsFrom(_, _)
LiteralsFrom(pending, known) ==
    IF pending = {} THEN known
    ELSE LET asked == known \cup pending
         IN  LiteralsFrom(UNION {add_query_literals(t) : t \in pending} \ asked, asked)
Literals(text) == LiteralsFrom(add_query_literals(text), {})

-----------------------------------------------------------------------------
(* engine.rs: where a text installs an extension, moves where one comes    *)
(* from, switches the parser, or runs SQL it does not hold.                *)
RUNS_SQL == {"query", "json"}
NAMED_BEFORE_A_COLUMN_LIST == {"table"}
PARSER_SWITCHES == {"dialect"}
EXTENSION_SETTINGS == {"setting"}

RECURSIVE names_a_table(_)
names_a_table(before) ==
    LET n == Len(before)
    IN  IF n >= 2 /\ before[n].text = <<".">> /\ before[n - 1].is = "word"
        THEN names_a_table(SubSeq(before, 1, n - 2))
        ELSE n > 0 /\ \E w \in NAMED_BEFORE_A_COLUMN_LIST : IsWord(before[n], w)

\* JSON that calls neither function: a number.
serialized_calls(json) == json # <<"1">>

RECURSIVE unread_calls(_, _)

\* Mutant of reads_argument: any one string is read.
reads_argument_any(name, argument, literals) ==
    Len(argument) >= 2 /\ argument[1].is = "str" /\ IsSign(argument[2], ")")

reads_argument(name, argument, literals) ==
    /\ Len(argument) >= 2 /\ argument[1].is = "str" /\ IsSign(argument[2], ")")
    /\ IF name = "query"
       THEN argument[1].text \in literals /\ unread_calls(to_tok(argument[1].text), literals) = {}
       ELSE ~serialized_calls(argument[1].text)

unread_calls(toks, literals) ==
    {<<"call", name, toks[k].line>> : <<k, name>> \in {<<k, name>> \in (DOMAIN toks) \X RUNS_SQL :
        /\ IsWord(toks[k], name)
        /\ k < Len(toks) /\ IsSign(toks[k + 1], "(")
        /\ ~names_a_table(SubSeq(toks, 1, k - 1))
        /\ ~reads_argument(name, SubSeq(toks, k + 2, Len(toks)), literals)}}

HoldsSign(tok, sign) == sign \in ToSet(tok.text) \cup ToSet(tok.raw)

scan_run_time_sql(toks, literals) ==
    unread_calls(toks, literals)
    \cup {<<"import", toks[k].line>> : k \in {k \in 1..(Len(toks) - 1) :
              IsWord(toks[k], "IMPORT") /\ IsWord(toks[k + 1], "DATABASE")}}
    \cup {<<"duckdbrc", toks[k].line>> : k \in {k \in DOMAIN toks :
              HoldsSign(toks[k], "duckdbrc") /\ (toks[k].is = "str" \/ toks[k].quoted)}}

InstallPlace(toks, k) ==
    IF k + 1 <= Len(toks) /\ IsWord(toks[k], "FROM") /\ ~toks[k].quoted
    THEN CASE IsWord(toks[k + 1], "core") -> <<"core">>
           [] IsWord(toks[k + 1], "community") -> <<"community">>
           [] toks[k + 1].is = "word" -> <<"alias", toks[k + 1].text>>
           [] toks[k + 1].is = "str" -> <<"address", toks[k + 1].text>>
           [] OTHER -> <<"none">>
    ELSE <<"core">>

InstallAt(toks, k) ==
    LET name == IF toks[k].is = "str" THEN toks[k].raw ELSE toks[k].text
        place == InstallPlace(toks, k + 1)
    IN  IF toks[k].is = "other" \/ (IsWord(toks[k], "FROM") /\ ~toks[k].quoted) THEN {}
        ELSE IF ToSet(name) \cap {".", "/", "BS"} # {} THEN {<<"path", name, toks[k - 1].line>>}
        ELSE IF place = <<"none">> THEN {}
        ELSE {<<"install", name, place, toks[k - 1].line>>}

scan_tokens(toks) ==
    {<<"switch", s, toks[k].line>> : <<k, s>> \in {<<k, s>> \in (DOMAIN toks) \X PARSER_SWITCHES :
        IsWord(toks[k], s) \/ (toks[k].is = "str" /\ HoldsSign(toks[k], s))}}
    \cup {<<"setting", s, toks[k].line>> : <<k, s>> \in
            {<<k, s>> \in (DOMAIN toks) \X EXTENSION_SETTINGS : IsWord(toks[k], s)}}
    \cup UNION {InstallAt(toks, k + 1) : k \in {k \in 1..(Len(toks) - 1) :
            IsWord(toks[k], "INSTALL") /\ ~toks[k].quoted
            /\ (k = 1 \/ ~IsSign(toks[k - 1], "."))}}

scan_extension_sql(text) ==
    LET toks == to_tok(text) IN scan_tokens(toks) \cup scan_run_time_sql(toks, Literals(text))

-----------------------------------------------------------------------------
(* The statements of a text, each as <<first sign, past the last>>: by its *)
(* tokens, and without them.                                               *)
TrimmedEnd(text, start, end) == Max({start} \cup {k + 1 : k \in {k \in start..(end - 1) : ~IsSpace(text[k])}})

split(text) ==
    LET tokens == Tokens(text)
        ends   == {k \in DOMAIN tokens : tokens[k].word = <<";">>}
        First(k) == Min({k} \cup {j \in 1..(k - 1) :
                          ~is_comment(tokens[j].word) /\ ~\E e \in ends : j <= e /\ e < k})
        last   == Max({0} \cup ends)
        tail   == {j \in (last + 1)..Len(tokens) : ~is_comment(tokens[j].word)}
    IN  {<<tokens[First(k)].start, tokens[k].start + 1>> : k \in {k \in ends : First(k) < k}}
        \cup (IF tail = {} THEN {}
              ELSE {<<tokens[Min(tail)].start, TrimmedEnd(text, tokens[Min(tail)].start, Len(text) + 1)>>})

skip_string(text, open, quote) == QuoteEnd(text, open + 1, quote, FALSE)
skip_line_comment(text, open)  == Min({Len(text) + 1, FirstAt(text, open, LAMBDA s : s = "LF") + 1})
skip_block_comment(text, open) == Min({Len(text) + 1, FirstAt(text, open, LAMBDA s : s = "*/") + 1})
\* Mutant of skip_dollar_quote: a dollar sign opens nothing.
skip_dollar_quote_no(text, open) == open + 1

skip_dollar_quote(text, open) ==
    LET close == FirstAt(text, open + 1, LAMBDA s : s \notin Letters \cup {"1"})
        tag   == SubSeq(text, open, close)
    IN  IF close > Len(text) \/ text[close] # "$" THEN open + 1
        ELSE DollarEnd(text, close + 1, tag)

RECURSIVE CodeStart(_, _, _)
CodeStart(text, i, end) ==
    IF i >= end THEN end
    ELSE IF IsSpace(text[i]) THEN CodeStart(text, i + 1, end)
    ELSE IF text[i] = "--" THEN CodeStart(text, skip_line_comment(text, i), end)
    ELSE IF text[i] = "/*" THEN CodeStart(text, skip_block_comment(text, i), end)
    ELSE i
trim_code_span(text, start, end) ==
    LET i == CodeStart(text, start, end)
    IN  IF i >= end THEN {} ELSE {<<i, TrimmedEnd(text, i, end)>>}

RECURSIVE RangesFrom(_, _, _)
RangesFrom(text, i, seg) ==
    IF i > Len(text) THEN trim_code_span(text, seg, Len(text) + 1)
    ELSE CASE text[i] \in {"SQ", "DQ"} -> RangesFrom(text, skip_string(text, i, text[i]), seg)
           [] text[i] = "--" -> RangesFrom(text, skip_line_comment(text, i), seg)
           [] text[i] = "/*" -> RangesFrom(text, skip_block_comment(text, i), seg)
           [] text[i] = "$"  -> RangesFrom(text, skip_dollar_quote(text, i), seg)
           [] text[i] = ";"  -> trim_code_span(text, seg, i + 1) \cup RangesFrom(text, i + 1, i + 1)
           [] OTHER -> RangesFrom(text, i + 1, seg)
statement_byte_ranges(text) == RangesFrom(text, 1, 1)

-----------------------------------------------------------------------------
(***************************************************************************)
(* Texts that are rendered from what they say.                             *)
(***************************************************************************)
Spelling(value, how) == [value |-> value, how |-> how]

RECURSIVE Doubled(_, _), Escaped(_)
Doubled(value, quote) ==
    IF value = << >> THEN << >>
    ELSE (IF value[1] = quote THEN <<quote, quote>> ELSE <<value[1]>>) \o Doubled(Tail(value), quote)
Escaped(value) ==
    IF value = << >> THEN << >>
    ELSE (CASE value[1] \in {"SQ", "BS"} -> <<"BS", value[1]>>
            [] value[1] = "LF" -> <<"BS", "n">> [] OTHER -> <<value[1]>>) \o Escaped(Tail(value))

Quoted(value, quote) == <<quote>> \o Doubled(value, quote) \o <<quote>>
Spell(s) ==
    CASE s.how = "bare"  -> s.value
      [] s.how \in {"SQ", "DQ", "BT"} -> Quoted(s.value, s.how)
      [] s.how = "E"     -> <<"E", "SQ">> \o Escaped(s.value) \o <<"SQ">>
      [] s.how = "$"     -> <<"$", "$">> \o s.value \o <<"$", "$">>
      [] s.how = "$a"    -> <<"$", "a", "$">> \o s.value \o <<"$", "a", "$">>
      [] s.how = "lines" -> Quoted(SubSeq(s.value, 1, 1), "SQ") \o <<"--", "SQ", "LF">>
                            \o Quoted(Tail(s.value), "SQ")
IsText(s) == s.how \notin {"bare", "DQ", "BT"}
RawOf(s)  == IF s.how = "E" THEN Escaped(s.value) ELSE s.value

\* arg: << >> for an expression, or a string with what it says.
Said(does, name) ==
    [does |-> does, name |-> name, from |-> << >>, gap |-> << >>, before |-> << >>,
     schema |-> << >>, arg |-> << >>]

RECURSIVE Render(_)
ArgOf(st) ==
    IF st.arg = << >> THEN Quoted(<<"a">>, "SQ") \o <<"|", "a">>
    ELSE Spell(Spelling(Render(st.arg[1].st), st.arg[1].how))
Render(st) ==
    CASE st.does = "install" ->
           <<"INSTALL">> \o st.gap \o Spell(st.name) \o
           (IF st.from = << >> THEN << >> ELSE st.gap \o <<"FROM">> \o st.gap \o Spell(st.from[1]))
      [] st.does = "call" -> <<"FROM">> \o st.gap \o st.schema \o Spell(st.name) \o st.gap
                             \o <<"(">> \o st.gap \o ArgOf(st) \o st.gap \o <<")">>
      [] st.does = "declare" -> <<"table">> \o st.gap \o st.schema \o Spell(st.name) \o <<"(", "a", ")">>
      [] st.does = "value" -> <<"SELECT">> \o st.gap \o Spell(st.name)
      [] st.does = "set"   -> <<"SET">> \o st.gap \o Spell(st.name) \o <<"=", "1">>
      [] st.does = "import" -> <<"IMPORT">> \o st.gap \o <<"DATABASE">> \o Spell(st.name)
      [] OTHER -> Spell(st.name)

RECURSIVE FileText(_, _)
\* Each statement but perhaps the last closed by a semicolon.
FileText(file, open) ==
    IF file = << >> THEN << >>
    ELSE file[1].before \o Render(file[1])
         \o (IF open /\ Len(file) = 1 THEN << >> ELSE <<";">>) \o FileText(Tail(file), open)
StartOf(file, i) == Len(FileText(SubSeq(file, 1, i - 1), FALSE)) + Len(file[i].before) + 1

\* Whether a call runs SQL that is not in the file.
RECURSIVE RunsOther(_)
RunsOther(st) ==
    IF st.arg = << >> THEN TRUE
    ELSE IF st.name.value = <<"query">>
    THEN st.arg[1].st.does = "call" /\ RunsOther(st.arg[1].st)
    ELSE Render(st.arg[1].st) # <<"1">>

PlaceOf(st) ==
    IF st.from = << >> THEN <<"core">>
    ELSE LET s == st.from[1]
         IN  IF IsText(s) THEN <<"address", s.value>>
             ELSE IF s.value = <<"core">> THEN <<"core">>
             ELSE IF s.value = <<"community">> THEN <<"community">> ELSE <<"alias", s.value>>

\* The strings and the quoted names of a statement, each with the line it starts on.
Expected(file, open) ==
    LET text == FileText(file, open)
        Line(i, past) == LineOf(text, StartOf(file, i) + past)
        InName(i) == Line(i, 1 + Len(file[i].gap) + Len(file[i].schema))
        InArg(i)  == Line(i, 2 + 3 * Len(file[i].gap) + Len(file[i].schema)
                            + Len(Spell(file[i].name)))
        Named(i, line) ==
            LET st == file[i] s == st.name IN
            CASE st.does = "install" ->
                   {IF ToSet(RawOf(s)) \cap {".", "/", "BS"} # {} THEN <<"path", RawOf(s), line>>
                    ELSE <<"install", RawOf(s), PlaceOf(st), line>>}
              [] st.does = "call" /\ RunsOther(st) -> {<<"call", s.value[1], InName(i)>>}
              [] st.does = "import" -> {<<"import", line>>}
              [] OTHER -> {}
        Marked(sign, s, line) ==
            IF sign \notin ToSet(s.value) THEN {}
            ELSE CASE sign = "dialect" /\ (IsText(s) \/ s.value = <<sign>>) -> {<<"switch", sign, line>>}
                   [] sign = "setting" /\ ~IsText(s) /\ s.value = <<sign>> -> {<<"setting", sign, line>>}
                   [] sign = "duckdbrc" /\ s.how # "bare" -> {<<"duckdbrc", line>>}
                   [] OTHER -> {}
        Signs(i) == UNION {Marked(sign, file[i].name, InName(i)) : sign \in {"dialect", "setting", "duckdbrc"}}
                    \cup (IF file[i].arg = << >> THEN {}
                          ELSE LET arg == Spelling(Render(file[i].arg[1].st), file[i].arg[1].how)
                               IN  UNION {Marked(sign, arg, InArg(i)) :
                                            sign \in {"dialect", "setting", "duckdbrc"}})
    IN  UNION {Named(i, Line(i, 0)) \cup Signs(i) : i \in DOMAIN file}

(***************************************************************************)
(* However a statement is written, the scans before a run name what it     *)
(* installs and from where, the settings and switches it names, and each   *)
(* call whose SQL is not in the file, on its line, and nothing else        *)
(* (engine.rs:1515-1690).                                                  *)
(***************************************************************************)
InstallsAreRead(file, open) == scan_extension_sql(FileText(file, open)) = Expected(file, open)

\* What the cut without tokens is not made for: backticks, an escaped quote, no statement.
RECURSIVE LexicallyPlain(_)
LexicallyPlain(st) ==
    /\ st.name.how # "BT" /\ (st.name.how = "E" => "SQ" \notin ToSet(st.name.value))
    /\ \A i \in DOMAIN st.arg : st.arg[i].how = "E" => "SQ" \notin ToSet(Render(st.arg[i].st))
    /\ st.does # "nothing"

(***************************************************************************)
(* A text is cut into its statements: by its tokens always, and without    *)
(* them when it holds no backtick, no escaped quote and no empty statement *)
(* (duckdb_lineage.rs:376, introspect.rs:844-860).                         *)
(***************************************************************************)
StatementsAreCut(file, open) ==
    LET text == FileText(file, open)
        End(i) == StartOf(file, i) + Len(Render(file[i]))
                    + (IF open /\ i = Len(file) THEN 0 ELSE 1)
        stated == {i \in DOMAIN file : file[i].does # "nothing"}
        ranges == {<<StartOf(file, i), End(i)>> : i \in stated}
    IN  /\ split(text) = ranges
        /\ (\A i \in DOMAIN file : LexicallyPlain(file[i])) => statement_byte_ranges(text) = ranges
=============================================================================
