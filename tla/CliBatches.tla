------------------------------ MODULE CliBatches ------------------------------
(***************************************************************************)
(* What DuckDB's CLI reads as SQL in a file, as engine.rs copies it: lines *)
(* cut at chunks and NULs, lines held until they are complete, and unicode *)
(* spaces replaced - with, for each byte of a batch, where in the file it  *)
(* came from, kept as runs.                                                *)
(*                                                                         *)
(* A byte is a string: "a" a letter or a byte above ASCII, "1" a digit,    *)
(* "LF", "SQ", "DQ" and "BT" the quotes, "NUL", "^C", and the signs themselves; places in a file count     *)
(* from 0, as in the code, and in a text from 1.                           *)
(***************************************************************************)
EXTENDS Naturals, Sequences, SequencesExt, FiniteSetsExt

CONSTANT Room  \* what is left in a line's buffer before it grows: 100

High == {"C2", "A0", "E2", "80", "8B"}
UnicodeSpaces == {<<"C2", "A0">>, <<"E2", "80", "8B">>}
Spaces == {" ", "TAB", "LF", "CR", "FF"}
is_cli_space(b) == b \in Spaces \cup {"VT"}
is_tag_byte(b, first) == b \in {"a", "_"} \cup High \/ (~first /\ b = "1")

\* Where pattern starts in z, from i on, and 0 if it does not.
Find(z, i, pattern) ==
    LET at == {k \in i..Len(z) : IsPrefix(pattern, SubSeq(z, k, Len(z)))}
    IN  IF at = {} THEN 0 ELSE Min(at)

Byte(z, i) == IF i \in DOMAIN z THEN z[i] ELSE "end"

-----------------------------------------------------------------------------
(***************************************************************************)
(* Origin: runs of bytes consecutive in the text and in the file, each     *)
(* <<first in the text, first in the file>>, both from 0.                  *)
(***************************************************************************)
NoOrigin == [runs |-> << >>, len |-> 0]

Continues(o, file) ==
    o.runs # << >> /\ Last(o.runs)[2] + (o.len - Last(o.runs)[1]) = file

push_bytes(o, file, count) ==
    IF count = 0 THEN o
    ELSE [runs |-> IF Continues(o, file) THEN o.runs ELSE Append(o.runs, <<o.len, file>>),
          len  |-> o.len + count]

pop(o) ==
    LET len == IF o.len = 0 THEN 0 ELSE o.len - 1 IN
    [runs |-> IF o.runs # << >> /\ Last(o.runs)[1] >= len THEN Front(o.runs) ELSE o.runs,
     len  |-> len]

\* Mutant of append: the second text's runs keep their places.
append_unmoved(o, other) ==
    [runs |-> o.runs \o other.runs, len |-> o.len + other.len]

append(o, other) ==
    [FoldLeft(LAMBDA acc, r :
        IF Continues([acc EXCEPT !.len = o.len + r[1]], r[2]) THEN acc
        ELSE [acc EXCEPT !.runs = Append(@, <<o.len + r[1], r[2]>>)], o, other.runs)
     EXCEPT !.len = o.len + other.len]

RunAt(o, pos) == Cardinality({r \in DOMAIN o.runs : o.runs[r][1] <= pos})

at(o, pos) == o.runs[RunAt(o, pos)][2] + (pos - o.runs[RunAt(o, pos)][1])

(* A run of the new text is copied run by run of the old.                  *)
RECURSIVE Through(_, _, _, _)
Through(o, out, from, left) ==
    IF left = 0 THEN out
    ELSE LET r    == RunAt(o, from)
             end  == IF r = Len(o.runs) THEN o.len ELSE o.runs[r + 1][1]
             take == Min({left, end - from})
         IN  Through(o, push_bytes(out, at(o, from), take), from + take, left - take)

through(o, copies, len) ==
    FoldLeft(LAMBDA out, n :
        Through(o, out, copies[n][2],
                (IF n = Len(copies) THEN len ELSE copies[n + 1][1]) - copies[n][1]),
      NoOrigin, [n \in DOMAIN copies |-> n])

-----------------------------------------------------------------------------
(***************************************************************************)
(* cli_lines: a line's buffer grows while Room is not left in it; each     *)
(* chunk fills it but for a byte, and is kept up to a NUL.                 *)
(***************************************************************************)
RECURSIVE Grown(_, _)
Grown(size, n) == IF n + Room > size THEN Grown(size * 2 + Room, n) ELSE size

NoLine(starts_on) == [bytes |-> << >>, starts_on |-> starts_on, origin |-> NoOrigin]

\* physical is a line of the file, up to its LF, base where it starts.
RECURSIVE Chunks(_, _, _, _, _)
Chunks(acc, physical, i, base, index) ==
    IF i > Len(physical) THEN acc
    ELSE LET line == acc.line
             size == Grown(acc.size, Len(line.bytes))
             take == Min({size - Len(line.bytes) - 1, Len(physical) - i + 1})
             nul  == Find(SubSeq(physical, 1, i + take - 1), i, <<"NUL">>)
             kept == IF nul = 0 THEN take ELSE nul - i
             got  == [line EXCEPT !.bytes = @ \o SubSeq(physical, i, i + kept - 1),
                                  !.origin = push_bytes(@, base + i - 1, kept)]
         IN  Chunks(IF got.bytes # << >> /\ Last(got.bytes) = "LF"
                    THEN [lines |-> Append(acc.lines, [got EXCEPT !.bytes = Front(@),
                                                                  !.origin = pop(@)]),
                          line |-> NoLine(index + 1), size |-> Room]
                    ELSE [acc EXCEPT !.line = got, !.size = size],
                    physical, i + take, base, index)

\* The ends of the file's own lines.
Ends(file) == {i \in DOMAIN file : file[i] = "LF" \/ i = Len(file)}

RECURSIVE ReadLines(_, _, _, _)
ReadLines(acc, file, base, index) ==
    IF base = Len(file) THEN acc
    ELSE LET end == Min({i \in Ends(file) : i > base})
         IN  ReadLines(Chunks(acc, SubSeq(file, base + 1, end), 1, base, index),
                       file, end, index + 1)

cli_lines(file) ==
    LET read == ReadLines([lines |-> << >>, line |-> NoLine(1), size |-> Room], file, 0, 1)
    IN  Append(read.lines, read.line)

-----------------------------------------------------------------------------
(* all_whitespace: spaces and comments; a block comment does not nest.     *)
RECURSIVE AllWhite(_, _)
AllWhite(z, i) ==
    LET pair == <<Byte(z, i), Byte(z, i + 1)>> IN
    CASE i > Len(z) -> TRUE
      [] is_cli_space(Byte(z, i)) -> AllWhite(z, i + 1)
      [] pair = <<"/", "*">> ->
           Find(z, i + 2, <<"*", "/">>) # 0 /\ AllWhite(z, Find(z, i + 2, <<"*", "/">>) + 2)
      [] pair = <<"-", "-">> ->
           Find(z, i, <<"LF">>) = 0 \/ AllWhite(z, Find(z, i, <<"LF">>))
      [] OTHER -> FALSE

all_whitespace(z) == AllWhite(z, 1)

(* A dollar quote that opens at i: its tag's end, the byte after the tag.  *)
RECURSIVE TagEnd(_, _, _)
TagEnd(z, i, first) == IF is_tag_byte(Byte(z, i), first) THEN TagEnd(z, i + 1, FALSE) ELSE i

(* sql_is_complete: whether z ends in a ";" outside what its quotes and    *)
(* comments hold; those leave what came before them as it was.             *)
RECURSIVE Complete(_, _, _)
Complete(z, i, semicolon) ==
    LET b     == Byte(z, i)
        pair  == <<b, Byte(z, i + 1)>>
        close == TagEnd(z, i + 1, TRUE)
        delim == SubSeq(z, i, close)
        After(k, n, none) == IF k = 0 THEN none ELSE Complete(z, k + n, semicolon)
    IN
    CASE i > Len(z) -> semicolon
      [] b = ";" -> Complete(z, i + 1, TRUE)
      [] b \in Spaces -> Complete(z, i + 1, semicolon)
      [] pair = <<"/", "*">> -> After(Find(z, i + 2, <<"*", "/">>), 2, FALSE)
      [] pair = <<"-", "-">> -> After(Find(z, i + 1, <<"LF">>), 0, semicolon)
      [] b = "$" /\ Byte(z, close) = "$" -> After(Find(z, close + 1, delim), Len(delim), FALSE)
      [] b \in {"SQ", "DQ", "BT"} -> After(Find(z, i + 1, <<b>>), 1, FALSE)
      [] OTHER -> Complete(z, i + 1, FALSE)

sql_is_complete(z) == Complete(z, 1, FALSE)

-----------------------------------------------------------------------------
(***************************************************************************)
(* cli_batches_mapped: lines are held until one with a ";" completes them. *)
(***************************************************************************)
Held(text, lines, origin) == [text |-> text, lines |-> lines, origin |-> origin]
NothingHeld == Held(<< >>, << >>, NoOrigin)

\* The LF between two lines is given the byte after the one before it.
Join(h, line) ==
    LET o == IF h.text = << >> THEN h.origin
             ELSE push_bytes(h.origin, at(h.origin, h.origin.len - 1) + 1, 1)
    IN  Held((IF h.text = << >> THEN << >> ELSE Append(h.text, "LF")) \o line.bytes,
             Append(h.lines, line.starts_on), append(o, line.origin))

cli_batches_mapped(file) ==
    LET Take(acc, line) ==
          LET first == Byte(line.bytes, 1)
              h     == Join(acc.held, line)
              added == SubSeq(h.text, Len(acc.held.text) + 1, Len(h.text))
          IN  CASE first = "^C" -> [acc EXCEPT !.held = NothingHeld]
                [] first # "^C" /\ acc.held.text = << >> /\ first \in {".", "#"} -> acc
                [] OTHER ->
                   IF ";" \in ToSet(added) /\ sql_is_complete(h.text)
                   THEN [batches |-> Append(acc.batches, h), held |-> NothingHeld]
                   ELSE IF all_whitespace(h.text) THEN [acc EXCEPT !.held = NothingHeld]
                   ELSE [acc EXCEPT !.held = h]
        read == FoldLeft(Take, [batches |-> << >>, held |-> NothingHeld], cli_lines(file))
    IN  Append(read.batches, read.held)

-----------------------------------------------------------------------------
(***************************************************************************)
(* strip_unicode_spaces_copies: the parser's pass before its tokenizer;    *)
(* copies are runs, <<first in the result, first in q>>, from 0.           *)
(***************************************************************************)
unicode_space_len(q, i) ==
    LET here == {s \in UnicodeSpaces : IsPrefix(s, SubSeq(q, i, Len(q)))}
    IN  IF here = {} THEN 0 ELSE Len(CHOOSE s \in here : TRUE)

\* The place after what starts at i: a string, a comment, a tag, a byte.
StretchEnd(q, i) ==
    LET b     == q[i]
        next  == Byte(q, i + 1)
        close == TagEnd(q, i + 1, FALSE)
        delim == SubSeq(q, i, close)
        Past(k, n) == IF k = 0 THEN Len(q) + 1 ELSE k + n
        eol   == {k \in i..Len(q) : q[k] \in {"LF", "CR"}}
    IN
    CASE b \in {"SQ", "DQ"} -> Past(Find(q, i + 1, <<b>>), 1)
      [] b = "-" /\ next = "-" -> IF eol = {} THEN Len(q) + 1 ELSE Min(eol)
      [] b = "$" /\ (next = "$" \/ is_tag_byte(next, TRUE)) ->
           IF Byte(q, close) = "$" THEN Past(Find(q, close, delim), Len(delim) - 1) ELSE close
      [] OTHER -> i + 1

RECURSIVE Strip(_, _, _, _)
Strip(q, i, out, copies) ==
    IF i > Len(q) THEN [text |-> out, copies |-> copies]
    ELSE LET n     == unicode_space_len(q, i)
             end   == IF n > 0 THEN i + n ELSE StretchEnd(q, i)
             runs  == IF copies # << >> /\ Last(copies)[2] + (Len(out) - Last(copies)[1]) = i - 1
                      THEN copies ELSE Append(copies, <<Len(out), i - 1>>)
         IN  Strip(q, end, IF n > 0 THEN Append(out, " ") ELSE out \o SubSeq(q, i, end - 1), runs)

strip_unicode_spaces_copies(q) == Strip(q, 1, << >>, << >>)

-----------------------------------------------------------------------------
(***************************************************************************)
(* The property: what a byte of a text came from, in the file.             *)
(***************************************************************************)
\* Joined lines: the LF the CLI put in stands for the byte after a line.
CameFrom(file, b, place) == Byte(file, place + 1) = b \/ b = "LF"

OriginsHold(file, text, origin) ==
    /\ origin.len = Len(text)
    /\ \A i \in DOMAIN text : CameFrom(file, text[i], at(origin, i - 1))
    /\ \A i \in 1..(Len(text) - 1) : at(origin, i - 1) < at(origin, i)

\* What the tokenizer receives is the file's, but for the spaces put in for wider ones.
StrippedHold(file, text, o) ==
    /\ o.len = Len(text)
    /\ \A i \in DOMAIN text :
         \/ CameFrom(file, text[i], at(o, i - 1))
         \/ text[i] = " " /\ unicode_space_len(file, at(o, i - 1) + 1) > 0
StrippedOf(file, b, s) == StrippedHold(file, s.text, through(b.origin, s.copies, Len(s.text)))

AreOf(file, batches) ==
    /\ \A n \in DOMAIN batches :
         /\ OriginsHold(file, batches[n].text, batches[n].origin)
         /\ StrippedOf(file, batches[n], strip_unicode_spaces_copies(batches[n].text))
         /\ n < Len(batches) => sql_is_complete(batches[n].text)
    /\ \A n \in 1..(Len(batches) - 1) :
         batches[n + 1].text # << >> =>
           at(batches[n].origin, batches[n].origin.len - 1) < at(batches[n + 1].origin, 0)

(* engine.rs:1371: each byte of a batch is the file's byte its origin      *)
(* names, in the file's order, through the cut of lines, chunks and NULs   *)
(* and the joining of lines; so is each byte the tokenizer receives, or it *)
(* stands for the unicode space that starts there.  Batches follow one     *)
(* another in the file, and a batch is handed over as soon as it is        *)
(* complete.                                                               *)
BatchesAreTheFiles(file) == AreOf(file, cli_batches_mapped(file))
=============================================================================
