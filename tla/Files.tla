--------------------------------- MODULE Files ---------------------------------
(***************************************************************************)
(* The files beside a Protocol's manifest: what `arc protocol write-file`  *)
(* and its tool write (protocol_files.rs), and what the history verbs read *)
(* and put back of a named file (cli.rs).                                  *)
(*                                                                         *)
(* The disk is what lies at each place, a sequence of names from the root: *)
(* a directory, a file of a text, or a link to a place.  The history keeps *)
(* the texts of each place, oldest first.                                  *)
(***************************************************************************)
EXTENDS Integers, Sequences, SequencesExt, FiniteSetsExt, TLC

Dir == <<"p">>
Directory == [is |-> "dir", text |-> "", to |-> <<>>]
File(text) == [is |-> "file", text |-> text, to |-> <<>>]
Link(to) == [is |-> "link", text |-> "", to |-> to]
Texts == {"json", "plot", "yaml", "words"}

\* The place a path names, its links followed; nothing where there is none.
RECURSIVE Walk(_, _, _, _)
Walk(disk, at, rest, links) ==
    IF rest = <<>> THEN <<at>>
    ELSE LET next == Append(at, Head(rest)) IN
         IF next \notin DOMAIN disk THEN <<>>
         ELSE CASE disk[next].is = "dir" -> Walk(disk, next, Tail(rest), links)
                [] disk[next].is = "file" -> IF Len(rest) = 1 THEN <<next>> ELSE <<>>
                [] OTHER -> IF links = 0 THEN <<>>
                            ELSE Walk(disk, <<>>, disk[next].to \o Tail(rest), links - 1)
canonicalize(disk, path) == Walk(disk, <<>>, path, 3)
Exists(disk, path) == canonicalize(disk, path) # <<>>
IsDir(disk, path) == Exists(disk, path) /\ canonicalize(disk, path)[1] \in DOMAIN disk
                        /\ disk[canonicalize(disk, path)[1]].is = "dir"
TextAt(disk, path) == disk[canonicalize(disk, path)[1]].text

-----------------------------------------------------------------------------
(* A path given, relative to the folder.                                   *)
Normal(rel) == SelectSeq(rel, LAMBDA part : part # ".")
Joined(rel) == Dir \o Normal(rel)
stays_inside_by_name(rel) == ToSet(rel) \cap {"..", "/"} = {}
JsonNames == {"a.json"}
YamlNames == {"a.yaml"}
from_path(rel) ==
    LET parts == Normal(rel) IN
    CASE parts = <<"README.md">> -> "readme"
      [] parts = <<"report.md">> -> "report"
      [] Len(parts) = 2 /\ parts[1] = "schemas" /\ parts[2] \in JsonNames -> "schema"
      [] Len(parts) = 2 /\ parts[1] = "panels" /\ parts[2] \in YamlNames -> "panel"
      [] OTHER -> "none"
\* Mutant of resolves_inside: a path with no `..` is taken to stay inside.
resolves_inside_named(disk, path) == TRUE
resolves_inside(disk, path) ==
    LET held == Max({n \in 0..Len(path) : Exists(disk, SubSeq(path, 1, n))})
    IN  IsPrefix(Dir, canonicalize(disk, SubSeq(path, 1, held))[1])

ReadsAs(kind, content) ==
    CASE kind = "schema" -> content = "json" [] kind = "panel" -> content = "plot" [] OTHER -> TRUE

-----------------------------------------------------------------------------
(* The history of a file lies under the place of its parent and its name.  *)
Entry(kind, text) == [kind |-> kind, text |-> text]
file_key(disk, path) ==
    IF IsDir(disk, path) \/ ~Exists(disk, Front(path)) THEN <<>>
    ELSE <<Append(canonicalize(disk, Front(path))[1], Last(path))>>
entries_for_file(history, key) == IF key \in DOMAIN history THEN history[key] ELSE <<>>
record_keyed(history, key, kind, text) ==
    LET before == entries_for_file(history, key)
    IN  IF before # <<>> /\ Last(before).text = text THEN history
        ELSE (key :> Append(before, Entry(kind, text))) @@ history

Answer(is, disk, history) == [is |-> is, disk |-> disk, history |-> history]
\* `fails` names the write that does not succeed, 0 for none.
create_dir_all(disk, path) ==
    IF IsDir(disk, path) THEN <<disk>> ELSE IF path \in DOMAIN disk THEN <<>>
    ELSE <<(path :> Directory) @@ disk>>
write_atomic(disk, path, text) ==
    (Append(canonicalize(disk, Front(path))[1], Last(path)) :> File(text)) @@ disk
\* The text at a path, kept and then replaced.
Replaced(disk, history, path, text, fails) ==
    LET key == file_key(disk, path)[1]
        kept == IF Exists(disk, path)
                THEN record_keyed(history, key, "checkpoint", TextAt(disk, path)) ELSE history
    IN  IF IsDir(disk, path) \/ ~Exists(disk, Front(path)) \/ fails = 2
        THEN Answer("failed", disk, history)
        ELSE IF fails = 3 \/ ~IsDir(disk, Front(path)) THEN Answer("failed", disk, kept)
        ELSE Answer("written", write_atomic(disk, path, text), kept)
replace_file_with_history(disk, history, path, content, fails) ==
    LET replaced == Replaced(disk, history, path, content, fails)
    IN  IF replaced.is = "failed" THEN replaced
        ELSE IF fails = 4 THEN [replaced EXCEPT !.is = "failed"]
        ELSE [replaced EXCEPT !.history =
                 record_keyed(@, file_key(replaced.disk, path)[1], "save", content)]

write_protocol_file(s, rel, content, fails) ==
    LET kind == from_path(rel)
        path == Joined(rel)
        made == create_dir_all(s.disk, Front(path))
    IN  IF \/ ~stays_inside_by_name(rel)
           \/ kind \in {"none", "report"}
           \/ ~(Exists(s.disk, Dir \o <<"arcform.yaml">>) /\ ~IsDir(s.disk, Dir \o <<"arcform.yaml">>))
           \/ ~ReadsAs(kind, content)
           \/ ~resolves_inside(s.disk, path)
        THEN Answer("refused", s.disk, s.history)
        ELSE IF made = <<>> \/ fails = 1 THEN Answer("failed", s.disk, s.history)
        ELSE replace_file_with_history(made[1], s.history, path, content, fails)

-----------------------------------------------------------------------------
(* The history verbs, of the file `--file` names.                          *)
history_file(s, rel) ==
    IF stays_inside_by_name(rel) /\ resolves_inside(s.disk, Joined(rel)) THEN <<Joined(rel)>> ELSE <<>>
\* The entries list tells, or nothing where it is refused.
history_list(s, rel) ==
    LET path == history_file(s, rel)
        key == IF path = <<>> THEN <<>> ELSE file_key(s.disk, path[1])
    IN  IF key = <<>> THEN <<>> ELSE <<entries_for_file(s.history, key[1])>>
EntryText(entries, n) ==
    IF entries = <<>> \/ n \notin DOMAIN entries[1] THEN <<>> ELSE <<entries[1][n].text>>
history_show(s, rel, n) == EntryText(history_list(s, rel), n)
RestoredText(s, rel, text, fails) ==
    IF text = <<>> THEN Answer("refused", s.disk, s.history)
    ELSE Replaced(s.disk, s.history, Joined(rel), text[1], fails)
history_restore_files(s, rel, n, fails) == RestoredText(s, rel, history_show(s, rel, n), fails)

(***************************************************************************)
(* A write or a restore touches one file, inside the folder whatever links *)
(* lie there, and at most the directory made for it; a refused one leaves  *)
(* disk and history as they were; the text replaced is in the file's       *)
(* history, which every spelling of its path finds; and what is written    *)
(* is what was asked, of a kind its place calls for.                       *)
(***************************************************************************)
Inside(place) == IsPrefix(Dir, place)
Changed(before, after) ==
    {at \in DOMAIN before \cup DOMAIN after :
        ~(at \in DOMAIN before /\ at \in DOMAIN after /\ before[at] = after[at])}
TouchesOneFile(s, rel, text, after) ==
    LET path == Joined(rel)
        changed == Changed(s.disk, after.disk)
    IN  /\ after.is = "refused" => after.disk = s.disk /\ after.history = s.history
        /\ \A at \in changed : Inside(at) /\ at # Dir
        /\ \A at \in changed : at \in DOMAIN s.disk => after.disk[at] = File(text)
        /\ \A at, other \in changed : at = other \/ at = Front(other) \/ other = Front(at)
        /\ \A key \in DOMAIN s.history : IsPrefix(s.history[key], after.history[key])
        /\ \A key \in DOMAIN after.history \ DOMAIN s.history : Inside(key)
        /\ changed # {} /\ Exists(s.disk, path) =>
              \E n \in 1..Len(history_list(after, rel)[1]) :
                  history_show(after, rel, n) = <<TextAt(s.disk, path)>>
        /\ after.is = "written" => TextAt(after.disk, path) = text
WritesAsAsked(s, rel, content, after) ==
    /\ TouchesOneFile(s, rel, content, after)
    /\ after.is = "written" =>
          /\ ReadsAs(from_path(rel), content)
          /\ Last(history_list(after, <<".">> \o rel)[1]).text = content
RestoresAsAsked(s, rel, text, after) ==
    IF text = <<>> THEN after.is = "refused" ELSE TouchesOneFile(s, rel, text[1], after)
WritesStayInside(s, rel, content, fails) ==
    WritesAsAsked(s, rel, content, write_protocol_file(s, rel, content, fails))
RestoresStayInside(s, rel, fails) ==
    \A n \in 1..3 :
        RestoresAsAsked(s, rel, history_show(s, rel, n), history_restore_files(s, rel, n, fails))
=============================================================================
