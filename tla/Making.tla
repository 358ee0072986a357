-------------------------------- MODULE Making ---------------------------------
(***************************************************************************)
(* Making a Protocol: from nothing (cli.rs create_protocol_files, edit.rs) *)
(* or from a descriptor of data already there (bridge.rs), with the ignore *)
(* list and the merge rule beside its manifest (edit.rs), and the place of *)
(* its working database when the manifest names none (working_db.rs).      *)
(*                                                                         *)
(* A name is a sequence of signs.  A resource is [name, format, path,      *)
(* keys], a key [fields, to, refers, status]; a path is <<db, table>> or   *)
(* << >> when it is not of that form.                                      *)
(***************************************************************************)
EXTENDS Integers, Sequences, SequencesExt, FiniteSetsExt, TLC

None == "none"
ACCEPTED == "accepted"

-----------------------------------------------------------------------------
(* A step: its name, the statement of its model, and what it depends on.   *)
Step(name, statement, depends_on) ==
    [name |-> name, statement |-> statement, depends_on |-> depends_on]
load_sql(r) == [is |-> "load", makes |-> r.path[2], from |-> r.path, on |-> <<>>]
FirstField(fields) == IF fields = <<>> THEN "" ELSE fields[1]
fk_sql(name, child, key) ==
    [is |-> "count", makes |-> name, from |-> <<child, key.to>>,
     on |-> <<FirstField(key.fields), FirstField(key.refers)>>]

load_name(r) == <<"load", "_">> \o r.name
fk_name(child, parent) == <<"fk", "_">> \o child \o <<"_">> \o parent

Loaded(resources) == SelectSeq(resources, LAMBDA r : r.format = "duckdb")
LoadedNames(resources) == {r.name : r \in ToSet(Loaded(resources))}

\* A key's step, its comment, or neither: << >> where there is none.
KeySteps(resources, child, key) ==
    IF key.status = ACCEPTED /\ {child, key.to} \subseteq LoadedNames(resources)
    THEN LET name == fk_name(child, key.to)
         IN  <<Step(name, fk_sql(name, child, key), <<child, key.to>>)>>
    ELSE <<>>
\* Mutant of review_comments: an accepted key whose table is not loaded is passed over.
review_comments_status(resources, child, key) ==
    IF key.status # ACCEPTED THEN <<[child |-> child, key |-> key]>> ELSE <<>>
review_comments(resources, child, key) ==
    IF KeySteps(resources, child, key) = <<>> THEN <<[child |-> child, key |-> key]>> ELSE <<>>

OfKeys(resources) ==
    FlattenSeq([i \in DOMAIN resources |->
        [j \in DOMAIN resources[i].keys |-> <<resources[i].name, resources[i].keys[j]>>]])

Refused == [is |-> "refused", steps |-> <<>>, sources |-> {}, comments |-> <<>>]
generate(resources, beside) ==
    LET loads == Loaded(resources)
        keys == OfKeys(resources)
    IN
    IF \/ loads = <<>>
       \/ \E i \in DOMAIN loads : loads[i].path = <<>> \/ loads[i].path[1] \notin beside
    THEN Refused
    ELSE [is |-> "generated",
          steps |-> [i \in DOMAIN loads |-> Step(load_name(loads[i]), load_sql(loads[i]), <<>>)]
                       \o FlattenSeq([i \in DOMAIN keys |-> KeySteps(resources, keys[i][1], keys[i][2])]),
          sources |-> {loads[i].path[1] : i \in DOMAIN loads},
          comments |-> FlattenSeq([i \in DOMAIN keys |-> review_comments(resources, keys[i][1], keys[i][2])])]

(***************************************************************************)
(* The Protocol made of a descriptor can be run: its steps have names of   *)
(* their own, what a check reads a step before it loads, from a database   *)
(* copied in; each accepted key between loaded tables is checked by one    *)
(* step, and every other key is left to be reviewed.  For descriptors      *)
(* whose resources are named as their tables are, with keys of one column  *)
(* and one key from a table to another, and names that do not run into     *)
(* each other: of the others `Runnable` says nothing, and more than one    *)
(* key makes two steps of one name.                                        *)
(***************************************************************************)
Keys(resources) ==
    UNION {{[child |-> resources[i].name, key |-> k] : k \in ToSet(resources[i].keys)} :
              i \in DOMAIN resources}
Plain(resources) ==
    /\ \A i \in DOMAIN resources : resources[i].path # <<>> => resources[i].path[2] = resources[i].name
    /\ \A i, j \in DOMAIN resources : resources[i].name = resources[j].name => i = j
    /\ \A i \in DOMAIN resources : \A j, k \in DOMAIN resources[i].keys :
          resources[i].keys[j].to = resources[i].keys[k].to => j = k
    /\ \A k, l \in Keys(resources) :
          fk_name(k.child, k.key.to) = fk_name(l.child, l.key.to) => k = l
    /\ \A k \in Keys(resources) : Len(k.key.fields) = 1
Runnable(resources, beside) ==
    LET made == generate(resources, beside)
        steps == made.steps
        Checks(k) == {i \in DOMAIN steps :
            /\ steps[i].statement.is = "count" /\ steps[i].statement.from = <<k.child, k.key.to>>
            /\ steps[i].statement.on = <<FirstField(k.key.fields), FirstField(k.key.refers)>>}
        executed == {k \in Keys(resources) : k.key.status = ACCEPTED
                       /\ {k.child, k.key.to} \subseteq LoadedNames(resources)}
    IN  made.is = "generated" =>
        /\ \A i \in DOMAIN steps : steps[i].statement.is = "load" => steps[i].statement.from[1] \in made.sources
        /\ made.sources \subseteq beside
        /\ ToSet(made.comments) = Keys(resources) \ executed
        /\ Plain(resources) =>
             /\ \A i, j \in DOMAIN steps : steps[i].name = steps[j].name => i = j
             /\ \A i \in DOMAIN steps : \A t \in ToSet(steps[i].depends_on) :
                   \E j \in 1..(i - 1) : steps[j].statement.is = "load" /\ steps[j].statement.makes = t
             /\ \A k \in executed : Cardinality(Checks(k)) = 1
             /\ Cardinality({i \in DOMAIN steps : steps[i].statement.is = "count"}) = Cardinality(executed)

-----------------------------------------------------------------------------
(* The ignore list.  A database is named by the parts of its path, from    *)
(* the root when the first part is "/"; the folder lies at <<"p">>, and    *)
(* the link "l" leads to it.                                               *)
Folder == <<"/", "p">>
Link == <<"/", "l">>
Escaped == "a b" :> "a\\ b" @@ "a*" :> "a\\*"
escape_ignore_pattern(part) == IF part \in DOMAIN Escaped THEN Escaped[part] ELSE part

StripPrefix(path, prefix) == SubSeq(path, Len(prefix) + 1, Len(path))
relative(db, dir) ==
    IF db = <<>> \/ db[1] # "/" THEN <<db>>
    ELSE IF IsPrefix(dir, db) THEN <<StripPrefix(db, dir)>>
    ELSE IF IsPrefix(Folder, db) THEN <<StripPrefix(db, Folder)>>
    ELSE <<>>
path_inside(db, dir) ==
    LET Part(acc, part) ==
            CASE acc = <<>> -> <<>>
              [] acc # <<>> /\ part \in {"", "."} -> acc
              [] acc # <<>> /\ part = ".." -> IF acc[1] = <<>> THEN <<>> ELSE <<Front(acc[1])>>
              [] OTHER -> IF part = "CTRL" THEN <<>> ELSE <<Append(acc[1], escape_ignore_pattern(part))>>
        rel == relative(db, dir)
        parts == IF rel = <<>> THEN <<>> ELSE FoldLeft(Part, <<<<>>>>, rel[1])
    IN  IF parts = <<<<>>>> THEN <<>> ELSE parts

ignore_list_text(dir, db, copied) ==
    {<<"build", ".arcform", "/">>}
    \cup (IF path_inside(db, dir) = <<>> THEN {}
          ELSE {path_inside(db, dir)[1] \o end : end \in {<<>>, <<".wal">>, <<".tmp", "/">>}})
    \cup UNION {IF path_inside(d, dir) = <<>> THEN {}
                ELSE {path_inside(d, dir)[1] \o end : end \in {<<>>, <<".wal">>}} : d \in copied}

\* Where a run's database really lies: the parts from the folder, or << >> outside.
Lies(db, dir) ==
    LET Go(at, part) == CASE part \in {"", "."} -> at
                          [] part = ".." -> IF Len(at) > 1 THEN Front(at) ELSE at
                          [] OTHER -> IF Append(at, part) = Link THEN Folder ELSE Append(at, part)
        at == IF db # <<>> /\ db[1] = "/" THEN FoldLeft(Go, <<"/">>, Tail(db)) ELSE FoldLeft(Go, Folder, db)
    IN  IF IsStrictPrefix(Folder, at) THEN <<StripPrefix(at, Folder)>> ELSE <<>>

(* The merge rule: a line of the attributes file is [names, sets].         *)
Line(names, sets) == [names |-> names, sets |-> sets]
merge_rule_line == Line("/log", {"merge=union"})
NamesTheLog == {"log", "/log"}
Merges == {"merge=union", "merge=ours", "-merge", "!merge", "merge"}
sets_the_logs_merge(lines) ==
    \E i \in DOMAIN lines : lines[i].names \in NamesTheLog /\ lines[i].sets \cap Merges # {}
write_merge_rule(file) ==
    CASE file.is = "none" -> [is |-> "file", lines |-> <<merge_rule_line>>]
      [] file.is \in {"link", "folder"} -> file
      [] OTHER -> IF sets_the_logs_merge(file.lines) THEN file
                  ELSE [file EXCEPT !.lines = Append(@, merge_rule_line)]
write_ignore_list(file, list) == IF file.is = "none" THEN [is |-> "file", lines |-> list] ELSE file

\* What git makes of the log's merge: the last line that matches and says.
GitMerge(lines) ==
    LET says == {i \in DOMAIN lines : lines[i].names \in NamesTheLog \cup {"*"} /\ lines[i].sets \cap Merges # {}}
    IN  IF says = {} THEN {} ELSE lines[Max(says)].sets \cap Merges

(* Making a Protocol in a folder as it is found; the write numbered `fails`*)
(* fails, and 0 stands for none.                                           *)
FolderWith(manifest, ignore, attributes) ==
    [manifest |-> manifest, ignore |-> ignore, attributes |-> attributes, history |-> <<>>]
create_protocol_files(found, named, loads, db, fails) ==
    LET spec == [found EXCEPT !.manifest = "new"]
        recorded == IF fails = 2 THEN spec ELSE [spec EXCEPT !.history = <<"save">>]
        listed == [recorded EXCEPT !.ignore = write_ignore_list(@, ignore_list_text(Folder, db, {}))]
        ruled == [listed EXCEPT !.attributes = write_merge_rule(@)]
    IN  CASE ~named \/ found.manifest # None \/ ~loads \/ fails = 1 -> [is |-> "refused", folder |-> found]
          [] fails = 3 /\ found.ignore.is = "none" -> [is |-> "failed", folder |-> recorded]
          [] fails = 4 /\ listed.attributes # ruled.attributes -> [is |-> "failed", folder |-> listed]
          [] OTHER -> [is |-> "made", folder |-> ruled]

(* Making one of a descriptor: a folder that is there is refused, and what *)
(* was written before a write failed stays.                                *)
WritesOf(made) == <<<<"folder">>>> \o [i \in 1..Cardinality(made.sources) |-> <<SetToSeq(made.sources)[i]>>]
                     \o [i \in DOMAIN made.steps |-> made.steps[i].name]
                     \o <<<<"arcform.yaml">>, <<"datapackage.json">>, <<".gitignore">>, <<".gitattributes">>>>
init_from_descriptor_at(named, readable, stands, resources, beside, fails) ==
    LET made == generate(resources, beside)
        writes == WritesOf(made)
    IN  IF ~named \/ ~readable \/ stands \/ made.is = "refused" THEN [is |-> "refused", wrote |-> <<>>]
        ELSE IF fails \in DOMAIN writes THEN [is |-> "failed", wrote |-> SubSeq(writes, 1, fails - 1)]
        ELSE [is |-> "made", wrote |-> writes]
\* `arc init`: an empty Protocol, in a folder that is not there.
InitWrites == <<<<"folder">>, <<"models">>, <<"sources">>, <<"arcform.yaml">>, <<".gitignore">>, <<".gitattributes">>>>
init_at(named, stands, fails) ==
    IF ~named \/ stands THEN [is |-> "refused", wrote |-> <<>>]
    ELSE IF fails \in DOMAIN InitWrites THEN [is |-> "failed", wrote |-> SubSeq(InitWrites, 1, fails - 1)]
    ELSE [is |-> "made", wrote |-> InitWrites]

(***************************************************************************)
(* A Protocol is made whole or its folder is as it was, until its manifest *)
(* is written; what the author wrote before is never written over; git     *)
(* keeps both sides of the log unless the author chose otherwise; and the  *)
(* ignore list names the database exactly where a run puts it, when that   *)
(* is in the folder and the path never leaves it on the way.               *)
(***************************************************************************)
Straight(db, dir) ==
    IF db # <<>> /\ db[1] = "/"
    THEN \E root \in {dir, Folder} : IsPrefix(root, db) /\ \A i \in DOMAIN StripPrefix(db, root) :
            StripPrefix(db, root)[i] # ".."
    ELSE \A i \in DOMAIN db : Cardinality({j \in 1..i : db[j] = ".."})
                                  <= Cardinality({j \in 1..i : db[j] \notin {"..", ".", ""}})
LeavesWhole(found, made) ==
    LET after == made.folder
    IN  /\ made.is = "refused" => after = found
        /\ made.is # "refused" => after.manifest = "new"
        /\ found.manifest # None => after.manifest = found.manifest
        /\ found.ignore.is # "none" => after.ignore = found.ignore
        /\ found.attributes.is = "file" => IsPrefix(found.attributes.lines, after.attributes.lines)
        /\ found.attributes.is \in {"link", "folder"} => after.attributes = found.attributes
        /\ made.is = "made" /\ after.attributes.is = "file" =>
              IF found.attributes.is = "file" /\ sets_the_logs_merge(found.attributes.lines)
              THEN after.attributes = found.attributes
              ELSE GitMerge(after.attributes.lines) = {"merge=union"}
MadeWhole(found, named, loads, db, fails) ==
    LeavesWhole(found, create_protocol_files(found, named, loads, db, fails))
ListedWhereItLies(db, dir) ==
    LET lies == Lies(db, dir)
        listed == ignore_list_text(dir, db, {}) \ {<<"build", ".arcform", "/">>}
        Written(parts) == [i \in DOMAIN parts |-> escape_ignore_pattern(parts[i])]
    IN  /\ listed # {} => lies # <<>>
        /\ "CTRL" \notin ToSet(db) /\ Straight(db, dir) =>
              IF lies = <<>> THEN listed = {} ELSE Written(lies[1]) \in listed
GeneratesWhole(made, named, stands, resources, beside, fails) ==
    LET wrote == ToSet(made.wrote)
    IN  /\ stands => made.wrote = <<>>
        /\ made.is = "made" => {<<"arcform.yaml">>, <<".gitignore">>, <<".gitattributes">>} \subseteq wrote
        /\ <<"arcform.yaml">> \in wrote =>
              LET g == generate(resources, beside)
              IN  (\A s \in g.sources : <<s>> \in wrote) /\ \A i \in DOMAIN g.steps : g.steps[i].name \in wrote
        /\ LET empty == init_at(named, stands, fails)
           IN  /\ stands => empty.wrote = <<>>
               /\ (empty.is = "made") = (named /\ ~stands /\ ToSet(empty.wrote) = ToSet(InitWrites))
               /\ <<"arcform.yaml">> \in ToSet(empty.wrote) => {<<"models">>, <<"sources">>} \subseteq ToSet(empty.wrote)
GeneratedWhole(named, readable, stands, resources, beside, fails) ==
    GeneratesWhole(init_from_descriptor_at(named, readable, stands, resources, beside, fails),
                   named, stands, resources, beside, fails)

-----------------------------------------------------------------------------
(* The working database of a Protocol that names none: under a root, by    *)
(* the folder's canonical path.  Links: a folder's name to where it leads. *)
resolve_root(env, home) ==
    CASE env \notin {None, ""} -> <<env>> [] home # None -> <<<<home, ".arcform", "db">>>> [] OTHER -> <<>>
canonical_dir(dir, links) == IF dir \in DOMAIN links THEN links[dir] ELSE None
path_key(path) == <<"key of", path>>
locate(env, home, name, dir, links) ==
    LET root == resolve_root(env, home) IN
    IF root = <<>> \/ name \in {"a/b", "..", "", "a/"} \/ canonical_dir(dir, links) = None THEN <<>>
    ELSE <<[root |-> root[1], key |-> path_key(canonical_dir(dir, links)), name |-> name]>>
mark(markers, at, dir) == (at.key :> dir) @@ markers

(***************************************************************************)
(* Two Protocols keep their working databases apart, under one root, when  *)
(* their folders or their names are not the same; one Protocol, reached by *)
(* any of its folder's names, has one, and its marker tells the folder.    *)
(***************************************************************************)
DatabasesApart(env, home, links, names) ==
    \A a, b \in DOMAIN links : \A m, n \in names :
        LET one == locate(env, home, m, a, links)
            two == locate(env, home, n, b, links)
        IN  one # <<>> /\ two # <<>> =>
            /\ (one = two) = (links[a] = links[b] /\ m = n)
            /\ LET marked == mark(mark([k \in {} |-> 0], one[1], links[a]), two[1], links[b])
               IN  marked[one[1].key] = links[a]
=============================================================================
