------------------------------ MODULE Operators ------------------------------
(***************************************************************************)
(* The operators of src/src/operator.rs (http_fetch is FetchCache's): what *)
(* each declares, what it refuses, and how its products come to be on      *)
(* disk, attempt after attempt, while steps fail, deadlines pass, arc is   *)
(* killed and inputs change.                                               *)
(*                                                                         *)
(* A run of an operator is a program: a sequence of operations that arc    *)
(* carries out itself, of which one may be to start a child process that   *)
(* has a program of its own, and that arc waits for before it goes on.     *)
(* What a file holds is whether it is whole, and the versions it was made  *)
(* from.                                                                   *)
(***************************************************************************)
EXTENDS Naturals, Sequences, FiniteSets

CONSTANTS OperatorSteps, \* the steps to run: [op, with]
          Timed,       \* whether the step has a timeout
          MaxAttempts, \* the step's retry policy
          MaxVersions, \* bound: versions of an input
          MaxFaults    \* bound: operations that fail

VARIABLES step,      \* the step
          disk,      \* the folder's files
          pc,        \* where arc is: "idle", "runs", "waits", "ended"
          program,   \* what arc has left to do
          seen,      \* the versions this attempt has read
          children,  \* the processes alive: [left, seen, attempt]
          attempt, outcome, missing,
          began,     \* ghost: the folder when the step began
          survived,  \* ghost: whether a process outlived the deadline
          faults

vars == <<step, disk, pc, program, seen, children, attempt, outcome, missing,
          began, survived, faults>>

\* `tool` is the tool, the extension or the model that a step needs.
Inputs   == {"a", "b", "tool"}
Dest     == [x |-> "dest/x", y |-> "dest/y"]
Products == {"out", "out2", Dest.x, Dest.y}
Files    == Inputs \cup Products \cup {"part", "dest"}

Absent == [is |-> "absent", of |-> {}]
Half   == [is |-> "half", of |-> {}]
Whole(versions) == [is |-> "whole", of |-> versions]
Input(f, v) == Whole({<<f, v>>})

Do(what, f) == [do |-> what, file |-> f]

(* A file is begun, and what is begun is still to be finished.             *)
Write(f) == Do("write", f)

\* Mutant of Publish: the product is written in place.
PublishInPlace(f) == Write(f)

(* To a temporary name, and from there by a rename.                        *)
Publish(f) == Do("publish", f)

-----------------------------------------------------------------------------
(***************************************************************************)
(* The catalogue.  `mode` is what becomes of the output of the children:   *)
(* one whose output is inherited is waited for with the step's timeout,    *)
(* one whose output is captured without it.                                *)
(***************************************************************************)
Operator(reads, produces, mode, run, does) ==
    [reads |-> reads, produces |-> produces, mode |-> mode, run |-> run, does |-> does]

(* arc does it all itself, or all of it is one child's to do.              *)
InProcess(reads, produces, run) == Operator(reads, produces, "none", run, << >>)

Wraps(reads, produces, mode, does) ==
    Operator(reads, produces, mode, <<Do("spawn", "script")>>, [script |-> does])

(* DuckDB's COPY writes the file where it is to be.                        *)
ParquetExport(w) == InProcess({"a"}, {"out"}, <<Do("read", "a"), Write("out")>>)

(* The temporary's name is the target's with the extension "part": a target *)
(* that has this extension is its own temporary.                           *)
OpendalFetch(w) ==
    InProcess({}, {"out"},
              <<Do("fetch", "a"), IF w.toPart THEN Write("out") ELSE Publish("out")>>)

HtmlLinkDiscover(w) == InProcess({}, {"out"}, <<Do("fetch", "a"), Publish("out")>>)

(* The members of the archive, in its order; its second version has only   *)
(* the first, and its third one that leaves the directory.                 *)
Entries(versions) ==
    CASE <<"a", 1>> \in versions -> <<"x", "y">>
      [] <<"a", 2>> \in versions -> <<"x">>
      [] OTHER -> <<"x", "..">>

(* `members` names what is declared; a pattern matches what is there.      *)
\* Mutant of member_selected: a member that a name of `members` is part of.
member_selected_loosely(name, w) == w.pattern \/ w.members # {}

member_selected(name, w) == w.pattern \/ name \in w.members

(* One member: it is passed over, or extracted to where it belongs.        *)
Extract(name, w) ==
    IF member_selected(name, w) THEN <<Publish(Dest[name])>> ELSE << >>

(* Without `members`, what is declared is the directory.                   *)
ArchiveExtract(w) ==
    InProcess({"a"},
              IF w.members = {} THEN {"dest"} ELSE {Dest[m] : m \in w.members},
              <<Do("mkdir", "dest"), Do("read", "a"), Do("expand", "a")>>)

(* finetype says its version, which arc compares with the floor, then it   *)
(* profiles the Parquet; arc reads the overrides, and writes.              *)
Floor(w) == IF w.nominations THEN 2 ELSE 1

DatapackageDescribe(w) ==
    Operator({"a", "b"}, {"out"}, "capture",
             <<Do("spawn", "version"), Do("floor", "tool"), Do("spawn", "profile"),
               Do("read", "b"), Write("out")>>,
             [version |-> << >>, profile |-> <<Do("read", "a")>>])

(* A gate: nothing is written.                                             *)
FinetypeValidate(w) == InProcess({"a", "b"}, {}, <<Do("read", "a"), Do("read", "b")>>)

SplinkResolve(w) ==
    Wraps({"a", "b"}, {"out"}, "inherit", <<Do("read", "a"), Do("read", "b"), Write("out")>>)

GleifRaFetch(w) ==
    Wraps({}, {"out"}, "capture", <<Do("fetch", "a"), Publish("out")>>)

(* The fit is declared as read and as written: one that is there is used   *)
(* and kept, and one is made and written only where there is none.         *)
UmapProject(w) ==
    LET fit == IF w.fit THEN {"out2"} ELSE {} IN
    Wraps({"a"} \cup fit, {"out"} \cup fit, "capture",
          IF w.fit THEN <<Do("read", "a"), Do("fit", "out2"), Write("out")>>
          ELSE <<Do("read", "a"), Write("out")>>)

TextEmbed(w) ==
    Wraps({"a", "b"}, {"out"}, "capture", <<Do("read", "b"), Do("read", "a"), Write("out")>>)

Uv(w) ==
    Wraps({"a"}, {"out"}, "inherit", <<Do("read", "b"), Do("read", "a"), Write("out")>>)

resolve(s) ==
    CASE s.op = "parquet_export"       -> ParquetExport(s.with)
      [] s.op = "opendal_fetch"        -> OpendalFetch(s.with)
      [] s.op = "html_link_discover"   -> HtmlLinkDiscover(s.with)
      [] s.op = "archive_extract"      -> ArchiveExtract(s.with)
      [] s.op = "datapackage_describe" -> DatapackageDescribe(s.with)
      [] s.op = "finetype_validate"    -> FinetypeValidate(s.with)
      [] s.op = "splink_resolve"       -> SplinkResolve(s.with)
      [] s.op = "gleif_ra_fetch"       -> GleifRaFetch(s.with)
      [] s.op = "umap_project"         -> UmapProject(s.with)
      [] s.op = "text_embed"           -> TextEmbed(s.with)
      [] s.op = "uv"                   -> Uv(s.with)

(***************************************************************************)
(* What is refused before anything runs, and not tried again.              *)
(***************************************************************************)
(* The second version of the input has too few rows for the neighbours.    *)
refuse_neighbors_past_the_input == disk["a"] = Input("a", 2)

missing_model_part(w) == w.model /\ disk["tool"] = Absent

text_embed_refuses(w) == disk["b"] = Absent \/ missing_model_part(w)

(* The script has to be the one that is pinned, the first version.         *)
uv_refuses == disk["b"] # Input("b", 1)

Refused(s) ==
    \/ s.op = "umap_project" /\ s.with.neighbors /\ refuse_neighbors_past_the_input
    \/ s.op = "text_embed" /\ text_embed_refuses(s.with)
    \/ s.op = "uv" /\ uv_refuses
    \/ s.op = "finetype_validate" /\ disk["tool"] = Absent

(* What a manifest may ask of the catalogue: an archive's members are named *)
(* or matched (operator.rs:5506).                                          *)
Settings ==
    [members : SUBSET {"x", "y"}, pattern : BOOLEAN, nominations : BOOLEAN,
     neighbors : BOOLEAN, fit : BOOLEAN, model : BOOLEAN, toPart : BOOLEAN]

Catalog ==
    {"parquet_export", "opendal_fetch", "html_link_discover", "archive_extract",
     "datapackage_describe", "finetype_validate", "splink_resolve", "gleif_ra_fetch",
     "umap_project", "text_embed", "uv"}

ASSUME StepsAreRead ==
    /\ OperatorSteps \subseteq [op : Catalog, with : Settings]
    /\ \A s \in OperatorSteps :
         s.op = "archive_extract" => s.with.members # {} \/ s.with.pattern

ASSUME BoundsAreNumbers == MaxAttempts \in Nat /\ MaxVersions \in Nat /\ MaxFaults \in Nat

(* Whether the operator's products come by a rename.                       *)
Publishers ==
    {"opendal_fetch", "html_link_discover", "archive_extract", "gleif_ra_fetch"}

Publishes(s) == s.op \in Publishers /\ ~(s.op = "opendal_fetch" /\ s.with.toPart)

-----------------------------------------------------------------------------
(* What the folder holds from before, which a run that was killed may have *)
(* left half written where nothing is renamed.                             *)
Init ==
    /\ step \in OperatorSteps
    /\ \E v \in 1..MaxVersions, b \in {Absent, Input("b", 1)},
          tool \in {Absent, Input("tool", 1), Input("tool", 2)},
          old \in {Absent, Input("a", 0)}, fit \in {Absent, Half, Input("a", 0)} :
         /\ step.op # "umap_project" => fit = old
         /\ disk = [f \in Files |->
                      CASE f = "a" -> Input("a", v) [] f = "b" -> b [] f = "tool" -> tool
                        [] f = "out2" -> fit
                        [] f \in Products \ {"out2"} -> old
                        [] f = "dest" -> IF old = Absent THEN Absent ELSE Whole({})
                        [] f = "part" -> Absent]
    /\ pc = "idle" /\ program = << >> /\ seen = {} /\ children = {}
    /\ attempt = 0 /\ outcome = "none" /\ missing = {}
    /\ began = disk /\ survived = FALSE /\ faults = 0

Fault == faults < MaxFaults /\ faults' = faults + 1

(* An attempt ends: retryable failures are tried again.                    *)
missing_declared_produces ==
    {p \in resolve(step).produces : disk[p] = Absent}

EndsAs(result) ==
    /\ outcome' = result /\ program' = << >>
    /\ pc' = IF result = "failed" /\ attempt < MaxAttempts THEN "idle" ELSE "ended"
    /\ missing' = IF result = "ok" THEN missing_declared_produces ELSE missing
    /\ UNCHANGED <<step, attempt, began>>

End(result) == EndsAs(result) /\ UNCHANGED survived

(* A refusal, or the program begins.                                       *)
Begin ==
    /\ pc = "idle"
    /\ attempt' = attempt + 1 /\ seen' = {}
    /\ IF Refused(step)
       THEN pc' = "ended" /\ outcome' = "refused" /\ UNCHANGED program
       ELSE pc' = "runs" /\ outcome' = "none" /\ program' = resolve(step).run
    /\ UNCHANGED <<step, disk, children, missing, began, survived, faults>>

(***************************************************************************)
(* One operation on the folder.                                            *)
(***************************************************************************)
(* A fit places rows that are appended: the second version of the input    *)
(* lacks rows that the others have.                                        *)
rows_gone(s, fit) == <<"a", 2>> \in s /\ <<"a", 2>> \notin fit

(* A fit that is damaged, or of other rows, is refused by the script.  A   *)
(* member that is selected has to stay in the directory.                   *)
CanDo(i, s) ==
    CASE i.do \in {"read", "expand"} -> disk[i.file].is = "whole"
      [] i.do = "spawn" -> i.file \in {"version", "profile"} => disk["tool"] # Absent
      [] i.do = "floor" ->
           \E v \in Floor(step.with)..2 : disk["tool"] = Input("tool", v)
      [] i.do = "fit" ->
           \/ disk[i.file] = Absent
           \/ disk[i.file].is = "whole" /\ ~rows_gone(s, disk[i.file].of)
      [] i.do = "entry" -> i.file = ".." => ~member_selected("..", step.with)
      [] OTHER -> TRUE

(* What has been read after it.                                            *)
Reads(i, s) == IF i.do \in {"read", "fetch", "fit"} THEN s \cup disk[i.file].of ELSE s

Effect(i, s) ==
    CASE i.do = "write"   -> [disk EXCEPT ![i.file] = Half]
      [] i.do = "publish" -> [disk EXCEPT !["part"] = Half]
      [] i.do = "finish"  -> [disk EXCEPT ![i.file] = Whole(s)]
      [] i.do = "move"    -> [disk EXCEPT ![i.file] = disk["part"], !["part"] = Absent]
      [] i.do = "mkdir"   -> [disk EXCEPT ![i.file] = Whole({})]
      [] OTHER -> disk

(* What it leaves to be done right after it, by the child if it starts     *)
(* one: an archive's members are looked at one by one.                     *)
Brings(i, s) ==
    CASE i.do = "write"   -> <<Do("finish", i.file)>>
      [] i.do = "publish" -> <<Do("finish", "part"), Do("move", i.file)>>
      [] i.do = "expand"  -> [k \in DOMAIN Entries(s) |-> Do("entry", Entries(s)[k])]
      [] i.do = "entry"   -> Extract(i.file, step.with)
      [] i.do = "fit"     -> IF disk[i.file] = Absent THEN <<Write(i.file)>> ELSE << >>
      [] i.do = "spawn"   -> resolve(step).does[i.file]
      [] OTHER -> << >>

(***************************************************************************)
(* arc.                                                                    *)
(***************************************************************************)
Spawning == program # << >> /\ Head(program).do = "spawn"

Operates ==
    /\ pc = "runs" /\ program # << >> /\ ~Spawning /\ CanDo(Head(program), seen)
    /\ disk' = Effect(Head(program), seen) /\ seen' = Reads(Head(program), seen)
    /\ program' = Brings(Head(program), seen) \o Tail(program)
    /\ UNCHANGED <<step, pc, children, attempt, outcome, missing, began, survived, faults>>

(* A child is started, and waited for.                                     *)
Spawns ==
    /\ pc = "runs" /\ Spawning /\ CanDo(Head(program), seen)
    /\ children' = children \cup
         {[left |-> Brings(Head(program), seen), seen |-> seen, attempt |-> attempt]}
    /\ pc' = "waits" /\ program' = Tail(program)
    /\ UNCHANGED <<step, disk, seen, attempt, outcome, missing, began, survived, faults>>

(* It cannot be, or may fail; a child that does not start is no failure to *)
(* try again.                                                              *)
Fails ==
    /\ pc = "runs" /\ program # << >>
    /\ LET can == CanDo(Head(program), seen) IN
         /\ can => faults < MaxFaults
         /\ faults' = IF can THEN faults + 1 ELSE faults
    /\ End(IF Head(program).do = "spawn" THEN "refused" ELSE "failed")
    /\ UNCHANGED <<disk, seen, children>>

Succeeds ==
    /\ pc = "runs" /\ program = << >>
    /\ End("ok")
    /\ UNCHANGED <<disk, seen, children, faults>>

(* An in-process fetch has no deadline: it may never come back.            *)
GoesOn ==
    /\ program # << >> => Head(program).do # "fetch"
    /\ Operates \/ Spawns \/ Fails \/ Succeeds

(***************************************************************************)
(* Children.                                                               *)
(***************************************************************************)
Mine(c) == pc = "waits" /\ c.attempt = attempt

(* A process does its next operation, arc waiting for it or not.           *)
ChildRuns(c) ==
    /\ c.left # << >> /\ CanDo(Head(c.left), c.seen)
    /\ disk' = Effect(Head(c.left), c.seen)
    /\ children' = (children \ {c}) \cup
         {[c EXCEPT !.left = Brings(Head(@), c.seen) \o Tail(@), !.seen = Reads(Head(c.left), @)]}
    /\ UNCHANGED <<step, pc, program, seen, attempt, outcome, missing, began, survived, faults>>

(* It exits, and arc, when it waits for it, goes on or fails.              *)
Exits(c, good) ==
    /\ children' = children \ {c}
    /\ \/ ~Mine(c) /\ UNCHANGED <<step, pc, program, seen, attempt, outcome, missing, began, survived>>
       \/ /\ Mine(c) /\ good /\ pc' = "runs" /\ seen' = c.seen
          /\ UNCHANGED <<step, program, attempt, outcome, missing, began, survived>>
       \/ Mine(c) /\ ~good /\ End("failed") /\ UNCHANGED seen

ExitsEarly(c) ==
    LET can == CanDo(Head(c.left), c.seen) IN
    /\ c.left # << >>
    /\ can => faults < MaxFaults
    /\ faults' = IF can THEN faults + 1 ELSE faults

\* Mutant of ChildExits: the exit status is not looked at.
ChildExitsWell(c) ==
    /\ (c.left = << >> /\ UNCHANGED faults) \/ ExitsEarly(c)
    /\ Exits(c, TRUE) /\ UNCHANGED disk

ChildExits(c) ==
    /\ \/ c.left = << >> /\ UNCHANGED faults /\ Exits(c, TRUE)
       \/ ExitsEarly(c) /\ Exits(c, FALSE)
    /\ UNCHANGED disk

\* Mutant of Deadline: the child is killed, and still waited for.
DeadlineKillsOnly ==
    /\ pc = "waits" /\ Timed /\ resolve(step).mode = "inherit"
    /\ children' = {c \in children : c.attempt # attempt}
    /\ UNCHANGED <<step, disk, pc, program, seen, attempt, outcome, missing, began,
                   survived, faults>>

(* The wait's deadline passes: the child is killed.  What it had started   *)
(* itself, as uv starts Python, may live on.                               *)
Deadline ==
    /\ pc = "waits" /\ Timed /\ resolve(step).mode = "inherit"
    /\ \E survives \in BOOLEAN :
         /\ children' = IF survives THEN children
                        ELSE {c \in children : c.attempt # attempt}
         /\ survived' = (survived \/ survives)
    /\ UNCHANGED disk
    /\ EndsAs("failed")
    /\ UNCHANGED <<seen, faults>>

(* arc is killed.                                                          *)
Kill ==
    /\ pc \in {"runs", "waits"} /\ Fault
    /\ pc' = "ended" /\ outcome' = "killed" /\ program' = << >>
    /\ UNCHANGED <<step, disk, seen, children, attempt, missing, began, survived>>

(* A person replaces an input.                                             *)
Change ==
    /\ pc # "ended"
    /\ \E v \in 1..MaxVersions :
         disk["a"] # Input("a", v) /\ disk' = [disk EXCEPT !["a"] = Input("a", v)]
    /\ faults' = faults + 1 /\ faults < MaxFaults
    /\ UNCHANGED <<step, pc, program, seen, children, attempt, outcome, missing, began, survived>>

Next ==
    \/ Begin \/ Operates \/ Spawns \/ Fails \/ Succeeds \/ Deadline \/ Kill \/ Change
    \/ \E c \in children : ChildRuns(c) \/ ChildExits(c)

(* arc goes on; its deadline passes; a child owes nothing.                 *)
Spec == Init /\ [][Next]_vars /\ WF_vars(Begin) /\ WF_vars(GoesOn) /\ WF_vars(Deadline)
-----------------------------------------------------------------------------
(* operator.rs:3550, :4110, :5435, :5598: what another process finds of a  *)
(* product that is published by a rename is the old file or the whole new  *)
(* one, whatever fails or is killed on the way.  An opendal_fetch to a     *)
(* name that ends in ".part" renames nothing (operator.rs:4110).           *)
PublishedWhole ==
    Publishes(step) => \A p \in Products : disk[p] # Half

(* What is under a directory that is declared is declared.                 *)
Declared(s) ==
    resolve(s).produces
      \cup (IF "dest" \in resolve(s).produces THEN {Dest.x, Dest.y} ELSE {})

(* A fit that was there when the step began is there still, and is one of  *)
(* the things the map was made from (umap_project.py:867).                 *)
KeptFit(p) ==
    /\ step.op = "umap_project" /\ p = "out2"
    /\ disk[p].is = "whole" /\ disk[p].of \subseteq seen
    /\ began[p] \in {Absent, disk[p]}

(* What the archive no longer holds may be there from before.              *)
NoMember(p) ==
    /\ step.op = "archive_extract"
    /\ \A i \in DOMAIN Entries(seen) : Entries(seen)[i] # ".." => p # Dest[Entries(seen)[i]]
    /\ \/ disk[p].is = "whole"
       \/ disk[p] = Absent /\ p \notin resolve(step).produces

(* runner.rs:1421: a step that succeeds has made each product it declares  *)
(* from what its last attempt read, all of it, or the product is reported  *)
(* missing.  A process that outlived an attempt's deadline may still be    *)
(* writing.                                                                *)
SuccessIsAnswered ==
    outcome = "ok" /\ ~survived =>
      \A p \in Declared(step) :
        \/ p \in missing /\ disk[p] = Absent
        \/ disk[p] = Whole(seen)
        \/ KeptFit(p)
        \/ NoMember(p)

(* operator.rs:111, "declare the assets this step reads/produces, so       *)
(* lineage holds at the boundary": what a step has written it declares,    *)
(* retries and failures included.  An archive_extract that names members   *)
(* and gives a pattern too declares the members only (operator.rs:5639),   *)
(* and writes whatever else the pattern matches.                           *)
MatchesBesideMembers == step.with.members # {} /\ step.with.pattern

WritesWhatItDeclares ==
    ~MatchesBesideMembers =>
      \A p \in Products \ Declared(step) : disk[p] = began[p]

(* engine.rs:309: a step with a timeout ends, though its child never does. *)
(* The timeout does not reach a child whose output is captured             *)
(* (operator.rs:2965), nor a fetch that arc does itself.                   *)
Timely(s) ==
    \/ resolve(s).mode = "inherit" /\ Timed
    \/ /\ resolve(s).mode = "none"
       /\ \A k \in DOMAIN resolve(s).run : resolve(s).run[k].do # "fetch"

TimedStepsEnd == Timely(step) ~> pc = "ended"
=============================================================================
