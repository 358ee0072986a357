------------------------------ MODULE Recording ------------------------------
(***************************************************************************)
(* The roads that write a protocol folder (src/src/record.rs, with         *)
(* src/src/edit.rs under them and the history roads of src/src/history.rs  *)
(* around them): a step recorded from an exploration, from a SQL statement *)
(* or as an operator, a model rewritten, the manifest edited or created.   *)
(* Each is a string of file operations of one process; nothing is locked.  *)
(*                                                                         *)
(* A manifest is its sequence of steps, a model one of a few texts.  What  *)
(* the checkpoint keeps is History's; here it is a step that may fail.     *)
(* write_atomic is one step: the file has the new bytes, or the old.       *)
(***************************************************************************)
EXTENDS Naturals, Sequences, FiniteSetsExt, SequencesExt

CONSTANTS Sessions, Names, Absent, None,  \* as in ProtocolSpec
          Slugs,
          Slug,       \* Slug[n]: the name made safe for a file name
          NamesOf,    \* NamesOf[s]: the names session s may ask for
          Width,      \* model numbers are 0..Width-1, as u32 has it
          MaxCalls,   \* bound: calls
          MaxChanges, \* bound: what people do
          MaxFaults   \* bound: kills and failing writes

ASSUME RecordingAssumption ==
    /\ Slug \in [Names -> Slugs]
    /\ NamesOf \in [Sessions -> SUBSET Names]
    /\ Absent # None
    /\ Width \in Nat \ {0, 1}
    /\ {MaxCalls, MaxChanges, MaxFaults} \subseteq Nat

VARIABLES steps,    \* arcform.yaml: a sequence of steps, or Absent
          models,   \* the files of models/
          dir,      \* whether models/ is there
          pc, job,  \* each session's place in its call, and the call
          told,     \* ghost: how its last call ended, if it wrote: "ok" or
                    \* "failed"; a refused or killed one says "nothing"
          landed,   \* ghost: the models whose recording ended well, or that a
                    \* person put there
          authored, \* ghost: authored[p]: the text of an analyst's own at p
          removed,  \* ghost: the models a person removed
          met,      \* ghost: the paths somebody came to between a call's look
                    \* there and its end, or that a person emptied under a step
          calls, changes, faults

folder == <<steps, models, dir>>
ghosts == <<landed, authored, removed, met>>
vars   == <<folder, pc, job, told, ghosts, calls, changes, faults>>

Paths == (0..Width - 1) \X Slugs

\* `typed` is a person's, `analyst` a statement recorded as it was typed.
Texts == {"generated", "amended", "analyst", "typed"}

sql_is_generated(text) == text \in {"generated", "amended"}

(* The new manifest is in hand, and nothing has failed.                    *)
Spliced(s) ==
    \/ pc[s] \in {"mkdir", "model", "manifest"}
    \/ pc[s] = "checkpoint" /\ job[s].road \in {"operator", "edit"}

FilesThatLanded == [p \in Paths |-> IF p \in landed THEN models[p] ELSE Absent]

PlanOf(s) ==
    IF Spliced(s) THEN [to |-> job[s].to, path |-> job[s].path, text |-> job[s].text]
    ELSE None

P == INSTANCE ProtocolSpec WITH
       files <- FilesThatLanded, plan <- [s \in Sessions |-> PlanOf(s)]

Roads == {"step", "operator", "edit", "create", "amend"}

Jobs == [road : Roads, name : Names \cup {None}, to : P!Documents,
         path : Paths \cup {None}, text : Texts \cup {None}, made : BOOLEAN]

(* No file, no path, no job: each is told from what may be there instead.  *)
ASSUME NothingIsApart ==
    /\ Absent \notin Texts /\ None \notin Texts /\ None \notin Paths
    /\ None \notin P!Plans /\ None \notin Jobs

Present == {p \in Paths : models[p] # Absent}

(* One past the highest number there, in 32 bits.                          *)
next_model_number == (Max({0} \cup {p[1] : p \in Present}) + 1) % Width

Job(road, to, path, text) ==
    [road |-> road, name |-> None, to |-> to, path |-> path, text |-> text,
     made |-> FALSE]

HasName(doc, n) == \E i \in DOMAIN doc : doc[i].name = n

Unique(doc) == \A i, j \in DOMAIN doc : doc[i].name = doc[j].name => i = j

Init ==
    /\ steps \in {Absent, << >>}
    /\ models = [p \in Paths |-> Absent] /\ dir = FALSE
    /\ pc = [s \in Sessions |-> "idle"] /\ job = [s \in Sessions |-> None]
    /\ told = [s \in Sessions |-> "nothing"]
    /\ landed = {} /\ authored = [p \in Paths |-> None] /\ removed = {} /\ met = {}
    /\ calls = 0 /\ changes = 0 /\ faults = 0

(***************************************************************************)
(* A call begins, and ends.                                                *)
(***************************************************************************)
At(s, place) == pc[s] = place

Go(s, place) == pc' = [pc EXCEPT ![s] = place]

End(s, outcome) ==
    /\ Go(s, "idle")
    /\ job' = [job EXCEPT ![s] = None]
    /\ told' = [told EXCEPT ![s] = outcome]

Fault == faults < MaxFaults /\ faults' = faults + 1

(* From its look at p to its end a call is at work there: it records a     *)
(* model at p, or rewrites the one that is there.                          *)
Recorded(p) ==
    \E s \in Sessions :
      pc[s] \in {"mkdir", "model", "manifest", "unlink", "rmdir"} /\ job[s].path = p

Watched(p) == Recorded(p) \/ \E s \in Sessions : pc[s] = "rewrite" /\ job[s].path = p

Meets(p, others) == met' = IF others THEN met \cup {p} ELSE met

Enter(s, place, j) ==
    /\ At(s, "idle") /\ calls < MaxCalls
    /\ calls' = calls + 1
    /\ Go(s, place)
    /\ job' = [job EXCEPT ![s] = j]
    /\ told' = [told EXCEPT ![s] = "nothing"]
    /\ Meets(j.path, j.path # None /\ Recorded(j.path))
    /\ UNCHANGED <<folder, landed, authored, removed, changes, faults>>

(* An operation writes a model under the marker.  A statement that DuckDB  *)
(* parses but no operation is read from is the analyst's own, unmarked.    *)
AskStep(s, n, text) ==
    /\ steps # Absent
    /\ Enter(s, "checkpoint", [Job("step", << >>, None, text) EXCEPT !.name = n])

AskOperation(s, n) == AskStep(s, n, "generated")

AskSql(s, n) == \E text \in {"generated", "analyst"} : AskStep(s, n, text)

\* Mutant of AskOperator: a name that is taken is recorded again.
AskOperatorUngated(s, n) ==
    /\ steps # Absent
    /\ Enter(s, "checkpoint",
             Job("operator", Append(steps, [name |-> n, model |-> None]), None, None))

(* record_operator splices before the checkpoint, and writes that after it.*)
AskOperator(s, n) ==
    /\ steps # Absent /\ ~HasName(steps, n)
    /\ Enter(s, "checkpoint",
             Job("operator", Append(steps, [name |-> n, model |-> None]), None, None))

(* edit_spec_with_history: a result with two steps of one name is refused. *)
AskEdit(s) ==
    /\ steps # Absent
    /\ \E doc \in P!Edited(steps) \ {steps} :
         /\ Unique(doc)
         /\ Enter(s, "checkpoint", Job("edit", doc, None, None))

AskCreate(s) ==
    /\ steps = Absent
    /\ Enter(s, "manifest", Job("create", << >>, None, None))

\* Mutant of AskAmend: any model of the manifest may be rewritten.
AskAmendUnmarked(s) ==
    /\ steps # Absent
    /\ \E p \in P!Cited(steps) :
         models[p] # Absent /\ Enter(s, "rewrite", Job("amend", << >>, p, "amended"))

(* amend_step_sql looks for the marker, and rewrites the file after.       *)
AskAmend(s) ==
    /\ steps # Absent
    /\ \E p \in P!Cited(steps) :
         /\ models[p] # Absent /\ sql_is_generated(models[p])
         /\ Enter(s, "rewrite", Job("amend", << >>, p, "amended"))

(* Every gate that fails refuses the call before it has written.           *)
Refused(s, n) ==
    /\ At(s, "idle") /\ calls < MaxCalls
    /\ ~(/\ steps # Absent /\ ~HasName(steps, n)
         /\ \A p \in P!Cited(steps) : sql_is_generated(models[p]))
    /\ calls' = calls + 1
    /\ End(s, "nothing")
    /\ UNCHANGED <<folder, ghosts, changes, faults>>

Checkpoint(s) ==
    /\ At(s, "checkpoint")
    /\ \/ Fault /\ End(s, "nothing")
       \/ /\ Go(s, IF job[s].road = "step" THEN "splice" ELSE "manifest")
          /\ UNCHANGED <<job, told, faults>>
    /\ UNCHANGED <<folder, ghosts, calls, changes>>

(***************************************************************************)
(* write_recorded.                                                         *)
(***************************************************************************)
ModelPath(n) == <<next_model_number, Slug[n]>>

\* Mutant of Splice: the path is not looked at.
SpliceOver(s) ==
    LET n == job[s].name
    IN  /\ At(s, "splice")
        /\ IF steps = Absent \/ HasName(steps, n)
           THEN End(s, "nothing") /\ UNCHANGED met
           ELSE /\ job' = [job EXCEPT
                     ![s].path = ModelPath(n),
                     ![s].to = Append(steps, [name |-> n, model |-> ModelPath(n)])]
                /\ Meets(ModelPath(n), Watched(ModelPath(n)))
                /\ Go(s, "mkdir") /\ UNCHANGED told
        /\ UNCHANGED <<folder, landed, authored, removed, calls, changes, faults>>

Splice(s) ==
    LET n == job[s].name
    IN  /\ At(s, "splice")
        /\ IF steps = Absent \/ HasName(steps, n) \/ models[ModelPath(n)] # Absent
           THEN End(s, "nothing") /\ UNCHANGED met
           ELSE /\ job' = [job EXCEPT
                     ![s].path = ModelPath(n),
                     ![s].to = Append(steps, [name |-> n, model |-> ModelPath(n)])]
                /\ Meets(ModelPath(n), Watched(ModelPath(n)))
                /\ Go(s, "mkdir") /\ UNCHANGED told
        /\ UNCHANGED <<folder, landed, authored, removed, calls, changes, faults>>

MakeDir(s) ==
    /\ At(s, "mkdir")
    /\ \/ Fault /\ End(s, "failed") /\ UNCHANGED dir
       \/ /\ dir' = TRUE
          /\ job' = [job EXCEPT ![s].made = ~dir]
          /\ Go(s, "model") /\ UNCHANGED <<told, faults>>
    /\ UNCHANGED <<steps, models, ghosts, calls, changes>>

\* Mutant of WriteModel: an error is not looked at.
WriteModelOrNot(s) ==
    /\ At(s, "model")
    /\ \/ dir /\ models' = [models EXCEPT ![job[s].path] = job[s].text] /\ UNCHANGED faults
       \/ Fault /\ UNCHANGED models
    /\ Go(s, "manifest")
    /\ UNCHANGED <<steps, dir, job, told, ghosts, calls, changes>>

(* The rename replaces whatever has come to be at the path; without        *)
(* models/ the temp file cannot be made.                                   *)
WriteModel(s) ==
    /\ At(s, "model")
    /\ \/ /\ dir
          /\ models' = [models EXCEPT ![job[s].path] = job[s].text]
          /\ Go(s, "manifest") /\ UNCHANGED faults
       \/ /\ ~dir \/ faults < MaxFaults
          /\ faults' = IF dir THEN faults + 1 ELSE faults
          /\ Go(s, "unlink") /\ UNCHANGED models
    /\ UNCHANGED <<steps, dir, job, told, ghosts, calls, changes>>

Landed(s) ==
    /\ landed' = landed \cup ({job[s].path} \ {None})
    /\ authored' = IF job[s].text = "analyst"
                   THEN [authored EXCEPT ![job[s].path] = "analyst"] ELSE authored

\* Mutant of WriteManifest: an error is returned with the model left.
WriteManifestOrGiveUp(s) ==
    /\ At(s, "manifest")
    /\ \/ /\ steps' = job[s].to
          /\ Landed(s) /\ End(s, "ok") /\ UNCHANGED faults
       \/ /\ Fault /\ End(s, "failed") /\ UNCHANGED <<steps, landed, authored>>
    /\ UNCHANGED <<models, dir, removed, met, calls, changes>>

WriteManifest(s) ==
    /\ At(s, "manifest")
    /\ \/ /\ steps' = job[s].to
          /\ Landed(s) /\ End(s, "ok") /\ UNCHANGED faults
       \/ /\ Fault
          /\ IF job[s].path = None THEN End(s, "failed")
             ELSE Go(s, "unlink") /\ UNCHANGED <<job, told>>
          /\ UNCHANGED <<steps, landed, authored>>
    /\ UNCHANGED <<models, dir, removed, met, calls, changes>>

(* remove_orphan_model.                                                    *)
RemoveModel(s) ==
    /\ At(s, "unlink")
    /\ models' = [models EXCEPT ![job[s].path] = Absent]
    /\ IF job[s].made THEN Go(s, "rmdir") /\ UNCHANGED <<job, told>> ELSE End(s, "failed")
    /\ UNCHANGED <<steps, dir, ghosts, calls, changes, faults>>

\* Mutant of RemoveDir: the directory goes with what is in it.
RemoveDirWhole(s) ==
    /\ At(s, "rmdir")
    /\ dir' = FALSE /\ models' = [p \in Paths |-> Absent]
    /\ End(s, "failed")
    /\ UNCHANGED <<steps, ghosts, calls, changes, faults>>

RemoveDir(s) ==
    /\ At(s, "rmdir")
    /\ dir' = (Present # {}) /\ UNCHANGED models
    /\ End(s, "failed")
    /\ UNCHANGED <<steps, ghosts, calls, changes, faults>>

(* amend_step_sql's write.                                                 *)
Rewrite(s) ==
    /\ At(s, "rewrite")
    /\ \/ /\ dir
          /\ models' = [models EXCEPT ![job[s].path] = job[s].text]
          /\ End(s, "ok") /\ UNCHANGED faults
       \/ /\ Fault /\ End(s, "failed") /\ UNCHANGED models
    /\ UNCHANGED <<steps, dir, ghosts, calls, changes>>

(***************************************************************************)
(* What goes wrong, and what people do.                                    *)
(***************************************************************************)
Kill(s) ==
    /\ ~At(s, "idle") /\ Fault /\ End(s, "nothing")
    /\ UNCHANGED <<folder, ghosts, calls, changes>>

(* A manifest cites p: the one that is there, or one that a call has in    *)
(* hand and is about to write.                                             *)
Needed(p) ==
    \/ steps # Absent /\ p \in P!Cited(steps)
    \/ \E s \in Sessions : Spliced(s) /\ p \in P!Cited(job[s].to)

Change == changes < MaxChanges /\ changes' = changes + 1

PersonTypes(p) ==
    /\ Change /\ Meets(p, Watched(p))
    /\ models' = [models EXCEPT ![p] = "typed"] /\ dir' = TRUE
    /\ landed' = landed \cup {p}
    /\ authored' = [authored EXCEPT ![p] = "typed"]
    /\ UNCHANGED <<steps, pc, job, told, removed, calls, faults>>

PersonRemoves(p) ==
    /\ Change /\ models[p] # Absent
    /\ Meets(p, Watched(p) \/ Needed(p))
    /\ models' = [models EXCEPT ![p] = Absent]
    /\ removed' = removed \cup {p}
    /\ authored' = [authored EXCEPT ![p] = None]
    /\ landed' = landed \ {p}
    /\ UNCHANGED <<steps, dir, pc, job, told, calls, faults>>

PersonEdits ==
    /\ Change /\ steps # Absent
    /\ \/ steps' \in P!Deleted(steps)
       \/ \E n \in Names :
            ~HasName(steps, n) /\ steps' = Append(steps, [name |-> n, model |-> None])
    /\ UNCHANGED <<models, dir, pc, job, told, ghosts, calls, faults>>

Call(s) ==
    \/ \E n \in NamesOf[s] :
         AskOperation(s, n) \/ AskSql(s, n) \/ AskOperator(s, n) \/ Refused(s, n)
    \/ AskEdit(s) \/ AskCreate(s) \/ AskAmend(s)
    \/ Checkpoint(s) \/ Splice(s) \/ MakeDir(s) \/ WriteModel(s)
    \/ WriteManifest(s) \/ RemoveModel(s) \/ RemoveDir(s) \/ Rewrite(s)

Next ==
    \/ \E s \in Sessions : Call(s) \/ Kill(s)
    \/ \E p \in Paths : PersonTypes(p) \/ PersonRemoves(p)
    \/ PersonEdits

Spec == Init /\ [][Next]_vars

-----------------------------------------------------------------------------
(* Values of the right shape, and no models where there is no directory.   *)
TypeOK ==
    /\ steps = Absent \/ steps \in Seq(P!Step)
    /\ models \in [Paths -> Texts \cup {Absent}]
    /\ dir \in BOOLEAN /\ (~dir => Present = {})
    /\ \A s \in Sessions :
         /\ pc[s] = "idle" <=> job[s] = None
         /\ told[s] \in {"nothing", "ok", "failed"}
    /\ landed \subseteq Paths /\ removed \subseteq Paths /\ met \subseteq Paths

(* Nobody has come to a path while a call was at work there.               *)
Undisturbed == met = {}

(* record.rs:421: a promotion that fails takes back the model it wrote     *)
(* and nothing else.  One that a kill cut short may leave its model, which *)
(* no step cites.                                                          *)
NoOrphanOf(s) ==
    told[s] # "failed" /\ told'[s] = "failed" /\ job[s].path # None
      => \/ job[s].road = "amend"
         \/ models'[job[s].path] # job[s].text

FailureLeavesNoOrphan == [][Undisturbed' => \A s \in Sessions : NoOrphanOf(s)]_vars

(* record.rs:50-60, "every refusal leaves the protocol directory untouched"*)
(* and "no orphan survives a failed promotion": whatever kills and failing *)
(* writes do, and sessions and people as long as the folder is undisturbed,*)
(* a step and its model appear as one.                                     *)
LandsWhole ==
    P!Init /\ [][Undisturbed' => P!Next]_(P!vars) /\ FailureLeavesNoOrphan

(* The manifest has no name twice, and never cites a model that is not     *)
(* there, unless a person took it away, in a folder that is undisturbed.   *)
CitesWhatIsThere ==
    /\ TypeOK
    /\ Undisturbed => (steps # Absent => Unique(steps)) /\ P!CitesWhatIsThere

(* record.rs:31: a model without the marker is its author's: no road       *)
(* changes or removes what a person typed, or a statement recorded as it   *)
(* was typed.  But for one window, which the code has no lock to close     *)
(* (record.rs:200): a text that comes to a path between a call's look      *)
(* there and its write is written over, or taken back with the call.       *)
AuthorsTextIsKept ==
    \A p \in Paths \ met : authored[p] # None => models[p] = authored[p]

(* record.rs:556: "a deleted recording's number is never silently reused", *)
(* so no two steps ever cite one model in an undisturbed folder.           *)
OneStepPerModel ==
    Undisturbed /\ steps # Absent =>
      \A i, j \in DOMAIN steps :
        steps[i].model # None /\ steps[i].model = steps[j].model => i = j
=============================================================================
