-------------------------------- MODULE Runner --------------------------------
(***************************************************************************)
(* `arc run` on one Protocol folder, over several runs (src/src/runner.rs, *)
(* src/src/state.rs): what a run loads, which steps it finds stale, the    *)
(* attempts, hooks and records of the run, and what the next run makes of  *)
(* the records.  Around it a person edits the manifest, the SQL files and  *)
(* the data at any moment, and the process may die at any moment.          *)
(*                                                                         *)
(* A step's text is its SQL file, `with:` block or command line, given by  *)
(* a version number; an edit makes a version not seen before.  Equal       *)
(* hashes stand for equal bytes.                                           *)
(***************************************************************************)
EXTENDS AssetGraph

CONSTANTS
    StepKind,         \* [Steps -> {"sql", "op", "command"}]
    AssetKind,        \* [Assets -> the kinds of asset_kind.rs]
    Gated,            \* the steps with preconditions
    MaxAttempts,      \* [Steps -> Nat \ {0}]: retry.max_attempts, 1 without retry
    Hooks,            \* the hooks the manifest defines
    PipelineTimeout,  \* whether the manifest sets timeout_sec
    Pinned,           \* whether the SQL loads extensions, which arc checks again just
                      \* before each file runs, and pins
    Orders,           \* the step lists a person may give the manifest
    Produces, Reads,  \* [Steps -> [Texts -> SUBSET Assets]]: what each text touches
    Sources,          \* the contents a person may put in an asset
    Garbage,          \* what an attempt that did not finish may leave in one
    Absent,           \* a file that is not there
    Nothing,          \* an asset a hash or a step does not take in
    Withheld,         \* the artifact hash that could not be computed
    MaxText,          \* bound on the versions of one step's text
    MaxRuns, MaxEdits, MaxFaults   \* bounds on runs, edits and lost records

HookNames == {"on_init", "on_success", "on_failure", "on_exit"}
Texts == 1..MaxText

\* The kinds whose bytes a hash takes in; a missing file or directory is
\* unreadable, while a pattern that matches nothing is the empty set.
HashedKinds == {"file", "directory", "pattern"}
AssetKinds == HashedKinds \cup {"table", "remote"}

ASSUME ConstantsOK ==
    /\ StepKind \in [Steps -> {"sql", "op", "command"}]
    /\ AssetKind \in [Assets -> AssetKinds]
    /\ Gated \subseteq Steps
    /\ MaxAttempts \in [Steps -> Nat \ {0}]
    /\ Hooks \subseteq HookNames
    /\ PipelineTimeout \in BOOLEAN /\ Pinned \in BOOLEAN
    /\ \A o \in Orders :
          o \in StepOrders /\ o # << >> /\ \A i, j \in DOMAIN o : o[i] = o[j] => i = j
    /\ MaxText \in Nat \ {0}
    /\ Produces \in [Steps -> [Texts -> SUBSET Assets]]
    /\ Reads \in [Steps -> [Texts -> SUBSET Assets]]
    /\ MaxRuns \in Nat /\ MaxEdits \in Nat /\ MaxFaults \in Nat

VARIABLES
    \* the Protocol folder and its database
    order,      \* the steps of arcform.yaml
    text,       \* the version of each step's text
    gone,       \* the SQL steps whose file is missing
    disk,       \* the content of each asset
    \* _arcform_state and _arcform_runs
    status, config, artifact,   \* each step's row: status, sql_hash, artifact_hash
    runRow,     \* the outcome in the latest run's row
    \* the running process
    pc,         \* where run_with_params is
    steps,      \* the steps of the manifest it loaded
    loaded,     \* the text each step had when the graph was built
    graph, stale,
    at,         \* the step the loop is on
    attempt,    \* the attempt of it
    hash,       \* the config hash taken for it
    readText, readInputs,   \* what the attempt is working from
    outcomes,   \* step_outcomes: what the contract says of each step
    result,     \* step_loop_result
    told,       \* the hooks dispatched, in order: what each was told, and whether it ran
    contract,   \* the outcome of the contract written
    \* what the program does not keep
    ran,        \* the text of each step's latest attempt
    settled,    \* nothing has been edited since the latest run began
    sound,      \* "yes" unless something the records cannot show has happened;
                \* then "no", and "mending" while a forced run makes up for it
    runs, edits, faults

project == <<order, text, gone, disk>>
rows == <<status, config, artifact>>
plan == <<steps, loaded, graph, stale>>
working == <<attempt, hash, readText, readInputs>>
report == <<outcomes, result, told, contract>>
bounds == <<runs, edits, faults>>
vars == <<project, rows, runRow, pc, plan, at, working, report,
          ran, settled, sound, bounds>>

Cur == steps[at]
NoHash == [a \in Assets |-> Nothing]
RunOutcomes == {"init_failed", "timeout", "error", "failed", "success", "partial"}

\* A dispatch: the hook, the pipeline status it is given (on_exit alone is given
\* one), and whether it ran or was refused just before.
Dispatch(hook, status_, how_) == [hook |-> hook, status |-> status_, how |-> how_]
Dispatches == [hook : HookNames, status : {"none", "init_failed", "success", "failed"},
               how : {"ran", "refused"}]

TypeOK ==
    /\ order \in Orders
    /\ text \in [Steps -> Texts]
    /\ gone \in SUBSET Steps
    /\ DOMAIN disk = Assets
    /\ status \in [Steps -> {"none", "success", "failed"}]
    /\ config \in [Steps -> Nat]
    /\ DOMAIN artifact = Steps
    /\ runRow \in RunOutcomes \cup {"none", "started"}
    /\ pc \in {"idle", "started", "init", "loop", "attempt", "running", "record",
               "hooks", "exit", "recheck"}
    /\ steps \in Orders
    /\ loaded \in [Steps -> Texts]
    /\ graph \in Graphs
    /\ stale \in SUBSET Steps
    /\ at \in 1..(Len(steps) + 1)
    /\ pc \in {"attempt", "running", "record"} => at <= Len(steps)
    /\ attempt \in Nat
    /\ pc \in {"attempt", "running"} => attempt \in 1..MaxAttempts[Cur]
    /\ hash \in Nat /\ readText \in Nat
    /\ outcomes \in [Steps -> {"none", "skipped", "success", "failed"}]
    /\ result \in {"none", "ok", "failed", "refused"}
    /\ told \in Seq(Dispatches)
    /\ contract \in {"none", "success", "partial", "error"}
    /\ ran \in [Steps -> Nat]
    /\ settled \in BOOLEAN /\ sound \in {"yes", "no", "mending"}
    /\ runs \in Nat /\ edits \in Nat /\ faults \in Nat

\* AssetGraph::build: a step the manifest does not list, or whose SQL file
\* could not be read, touches nothing.
GraphOf(o, v, missing) ==
    LET seen(s) == s \in StepsOf(o) /\ s \notin missing
    IN  [produces |-> [s \in Steps |-> IF seen(s) THEN Produces[s][v[s]] ELSE {}],
         reads    |-> [s \in Steps |-> IF seen(s) THEN Reads[s][v[s]] ELSE {}]]

\* A fresh checkout: no row, every source file in place, and nothing produced,
\* except that a gated command's download may be there from an earlier one.
Init ==
    /\ order \in Orders
    /\ text = [s \in Steps |-> 1]
    /\ gone = {}
    /\ disk \in [Assets -> Sources \cup {Absent}]
    /\ \A a \in Assets :
          LET makers == {s \in Steps : a \in Produces[s][1]}
          IN  /\ makers = {} => disk[a] # Absent
              /\ disk[a] # Absent =>
                    \A s \in makers : StepKind[s] = "command" /\ s \in Gated
    /\ status = [s \in Steps |-> "none"]
    /\ config = [s \in Steps |-> 0]
    /\ artifact = [s \in Steps |-> Withheld]
    /\ runRow = "none"
    /\ pc = "idle"
    /\ steps = order
    /\ loaded = text
    /\ graph = GraphOf(order, text, gone)
    /\ stale = {}
    /\ at = 1 /\ attempt = 0 /\ hash = 0
    /\ readText = 0 /\ readInputs = NoHash
    /\ outcomes = [s \in Steps |-> "none"]
    /\ result = "none" /\ told = << >> /\ contract = "none"
    /\ ran = [s \in Steps |-> 0]
    /\ settled = TRUE /\ sound = "yes"
    /\ runs = 0 /\ edits = 0 /\ faults = 0

-----------------------------------------------------------------------------
(* Staleness. *)

\* A SQL step's file is read from disk each time it is asked for; an op's
\* `with:` block and a command line are those of the manifest loaded.
TextNow(s) == IF StepKind[s] = "sql" THEN text[s] ELSE loaded[s]

\* A name a step's artifact hash is answerable for: a hashed product, or a
\* hashed read that no step of the Protocol produces.
AnswersFor(s) ==
    {a \in Assets :
        /\ AssetKind[a] \in HashedKinds
        /\ \/ a \in graph.produces[s]
           \/ a \in graph.reads[s] /\ a \notin AllProduced(graph)}

Readable(d, a) == AssetKind[a] = "pattern" \/ d[a] # Absent

\* produced_artifact_hash on the disk d.
ArtifactHash(d, s) ==
    IF \/ \E a \in graph.produces[s] \cup graph.reads[s] : AssetKind[a] = "remote"
       \/ StepKind[s] # "command" /\ \E a \in AnswersFor(s) : ~Readable(d, a)
      THEN Withheld
      ELSE [a \in Assets |-> IF a \in AnswersFor(s) /\ Readable(d, a)
                               THEN d[a] ELSE Nothing]

\* Mutant of ConfigStale: only a SQL file's bytes are compared.
ConfigStaleSqlOnly(s) == s \in gone \/ (StepKind[s] = "sql" /\ TextNow(s) # config[s])

ConfigStale(s) == s \in gone \/ TextNow(s) # config[s]

\* Mutant of ArtifactStale: the check answers for what other steps make too.
ArtifactStaleAllReads(s) ==
    LET hash_ == ArtifactHash(disk, s)
    IN  \/ hash_ = Withheld
        \/ hash_ # artifact[s]
        \/ \E a \in graph.reads[s] \cap AllProduced(graph) : artifact[s][a] # disk[a]

ArtifactStale(s) ==
    \/ ArtifactHash(disk, s) = Withheld
    \/ ArtifactHash(disk, s) # artifact[s]

\* Mutant of IsHashStale: the configuration is compared, the artifacts are not.
IsHashStaleByConfig(s) ==
    \/ status[s] = "none" /\ StepKind[s] # "command"
    \/ status[s] = "failed"
    \/ status[s] = "success" /\ ConfigStale(s)

\* is_hash_stale
IsHashStale(s) ==
    \/ status[s] = "none" /\ StepKind[s] # "command"
    \/ status[s] = "failed"
    \/ status[s] = "success" /\ (ConfigStale(s) \/ ArtifactStale(s))

\* compute_staleness, phase 1, when the preconditions of `fresh` hold.
OwnStale(fresh) ==
    {s \in StepsOf(steps) :
        \/ StepKind[s] = "command" /\ s \notin Gated
        \/ IsHashStale(s)
        \/ s \in Gated \ fresh}

\* Mutant of StaleSteps: nothing is propagated downstream.
StaleStepsOwnOnly(fresh) == OwnStale(fresh)

\* compute_staleness, phase 2.
StaleSteps(fresh) ==
    OwnStale(fresh) \cup DownstreamSteps(graph, OwnStale(fresh))

-----------------------------------------------------------------------------
(* What a step does to the data. *)

Inputs(d, s, v) ==
    [a \in Assets |-> IF a \in Reads[s][v] \ Produces[s][v] THEN d[a] ELSE Nothing]

\* The content step s leaves in a: a value that says what it was made from.
Output(s, a, v, inputs) == [step |-> s, asset |-> a, text |-> v, inputs |-> inputs]

Written(d, s, v, inputs) ==
    [a \in Assets |-> IF a \in Produces[s][v] THEN Output(s, a, v, inputs) ELSE d[a]]

\* What an attempt that stops part way may leave.
Spoiled(d, s, v) == [a \in Assets |-> IF a \in Produces[s][v] THEN Garbage ELSE d[a]]
LeftByAttempt == IF pc = "running" THEN {disk, Spoiled(disk, Cur, readText)} ELSE {disk}

\* A content a step has made, and the content step s's text makes of asset a.
Made(c) == c \notin Sources \cup {Absent, Garbage, Nothing}
MadeBy(s, a, c) == Made(c) /\ c = Output(s, a, text[s], c.inputs)

\* The inputs of step s that arc answers for: what a step of the run makes, and
\* from outside what is there and hashed.  It looks at no table from outside.
Outside(s) == Reads[s][text[s]] \ Produces[s][text[s]]
Answered(s) ==
    {a \in Outside(s) :
        \/ a \in AllProduced(graph)
        \/ AssetKind[a] \in HashedKinds /\ Readable(disk, a)}

\* Step s's products are what its text makes of its inputs as they are now.
Current(s) ==
    \A b \in Produces[s][text[s]] :
        /\ MadeBy(s, b, disk[b])
        /\ \A a \in Answered(s) : disk[b].inputs[a] = disk[a]

-----------------------------------------------------------------------------
(* A run, up to its step loop. *)

\* Whether an event leaves the records unable to show what happened.
Unshown(event) == sound' = IF event THEN "no" ELSE sound

\* Manifest::load, AssetGraph::build, start_run.
Start ==
    /\ pc = "idle"
    /\ runs < MaxRuns
    /\ runs' = runs + 1
    /\ steps' = order
    /\ loaded' = text
    /\ graph' = GraphOf(order, text, gone)
    /\ runRow' = "started"
    /\ pc' = "started"
    /\ stale' = {}
    /\ at' = 1
    /\ outcomes' = [s \in Steps |-> "none"]
    /\ result' = "none" /\ told' = << >> /\ contract' = "none"
    /\ attempt' = 0 /\ hash' = 0 /\ readText' = 0 /\ readInputs' = NoHash
    /\ settled' = TRUE
    /\ UNCHANGED <<project, rows, ran, sound, edits, faults>>

\* validate_order refuses the manifest: the run returns there and then.
Refuse ==
    /\ pc = "started"
    /\ ~ValidateOrder(graph, steps)
    /\ pc' = "idle"
    /\ UNCHANGED <<project, rows, runRow, plan, at, working, report,
                   ran, settled, sound, bounds>>

\* Precondition::evaluate, as a plan asks it of each gated step: what a file's age,
\* a remote, a command or a tool says is any answer.
GateAnswers == SUBSET (Gated \cap StepsOf(steps))

\* compute_staleness fails: a precondition could not be evaluated, or the
\* state database could not be read.
PlanFails ==
    /\ pc = "started"
    /\ ValidateOrder(graph, steps)
    /\ \/ StepsOf(steps) \cap Gated # {} /\ UNCHANGED faults
       \/ faults < MaxFaults /\ faults' = faults + 1
    /\ pc' = "idle"
    /\ UNCHANGED <<project, rows, runRow, plan, at, working, report,
                   ran, settled, sound, runs, edits>>

\* The step's text touches what the graph of this run says it touches.
AsGraphed(s, v) == graph.produces[s] = Produces[s][v] /\ graph.reads[s] = Reads[s][v]

\* The plan: every step under --force, else what compute_staleness finds.  A
\* gated command that has never run may be left alone, and then nothing answers
\* for the bytes it stands for; nor does the graph answer for a step whose file
\* came back after it was built, or tell two producers of one asset apart.  A
\* forced run makes everything again.
Plan ==
    /\ pc = "started"
    /\ ValidateOrder(graph, steps)
    /\ \/ /\ stale' = StepsOf(steps)
          /\ sound' = IF ~SingleProducer(graph) THEN "no"
                      ELSE IF sound = "no" THEN "mending" ELSE sound
       \/ /\ \E fresh \in GateAnswers : stale' = StaleSteps(fresh)
          /\ Unshown(\/ ~SingleProducer(graph)
                     \/ \E s \in StepsOf(steps) \ stale' :
                           status[s] = "none" \/ ~AsGraphed(s, TextNow(s)))
    /\ pc' = IF "on_init" \in Hooks THEN "init" ELSE "loop"
    /\ UNCHANGED <<project, rows, runRow, steps, loaded, graph, at, working, report,
                   ran, settled, bounds>>

\* execute_hook checks a hook's SQL again just before it runs, and may refuse it
\* there: an extension it loads is no longer the one that was checked.
Hows == IF Pinned THEN {"ran", "refused"} ELSE {"ran"}

\* A hook the manifest defines is dispatched; how it ends, once it has run, is
\* only reported.
Tell(hook, status_, how) ==
    told' = IF hook \in Hooks THEN Append(told, Dispatch(hook, status_, how)) ELSE told

\* on_init succeeds, and the loop begins.
OnInit ==
    /\ pc = "init"
    /\ Tell("on_init", "none", "ran")
    /\ pc' = "loop"
    /\ UNCHANGED <<project, rows, runRow, plan, at, working, outcomes, result, contract,
                   ran, settled, sound, bounds>>

\* on_init fails or is refused: on_exit is dispatched, and may be refused itself,
\* the row is finished, and the run returns without a contract.
OnInitFails ==
    /\ pc = "init"
    /\ \E how, howExit \in Hows :
          LET init == Append(told, Dispatch("on_init", "none", how))
          IN  told' = IF "on_exit" \in Hooks
                        THEN Append(init, Dispatch("on_exit", "init_failed", howExit))
                        ELSE init
    /\ runRow' = "init_failed"
    /\ pc' = "idle"
    /\ Unshown(sound = "mending")
    /\ UNCHANGED <<project, rows, plan, at, working, outcomes, result, contract,
                   ran, settled, bounds>>

-----------------------------------------------------------------------------
(* The step loop. *)

InLoop == pc = "loop" /\ at <= Len(steps)

\* A step the plan found fresh.
Skip ==
    /\ InLoop
    /\ Cur \notin stale
    /\ outcomes' = [outcomes EXCEPT ![Cur] = "skipped"]
    /\ at' = at + 1
    /\ UNCHANGED <<project, rows, runRow, pc, plan, working, result, told, contract,
                   ran, settled, sound, bounds>>

\* What each step touches, whether a run can see it or not.
WholeGraph == [produces |-> [s \in Steps |-> Produces[s][text[s]]],
               reads    |-> [s \in Steps |-> Reads[s][text[s]]]]

\* Of the steps the run has not come to, or does not list, one whose row says
\* success reads what a step that has run makes: nothing will say it is behind.
Undone == {t \in Steps : outcomes[t] = "none"}
Forgets(undone) ==
    \E t \in undone : \E s \in Steps :
        /\ status[t] = "success" /\ outcomes[s] = "success"
        /\ Feeds(WholeGraph, s, t)

\* The loop gives up, and goes to the hooks.
Halt ==
    /\ result' = "failed"
    /\ pc' = "hooks"

\* The pipeline's own time is up before a stale step begins.
TimesOut ==
    /\ InLoop
    /\ Cur \in stale
    /\ PipelineTimeout
    /\ Halt
    /\ Unshown(sound = "mending" \/ Forgets(Undone))
    /\ runRow' = "timeout"
    /\ UNCHANGED <<project, rows, plan, at, working, outcomes, told, contract,
                   ran, settled, bounds>>

\* A stale step's SQL file is missing: no row of either table is written.
SqlMissing ==
    /\ InLoop
    /\ Cur \in stale \cap gone
    /\ Halt
    /\ Unshown(sound = "mending" \/ Forgets(Undone))
    /\ UNCHANGED <<project, rows, runRow, plan, at, working, outcomes, told, contract,
                   ran, settled, bounds>>

\* A stale step begins: its config hash is taken, before its first attempt.
Begin ==
    /\ InLoop
    /\ Cur \in stale \ gone
    /\ hash' = TextNow(Cur)
    /\ attempt' = 1
    /\ pc' = "attempt"
    /\ UNCHANGED <<project, rows, runRow, plan, at, readText, readInputs, report,
                   ran, settled, sound, bounds>>

\* Text v of step s writes what another step's success row stands for.
Overwrites(s, v) ==
    \E t \in Steps \ {s} :
        status[t] = "success" /\ Produces[t][text[t]] \cap Produces[s][v] # {}

\* An attempt: the engine, operator or shell reads the text and the inputs.
Attempt ==
    /\ pc = "attempt"
    /\ Cur \notin gone
    /\ readText' = TextNow(Cur)
    /\ readInputs' = Inputs(disk, Cur, TextNow(Cur))
    /\ ran' = [ran EXCEPT ![Cur] = TextNow(Cur)]
    /\ pc' = "running"
    /\ Unshown(~AsGraphed(Cur, TextNow(Cur)) \/ Overwrites(Cur, TextNow(Cur)))
    /\ UNCHANGED <<project, rows, runRow, plan, at, attempt, hash, report,
                   settled, bounds>>

\* Mutants of Retry: one attempt too many, and attempts that are not counted.
RetryOnceMore ==
    /\ pc \in {"attempt", "running"}
    /\ pc = "attempt" => Cur \in gone
    /\ attempt <= MaxAttempts[Cur]
    /\ attempt' = attempt + 1
    /\ disk' \in LeftByAttempt
    /\ pc' = "attempt"
    /\ UNCHANGED <<order, text, gone, rows, runRow, plan, at, hash, readText, readInputs,
                   report, ran, settled, sound, bounds>>

RetryForever ==
    /\ pc \in {"attempt", "running"}
    /\ pc = "attempt" => Cur \in gone
    /\ attempt < MaxAttempts[Cur]
    /\ disk' \in LeftByAttempt
    /\ pc' = "attempt"
    /\ UNCHANGED <<order, text, gone, rows, runRow, plan, at, working,
                   report, ran, settled, sound, bounds>>

\* StepFailed or StepTimeout with attempts left: back off and try again.
Retry ==
    /\ pc \in {"attempt", "running"}
    /\ pc = "attempt" => Cur \in gone
    /\ attempt < MaxAttempts[Cur]
    /\ attempt' = attempt + 1
    /\ disk' \in LeftByAttempt
    /\ pc' = "attempt"
    /\ UNCHANGED <<order, text, gone, rows, runRow, plan, at, hash, readText, readInputs,
                   report, ran, settled, sound, bounds>>

\* record_step, whose error the loop ignores.  A lost row leaves an older one
\* to speak for what the step has made since.
RecordStep(s, st, art) ==
    \/ /\ status' = [status EXCEPT ![s] = st]
       /\ config' = [config EXCEPT ![s] = hash]
       /\ artifact' = [artifact EXCEPT ![s] = art]
       /\ UNCHANGED faults
    \/ /\ faults < MaxFaults
       /\ faults' = faults + 1
       /\ UNCHANGED rows

\* What is recorded of step s speaks for what it has just made.
RowSpeaks(s) == status[s] # "success" \/ faults' = faults

\* The last attempt fails, or one fails with an error that is not retried: the
\* step is recorded failed and the run's row finished.
StepFails ==
    /\ pc \in {"attempt", "running"}
    /\ disk' \in LeftByAttempt
    /\ \/ /\ pc = "attempt" => Cur \in gone
          /\ attempt = MaxAttempts[Cur]
          /\ runRow' = "failed"
       \/ runRow' = "error"
    /\ RecordStep(Cur, "failed", Withheld)
    /\ outcomes' = [outcomes EXCEPT ![Cur] = "failed"]
    /\ Halt
    /\ Unshown(sound = "mending" \/ Forgets(Undone \ {Cur}) \/ ~RowSpeaks(Cur))
    /\ UNCHANGED <<order, text, gone, plan, at, working, told, contract,
                   ran, settled, runs, edits>>

\* The attempt succeeds: its products are written.  A SQL or operator step
\* that reads an asset that is not there cannot.
Executes ==
    /\ pc = "running"
    /\ StepKind[Cur] # "command" =>
          \A a \in Assets : AssetKind[a] # "pattern" => readInputs[a] # Absent
    /\ disk' = Written(disk, Cur, readText, readInputs)
    /\ pc' = "record"
    /\ UNCHANGED <<order, text, gone, rows, runRow, plan, at, working, report,
                   ran, settled, sound, bounds>>

\* Mutants of Record: the text is hashed again when the step is recorded, and
\* the hash recorded is of the products alone.
RecordRehashes ==
    /\ pc = "record"
    /\ status' = [status EXCEPT ![Cur] = "success"]
    /\ config' = [config EXCEPT ![Cur] = TextNow(Cur)]
    /\ artifact' = [artifact EXCEPT ![Cur] = ArtifactHash(disk, Cur)]
    /\ outcomes' = [outcomes EXCEPT ![Cur] = "success"]
    /\ at' = at + 1
    /\ pc' = "loop"
    /\ UNCHANGED <<project, runRow, plan, working, result, told, contract,
                   ran, settled, sound, bounds>>

RecordProducts ==
    /\ pc = "record"
    /\ status' = [status EXCEPT ![Cur] = "success"]
    /\ config' = [config EXCEPT ![Cur] = hash]
    /\ artifact' = [artifact EXCEPT ![Cur] =
                      [a \in Assets |-> IF a \in graph.produces[Cur] THEN disk[a] ELSE Nothing]]
    /\ outcomes' = [outcomes EXCEPT ![Cur] = "success"]
    /\ at' = at + 1
    /\ pc' = "loop"
    /\ UNCHANGED <<project, runRow, plan, working, result, told, contract,
                   ran, settled, sound, bounds>>

\* The products are hashed and the step recorded as a success.
Record ==
    /\ pc = "record"
    /\ RecordStep(Cur, "success", ArtifactHash(disk, Cur))
    /\ outcomes' = [outcomes EXCEPT ![Cur] = "success"]
    /\ at' = at + 1
    /\ pc' = "loop"
    /\ Unshown(~RowSpeaks(Cur))
    /\ UNCHANGED <<project, runRow, plan, working, result, told, contract,
                   ran, settled, runs, edits>>

\* Every step has been skipped or has succeeded.  A forced run has made up for
\* what went before unless a step it does not list has a success row.
LoopEnds ==
    /\ pc = "loop"
    /\ at > Len(steps)
    /\ runRow' = "success"
    /\ result' = "ok"
    /\ pc' = "hooks"
    /\ sound' = IF \/ Forgets(Undone)
                   \/ sound = "mending" /\ \E t \in Undone : status[t] = "success"
                  THEN "no"
                ELSE IF sound = "mending" THEN "yes" ELSE sound
    /\ UNCHANGED <<project, rows, plan, at, working, outcomes, told, contract,
                   ran, settled, bounds>>

-----------------------------------------------------------------------------
(* Hooks, the recheck and the contract. *)

\* on_success, after a loop that ended well.  A hook that fails changes
\* nothing; one refused before it ran fails the run.
OnSuccess ==
    /\ pc = "hooks"
    /\ result = "ok"
    /\ \E how \in Hows :
          /\ Tell("on_success", "none", how)
          /\ result' = IF "on_success" \in Hooks /\ how = "refused" THEN "refused" ELSE "ok"
    /\ pc' = "exit"
    /\ UNCHANGED <<project, rows, runRow, plan, at, working, outcomes, contract,
                   ran, settled, sound, bounds>>

\* on_failure, after a loop that did not.
OnFailure ==
    /\ pc = "hooks"
    /\ result # "ok"
    /\ \E how \in Hows : Tell("on_failure", "none", how)
    /\ pc' = "exit"
    /\ UNCHANGED <<project, rows, runRow, plan, at, working, outcomes, result, contract,
                   ran, settled, sound, bounds>>

\* on_exit is dispatched and the run goes on to the recheck: refused before it ran,
\* it fails a run that had succeeded.
ToldAtExit(status_) ==
    /\ pc = "exit"
    /\ \E how \in Hows :
          /\ Tell("on_exit", status_, how)
          /\ result' = IF "on_exit" \in Hooks /\ how = "refused" /\ result = "ok"
                         THEN "refused" ELSE result
    /\ pc' = "recheck"
    /\ UNCHANGED <<project, rows, runRow, plan, at, working, outcomes, contract,
                   ran, settled, sound, bounds>>

\* Mutant of OnExit: told what the loop has written in the run's row, which a
\* refused on_success does not change.
OnExitByRow == ToldAtExit(IF runRow = "success" THEN "success" ELSE "failed")

\* on_exit, told how the run stands.
OnExit == ToldAtExit(IF result = "ok" THEN "success" ELSE "failed")

\* `succeeded > 0`
SomeSucceeded == \E s \in Steps : outcomes[s] = "success"

\* What the contract says of a run that did not succeed.
FailureOutcome == IF SomeSucceeded THEN "partial" ELSE "error"

\* Mutant of Finish: the row keeps what the loop wrote.
FinishKeepsRow ==
    /\ pc = "recheck"
    /\ \/ result = "ok" /\ contract' = "success"
       \/ (result # "ok" \/ Pinned) /\ contract' = FailureOutcome
    /\ pc' = "idle"
    /\ UNCHANGED <<project, rows, runRow, plan, at, working, outcomes, result, told,
                   ran, settled, sound, bounds>>

\* The pins are hashed again, the outcome is decided, and the contract written.
\* A run that failed after its loop had recorded a success records the
\* outcome of its contract in place of it.
Finish ==
    /\ pc = "recheck"
    /\ \/ result = "ok" /\ contract' = "success" /\ UNCHANGED runRow
       \/ /\ result = "refused" \/ (result = "ok" /\ Pinned)
          /\ contract' = FailureOutcome
          /\ runRow' = FailureOutcome
       \/ result = "failed" /\ contract' = FailureOutcome /\ UNCHANGED runRow
    /\ pc' = "idle"
    /\ UNCHANGED <<project, rows, plan, at, working, outcomes, result, told,
                   ran, settled, sound, bounds>>

\* The process dies.  What it had written stays.
Crash ==
    /\ pc # "idle"
    /\ disk' \in LeftByAttempt
    /\ pc' = "idle"
    /\ Unshown(\/ sound = "mending"
               \/ pc \in {"loop", "attempt", "running", "record"} /\ Forgets(Undone)
               \/ pc \in {"attempt", "running", "record"} /\ status[Cur] = "success")
    /\ UNCHANGED <<order, text, gone, rows, runRow, plan, at, working, report,
                   ran, settled, bounds>>

-----------------------------------------------------------------------------
(* The person, at any moment. *)

Edit == /\ edits < MaxEdits
        /\ edits' = edits + 1
        /\ settled' = FALSE
        /\ UNCHANGED <<rows, runRow, pc, plan, at, working, report, ran, runs, faults>>

\* A step is rewritten, in its SQL file or in the manifest.
EditText(s) ==
    /\ Edit
    /\ text[s] < MaxText
    /\ text' = [text EXCEPT ![s] = @ + 1]
    /\ gone' = gone \ {s}
    /\ UNCHANGED <<order, disk, sound>>

\* A SQL file is moved away, or put back as it was.
MoveSql(s) ==
    /\ Edit
    /\ StepKind[s] = "sql"
    /\ gone' = IF s \in gone THEN gone \ {s} ELSE gone \cup {s}
    /\ UNCHANGED <<order, text, disk, sound>>

\* The manifest lists other steps, or the same ones in another order.
EditOrder ==
    /\ Edit
    /\ order' \in Orders \ {order}
    /\ UNCHANGED <<text, gone, disk, sound>>

\* An edit no record can show: of a table, which is never hashed, or of a file
\* the step being run has read or written and whose hash is not yet taken.
Unseen(a) ==
    \/ AssetKind[a] = "table"
    \/ /\ pc \in {"running", "record"}
       /\ a \in Produces[Cur][readText] \cup Reads[Cur][readText]

\* An asset is replaced, restored or deleted behind arc's back.
EditAsset(a) ==
    /\ Edit
    /\ disk' \in {[disk EXCEPT ![a] = c] : c \in (Sources \cup {Absent}) \ {disk[a]}}
    /\ Unshown(Unseen(a))
    /\ UNCHANGED <<order, text, gone>>

-----------------------------------------------------------------------------
Process ==
    \/ Refuse \/ PlanFails \/ Plan \/ OnInit \/ OnInitFails
    \/ Skip \/ TimesOut \/ SqlMissing \/ Begin \/ Attempt \/ Retry \/ StepFails
    \/ Executes \/ Record \/ LoopEnds
    \/ OnSuccess \/ OnFailure \/ OnExit \/ Finish

Person ==
    \/ \E s \in Steps : EditText(s) \/ MoveSql(s)
    \/ EditOrder
    \/ \E a \in Assets : EditAsset(a)

Next == Start \/ Process \/ Crash \/ Person

Spec == Init /\ [][Next]_vars

\* A run that has begun goes on by itself; nobody has to start one, edit
\* anything or kill the process.
FairSpec == Spec /\ WF_vars(Process)

-----------------------------------------------------------------------------
(* Safety. *)

\* The latest run ended with a success, and nothing was edited during or since.
Ended == pc = "idle" /\ contract = "success" /\ settled

\* After a successful run every step's products are what its text makes of
\* its inputs as they stand, the inputs other steps made included, whatever
\* was edited between the runs before it, unless an event came between that
\* the records cannot show.  A forced run makes up for such an event.
SuccessIsCurrent ==
    Ended /\ sound = "yes" => \A s \in StepsOf(steps) : Current(s)

\* What a run records is what the next run's check computes: run again with
\* nothing changed, no step's hash is stale, unless the step touches a remote
\* asset or shares a product with another step.
NothingToRedo ==
    Ended /\ faults = 0 /\ SingleProducer(graph) =>
        \A s \in StepsOf(steps) :
            IsHashStale(s) =>
                \E a \in graph.produces[s] \cup graph.reads[s] : AssetKind[a] = "remote"

\* runner.rs:1296: a run that succeeds leaves current data, and what it has
\* recorded is what the next run's check computes, so nothing is redone.
SuccessStands == SuccessIsCurrent /\ NothingToRedo

\* When the text of a step is the one its success row records, it is the text
\* its latest attempt ran, though the text can be edited between the hash and
\* the attempt and between two attempts: a skip never certifies a text that
\* has not run.
RecordedTextRan ==
    \A s \in Steps :
        (status[s] = "success" /\ config[s] = text[s]) => ran[s] = text[s]

\* A step is never skipped with a hashed product that an attempt cut short
\* has half written: a crash, a failure or an interrupted retry.
SkipsNothingHalfWritten ==
    [][Plan =>
        \A s \in StepsOf(steps) \ stale' :
            status[s] = "success" =>
                \A a \in graph.produces[s] :
                    AssetKind[a] \in HashedKinds => disk[a] # Garbage]_vars

\* The run's row and its contract give the same verdict, though the loop
\* writes the row before the hooks and the recheck can still fail the run.
RowAgreesWithContract ==
    pc = "idle" /\ contract # "none" =>
        (runRow = "success" <=> contract = "success")

\* Every step of the run has been skipped or has succeeded.
Done(s) == outcomes[s] \in {"success", "skipped"}
AllDone == \A s \in StepsOf(steps) : Done(s)

ToldHooks == {told[i].hook : i \in DOMAIN told}
RefusedNone == \A i \in DOMAIN told : told[i].how = "ran"

\* What the i-th dispatch says is so: on_init comes first, on_exit last, and is
\* told a success only when every step is done and no hook before it was refused.
ToldTruly(i) ==
    LET d == told[i]
    IN  /\ d.hook = "on_init" => i = 1
        /\ d.hook = "on_success" => AllDone
        /\ d.hook = "on_failure" => ~AllDone
        /\ d.hook = "on_exit" =>
              /\ i = Len(told)
              /\ d.status = IF runRow = "init_failed" THEN "init_failed"
                            ELSE IF AllDone /\ \A j \in 1..(i - 1) : told[j].how = "ran"
                              THEN "success" ELSE "failed"

\* No hook is dispatched twice, and none is told what is not so.  A run that
\* returns with a contract has dispatched, of the hooks the manifest defines,
\* on_init, on_exit and the one of on_success and on_failure that its steps call
\* for; one that its on_init fails, on_init and on_exit; and none was refused in
\* a run whose contract is a success.
HooksToldTheTruth ==
    /\ \A i, j \in DOMAIN told : told[i].hook = told[j].hook => i = j
    /\ \A i \in DOMAIN told : ToldTruly(i)
    /\ contract = "success" => AllDone /\ RefusedNone
    /\ contract # "none" =>
          ToldHooks = Hooks \cap {"on_init", "on_exit",
                                  IF AllDone THEN "on_success" ELSE "on_failure"}
    /\ pc = "idle" /\ runRow = "init_failed" =>
          ToldHooks = Hooks \cap {"on_init", "on_exit"}

-----------------------------------------------------------------------------
(* The inductive invariants behind RecordedTextRan, RowAgreesWithContract and *)
(* HooksToldTheTruth. *)

\* No step has run a text it does not have yet, what a success row records is
\* no later than what ran, and the hash in hand is no later than the text an
\* attempt will read.
TextInv ==
    /\ \A s \in Steps :
          /\ ran[s] <= TextNow(s) /\ TextNow(s) <= text[s]
          /\ status[s] = "success" => config[s] <= ran[s]
    /\ pc \in {"attempt", "running", "record"} => hash <= TextNow(Cur)
    /\ pc \in {"running", "record"} => hash <= ran[Cur]

InSteps == pc \in {"started", "init", "loop", "attempt", "running", "record"}
AfterSteps == pc \in {"hooks", "exit", "recheck"}

\* How the row stands against the result at each stage of a run.
VerdictInv ==
    /\ pc # "idle" => contract = "none"
    /\ InSteps => runRow = "started" /\ result = "none"
    /\ AfterSteps =>
          /\ result = "ok" => runRow = "success"
          /\ result = "failed" => runRow # "success"
          /\ result # "none" /\ runRow # "init_failed"
    /\ pc = "hooks" => result # "refused"
    /\ RowAgreesWithContract

\* Who has been told what at each stage of a run.
HookInv ==
    /\ pc \in {"loop", "attempt", "running", "record"} =>
          /\ \A k \in 1..(at - 1) : Done(steps[k])
          /\ \A k \in at..Len(steps) : outcomes[steps[k]] = "none"
    /\ pc \in {"started", "init"} =>
          told = << >> /\ at = 1 /\ outcomes = [s \in Steps |-> "none"]
    /\ pc = "init" => "on_init" \in Hooks
    /\ pc \in {"loop", "attempt", "running", "record", "hooks"} =>
          ToldHooks = Hooks \cap {"on_init"} /\ RefusedNone
    /\ pc = "exit" =>
          ToldHooks = Hooks \cap {"on_init", IF AllDone THEN "on_success" ELSE "on_failure"}
    /\ pc = "recheck" =>
          ToldHooks = Hooks \cap {"on_init", "on_exit",
                                  IF AllDone THEN "on_success" ELSE "on_failure"}
    /\ AfterSteps => (result = "failed" <=> ~AllDone)
    /\ AfterSteps /\ AllDone => (result = "ok" <=> RefusedNone)
    /\ HooksToldTheTruth

-----------------------------------------------------------------------------
(* The inductive invariants behind SuccessIsCurrent and NothingToRedo. *)

\* A row a check may find fresh: a success of the step's text as it is, with a hash.
Vouches(s) == status[s] = "success" /\ config[s] = text[s] /\ artifact[s] # Withheld

\* The run is making step s: its row and its products are of different attempts.
InHand(s) == pc \in {"attempt", "running", "record"} /\ s = Cur

\* Nothing has happened that the row of s cannot show, or the forced run has made s.
Trusted(s) ==
    /\ Vouches(s) /\ ~InHand(s)
    /\ sound = "yes" \/ (sound = "mending" /\ outcomes[s] = "success")

\* What the row of s has of a product: what was hashed; a table is as it stands.
RowHas(s, b) == IF AssetKind[b] \in HashedKinds THEN artifact[s][b] ELSE disk[b]

Looping == pc \in {"loop", "attempt", "running", "record"}
Planned == Looping \/ pc = "init"

\* The run has made u, and has yet to come to s.
Waits(s, u) == Looping /\ outcomes[u] = "success" /\ outcomes[s] = "none"

\* What the rows say of each other.  What a row has of a product was made from what
\* the row has of the inputs that came from outside; and from what the rows of the
\* other steps have of the inputs these make, as long as they are as these rows say.
LedgerInv ==
    \A s \in Steps : Trusted(s) =>
        /\ \A a \in Produces[s][text[s]] \cup Reads[s][text[s]] : AssetKind[a] # "remote"
        /\ \A b \in Produces[s][text[s]] :
              /\ MadeBy(s, b, RowHas(s, b))
              /\ \A a \in Outside(s) :
                    IF artifact[s][a] # Nothing
                      THEN RowHas(s, b).inputs[a] = artifact[s][a]
                      ELSE \A u \in Steps :
                              /\ Trusted(u) /\ a \in Produces[u][text[u]]
                              /\ RowHas(u, a) = disk[a]
                              => RowHas(s, b).inputs[a] = disk[a] \/ Waits(s, u)

\* The plan and how far the loop has come with it.
PlanInv ==
    /\ \A s \in Steps \ StepsOf(steps) : graph.produces[s] = {} /\ graph.reads[s] = {}
    /\ sound = "mending" => Planned /\ stale = StepsOf(steps)
    /\ pc \in {"started", "init"} => at = 1 /\ \A s \in Steps : outcomes[s] = "none"
    /\ Planned =>
          /\ ValidateOrder(graph, steps)
          /\ \A u \in stale : \A t \in StepsOf(steps) : Feeds(graph, u, t) => t \in stale
          /\ sound # "no" =>
                /\ SingleProducer(graph)
                /\ \A s \in StepsOf(steps) \ stale :
                      status[s] = "success" /\ AsGraphed(s, config[s])
    /\ Looping =>
          /\ \A k \in 1..(at - 1) :
                outcomes[steps[k]] = IF steps[k] \in stale THEN "success" ELSE "skipped"
          /\ \A s \in Steps : outcomes[s] # "none" => \E k \in 1..(at - 1) : s = steps[k]
          /\ sound # "no" =>
                \A s \in Steps :
                    outcomes[s] = "success" /\ Vouches(s) => AsGraphed(s, text[s])
    /\ pc \in {"attempt", "running", "record"} => Cur \in stale

\* The attempt in hand works from the text and the inputs that are there.
HandInv ==
    /\ \A a \in Assets : disk[a] # Nothing
    /\ pc \in {"running", "record"} => readText = ran[Cur]
    /\ pc \in {"running", "record"} /\ (sound # "no" \/ settled) =>
          /\ AsGraphed(Cur, readText)
          /\ readInputs = Inputs(disk, Cur, readText)
          /\ pc = "record" =>
                \A b \in Produces[Cur][readText] :
                    disk[b] = Output(Cur, b, readText, readInputs)
    /\ pc = "record" /\ StepKind[Cur] # "command" =>
          \A a \in Assets : AssetKind[a] # "pattern" => readInputs[a] # Absent
    /\ pc \in {"running", "record"} /\ sound # "no" =>
          \A t \in Steps \ {Cur} :
              Vouches(t) => Produces[t][text[t]] \cap Produces[Cur][readText] = {}

\* While nothing is edited, the run works from the project as it is.
SettledInv ==
    /\ \A s \in gone : StepKind[s] = "sql"
    /\ settled =>
          /\ steps = order /\ loaded = text /\ graph = GraphOf(order, text, gone)
          /\ pc \in {"attempt", "running", "record"} => Cur \notin gone /\ hash = text[Cur]
          /\ pc \in {"running", "record"} => readText = text[Cur]

\* The run is done with s.
Settles(s) ==
    \/ Planned /\ (s \notin stale \/ outcomes[s] = "success")
    \/ AfterSteps /\ result # "failed"
    \/ pc = "idle" /\ contract = "success"

Remote(s) == \E a \in graph.produces[s] \cup graph.reads[s] : AssetKind[a] = "remote"

\* While nothing is edited, what the run is done with stands.
StandsInv ==
    settled =>
        \A s \in StepsOf(steps) : Settles(s) =>
            /\ s \notin gone
            /\ sound # "no" => Current(s)
            /\ faults = 0 /\ SingleProducer(graph) /\ IsHashStale(s) => Remote(s)

-----------------------------------------------------------------------------
(* Liveness. *)

\* A run that has begun returns, however its attempts, hooks and checks go.
RunReturns == pc # "idle" ~> pc = "idle"

-----------------------------------------------------------------------------
(* What the documentation says, and the code does not always do. *)

\* A step left alone was made from the latest content of every input another
\* step makes: an upstream step that ran makes the steps below it run too.
UpstreamWorkPropagates ==
    [][Plan =>
        \A t \in StepsOf(steps) \ stale' : \A b \in Produces[t][text[t]] :
            Made(disk[b]) =>
                \A a \in Reads[t][text[t]] :
                    Made(disk[a]) /\ Made(disk[b].inputs[a])
                        => disk[b].inputs[a] = disk[a]]_vars
=============================================================================
