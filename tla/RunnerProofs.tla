----------------------------- MODULE RunnerProofs -----------------------------
(***************************************************************************)
(* Theorems about module Runner, for every Protocol: any steps, assets,    *)
(* manifests, hooks and numbers of attempts, runs and edits.               *)
(***************************************************************************)
EXTENDS Runner, TLAPS

\* The step the loop is on is one of the steps.
LEMMA CurIsStep ==
    ASSUME TypeOK, at <= Len(steps)
    PROVE  Cur \in Steps
BY ConstantsOK DEF TypeOK, Cur, StepOrders

LEMMA StepsOfIsSteps ==
    ASSUME NEW o \in Orders
    PROVE  StepsOf(o) \subseteq Steps
BY ConstantsOK DEF StepsOf, StepOrders

\* The graph of a manifest is a graph, whatever is missing.
LEMMA GraphOfIsGraph ==
    ASSUME NEW o, NEW v \in [Steps -> Texts], NEW missing
    PROVE  GraphOf(o, v, missing) \in Graphs
<1>1. \A s \in Steps : Produces[s][v[s]] \subseteq Assets /\ Reads[s][v[s]] \subseteq Assets
  BY ConstantsOK DEF Texts
<1> QED BY <1>1 DEF GraphOf, Graphs

LEMMA InitTypeOK == Init => TypeOK
<1> SUFFICES ASSUME Init PROVE TypeOK
  OBVIOUS
<1>1. order \in Orders /\ steps = order
  BY DEF Init
<1>2. /\ text \in [Steps -> Texts] /\ loaded \in [Steps -> Texts]
  BY ConstantsOK DEF Init, Texts
<1>3. graph \in Graphs
  BY <1>2, GraphOfIsGraph DEF Init
<1>4. at \in 1..(Len(steps) + 1)
  BY <1>1, ConstantsOK DEF Init, StepOrders
<1>5. told \in Seq(Dispatches)
  BY DEF Init
<1> QED BY <1>1, <1>2, <1>3, <1>4, <1>5 DEF Init, TypeOK

\* A run's start keeps the types.
LEMMA StartTypeOK == TypeOK /\ Start => TypeOK'
<1> SUFFICES ASSUME TypeOK, Start PROVE TypeOK'
  OBVIOUS
<1>1. graph' \in Graphs
  BY GraphOfIsGraph DEF TypeOK, Start
<1>2. at' \in 1..(Len(steps') + 1)
  BY ConstantsOK DEF TypeOK, Start, StepOrders
<1>3. told' \in Seq(Dispatches)
  BY DEF Start
<1> QED BY <1>1, <1>2, <1>3 DEF TypeOK, Start, project, rows

\* So does the plan, whose steps are those of the manifest.
LEMMA PlanTypeOK == TypeOK /\ Plan => TypeOK'
<1> SUFFICES ASSUME TypeOK, Plan PROVE TypeOK'
  OBVIOUS
<1>1. StepsOf(steps) \subseteq Steps
  BY StepsOfIsSteps DEF TypeOK
<1>2. stale' \in SUBSET Steps
  BY <1>1 DEF Plan, StaleSteps, OwnStale, DownstreamSteps, Reached
<1>3. sound' \in {"yes", "no", "mending"}
  BY DEF Plan, Unshown, TypeOK
<1> QED BY <1>2, <1>3 DEF TypeOK, Plan, project, rows, working, report, bounds

LEMMA RefuseTypeOK == TypeOK /\ (Refuse \/ PlanFails) => TypeOK'
<1> SUFFICES ASSUME TypeOK, Refuse \/ PlanFails PROVE TypeOK'
  OBVIOUS
<1>1. CASE Refuse
  BY <1>1 DEF TypeOK, Refuse, project, rows, plan, working, report, bounds
<1>2. CASE PlanFails
  <2>1. /\ UNCHANGED <<project, rows, runRow, plan, at, working, report, ran, settled, sound>>
        /\ pc' = "idle" /\ UNCHANGED <<runs, edits>>
    BY <1>2 DEF PlanFails
  <2>2. faults' \in Nat
    BY <1>2 DEF PlanFails, TypeOK
  <2> QED BY <2>1, <2>2 DEF TypeOK, project, rows, plan, working, report
<1> QED BY <1>1, <1>2

\* A dispatch is logged, or the manifest defines no such hook.
LEMMA TellTypes ==
    ASSUME told \in Seq(Dispatches), NEW hook \in HookNames, NEW how \in Hows,
           NEW st \in {"none", "init_failed", "success", "failed"}, Tell(hook, st, how)
    PROVE  told' \in Seq(Dispatches)
<1>1. Dispatch(hook, st, how) \in Dispatches
  BY DEF Dispatch, Dispatches, Hows
<1> QED BY <1>1 DEF Tell

LEMMA InitHookTypeOK == TypeOK /\ (OnInit \/ OnInitFails) => TypeOK'
<1> SUFFICES ASSUME TypeOK, OnInit \/ OnInitFails PROVE TypeOK'
  OBVIOUS
<1>a. told \in Seq(Dispatches)
  BY DEF TypeOK
<1>1. CASE OnInit
  <2>1. told' \in Seq(Dispatches)
    <3>1. "ran" \in Hows
      BY DEF Hows
    <3> QED BY <1>a, <1>1, <3>1, TellTypes DEF OnInit, HookNames
  <2> QED BY <1>1, <2>1 DEF TypeOK, OnInit, project, rows, plan, working, report, bounds
<1>2. CASE OnInitFails
  <2>1. PICK how \in Hows, howExit \in Hows :
          told' = IF "on_exit" \in Hooks
                    THEN Append(Append(told, Dispatch("on_init", "none", how)),
                                Dispatch("on_exit", "init_failed", howExit))
                    ELSE Append(told, Dispatch("on_init", "none", how))
    BY <1>2 DEF OnInitFails
  <2>2. /\ Dispatch("on_init", "none", how) \in Dispatches
        /\ Dispatch("on_exit", "init_failed", howExit) \in Dispatches
    BY DEF Dispatch, Dispatches, HookNames, Hows
  <2>3. told' \in Seq(Dispatches)
    BY <1>a, <2>1, <2>2
  <2> QED BY <1>2, <2>3 DEF TypeOK, OnInitFails, Unshown, RunOutcomes, project, rows, plan, working, report, bounds
<1> QED BY <1>1, <1>2

\* The steps of the loop, one action at a time.
LEMMA LoopTypeOK ==
    TypeOK /\ (Skip \/ TimesOut \/ SqlMissing \/ Begin \/ Attempt \/ LoopEnds) => TypeOK'
<1> SUFFICES ASSUME TypeOK,
                    Skip \/ TimesOut \/ SqlMissing \/ Begin \/ Attempt \/ LoopEnds
             PROVE  TypeOK'
  OBVIOUS
<1> USE DEF project, rows, plan, working, report, bounds
<1>1. CASE Skip
  <2>1. Cur \in Steps
    BY <1>1, CurIsStep DEF Skip, InLoop
  <2>2. at' \in 1..(Len(steps) + 1)
    BY <1>1, ConstantsOK DEF TypeOK, Skip, InLoop, StepOrders
  <2> QED BY <1>1, <2>1, <2>2 DEF TypeOK, Skip, InLoop
<1>2. CASE TimesOut
  BY <1>2 DEF TypeOK, TimesOut, InLoop, Halt, Unshown, RunOutcomes
<1>3. CASE SqlMissing
  BY <1>3 DEF TypeOK, SqlMissing, InLoop, Halt, Unshown
<1>4. CASE Begin
  <2>1. Cur \in Steps
    BY <1>4, CurIsStep DEF Begin, InLoop
  <2>2. 1 \in 1..MaxAttempts[Cur]
    BY <2>1, ConstantsOK
  <2>3. hash' \in Nat
    BY <1>4, <2>1 DEF TypeOK, Begin, TextNow, Texts
  <2> QED BY <1>4, <2>1, <2>2, <2>3 DEF TypeOK, Begin, InLoop, Unshown, Cur
<1>5. CASE Attempt
  <2>1. Cur \in Steps
    BY <1>5, CurIsStep DEF TypeOK, Attempt
  <2>2. readText' \in Nat /\ ran' \in [Steps -> Nat]
    BY <1>5, <2>1 DEF TypeOK, Attempt, TextNow, Texts
  <2>3. sound' \in {"yes", "no", "mending"}
    BY <1>5 DEF TypeOK, Attempt, Unshown
  <2> QED BY <1>5, <2>1, <2>2, <2>3 DEF TypeOK, Attempt, Cur
<1>6. CASE LoopEnds
  BY <1>6 DEF TypeOK, LoopEnds, RunOutcomes
<1> QED BY <1>1, <1>2, <1>3, <1>4, <1>5, <1>6

LEMMA RecordStepTypes ==
    ASSUME TypeOK, NEW s \in Steps, NEW st \in {"success", "failed"}, NEW art,
           RecordStep(s, st, art)
    PROVE  /\ status' \in [Steps -> {"none", "success", "failed"}]
           /\ config' \in [Steps -> Nat]
           /\ DOMAIN artifact' = Steps
           /\ faults' \in Nat
<1> USE DEF TypeOK
<1>1. CASE UNCHANGED rows /\ faults' = faults + 1
  BY <1>1 DEF rows
<1>2. CASE /\ status' = [status EXCEPT ![s] = st]
           /\ config' = [config EXCEPT ![s] = hash]
           /\ artifact' = [artifact EXCEPT ![s] = art]
           /\ UNCHANGED faults
  <2>1. status' \in [Steps -> {"none", "success", "failed"}]
    BY <1>2
  <2>2. config' \in [Steps -> Nat]
    BY <1>2
  <2>3. DOMAIN artifact' = Steps
    BY <1>2
  <2> QED BY <1>2, <2>1, <2>2, <2>3
<1> QED BY <1>1, <1>2 DEF RecordStep

LEMMA LeftByAttemptDomain ==
    ASSUME TypeOK, disk' \in LeftByAttempt
    PROVE  DOMAIN disk' = Assets
BY DEF TypeOK, LeftByAttempt, Spoiled

LEMMA AttemptTypeOK == TypeOK /\ (Retry \/ StepFails \/ Executes \/ Record) => TypeOK'
<1> SUFFICES ASSUME TypeOK, Retry \/ StepFails \/ Executes \/ Record PROVE TypeOK'
  OBVIOUS
<1> USE DEF project, rows, plan, working, report, bounds
<1>1. CASE Retry
  <2>1. DOMAIN disk' = Assets
    BY <1>1, LeftByAttemptDomain DEF Retry
  <2>2. attempt' \in 1..MaxAttempts[Cur] /\ attempt' \in Nat
    <3>1. Cur \in Steps
      BY <1>1, CurIsStep DEF TypeOK, Retry
    <3>2. MaxAttempts[Cur] \in Nat
      BY <3>1, ConstantsOK
    <3> QED BY <1>1, <3>2 DEF TypeOK, Retry
  <2> QED BY <1>1, <2>1, <2>2 DEF TypeOK, Retry, Cur
<1>2. CASE StepFails
  <2>1. DOMAIN disk' = Assets
    BY <1>2, LeftByAttemptDomain DEF StepFails
  <2>2. Cur \in Steps
    BY <1>2, CurIsStep DEF TypeOK, StepFails
  <2>3. /\ status' \in [Steps -> {"none", "success", "failed"}]
        /\ config' \in [Steps -> Nat]
        /\ DOMAIN artifact' = Steps
        /\ faults' \in Nat
    BY <1>2, <2>2, RecordStepTypes DEF StepFails
  <2> QED BY <1>2, <2>1, <2>2, <2>3 DEF TypeOK, StepFails, Halt, Unshown, RunOutcomes
<1>3. CASE Executes
  BY <1>3 DEF TypeOK, Executes, Written
<1>4. CASE Record
  <2>1. Cur \in Steps /\ at <= Len(steps)
    BY <1>4, CurIsStep DEF TypeOK, Record
  <2>2. /\ status' \in [Steps -> {"none", "success", "failed"}]
        /\ config' \in [Steps -> Nat]
        /\ DOMAIN artifact' = Steps
        /\ faults' \in Nat
    BY <1>4, <2>1, RecordStepTypes DEF Record
  <2>3. at' \in 1..(Len(steps) + 1)
    BY <1>4, <2>1, ConstantsOK DEF TypeOK, Record, StepOrders
  <2> QED BY <1>4, <2>1, <2>2, <2>3 DEF TypeOK, Record, Unshown
<1> QED BY <1>1, <1>2, <1>3, <1>4

LEMMA EndTypeOK == TypeOK /\ (OnSuccess \/ OnFailure \/ OnExit \/ Finish \/ Crash) => TypeOK'
<1> SUFFICES ASSUME TypeOK, OnSuccess \/ OnFailure \/ OnExit \/ Finish \/ Crash
             PROVE  TypeOK'
  OBVIOUS
<1> USE DEF project, rows, plan, working, report, bounds
<1>a. told \in Seq(Dispatches)
  BY DEF TypeOK
<1>1. CASE OnSuccess
  <2>1. PICK how \in Hows : Tell("on_success", "none", how)
    BY <1>1 DEF OnSuccess
  <2>2. told' \in Seq(Dispatches)
    BY <1>a, <2>1, TellTypes DEF HookNames
  <2> QED BY <1>1, <2>2 DEF TypeOK, OnSuccess
<1>2. CASE OnFailure
  <2>1. PICK how \in Hows : Tell("on_failure", "none", how)
    BY <1>2 DEF OnFailure
  <2>2. told' \in Seq(Dispatches)
    BY <1>a, <2>1, TellTypes DEF HookNames
  <2> QED BY <1>2, <2>2 DEF TypeOK, OnFailure
<1>3. CASE OnExit
  <2>1. PICK how \in Hows :
          Tell("on_exit", IF result = "ok" THEN "success" ELSE "failed", how)
    BY <1>3 DEF OnExit, ToldAtExit
  <2>2. told' \in Seq(Dispatches)
    BY <1>a, <2>1, TellTypes DEF HookNames
  <2> QED BY <1>3, <2>2 DEF TypeOK, OnExit, ToldAtExit
<1>4. CASE Finish
  BY <1>4 DEF TypeOK, Finish, FailureOutcome, RunOutcomes
<1>5. CASE Crash
  <2>1. DOMAIN disk' = Assets
    BY <1>5, LeftByAttemptDomain DEF Crash
  <2> QED BY <1>5, <2>1 DEF TypeOK, Crash, Unshown
<1> QED BY <1>1, <1>2, <1>3, <1>4, <1>5

\* What of the type of a run a person's edit cannot reach.
RunTypes ==
    /\ status \in [Steps -> {"none", "success", "failed"}]
    /\ config \in [Steps -> Nat]
    /\ DOMAIN artifact = Steps
    /\ runRow \in RunOutcomes \cup {"none", "started"}
    /\ pc \in {"idle", "started", "init", "loop", "attempt", "running", "record",
               "hooks", "exit", "recheck"}
    /\ steps \in Orders
    /\ loaded \in [Steps -> Texts]
    /\ graph \in Graphs
    /\ stale \in SUBSET Steps
    /\ at \in 1..(Len(steps) + 1)
    /\ pc \in {"attempt", "running", "record"} => at <= Len(steps)
    /\ attempt \in Nat
    /\ pc \in {"attempt", "running"} => attempt \in 1..MaxAttempts[Cur]
    /\ hash \in Nat /\ readText \in Nat
    /\ outcomes \in [Steps -> {"none", "skipped", "success", "failed"}]
    /\ result \in {"none", "ok", "failed", "refused"}
    /\ told \in Seq(Dispatches)
    /\ contract \in {"none", "success", "partial", "error"}
    /\ ran \in [Steps -> Nat]
    /\ runs \in Nat /\ faults \in Nat

LEMMA EditKeepsRunTypes == TypeOK /\ Edit => RunTypes' /\ edits' \in Nat /\ settled' \in BOOLEAN
<1> SUFFICES ASSUME TypeOK, Edit PROVE RunTypes' /\ edits' \in Nat /\ settled' \in BOOLEAN
  OBVIOUS
<1>1. RunTypes
  BY DEF TypeOK, RunTypes
<1>2. RunTypes'
  BY <1>1 DEF Edit, RunTypes, Cur, rows, plan, working, report
<1>3. edits' \in Nat
  <2>1. edits \in Nat /\ edits' = edits + 1
    BY DEF Edit, TypeOK
  <2> QED BY <2>1
<1>4. settled' \in BOOLEAN
  BY DEF Edit
<1> QED BY <1>2, <1>3, <1>4

LEMMA PersonTypeOK == TypeOK /\ Person => TypeOK'
<1> SUFFICES ASSUME TypeOK, Person PROVE TypeOK'
  OBVIOUS
<1>1. RunTypes' /\ edits' \in Nat /\ settled' \in BOOLEAN
  BY EditKeepsRunTypes DEF Person, EditText, MoveSql, EditOrder, EditAsset
<1>2. /\ order' \in Orders
      /\ text' \in [Steps -> Texts]
      /\ gone' \in SUBSET Steps
      /\ DOMAIN disk' = Assets
      /\ sound' \in {"yes", "no", "mending"}
  <2>1. ASSUME NEW s \in Steps, EditText(s)
        PROVE  text' \in [Steps -> Texts] /\ gone' \in SUBSET Steps
    <3>1. text[s] \in Nat /\ text[s] >= 1 /\ text[s] + 1 <= MaxText
      BY <2>1, ConstantsOK DEF TypeOK, EditText, Texts
    <3> QED BY <2>1, <3>1, ConstantsOK DEF TypeOK, EditText, Texts
  <2>2. ASSUME NEW s \in Steps, MoveSql(s) PROVE gone' \in SUBSET Steps
    BY <2>2 DEF TypeOK, MoveSql
  <2>3. CASE \E s \in Steps : EditText(s)
    BY <2>1, <2>3 DEF EditText, TypeOK
  <2>4. CASE \E s \in Steps : MoveSql(s)
    BY <2>2, <2>4 DEF MoveSql, TypeOK
  <2>5. CASE EditOrder
    BY <2>5 DEF EditOrder, TypeOK
  <2>6. CASE \E a \in Assets : EditAsset(a)
    BY <2>6 DEF EditAsset, Unshown, TypeOK
  <2> QED BY <2>3, <2>4, <2>5, <2>6 DEF Person
<1> QED BY <1>1, <1>2 DEF TypeOK, RunTypes

\* Every variable of a run, of the project and of the records keeps its type.
THEOREM RunnerTypeOK == Spec => []TypeOK
<1>1. Init => TypeOK
  BY InitTypeOK
<1>2. TypeOK /\ [Next]_vars => TypeOK'
  <2> SUFFICES ASSUME TypeOK, [Next]_vars PROVE TypeOK'
    OBVIOUS
  <2>1. CASE UNCHANGED vars
    BY <2>1 DEF vars, project, rows, plan, working, report, bounds, TypeOK, Cur
  <2> QED
    BY <2>1, StartTypeOK, RefuseTypeOK, PlanTypeOK, InitHookTypeOK, LoopTypeOK,
       AttemptTypeOK, EndTypeOK, PersonTypeOK DEF Next, Process
<1>3. QED
  BY <1>1, <1>2, PTL DEF Spec

-----------------------------------------------------------------------------
(* The text a success row records has run. *)

\* What TextInv says of the texts and the records.
TextRows ==
    \A s \in Steps :
        /\ ran[s] <= TextNow(s) /\ TextNow(s) <= text[s]
        /\ status[s] = "success" => config[s] <= ran[s]

\* A step that touches no text and no record, and leaves no attempt under way.
LEMMA TextIdle ==
    ASSUME TypeOK, TextInv, UNCHANGED <<text, loaded, ran, status, config>>,
           pc' \notin {"attempt", "running", "record"}
    PROVE  TextInv'
BY DEF TextInv, TextNow

LEMMA TextInvStart == TypeOK /\ TextInv /\ Start => TextInv'
<1> SUFFICES ASSUME TypeOK, TextInv, Start PROVE TextInv'
  OBVIOUS
<1>1. /\ loaded' = text /\ pc' = "started"
      /\ UNCHANGED <<text, ran, status, config>>
  BY DEF Start, project, rows
<1>2. ASSUME NEW s \in Steps
      PROVE  ran'[s] <= TextNow(s)' /\ TextNow(s)' <= text'[s]
  <2>1. ran[s] \in Nat /\ text[s] \in Nat /\ loaded[s] \in Nat
    BY DEF TypeOK, Texts
  <2>2. ran[s] <= text[s]
    BY <2>1 DEF TextInv, TextNow
  <2> QED BY <1>1, <2>1, <2>2 DEF TextNow
<1> QED BY <1>1, <1>2 DEF TextInv

\* The text of a step is only ever replaced by a later one.
LEMMA TextInvEditText == \A s \in Steps : TypeOK /\ TextInv /\ EditText(s) => TextInv'
<1> SUFFICES ASSUME NEW e \in Steps, TypeOK, TextInv, EditText(e) PROVE TextInv'
  OBVIOUS
<1>1. /\ text' = [text EXCEPT ![e] = @ + 1]
      /\ UNCHANGED <<loaded, ran, status, config, pc, hash, steps, at>>
  BY DEF EditText, Edit, rows, plan, working
<1>2. ASSUME NEW s \in Steps
      PROVE  /\ TextNow(s) <= TextNow(s)' /\ TextNow(s)' \in Nat
             /\ TextNow(s)' <= text'[s]
  <2>1. text[s] \in Nat /\ loaded[s] \in Nat /\ TextNow(s) <= text[s]
    BY DEF TypeOK, TextInv, Texts
  <2>2. text'[s] = text[s] \/ text'[s] = text[s] + 1
    BY <1>1 DEF TypeOK
  <2> QED BY <1>1, <2>1, <2>2 DEF TextNow
<1>3. ASSUME NEW s \in Steps PROVE ran'[s] <= TextNow(s)'
  <2>1. ran[s] \in Nat /\ TextNow(s) \in Nat /\ ran[s] <= TextNow(s)
    BY DEF TypeOK, TextInv, TextNow, Texts
  <2> QED BY <1>1, <1>2, <2>1
<1>4. pc \in {"attempt", "running", "record"} => hash' <= TextNow(Cur)'
  <2> SUFFICES ASSUME pc \in {"attempt", "running", "record"} PROVE hash' <= TextNow(Cur)'
    OBVIOUS
  <2>1. Cur \in Steps /\ Cur' = Cur
    BY <1>1, CurIsStep DEF TypeOK, Cur
  <2>2. hash \in Nat /\ TextNow(Cur) \in Nat /\ hash <= TextNow(Cur)
    BY <2>1 DEF TypeOK, TextInv, TextNow, Texts
  <2>3. TextNow(Cur)' = (IF StepKind[Cur] = "sql" THEN text'[Cur] ELSE loaded'[Cur])
    BY <2>1 DEF TextNow
  <2>4. TextNow(Cur) <= TextNow(Cur)' /\ TextNow(Cur)' \in Nat
    <3>1. text[Cur] \in Nat /\ loaded[Cur] \in Nat
      BY <2>1 DEF TypeOK, Texts
    <3>2. text'[Cur] = text[Cur] \/ text'[Cur] = text[Cur] + 1
      BY <1>1, <2>1 DEF TypeOK
    <3> QED BY <1>1, <2>3, <3>1, <3>2 DEF TextNow
  <2> QED BY <1>1, <2>2, <2>4
<1>5. pc \in {"running", "record"} => hash' <= ran'[Cur']
  BY <1>1 DEF TextInv, Cur
<1> QED BY <1>1, <1>2, <1>3, <1>4, <1>5 DEF TextInv

\* The config hash is taken at Begin, the text read at Attempt: what an attempt
\* reads is never older than the hash.
LEMMA TextInvBegin == TypeOK /\ TextInv /\ Begin => TextInv'
<1> SUFFICES ASSUME TypeOK, TextInv, Begin PROVE TextInv'
  OBVIOUS
<1>1. /\ hash' = TextNow(Cur) /\ pc' = "attempt"
      /\ UNCHANGED <<text, loaded, ran, status, config, steps, at>>
  BY DEF Begin, project, rows, plan
<1>2. TextNow(Cur) \in Nat /\ Cur' = Cur /\ TextNow(Cur)' = TextNow(Cur)
  <2>1. Cur \in Steps
    BY CurIsStep DEF Begin, InLoop
  <2> QED BY <1>1, <2>1 DEF TypeOK, TextNow, Texts, Cur
<1>3. TextRows'
  BY <1>1 DEF TextInv, TextRows, TextNow
<1> QED BY <1>1, <1>2, <1>3 DEF TextInv, TextRows

LEMMA TextInvAttempt == TypeOK /\ TextInv /\ Attempt => TextInv'
<1> SUFFICES ASSUME TypeOK, TextInv, Attempt PROVE TextInv'
  OBVIOUS
<1>1. /\ ran' = [ran EXCEPT ![Cur] = TextNow(Cur)] /\ pc' = "running"
      /\ UNCHANGED <<text, loaded, status, config, steps, at, hash>>
  BY DEF Attempt, project, rows, plan
<1>2. Cur \in Steps /\ Cur' = Cur /\ ran'[Cur] = TextNow(Cur)
  BY <1>1, CurIsStep DEF TypeOK, Attempt, Cur
<1>3. \A s \in Steps : TextNow(s)' = TextNow(s)
  BY <1>1 DEF TextNow
<1>4. hash' <= TextNow(Cur)' /\ hash' <= ran'[Cur']
  BY <1>1, <1>2 DEF TextInv, TextNow, Attempt
<1>5. ASSUME NEW s \in Steps
      PROVE  /\ ran'[s] <= TextNow(s)' /\ TextNow(s)' <= text'[s]
             /\ status'[s] = "success" => config'[s] <= ran'[s]
  <2>1. /\ TextNow(s) \in Nat /\ ran[s] \in Nat /\ config[s] \in Nat
        /\ ran[s] <= TextNow(s) /\ TextNow(s) <= text[s]
        /\ status[s] = "success" => config[s] <= ran[s]
    BY DEF TypeOK, TextInv, TextNow, Texts
  <2>2. ran'[s] = ran[s] \/ (s = Cur /\ ran'[s] = TextNow(s))
    BY <1>1, <1>2 DEF TypeOK
  <2> QED BY <1>1, <1>3, <2>1, <2>2
<1> QED BY <1>1, <1>4, <1>5 DEF TextInv

\* An attempt that is tried again, or has succeeded, is still held to its hash.
LEMMA TextInvTried == TypeOK /\ TextInv /\ (Retry \/ Executes) => TextInv'
<1> SUFFICES ASSUME TypeOK, TextInv, Retry \/ Executes PROVE TextInv'
  OBVIOUS
<1>1. /\ UNCHANGED <<text, loaded, ran, status, config, steps, at, hash>>
      /\ pc \in {"attempt", "running"}
      /\ pc' = "attempt" \/ (pc = "running" /\ pc' = "record")
  BY DEF Retry, Executes, rows, plan, working
<1>2. Cur' = Cur /\ TextNow(Cur)' = TextNow(Cur)
  BY <1>1 DEF Cur, TextNow
<1>3. TextRows'
  BY <1>1 DEF TextInv, TextRows, TextNow
<1> QED BY <1>1, <1>2, <1>3 DEF TextInv, TextRows

\* A row says success only of a text that is no later than the one that ran.
LEMMA TextInvRecord == TypeOK /\ TextInv /\ (Record \/ StepFails) => TextInv'
<1> SUFFICES ASSUME TypeOK, TextInv, Record \/ StepFails PROVE TextInv'
  OBVIOUS
<1>1. /\ UNCHANGED <<text, loaded, ran>> /\ pc' \in {"loop", "hooks"}
  BY DEF Record, StepFails, Halt, project, plan
<1>2. Cur \in Steps
  BY CurIsStep DEF TypeOK, Record, StepFails
<1>3. \E st \in {"success", "failed"}, art \in {artifact'[Cur]} :
         /\ RecordStep(Cur, st, art) \/ UNCHANGED rows
         /\ st = "success" => pc = "record"
  <2>1. CASE Record
    BY <2>1, <1>2 DEF Record, RecordStep, TypeOK
  <2>2. CASE StepFails
    BY <2>2, <1>2 DEF StepFails, RecordStep, TypeOK
  <2> QED BY <2>1, <2>2
<1>4. ASSUME NEW s \in Steps, status'[s] = "success"
      PROVE  config'[s] <= ran[s]
  <2>1. CASE UNCHANGED rows
    BY <2>1, <1>4 DEF TextInv, rows
  <2>2. CASE /\ status' = [status EXCEPT ![Cur] = "success"]
             /\ config' = [config EXCEPT ![Cur] = hash]
             /\ pc = "record"
    BY <2>2, <1>2, <1>4 DEF TextInv, TypeOK
  <2>3. CASE /\ status' = [status EXCEPT ![Cur] = "failed"]
             /\ config' = [config EXCEPT ![Cur] = hash]
    BY <2>3, <1>2, <1>4 DEF TextInv, TypeOK
  <2> QED BY <1>3, <2>1, <2>2, <2>3 DEF RecordStep
<1>5. \A s \in Steps : TextNow(s)' = TextNow(s)
  BY <1>1 DEF TextNow
<1> QED BY <1>1, <1>4, <1>5 DEF TextInv

LEMMA TextInvStep == TypeOK /\ TextInv /\ [Next]_vars => TextInv'
<1> SUFFICES ASSUME TypeOK, TextInv, [Next]_vars PROVE TextInv'
  OBVIOUS
<1>1. CASE Refuse \/ PlanFails \/ Plan \/ OnInit \/ OnInitFails
  BY <1>1, TextIdle DEF Refuse, PlanFails, Plan, OnInit, OnInitFails, project, rows, plan
<1>2. CASE Skip \/ TimesOut \/ SqlMissing \/ LoopEnds
  BY <1>2, TextIdle DEF Skip, TimesOut, SqlMissing, LoopEnds, InLoop, Halt, project, rows, plan
<1>3. CASE OnSuccess \/ OnFailure \/ OnExit \/ Finish \/ Crash
  BY <1>3, TextIdle DEF OnSuccess, OnFailure, OnExit, ToldAtExit, Finish, Crash, project, rows, plan
<1>4. CASE \/ UNCHANGED vars
           \/ \E s \in Steps : MoveSql(s)
           \/ EditOrder
           \/ \E a \in Assets : EditAsset(a)
  <2>1. UNCHANGED <<text, loaded, ran, status, config, pc, hash, steps, at>>
    BY <1>4 DEF vars, project, rows, plan, working, MoveSql, EditOrder, EditAsset, Edit
  <2> QED BY <2>1 DEF TextInv, TextNow, Cur
<1> QED
  BY <1>1, <1>2, <1>3, <1>4, TextInvStart, TextInvEditText, TextInvBegin, TextInvAttempt,
     TextInvTried, TextInvRecord DEF Next, Process, Person

\* No skip certifies a text that has not run: when a success row records the
\* text a step has, that text is the one its latest attempt ran.
THEOREM RecordedTextHasRun == Spec => []RecordedTextRan
<1>1. Init => TextInv
  BY ConstantsOK DEF Init, TextInv, TextNow, Texts
<1>2. TypeOK /\ TextInv => RecordedTextRan
  <2> SUFFICES ASSUME TypeOK, TextInv, NEW s \in Steps,
                      status[s] = "success", config[s] = text[s]
               PROVE  ran[s] = text[s]
    BY DEF RecordedTextRan
  <2>1. /\ ran[s] \in Nat /\ text[s] \in Nat /\ TextNow(s) \in Nat
        /\ ran[s] <= TextNow(s) /\ TextNow(s) <= text[s] /\ config[s] <= ran[s]
    BY DEF TypeOK, TextInv, TextNow, Texts
  <2> QED BY <2>1
<1>3. QED
  BY <1>1, <1>2, TextInvStep, RunnerTypeOK, PTL DEF Spec

-----------------------------------------------------------------------------
(* The row and the contract of a run give one verdict. *)

\* An action that leaves the verdict alone and stays in its part of a run.
LEMMA VerdictIdle ==
    ASSUME VerdictInv, UNCHANGED <<runRow, result, contract>>,
           \/ pc' = pc
           \/ InSteps /\ pc' \in {"init", "loop", "attempt", "running", "record"}
    PROVE  VerdictInv'
BY DEF VerdictInv, InSteps, AfterSteps, RowAgreesWithContract

LEMMA VerdictStep == TypeOK /\ VerdictInv /\ [Next]_vars => VerdictInv'
<1> SUFFICES ASSUME TypeOK, VerdictInv, [Next]_vars PROVE VerdictInv'
  OBVIOUS
<1>1. CASE Start
  BY <1>1 DEF Start, VerdictInv, InSteps, AfterSteps, RowAgreesWithContract
<1>2. CASE Refuse \/ PlanFails \/ Crash
  BY <1>2 DEF Refuse, PlanFails, Crash, VerdictInv, InSteps, AfterSteps,
     RowAgreesWithContract, report
<1>3. CASE Plan \/ OnInit \/ Skip \/ Begin \/ Attempt \/ Retry \/ Executes \/ Record
  <2>1. /\ UNCHANGED <<runRow, result, contract>> /\ InSteps
        /\ pc' = pc \/ pc' \in {"init", "loop", "attempt", "running", "record"}
    BY <1>3 DEF Plan, OnInit, Skip, InLoop, Begin, Attempt, Retry, Executes, Record,
       InSteps, report
  <2> QED BY <2>1, VerdictIdle
<1>4. CASE OnInitFails
  BY <1>4 DEF OnInitFails, VerdictInv, InSteps, AfterSteps, RowAgreesWithContract
<1>5. CASE TimesOut \/ SqlMissing \/ StepFails
  BY <1>5 DEF TimesOut, SqlMissing, StepFails, InLoop, Halt, VerdictInv, InSteps,
     AfterSteps, RowAgreesWithContract
<1>6. CASE LoopEnds
  BY <1>6 DEF LoopEnds, VerdictInv, InSteps, AfterSteps, RowAgreesWithContract
<1>7. CASE OnSuccess \/ OnFailure \/ OnExit
  BY <1>7 DEF OnSuccess, OnFailure, OnExit, ToldAtExit, VerdictInv, InSteps, AfterSteps,
     RowAgreesWithContract
<1>8. CASE Finish
  BY <1>8 DEF Finish, FailureOutcome, VerdictInv, InSteps, AfterSteps, RowAgreesWithContract
<1>9. CASE Person \/ UNCHANGED vars
  <2>1. UNCHANGED <<runRow, result, contract, pc>>
    BY <1>9 DEF Person, EditText, MoveSql, EditOrder, EditAsset, Edit, vars, report
  <2> QED BY <2>1, VerdictIdle
<1> QED
  BY <1>1, <1>2, <1>3, <1>4, <1>5, <1>6, <1>7, <1>8, <1>9 DEF Next, Process

\* The row of a run and its contract agree once it has returned, though the
\* loop writes the row before a hook or the recheck can fail the run.
THEOREM VerdictsAgree == Spec => []RowAgreesWithContract
<1>1. Init => VerdictInv
  BY DEF Init, VerdictInv, InSteps, AfterSteps, RowAgreesWithContract
<1>2. VerdictInv => RowAgreesWithContract
  BY DEF VerdictInv
<1>3. QED
  BY <1>1, <1>2, VerdictStep, RunnerTypeOK, PTL DEF Spec

-----------------------------------------------------------------------------
(* What the hooks are told. *)

\* What has been told hangs on nothing else.
LEMMA HookIdle ==
    ASSUME HookInv, pc' = pc, UNCHANGED <<outcomes, result, told, contract, runRow, at, steps>>
    PROVE  HookInv'
<1>1. /\ AllDone' = AllDone /\ ToldHooks' = ToldHooks /\ RefusedNone' = RefusedNone
      /\ \A k \in 1..(at - 1) : Done(steps[k])' = Done(steps[k])
  BY DEF AllDone, Done, StepsOf, ToldHooks, RefusedNone
<1>2. \A i \in DOMAIN told : ToldTruly(i)' = ToldTruly(i)
  BY <1>1 DEF ToldTruly
<1>3. HooksToldTheTruth'
  BY <1>1, <1>2 DEF HookInv, HooksToldTheTruth
<1> QED BY <1>1, <1>3 DEF HookInv, AfterSteps

\* The truth told so far is the truth still when the run dies.
LEMMA HookQuiet ==
    ASSUME HookInv, pc' = "idle", UNCHANGED <<outcomes, told, steps>>, contract' = "none",
           runRow' # "init_failed", runRow # "init_failed"
    PROVE  HookInv'
BY DEF HookInv, HooksToldTheTruth, ToldTruly, AfterSteps, Done, AllDone, StepsOf

\* A dispatch is the last of the log, and of a hook that had not been told.
LEMMA ToldNext ==
    ASSUME told \in Seq(Dispatches), NEW hook, NEW st, NEW how,
           hook \notin ToldHooks, Tell(hook, st, how)
    PROVE  /\ ToldHooks' = ToldHooks \cup (Hooks \cap {hook})
           /\ RefusedNone' <=> RefusedNone /\ (hook \in Hooks => how = "ran")
           /\ \A i \in DOMAIN told : i \in DOMAIN told' /\ told'[i] = told[i]
           /\ (\A i, j \in DOMAIN told : told[i].hook = told[j].hook => i = j) =>
                 \A i, j \in DOMAIN told' : told'[i].hook = told'[j].hook => i = j
           /\ Len(told') \in Nat /\ DOMAIN told' = 1..Len(told')
           /\ hook \notin Hooks => told' = told
           /\ hook \in Hooks =>
                 /\ Len(told') = Len(told) + 1
                 /\ told'[Len(told')] = Dispatch(hook, st, how)
<1>1. CASE hook \notin Hooks
  BY <1>1 DEF Tell, ToldHooks, RefusedNone
<1>2. CASE hook \in Hooks
  <2> DEFINE d == Dispatch(hook, st, how)
             n == Len(told) + 1
  <2>1. /\ told' = Append(told, d) /\ Len(told) \in Nat /\ DOMAIN told = 1..Len(told)
        /\ d.hook = hook /\ d.how = how
    BY <1>2 DEF Tell, Dispatch
  <2>2. /\ Len(told') = n /\ DOMAIN told' = 1..n /\ told'[n] = d
        /\ \A i \in 1..Len(told) : told'[i] = told[i]
    BY <2>1
  <2>3. \A i \in 1..n : i = n \/ i \in 1..Len(told)
    BY <2>1
  <2>4. n \in 1..n /\ \A i \in 1..Len(told) : i \in 1..n
    BY <2>1
  <2> HIDE DEF d, n
  <2>5. ToldHooks' = ToldHooks \cup {hook}
    BY <2>1, <2>2, <2>3, <2>4 DEF ToldHooks
  <2>6. RefusedNone' <=> RefusedNone /\ how = "ran"
    BY <2>1, <2>2, <2>3, <2>4 DEF RefusedNone
  <2>7. \A i \in 1..Len(told) : told[i].hook # hook
    BY <2>1 DEF ToldHooks
  <2>8. ASSUME \A i, j \in DOMAIN told : told[i].hook = told[j].hook => i = j
        PROVE  \A i, j \in DOMAIN told' : told'[i].hook = told'[j].hook => i = j
    BY <2>1, <2>2, <2>3, <2>4, <2>7, <2>8
  <2>9. Len(told') \in Nat /\ DOMAIN told' = 1..Len(told')
    BY <2>1, <2>2 DEF n
  <2> QED BY <1>2, <2>1, <2>2, <2>4, <2>5, <2>6, <2>8, <2>9 DEF n, d
<1> QED BY <1>1, <1>2

\* So what was truly told before stays so while the outcomes stay, on_exit has
\* not been told, and nothing has been said of a failed on_init.
LEMMA ToldStaysTrue ==
    ASSUME told \in Seq(Dispatches), "on_exit" \notin ToldHooks, UNCHANGED <<outcomes, steps>>,
           NEW i \in DOMAIN told, told'[i] = told[i], ToldTruly(i)
    PROVE  ToldTruly(i)'
<1>1. told[i].hook # "on_exit"
  BY DEF ToldHooks
<1> QED BY <1>1 DEF ToldTruly, AllDone, Done, StepsOf

\* While nothing but on_init has been told, what the outcomes are is no matter.
LEMMA InitOnly ==
    ASSUME HookInv, ToldHooks \subseteq {"on_init"}, told' = told, contract' = "none",
           pc' # "idle"
    PROVE  HooksToldTheTruth' /\ ToldHooks' = ToldHooks /\ RefusedNone' = RefusedNone
<1>1. \A i \in DOMAIN told : told[i].hook = "on_init"
  BY DEF ToldHooks
<1>2. \A i \in DOMAIN told : ToldTruly(i)'
  BY <1>1 DEF HookInv, HooksToldTheTruth, ToldTruly
<1> QED BY <1>2 DEF HookInv, HooksToldTheTruth, ToldHooks, RefusedNone

\* Within the loop the outcomes only grow.
LEMMA HookLoop ==
    ASSUME HookInv, contract' = "none", pc \in {"loop", "attempt", "running", "record"},
           pc' \in {"loop", "attempt", "running", "record"},
           UNCHANGED <<told, steps>>,
           \A k \in 1..(at' - 1) : Done(steps[k])',
           \A k \in at'..Len(steps) : outcomes'[steps[k]] = "none"
    PROVE  HookInv'
<1>1. ToldHooks = Hooks \cap {"on_init"} /\ RefusedNone
  BY DEF HookInv
<1>2. HooksToldTheTruth' /\ ToldHooks' = ToldHooks /\ RefusedNone' = RefusedNone
  BY <1>1, InitOnly
<1> QED BY <1>1, <1>2 DEF HookInv, AfterSteps

\* At the end of the loop too.
LEMMA HookEnds ==
    ASSUME HookInv, contract' = "none", pc \in {"loop", "attempt", "running", "record"},
           pc' = "hooks", UNCHANGED <<told, steps>>, result' \in {"ok", "failed"},
           result' = "failed" <=> ~AllDone'
    PROVE  HookInv'
<1>1. ToldHooks = Hooks \cap {"on_init"} /\ RefusedNone
  BY DEF HookInv
<1>2. HooksToldTheTruth' /\ ToldHooks' = ToldHooks /\ RefusedNone' = RefusedNone
  BY <1>1, InitOnly
<1> QED BY <1>1, <1>2 DEF HookInv, AfterSteps

\* Skipping or recording the current step adds it to those done, and to no others.
LEMMA HookAdvance ==
    ASSUME TypeOK, HookInv, pc \in {"loop", "record"}, at <= Len(steps), at' = at + 1,
           steps' = steps,
           NEW o \in {"skipped", "success"}, outcomes' = [outcomes EXCEPT ![Cur] = o]
    PROVE  /\ \A k \in 1..(at' - 1) : Done(steps[k])'
           /\ \A k \in at'..Len(steps) : outcomes'[steps[k]] = "none"
<1>a. steps \in Seq(Steps) /\ \A i, j \in DOMAIN steps : steps[i] = steps[j] => i = j
  BY ConstantsOK DEF TypeOK, StepOrders
<1>b. at \in 1..Len(steps) /\ Len(steps) \in Nat /\ DOMAIN steps = 1..Len(steps)
  BY <1>a DEF TypeOK
<1>1. ASSUME NEW k \in 1..at PROVE outcomes'[steps[k]] \in {"success", "skipped"}
  <2>1. k \in 1..Len(steps)
    BY <1>b
  <2>2. steps[k] \in Steps
    BY <2>1, <1>a
  <2>3. CASE k = at
    BY <2>2, <2>3 DEF TypeOK, Cur
  <2>4. CASE k # at
    <3>1. k \in 1..(at - 1)
      BY <1>b, <2>4
    <3>2. Done(steps[k])
      BY <3>1 DEF HookInv
    <3> QED BY <2>2, <3>2 DEF TypeOK, Done, Cur
  <2> QED BY <2>3, <2>4
<1>2. ASSUME NEW k \in (at + 1)..Len(steps) PROVE outcomes'[steps[k]] = "none"
  <2>1. k \in at..Len(steps) /\ k \in 1..Len(steps) /\ k # at
    BY <1>b
  <2>2. steps[k] \in Steps /\ steps[k] # Cur
    BY <2>1, <1>a, <1>b DEF Cur
  <2>3. outcomes[steps[k]] = "none"
    BY <2>1 DEF HookInv
  <2> QED BY <2>2, <2>3 DEF TypeOK
<1> QED BY <1>b, <1>1, <1>2 DEF Done

\* on_init is the first told.
LEMMA HookFirst ==
    ASSUME TypeOK, HookInv, pc = "init", NEW how, Tell("on_init", "none", how)
    PROVE  /\ told' = <<Dispatch("on_init", "none", how)>>
           /\ told' = Append(told, Dispatch("on_init", "none", how))
           /\ "on_init" \in Hooks
           /\ Len(told') = 1 /\ DOMAIN told' = {1}
           /\ told'[1].hook = "on_init" /\ told'[1].how = how
           /\ ToldHooks' = {"on_init"}
<1>1. told = << >> /\ "on_init" \in Hooks
  BY DEF HookInv
<1>2. told' = <<Dispatch("on_init", "none", how)>>
  BY <1>1 DEF Tell
<1>3. Len(told') = 1 /\ DOMAIN told' = {1} /\ told'[1] = Dispatch("on_init", "none", how)
  BY <1>2
<1> QED BY <1>1, <1>2, <1>3 DEF ToldHooks, Dispatch, Tell

LEMMA HookOnInit == TypeOK /\ VerdictInv /\ HookInv /\ OnInit => HookInv'
<1> SUFFICES ASSUME TypeOK, VerdictInv, HookInv, OnInit PROVE HookInv'
  OBVIOUS
<1>1. /\ pc' = "loop" /\ contract' = "none" /\ at' = 1 /\ steps' = steps
      /\ outcomes' = [s \in Steps |-> "none"]
  BY DEF OnInit, HookInv, VerdictInv, InSteps, plan
<1>2. /\ "on_init" \in Hooks /\ DOMAIN told' = {1} /\ told'[1].hook = "on_init"
      /\ told'[1].how = "ran" /\ ToldHooks' = {"on_init"}
  BY HookFirst DEF OnInit
<1>3. \A k \in 1..Len(steps) : steps[k] \in Steps
  BY ConstantsOK DEF TypeOK, StepOrders
<1>4. HooksToldTheTruth'
  BY <1>1, <1>2 DEF HooksToldTheTruth, ToldTruly
<1> QED BY <1>1, <1>2, <1>3, <1>4 DEF HookInv, AfterSteps, RefusedNone

LEMMA HookOnInitFails == TypeOK /\ VerdictInv /\ HookInv /\ OnInitFails => HookInv'
<1> SUFFICES ASSUME TypeOK, VerdictInv, HookInv, OnInitFails PROVE HookInv'
  OBVIOUS
<1>1. /\ pc' = "idle" /\ contract' = "none" /\ runRow' = "init_failed"
      /\ told = << >> /\ "on_init" \in Hooks
  BY DEF OnInitFails, HookInv, VerdictInv, InSteps
<1>2. PICK how \in Hows, howExit \in Hows :
        told' = IF "on_exit" \in Hooks
                  THEN Append(Append(told, Dispatch("on_init", "none", how)),
                              Dispatch("on_exit", "init_failed", howExit))
                  ELSE Append(told, Dispatch("on_init", "none", how))
  BY DEF OnInitFails
<1> DEFINE d == Dispatch("on_init", "none", how)
           e == Dispatch("on_exit", "init_failed", howExit)
<1>3. d.hook = "on_init" /\ e.hook = "on_exit" /\ e.status = "init_failed"
  BY DEF Dispatch
<1> HIDE DEF d, e
<1>4. CASE "on_exit" \in Hooks
  <2>1. told' = Append(Append(told, d), e)
    BY <1>2, <1>4 DEF d, e
  <2>a. d \in Dispatches /\ e \in Dispatches
    BY DEF d, e, Dispatch, Dispatches, HookNames, Hows
  <2>b. told \in Seq(Dispatches) /\ Len(told) = 0
    BY <1>1
  <2>c. /\ Append(told, d) \in Seq(Dispatches) /\ Len(Append(told, d)) = 1
        /\ Append(told, d)[1] = d
    BY <2>a, <2>b
  <2>2. Len(told') = 2 /\ DOMAIN told' = {1, 2} /\ told'[1] = d /\ told'[2] = e
    BY <2>1, <2>a, <2>c
  <2>3. HooksToldTheTruth'
    BY <1>1, <1>3, <1>4, <2>2 DEF HooksToldTheTruth, ToldTruly, ToldHooks
  <2> QED BY <1>1, <2>3 DEF HookInv, AfterSteps
<1>5. CASE "on_exit" \notin Hooks
  <2>1. told' = <<d>>
    BY <1>1, <1>2, <1>5 DEF d
  <2>2. Len(told') = 1 /\ DOMAIN told' = {1} /\ told'[1] = d
    BY <2>1
  <2>3. HooksToldTheTruth'
    BY <1>1, <1>3, <1>5, <2>2 DEF HooksToldTheTruth, ToldTruly, ToldHooks
  <2> QED BY <1>1, <2>3 DEF HookInv, AfterSteps
<1> QED BY <1>4, <1>5

\* A hook that the steps call for is dispatched after the loop.
LEMMA HookAfterLoop ==
    ASSUME TypeOK, VerdictInv, HookInv, pc = "hooks", pc' = "exit", contract' = "none",
           UNCHANGED <<outcomes, steps, runRow>>,
           NEW how \in Hows,
           NEW hook, hook = IF AllDone THEN "on_success" ELSE "on_failure",
           Tell(hook, "none", how),
           result' = "failed" <=> ~AllDone,
           AllDone => (result' = "ok" <=> (hook \in Hooks => how = "ran"))
    PROVE  HookInv'
<1>a. told \in Seq(Dispatches) /\ Len(told) \in Nat /\ DOMAIN told = 1..Len(told)
  BY DEF TypeOK
<1>b. /\ ToldHooks = Hooks \cap {"on_init"} /\ RefusedNone /\ HooksToldTheTruth
      /\ hook \notin ToldHooks /\ "on_exit" \notin ToldHooks
  BY DEF HookInv
<1>c. AllDone' = AllDone
  BY DEF AllDone, Done, StepsOf
<1>1. /\ ToldHooks' = ToldHooks \cup (Hooks \cap {hook})
      /\ RefusedNone' <=> RefusedNone /\ (hook \in Hooks => how = "ran")
      /\ \A i \in DOMAIN told : i \in DOMAIN told' /\ told'[i] = told[i]
      /\ \A i, j \in DOMAIN told' : told'[i].hook = told'[j].hook => i = j
      /\ hook \notin Hooks => told' = told
      /\ hook \in Hooks =>
            /\ Len(told') = Len(told) + 1 /\ told'[Len(told')] = Dispatch(hook, "none", how)
      /\ Len(told') \in Nat /\ DOMAIN told' = 1..Len(told')
  BY <1>a, <1>b, ToldNext DEF HooksToldTheTruth
<1>2. \A i \in DOMAIN told : ToldTruly(i)'
  BY <1>a, <1>b, <1>1, ToldStaysTrue DEF HooksToldTheTruth
<1>3. ASSUME hook \in Hooks PROVE ToldTruly(Len(told))'
  <2>1. Dispatch(hook, "none", how).hook = hook
    BY DEF Dispatch
  <2>2. told'[Len(told')].hook = hook
    BY <1>1, <1>3, <2>1
  <2> QED BY <2>2, <1>c DEF ToldTruly
<1>4. \A i \in DOMAIN told' : ToldTruly(i)'
  <2> TAKE i \in DOMAIN told'
  <2>1. CASE i \in DOMAIN told
    BY <1>2, <2>1
  <2>2. CASE i \notin DOMAIN told
    <3>1. told' # told
      BY <2>2
    <3>2. hook \in Hooks /\ Len(told') = Len(told) + 1
      BY <1>1, <3>1
    <3>3. i = Len(told')
      <4>1. i \in 1..Len(told') /\ i \notin 1..Len(told)
        BY <1>a, <1>1, <2>2
      <4> QED BY <1>a, <3>2, <4>1
    <3> QED BY <1>3, <3>2, <3>3 DEF ToldTruly
  <2> QED BY <2>1, <2>2
<1>5. HooksToldTheTruth'
  BY <1>1, <1>4 DEF HooksToldTheTruth
<1>6. ToldHooks' = Hooks \cap {"on_init", IF AllDone' THEN "on_success" ELSE "on_failure"}
  BY <1>b, <1>c, <1>1
<1> QED BY <1>b, <1>c, <1>1, <1>5, <1>6 DEF HookInv, AfterSteps

\* on_exit is dispatched last, with the truth.
LEMMA HookOnExit == TypeOK /\ VerdictInv /\ HookInv /\ OnExit => HookInv'
<1> SUFFICES ASSUME TypeOK, VerdictInv, HookInv, OnExit PROVE HookInv'
  OBVIOUS
<1> DEFINE st == IF result = "ok" THEN "success" ELSE "failed"
<1>1. PICK how \in Hows :
        /\ Tell("on_exit", st, how)
        /\ result' = IF "on_exit" \in Hooks /\ how = "refused" /\ result = "ok"
                       THEN "refused" ELSE result
  BY DEF OnExit, ToldAtExit
<1>2. /\ pc = "exit" /\ pc' = "recheck" /\ contract' = "none"
      /\ UNCHANGED <<outcomes, steps, runRow>> /\ runRow # "init_failed"
  BY DEF OnExit, ToldAtExit, VerdictInv, AfterSteps, plan
<1>a. told \in Seq(Dispatches) /\ Len(told) \in Nat /\ DOMAIN told = 1..Len(told)
  BY DEF TypeOK
<1>b. /\ ToldHooks = Hooks \cap {"on_init", IF AllDone THEN "on_success" ELSE "on_failure"}
      /\ HooksToldTheTruth /\ "on_exit" \notin ToldHooks
      /\ result = "failed" <=> ~AllDone
      /\ AllDone => (result = "ok" <=> RefusedNone)
  BY <1>2 DEF HookInv, AfterSteps
<1>c. AllDone' = AllDone
  BY <1>2 DEF AllDone, Done, StepsOf
<1>d. how \in {"ran", "refused"}
  BY DEF Hows
<1>3. /\ ToldHooks' = ToldHooks \cup (Hooks \cap {"on_exit"})
      /\ RefusedNone' <=> RefusedNone /\ ("on_exit" \in Hooks => how = "ran")
      /\ \A i \in DOMAIN told : i \in DOMAIN told' /\ told'[i] = told[i]
      /\ \A i, j \in DOMAIN told' : told'[i].hook = told'[j].hook => i = j
      /\ "on_exit" \notin Hooks => told' = told
      /\ "on_exit" \in Hooks =>
            /\ Len(told') = Len(told) + 1 /\ told'[Len(told')] = Dispatch("on_exit", st, how)
      /\ Len(told') \in Nat /\ DOMAIN told' = 1..Len(told')
  <2>1. Tell("on_exit", st, how)
    BY <1>1
  <2> HIDE DEF st
  <2> QED BY <1>a, <1>b, <2>1, ToldNext DEF HooksToldTheTruth
<1>4. \A i \in DOMAIN told : ToldTruly(i)'
  BY <1>a, <1>b, <1>2, <1>3, ToldStaysTrue DEF HooksToldTheTruth
<1>5. ASSUME "on_exit" \in Hooks PROVE ToldTruly(Len(told))'
  <2>1. st = IF AllDone /\ RefusedNone THEN "success" ELSE "failed"
    BY <1>b
  <2>2. \A j \in 1..(Len(told') - 1) : j \in DOMAIN told /\ told'[j] = told[j]
    BY <1>a, <1>3, <1>5
  <2>3. DOMAIN told = 1..(Len(told') - 1)
    BY <1>a, <1>3, <1>5
  <2>4. RefusedNone <=> \A j \in 1..(Len(told') - 1) : told'[j].how = "ran"
    BY <2>2, <2>3 DEF RefusedNone
  <2>5. /\ told'[Len(told')].hook = "on_exit" /\ told'[Len(told')].status = st
    BY <1>3, <1>5 DEF Dispatch
  <2> QED BY <1>2, <1>c, <2>1, <2>4, <2>5 DEF ToldTruly
<1>6. \A i \in DOMAIN told' : ToldTruly(i)'
  <2> TAKE i \in DOMAIN told'
  <2>1. CASE i \in DOMAIN told
    BY <1>4, <2>1
  <2>2. CASE i \notin DOMAIN told
    <3>1. told' # told
      BY <2>2
    <3>2. "on_exit" \in Hooks /\ Len(told') = Len(told) + 1
      BY <1>3, <3>1
    <3>3. i = Len(told')
      <4>1. i \in 1..Len(told') /\ i \notin 1..Len(told)
        BY <1>a, <1>3, <2>2
      <4> QED BY <1>a, <3>2, <4>1
    <3> QED BY <1>5, <3>2, <3>3 DEF ToldTruly
  <2> QED BY <2>1, <2>2
<1>7. HooksToldTheTruth'
  BY <1>2, <1>3, <1>6 DEF HooksToldTheTruth
<1>8. ToldHooks' = Hooks \cap {"on_init", "on_exit",
                               IF AllDone' THEN "on_success" ELSE "on_failure"}
  BY <1>b, <1>c, <1>3
<1>9. /\ result' = "failed" <=> ~AllDone'
      /\ AllDone' => (result' = "ok" <=> RefusedNone')
  BY <1>1, <1>b, <1>c, <1>d, <1>3 DEF VerdictInv
<1> QED BY <1>2, <1>7, <1>8, <1>9 DEF HookInv, AfterSteps

LEMMA HookStep == TypeOK /\ VerdictInv /\ HookInv /\ [Next]_vars => HookInv'
<1> SUFFICES ASSUME TypeOK, VerdictInv, HookInv, [Next]_vars PROVE HookInv'
  OBVIOUS
<1>1. CASE Start
  <2>1. /\ pc' = "started" /\ told' = << >> /\ at' = 1 /\ contract' = "none"
        /\ outcomes' = [s \in Steps |-> "none"] /\ runRow' = "started"
    BY <1>1 DEF Start
  <2>2. HooksToldTheTruth'
    BY <2>1 DEF HooksToldTheTruth
  <2> QED BY <2>1, <2>2 DEF HookInv, AfterSteps
<1>2. CASE Refuse \/ PlanFails \/ Crash
  <2>1. pc' = "idle" /\ UNCHANGED <<outcomes, told, steps>> /\ contract' = "none"
    BY <1>2 DEF Refuse, PlanFails, Crash, VerdictInv, InSteps, report, plan
  <2>2. runRow' = runRow /\ runRow # "init_failed"
    BY <1>2 DEF Refuse, PlanFails, Crash, VerdictInv, InSteps, AfterSteps, TypeOK
  <2> QED BY <2>1, <2>2, HookQuiet
<1>3. CASE Plan
  <2>1. /\ told' = << >> /\ contract' = "none" /\ at' = 1 /\ steps' = steps
        /\ outcomes' = [s \in Steps |-> "none"]
        /\ pc' = IF "on_init" \in Hooks THEN "init" ELSE "loop"
    BY <1>3 DEF Plan, HookInv, VerdictInv, InSteps, report
  <2>2. HooksToldTheTruth'
    BY <2>1 DEF HooksToldTheTruth
  <2>3. \A k \in 1..Len(steps) : steps[k] \in Steps
    BY ConstantsOK DEF TypeOK, StepOrders
  <2> QED BY <2>1, <2>2, <2>3 DEF HookInv, AfterSteps, ToldHooks, RefusedNone
<1>4. CASE OnInit
  BY <1>4, HookOnInit
<1>5. CASE OnInitFails
  BY <1>5, HookOnInitFails
<1>6. CASE Skip \/ Record
  <2>1. /\ pc \in {"loop", "record"} /\ pc' = "loop" /\ at <= Len(steps) /\ at' = at + 1
        /\ UNCHANGED <<told, steps>> /\ contract' = "none"
    BY <1>6 DEF Skip, InLoop, Record, TypeOK, VerdictInv, plan
  <2>2. \E o \in {"skipped", "success"} : outcomes' = [outcomes EXCEPT ![Cur] = o]
    BY <1>6 DEF Skip, Record
  <2>3. /\ \A k \in 1..(at' - 1) : Done(steps[k])'
        /\ \A k \in at'..Len(steps) : outcomes'[steps[k]] = "none"
    BY <2>1, <2>2, HookAdvance
  <2> QED BY <2>1, <2>3, HookLoop
<1>7. CASE Begin \/ Attempt \/ Retry \/ Executes
  <2>1. /\ pc \in {"loop", "attempt", "running", "record"}
        /\ pc' \in {"loop", "attempt", "running", "record"}
        /\ UNCHANGED <<told, steps, at, outcomes>> /\ contract' = "none"
    BY <1>7 DEF Begin, InLoop, Attempt, Retry, Executes, VerdictInv, plan, report
  <2>2. /\ \A k \in 1..(at' - 1) : Done(steps[k])'
        /\ \A k \in at'..Len(steps) : outcomes'[steps[k]] = "none"
    BY <2>1 DEF HookInv, Done
  <2> QED BY <2>1, <2>2, HookLoop
<1>8. CASE TimesOut \/ SqlMissing \/ StepFails
  <2>1. /\ pc \in {"loop", "attempt", "running", "record"} /\ pc' = "hooks"
        /\ UNCHANGED <<told, steps>> /\ contract' = "none" /\ result' = "failed"
        /\ outcomes' = outcomes \/ outcomes' = [outcomes EXCEPT ![Cur] = "failed"]
        /\ at <= Len(steps)
    BY <1>8 DEF TimesOut, SqlMissing, StepFails, InLoop, Halt, VerdictInv, InSteps, plan, TypeOK
  <2>a. at \in 1..Len(steps) /\ at \in at..Len(steps)
    BY <2>1, ConstantsOK DEF TypeOK, StepOrders
  <2>2. Cur \in StepsOf(steps) /\ Cur \in Steps /\ outcomes[Cur] = "none"
    BY <2>1, <2>a, CurIsStep DEF HookInv, Cur, StepsOf
  <2>3. ~AllDone'
    BY <2>1, <2>2 DEF AllDone, Done, TypeOK
  <2> QED BY <2>1, <2>3, HookEnds
<1>9. CASE LoopEnds
  <2>1. /\ pc = "loop" /\ pc' = "hooks" /\ result' = "ok"
        /\ UNCHANGED <<told, steps, outcomes>> /\ contract' = "none"
    BY <1>9 DEF LoopEnds, VerdictInv, plan
  <2>2. \A k \in 1..Len(steps) : Done(steps[k])
    <3>1. at \in Nat /\ Len(steps) \in Nat /\ at > Len(steps)
      BY <1>9, ConstantsOK DEF LoopEnds, TypeOK, StepOrders
    <3>2. \A k \in 1..(at - 1) : Done(steps[k])
      BY <1>9 DEF LoopEnds, HookInv
    <3> QED BY <3>1, <3>2
  <2>3. AllDone'
    BY <2>1, <2>2 DEF AllDone, StepsOf, Done
  <2> QED BY <2>1, <2>3, HookEnds
<1>10. CASE OnSuccess
  <2>1. PICK how \in Hows :
          /\ Tell("on_success", "none", how)
          /\ result' = IF "on_success" \in Hooks /\ how = "refused" THEN "refused" ELSE "ok"
    BY <1>10 DEF OnSuccess
  <2>2. /\ pc = "hooks" /\ pc' = "exit" /\ contract' = "none" /\ AllDone
        /\ UNCHANGED <<outcomes, steps, runRow>>
    BY <1>10 DEF OnSuccess, VerdictInv, HookInv, AfterSteps, plan
  <2>3. how \in {"ran", "refused"}
    BY DEF Hows
  <2> QED BY <2>1, <2>2, <2>3, HookAfterLoop
<1>11. CASE OnFailure
  <2>1. PICK how \in Hows : Tell("on_failure", "none", how)
    BY <1>11 DEF OnFailure
  <2>2. /\ pc = "hooks" /\ pc' = "exit" /\ contract' = "none" /\ ~AllDone
        /\ result' = "failed" /\ UNCHANGED <<outcomes, steps, runRow>>
    BY <1>11 DEF OnFailure, VerdictInv, HookInv, AfterSteps, plan, TypeOK
  <2> QED BY <2>1, <2>2, HookAfterLoop
<1>12. CASE OnExit
  BY <1>12, HookOnExit
<1>13. CASE Finish
  <2>1. /\ pc = "recheck" /\ pc' = "idle" /\ UNCHANGED <<outcomes, told, steps>>
        /\ contract' = "success" => result = "ok" /\ runRow' = runRow
        /\ runRow' # "init_failed" /\ runRow # "init_failed"
    BY <1>13 DEF Finish, FailureOutcome, plan, VerdictInv, AfterSteps
  <2>2. /\ HooksToldTheTruth
        /\ ToldHooks = Hooks \cap {"on_init", "on_exit",
                                   IF AllDone THEN "on_success" ELSE "on_failure"}
        /\ result = "ok" => AllDone /\ RefusedNone
    BY <2>1 DEF HookInv, AfterSteps
  <2>3. /\ AllDone' = AllDone /\ RefusedNone' = RefusedNone /\ ToldHooks' = ToldHooks
    BY <2>1 DEF AllDone, Done, StepsOf, RefusedNone, ToldHooks
  <2>4. \A i \in DOMAIN told : ToldTruly(i)'
    BY <2>1, <2>2, <2>3 DEF HooksToldTheTruth, ToldTruly
  <2>5. HooksToldTheTruth'
    BY <2>1, <2>2, <2>3, <2>4 DEF HooksToldTheTruth
  <2> QED BY <2>1, <2>5 DEF HookInv, AfterSteps
<1>14. CASE Person \/ UNCHANGED vars
  <2>1. UNCHANGED <<pc, outcomes, result, told, contract, runRow, at, steps>>
    BY <1>14 DEF Person, EditText, MoveSql, EditOrder, EditAsset, Edit, vars, report, plan
  <2> QED BY <2>1, HookIdle
<1> QED
  BY <1>1, <1>2, <1>3, <1>4, <1>5, <1>6, <1>7, <1>8, <1>9, <1>10, <1>11, <1>12, <1>13, <1>14
     DEF Next, Process

\* The hooks are told the truth of the run, in every run of every Protocol.
THEOREM HooksAreToldTheTruth == Spec => []HooksToldTheTruth
<1>1. Init => VerdictInv /\ HookInv
  <2> SUFFICES ASSUME Init PROVE VerdictInv /\ HookInv
    OBVIOUS
  <2>1. VerdictInv
    BY DEF Init, VerdictInv, InSteps, AfterSteps, RowAgreesWithContract
  <2>2. HooksToldTheTruth
    BY DEF Init, HooksToldTheTruth
  <2> QED BY <2>1, <2>2 DEF Init, HookInv, AfterSteps
<1>2. HookInv => HooksToldTheTruth
  BY DEF HookInv
<1>3. QED
  BY <1>1, <1>2, VerdictStep, HookStep, RunnerTypeOK, PTL DEF Spec

-----------------------------------------------------------------------------
(* What is skipped holds nothing half written. *)

\* What is left half written is told from whatever else an asset may hold.
GarbageIsApart ==
    /\ Garbage \notin Sources \cup {Absent, Nothing}
    /\ \A s, a, v, inputs : Output(s, a, v, inputs) # Garbage

\* What an attempt that ran step s's text has left of its products.
MadeWhole(s) == \A a \in Assets : a \in Produces[s][ran[s]] => disk[a] # Garbage

\* The hash a success row has of a product of the text that ran is of the product
\* whole, if the row's text is that text; and the graph is of the texts loaded,
\* which are no earlier than what ran before.
WholeInv ==
    /\ \A s \in Steps :
          /\ loaded[s] <= text[s]
          /\ graph.produces[s] \subseteq Produces[s][loaded[s]]
          /\ pc = "started" => ran[s] <= loaded[s]
          /\ status[s] = "success" /\ config[s] = ran[s] /\ artifact[s] # Withheld =>
               \A a \in Assets : a \in Produces[s][ran[s]] => artifact[s][a] # Garbage
    /\ pc \in {"running", "record"} => readText = ran[Cur]
    /\ pc = "record" => MadeWhole(Cur)

LEMMA WholeStart == TypeOK /\ TextInv /\ WholeInv /\ Start => WholeInv'
<1> SUFFICES ASSUME TypeOK, TextInv, WholeInv, Start PROVE WholeInv'
  OBVIOUS
<1>1. /\ loaded' = text /\ pc' = "started" /\ graph' = GraphOf(order, text, gone)
      /\ UNCHANGED <<text, ran, status, config, artifact>>
  BY DEF Start, project, rows
<1>2. ASSUME NEW s \in Steps
      PROVE  /\ loaded'[s] <= text'[s] /\ ran'[s] <= loaded'[s]
             /\ graph'.produces[s] \subseteq Produces[s][loaded'[s]]
  <2>1. ran[s] \in Nat /\ text[s] \in Nat /\ loaded[s] \in Nat
    BY DEF TypeOK, Texts
  <2>2. ran[s] <= text[s]
    BY <2>1 DEF TextInv, TextNow
  <2>3. graph'.produces[s] \subseteq Produces[s][text[s]]
    BY <1>1 DEF GraphOf
  <2> QED BY <1>1, <2>1, <2>2, <2>3
<1> QED BY <1>1, <1>2 DEF WholeInv

\* A step that touches no text and no record, and leaves nothing to be recorded.
LEMMA WholeIdle ==
    ASSUME WholeInv, UNCHANGED <<text, loaded, graph, ran, status, config, artifact>>,
           pc' \notin {"started", "running", "record"}
    PROVE  WholeInv'
BY DEF WholeInv

LEMMA WholeAttempt == TypeOK /\ TextInv /\ WholeInv /\ Attempt => WholeInv'
<1> SUFFICES ASSUME TypeOK, TextInv, WholeInv, Attempt PROVE WholeInv'
  OBVIOUS
<1>1. /\ ran' = [ran EXCEPT ![Cur] = TextNow(Cur)] /\ readText' = TextNow(Cur)
      /\ pc' = "running"
      /\ UNCHANGED <<text, loaded, graph, status, config, artifact, steps, at>>
  BY DEF Attempt, project, rows, plan
<1>2. Cur \in Steps /\ Cur' = Cur
  BY <1>1, CurIsStep DEF TypeOK, Attempt, Cur
<1>3. readText' = ran'[Cur']
  BY <1>1, <1>2 DEF TypeOK
<1>4. ASSUME NEW s \in Steps, status[s] = "success", config[s] = ran'[s]
      PROVE  ran'[s] = ran[s]
  <2>1. /\ TextNow(s) \in Nat /\ ran[s] \in Nat /\ config[s] \in Nat
        /\ config[s] <= ran[s] /\ ran[s] <= TextNow(s)
    BY <1>4 DEF TypeOK, TextInv, TextNow, Texts
  <2>2. ran'[s] \in {ran[s], TextNow(s)}
    BY <1>1, <1>2 DEF TypeOK
  <2> QED BY <1>4, <2>1, <2>2
<1> QED BY <1>1, <1>3, <1>4 DEF WholeInv

LEMMA WholeExecutes ==
    ASSUME GarbageIsApart, WholeInv, Executes
    PROVE  WholeInv'
<1>1. /\ disk' = Written(disk, Cur, readText, readInputs) /\ pc = "running" /\ pc' = "record"
      /\ UNCHANGED <<text, loaded, graph, ran, status, config, artifact, steps, at, readText>>
  BY DEF Executes, rows, plan, working
<1>2. Cur' = Cur /\ readText = ran[Cur]
  BY <1>1 DEF Cur, WholeInv
<1>3. MadeWhole(Cur)'
  BY <1>1, <1>2 DEF Written, MadeWhole, GarbageIsApart
<1> QED BY <1>1, <1>2, <1>3 DEF WholeInv

\* The hash of whole products is of none half written.
LEMMA HashOfWhole ==
    ASSUME GarbageIsApart, MadeWhole(Cur), NEW a \in Assets, a \in Produces[Cur][ran[Cur]],
           ArtifactHash(disk, Cur) # Withheld
    PROVE  ArtifactHash(disk, Cur)[a] # Garbage
BY DEF ArtifactHash, MadeWhole, GarbageIsApart

LEMMA WholeRecord ==
    ASSUME GarbageIsApart, TypeOK, WholeInv, Record \/ StepFails
    PROVE  WholeInv'
<1>1. /\ UNCHANGED <<text, loaded, graph, ran>> /\ pc' \in {"loop", "hooks"}
  BY DEF Record, StepFails, Halt, project, plan
<1>2. Cur \in Steps
  BY CurIsStep DEF TypeOK, Record, StepFails
<1>3. ASSUME NEW s \in Steps, status'[s] = "success", config'[s] = ran[s],
             artifact'[s] # Withheld, NEW a \in Assets, a \in Produces[s][ran[s]]
      PROVE  artifact'[s][a] # Garbage
  <2>1. CASE UNCHANGED rows
    BY <1>3, <2>1 DEF WholeInv, rows
  <2>2. CASE /\ pc = "record" /\ UNCHANGED disk
             /\ status' = [status EXCEPT ![Cur] = "success"]
             /\ config' = [config EXCEPT ![Cur] = hash]
             /\ artifact' = [artifact EXCEPT ![Cur] = ArtifactHash(disk, Cur)]
    <3>1. CASE s = Cur
      <4>1. MadeWhole(Cur) /\ artifact'[s] = ArtifactHash(disk, Cur)
        BY <1>2, <2>2, <3>1 DEF TypeOK, WholeInv
      <4> QED BY <1>3, <3>1, <4>1, HashOfWhole
    <3>2. CASE s # Cur
      BY <1>3, <2>2, <3>2 DEF WholeInv, TypeOK
    <3> QED BY <3>1, <3>2
  <2>3. CASE /\ status' = [status EXCEPT ![Cur] = "failed"]
             /\ config' = [config EXCEPT ![Cur] = hash]
             /\ artifact' = [artifact EXCEPT ![Cur] = Withheld]
    BY <1>2, <1>3, <2>3 DEF WholeInv, TypeOK
  <2> QED BY <2>1, <2>2, <2>3 DEF Record, StepFails, RecordStep, project
<1> QED BY <1>1, <1>3 DEF WholeInv

\* What a person puts in an asset is never taken for something half written.
LEMMA WholePerson ==
    ASSUME GarbageIsApart, TypeOK, WholeInv, Person \/ UNCHANGED vars
    PROVE  WholeInv'
<1>1. /\ UNCHANGED <<loaded, graph, ran, status, config, artifact, pc, readText, steps, at>>
      /\ Cur' = Cur
  BY DEF Person, EditText, MoveSql, EditOrder, EditAsset, Edit, vars, rows, plan, working, Cur
<1>2. ASSUME NEW s \in Steps PROVE loaded[s] <= text'[s]
  <2>1. text[s] \in Nat /\ loaded[s] \in Nat /\ loaded[s] <= text[s]
    BY DEF TypeOK, WholeInv, Texts
  <2>2. text'[s] = text[s] \/ text'[s] = text[s] + 1
    BY DEF Person, EditText, MoveSql, EditOrder, EditAsset, vars, project, TypeOK
  <2> QED BY <2>1, <2>2
<1>3. \A a \in Assets : disk'[a] = Garbage => disk[a] = Garbage
  <2>1. ASSUME NEW b \in Assets, EditAsset(b), NEW a \in Assets, disk'[a] = Garbage
        PROVE  disk[a] = Garbage
    BY <2>1 DEF EditAsset, TypeOK, GarbageIsApart
  <2> QED BY <2>1 DEF Person, EditText, MoveSql, EditOrder, vars, project
<1>4. pc = "record" => MadeWhole(Cur)'
  BY <1>1, <1>3 DEF WholeInv, MadeWhole
<1> QED BY <1>1, <1>2, <1>4 DEF WholeInv

LEMMA WholeStep ==
    ASSUME GarbageIsApart
    PROVE  TypeOK /\ TextInv /\ WholeInv /\ [Next]_vars => WholeInv'
<1> SUFFICES ASSUME TypeOK, TextInv, WholeInv, [Next]_vars PROVE WholeInv'
  OBVIOUS
<1>1. CASE Refuse \/ PlanFails \/ Plan \/ OnInit \/ OnInitFails
  BY <1>1, WholeIdle DEF Refuse, PlanFails, Plan, OnInit, OnInitFails, project, rows, plan
<1>2. CASE Skip \/ TimesOut \/ SqlMissing \/ LoopEnds \/ Begin \/ Retry
  BY <1>2, WholeIdle
     DEF Skip, TimesOut, SqlMissing, LoopEnds, Begin, Retry, InLoop, Halt, project, rows, plan
<1>3. CASE OnSuccess \/ OnFailure \/ OnExit \/ Finish \/ Crash
  BY <1>3, WholeIdle DEF OnSuccess, OnFailure, OnExit, ToldAtExit, Finish, Crash, project, rows, plan
<1> QED
  BY <1>1, <1>2, <1>3, WholeStart, WholeAttempt, WholeExecutes, WholeRecord, WholePerson
     DEF Next, Process

\* A step the plan leaves alone has the row's text, and its products are what was
\* hashed when that text ran.
LEMMA FreshIsWhole ==
    ASSUME GarbageIsApart, TypeOK, TextInv, WholeInv, Plan,
           NEW s \in StepsOf(steps) \ stale', status[s] = "success",
           NEW a \in graph.produces[s], AssetKind[a] \in HashedKinds
    PROVE  disk[a] # Garbage
<1>1. s \in Steps /\ a \in Assets
  BY StepsOfIsSteps DEF TypeOK, Graphs
<1>2. ~IsHashStale(s)
  BY <1>1 DEF Plan, StaleSteps, OwnStale
<1>3. /\ TextNow(s) = config[s]
      /\ ArtifactHash(disk, s) # Withheld /\ artifact[s] = ArtifactHash(disk, s)
  BY <1>2 DEF IsHashStale, ConfigStale, ArtifactStale
<1>4. config[s] = ran[s] /\ loaded[s] = ran[s]
  <2>1. /\ text[s] \in Nat /\ loaded[s] \in Nat /\ ran[s] \in Nat /\ config[s] \in Nat
        /\ config[s] <= ran[s] /\ ran[s] <= TextNow(s)
        /\ ran[s] <= loaded[s] /\ loaded[s] <= text[s]
    BY <1>1 DEF TypeOK, TextInv, WholeInv, Texts, Plan
  <2> QED BY <1>3, <2>1 DEF TextNow
<1>5. artifact[s][a] # Garbage
  BY <1>1, <1>3, <1>4 DEF WholeInv
<1>6. CASE Readable(disk, a)
  <2>1. a \in AnswersFor(s)
    BY <1>1 DEF AnswersFor
  <2>2. artifact[s][a] = disk[a]
    BY <1>1, <1>3, <1>6, <2>1 DEF ArtifactHash
  <2> QED BY <1>5, <2>2
<1>7. CASE ~Readable(disk, a)
  BY <1>7 DEF Readable, GarbageIsApart
<1> QED BY <1>6, <1>7

\* runner.rs:1384: whatever is killed, fails or is tried again part way through
\* writing, no run skips a step over a product left half written.
THEOREM NothingHalfWrittenIsSkipped ==
    ASSUME GarbageIsApart
    PROVE  Spec => SkipsNothingHalfWritten
<1>1. Init => TextInv /\ WholeInv
  <2>1. Init => TextInv
    BY ConstantsOK DEF Init, TextInv, TextNow, Texts
  <2>2. Init => WholeInv
    BY ConstantsOK DEF Init, WholeInv, Texts, GraphOf
  <2> QED BY <2>1, <2>2
<1>2. TypeOK /\ TextInv /\ WholeInv /\ [Next]_vars => WholeInv'
  BY WholeStep
<1>3. TypeOK /\ TextInv /\ WholeInv /\ [Next]_vars =>
        [Plan =>
          \A s \in StepsOf(steps) \ stale' :
            status[s] = "success" =>
                \A a \in graph.produces[s] :
                    AssetKind[a] \in HashedKinds => disk[a] # Garbage]_vars
  BY FreshIsWhole
<1> QED BY <1>1, <1>2, <1>3, TextInvStep, RunnerTypeOK, PTL DEF Spec, SkipsNothingHalfWritten

-----------------------------------------------------------------------------
(* What a success stands for: the plan of a run and how far it has come. *)

\* What the proofs ask of the list of steps.
LEMMA ListFacts ==
    ASSUME TypeOK
    PROVE  /\ Len(steps) \in Nat /\ at \in Nat /\ at >= 1 /\ at <= Len(steps) + 1
           /\ \A k \in 1..Len(steps) : steps[k] \in Steps /\ steps[k] \in StepsOf(steps)
           /\ \A j, k \in 1..Len(steps) : steps[j] = steps[k] => j = k
           /\ \A s \in StepsOf(steps) : s \in Steps /\ \E k \in 1..Len(steps) : s = steps[k]
           /\ at <= Len(steps) => Cur \in StepsOf(steps) /\ Cur \in Steps
<1>1. steps \in Seq(Steps) /\ \A j, k \in DOMAIN steps : steps[j] = steps[k] => j = k
  BY ConstantsOK DEF TypeOK, StepOrders
<1>2. Len(steps) \in Nat /\ DOMAIN steps = 1..Len(steps)
  BY <1>1
<1>3. at \in Nat /\ at >= 1 /\ at <= Len(steps) + 1
  BY <1>2 DEF TypeOK
<1>4. \A k \in 1..Len(steps) : steps[k] \in Steps /\ steps[k] \in StepsOf(steps)
  BY <1>1, <1>2 DEF StepsOf
<1>5. \A s \in StepsOf(steps) : s \in Steps /\ \E k \in 1..Len(steps) : s = steps[k]
  BY <1>4 DEF StepsOf
<1>6. at <= Len(steps) => Cur \in StepsOf(steps) /\ Cur \in Steps
  BY <1>2, <1>3, <1>4 DEF Cur
<1> QED BY <1>1, <1>2, <1>3, <1>4, <1>5, <1>6

\* A row in hand belongs to a listed step.
LEMMA HandIsListed ==
    ASSUME TypeOK, pc \in {"attempt", "running", "record"} \/ InLoop
    PROVE  Cur \in StepsOf(steps) /\ Cur \in Steps /\ at <= Len(steps)
BY ListFacts DEF TypeOK, InLoop

\* The stale set of a plan holds every step that reads what a step in it makes.
LEMMA StaleIsClosed ==
    ASSUME NEW S \in SUBSET Steps, NEW u \in S \cup DownstreamSteps(graph, S),
           NEW t \in Steps, Feeds(graph, u, t)
    PROVE  t \in S \cup DownstreamSteps(graph, S)
<1>1. u \in Reached(graph, S)
  BY DEF DownstreamSteps, Reached
<1>2. t \in Reached(graph, S)
  <2> SUFFICES ASSUME NEW C \in SUBSET Steps, S \subseteq C, Closed(graph, C)
               PROVE  t \in C
    BY DEF Reached
  <2>1. u \in C
    BY <1>1 DEF Reached
  <2> QED BY <2>1 DEF Closed
<1> QED BY <1>2 DEF DownstreamSteps

\* A row that vouches after an edit vouched before it, for the same text.
LEMMA VouchedBefore ==
    ASSUME TypeOK, TextInv, Person \/ UNCHANGED vars, NEW s \in Steps, Vouches(s)'
    PROVE  Vouches(s) /\ text'[s] = text[s]
<1>1. UNCHANGED <<status, config, artifact>>
  BY DEF Person, EditText, MoveSql, EditOrder, EditAsset, Edit, vars, rows
<1>2. status[s] = "success" /\ config[s] = text'[s] /\ artifact[s] # Withheld
  BY <1>1 DEF Vouches
<1>3. /\ config[s] \in Nat /\ ran[s] \in Nat /\ text[s] \in Nat /\ TextNow(s) \in Nat
      /\ config[s] <= ran[s] /\ ran[s] <= TextNow(s) /\ TextNow(s) <= text[s]
  BY <1>2 DEF TypeOK, TextInv, TextNow, Texts
<1>4. text'[s] = text[s] \/ text'[s] = text[s] + 1
  BY DEF Person, EditText, MoveSql, EditOrder, EditAsset, vars, project, TypeOK
<1> QED BY <1>2, <1>3, <1>4 DEF Vouches

\* What a plan leaves alone had a success row of the text it was hashed with.
LEMMA PlanChooses ==
    ASSUME TypeOK, PlanInv, Plan
    PROVE  /\ stale' \subseteq StepsOf(steps)
           /\ \A u \in stale' : \A t \in StepsOf(steps) : Feeds(graph, u, t) => t \in stale'
           /\ sound' = "mending" => stale' = StepsOf(steps)
           /\ sound' # "no" => SingleProducer(graph)
           /\ sound' # "no" /\ stale' # StepsOf(steps) => sound = "yes" /\ sound' = "yes"
           /\ \A s \in StepsOf(steps) \ stale' :
                 /\ ~IsHashStale(s)
                 /\ sound' # "no" => AsGraphed(s, TextNow(s)) /\ status[s] = "success"
<1>1. StepsOf(steps) \subseteq Steps
  BY ListFacts
<1>2. CASE /\ stale' = StepsOf(steps)
           /\ sound' = IF ~SingleProducer(graph) THEN "no"
                       ELSE IF sound = "no" THEN "mending" ELSE sound
  BY <1>2
<1>3. CASE /\ \E fresh \in GateAnswers : stale' = StaleSteps(fresh)
           /\ Unshown(\/ ~SingleProducer(graph)
                      \/ \E s \in StepsOf(steps) \ stale' :
                            status[s] = "none" \/ ~AsGraphed(s, TextNow(s)))
  <2> PICK fresh \in GateAnswers : stale' = StaleSteps(fresh)
    BY <1>3
  <2>1. OwnStale(fresh) \subseteq StepsOf(steps)
    BY DEF OwnStale
  <2>2. \A u \in stale' : \A t \in StepsOf(steps) : Feeds(graph, u, t) => t \in stale'
    BY <1>1, <2>1, StaleIsClosed DEF StaleSteps
  <2>3. stale' \subseteq StepsOf(steps)
    <3>1. Closed(graph, StepsOf(steps))
      <4> SUFFICES ASSUME NEW u \in StepsOf(steps), NEW t \in Steps, Feeds(graph, u, t)
                   PROVE  t \in StepsOf(steps)
        BY DEF Closed
      <4> QED BY DEF PlanInv, Feeds
    <3> QED BY <1>1, <2>1, <3>1 DEF StaleSteps, DownstreamSteps, Reached
  <2>4. sound # "mending"
    BY DEF PlanInv, Plan, Planned, Looping
  <2>5. \A s \in StepsOf(steps) \ stale' : ~IsHashStale(s)
    BY DEF StaleSteps, OwnStale
  <2>6. sound' # "no" =>
          /\ sound' = sound /\ SingleProducer(graph)
          /\ \A s \in StepsOf(steps) \ stale' :
                status[s] # "none" /\ AsGraphed(s, TextNow(s))
    BY <1>3 DEF Unshown
  <2>7. \A s \in StepsOf(steps) \ stale' : sound' # "no" => status[s] = "success"
    BY <1>1, <2>5, <2>6 DEF TypeOK, IsHashStale
  <2> QED BY <2>2, <2>3, <2>4, <2>5, <2>6, <2>7 DEF TypeOK
<1> QED BY <1>2, <1>3 DEF Plan

LEMMA PlanStart == TypeOK /\ PlanInv /\ Start => PlanInv'
<1> SUFFICES ASSUME TypeOK, PlanInv, Start PROVE PlanInv'
  OBVIOUS
<1>1. /\ pc = "idle" /\ pc' = "started" /\ at' = 1 /\ sound' = sound /\ steps' = order
      /\ graph' = GraphOf(order, text, gone)
      /\ outcomes' = [s \in Steps |-> "none"]
  BY DEF Start
<1>2. \A s \in Steps \ StepsOf(steps') : graph'.produces[s] = {} /\ graph'.reads[s] = {}
  BY <1>1 DEF GraphOf
<1>3. sound # "mending"
  BY <1>1 DEF PlanInv, Planned, Looping
<1> QED BY <1>1, <1>2, <1>3 DEF PlanInv, Planned, Looping

LEMMA PlanPlan == TypeOK /\ TextInv /\ PlanInv /\ Plan => PlanInv'
<1> SUFFICES ASSUME TypeOK, TextInv, PlanInv, Plan PROVE PlanInv'
  OBVIOUS
<1>1. /\ pc = "started" /\ pc' \in {"init", "loop"} /\ ValidateOrder(graph, steps)
      /\ UNCHANGED <<steps, graph, at, outcomes, status, config, artifact, text, loaded>>
  BY DEF Plan, project, rows, report
<1>2. at = 1 /\ \A s \in Steps : outcomes[s] = "none"
  BY <1>1 DEF PlanInv
<1>3. \A s \in StepsOf(steps) \ stale' :
        sound' # "no" => status[s] = "success" /\ AsGraphed(s, config[s])
  BY PlanChooses DEF IsHashStale, ConfigStale
<1>4. \A u \in stale' : \A t \in StepsOf(steps') : Feeds(graph', u, t) => t \in stale'
  BY <1>1, PlanChooses DEF Feeds
<1>5. \A k \in 1..(at' - 1) : FALSE
  BY <1>1, <1>2
<1> HIDE DEF Plan
<1> QED
  BY <1>1, <1>2, <1>3, <1>4, <1>5, PlanChooses
     DEF PlanInv, Planned, Looping, AsGraphed, SingleProducer, ValidateOrder, OutsideReads

\* A step that leaves the plan, the loop's place in it and the rows alone.
LEMMA PlanQuiet ==
    ASSUME TypeOK, PlanInv,
           UNCHANGED <<steps, graph, stale, at, outcomes, status, config, artifact>>,
           sound' \in {sound, "no"},
           \/ pc' \notin {"started", "init", "loop", "attempt", "running", "record"}
              /\ sound' # "mending"
           \/ pc' = pc
           \/ pc = "init" /\ pc' = "loop"
           \/ Looping /\ pc' \in {"attempt", "running", "record"} /\ Cur \in stale,
           \A s \in Steps : Vouches(s)' => Vouches(s) /\ text'[s] = text[s]
    PROVE  PlanInv'
<1>1. \A s \in Steps \ StepsOf(steps') : graph'.produces[s] = {} /\ graph'.reads[s] = {}
  BY DEF PlanInv
<1>2. CASE pc' \notin {"started", "init", "loop", "attempt", "running", "record"}
           /\ sound' # "mending"
  BY <1>1, <1>2 DEF PlanInv, Planned, Looping
<1>3. CASE pc' = pc
  BY <1>1, <1>3 DEF PlanInv, Planned, Looping, AsGraphed, Cur
<1>4. CASE pc = "init" /\ pc' = "loop"
  <2>1. at = 1 /\ \A s \in Steps : outcomes[s] = "none"
    BY <1>4 DEF PlanInv
  <2>2. \A k \in 1..(at' - 1) : FALSE
    BY <2>1
  <2> QED BY <1>1, <1>4, <2>1, <2>2 DEF PlanInv, Planned, Looping, AsGraphed
<1>5. CASE Looping /\ pc' \in {"attempt", "running", "record"} /\ Cur \in stale
  BY <1>1, <1>5 DEF PlanInv, Planned, Looping, AsGraphed, Cur
<1> QED BY <1>2, <1>3, <1>4, <1>5

LEMMA VouchesAsBefore ==
    ASSUME UNCHANGED <<text, status, config, artifact>>
    PROVE  \A s \in Steps : Vouches(s)' => Vouches(s) /\ text'[s] = text[s]
BY DEF Vouches

\* The text an attempt that is recorded ran, when the row vouches.
LEMMA RecordedAsRead ==
    ASSUME TypeOK, TextInv, HandInv, Record, NEW s \in Steps, s = Cur, Vouches(s)',
           sound' # "no"
    PROVE  /\ status' = [status EXCEPT ![s] = "success"]
           /\ config' = [config EXCEPT ![s] = hash]
           /\ artifact' = [artifact EXCEPT ![s] = ArtifactHash(disk, s)]
           /\ readText = text[s] /\ hash = text[s]
<1>1. pc = "record" /\ UNCHANGED text
  BY DEF Record, project
<1>2. CASE UNCHANGED rows /\ faults' = faults + 1
  <2>1. status[s] # "success"
    BY <1>2 DEF Record, Unshown, RowSpeaks, TypeOK
  <2> QED BY <1>1, <1>2, <2>1 DEF Vouches, rows
<1>3. CASE /\ status' = [status EXCEPT ![Cur] = "success"]
           /\ config' = [config EXCEPT ![Cur] = hash]
           /\ artifact' = [artifact EXCEPT ![Cur] = ArtifactHash(disk, Cur)]
  <2>1. hash = text[s]
    BY <1>1, <1>3 DEF Vouches, TypeOK
  <2>2. readText = ran[s] /\ hash <= ran[s] /\ ran[s] <= TextNow(s) /\ TextNow(s) <= text[s]
    BY <1>1 DEF HandInv, TextInv
  <2>3. ran[s] \in Nat /\ text[s] \in Nat /\ TextNow(s) \in Nat
    BY <1>1 DEF TypeOK, TextNow, Texts
  <2> QED BY <1>3, <2>1, <2>2, <2>3
<1> QED BY <1>2, <1>3 DEF Record, RecordStep

\* The loop comes to its next step.
LEMMA PlanAdvance ==
    ASSUME TypeOK, PlanInv, Looping, pc' = "loop", at <= Len(steps), at' = at + 1,
           UNCHANGED <<steps, graph, stale>>, sound' \in {sound, "no"},
           outcomes' = [outcomes EXCEPT ![Cur] =
                          IF Cur \in stale THEN "success" ELSE "skipped"],
           \A s \in Steps \ stale : status'[s] = status[s] /\ config'[s] = config[s],
           \A s \in Steps :
               sound' # "no" /\ outcomes'[s] = "success" /\ Vouches(s)'
                   => AsGraphed(s, text'[s])
    PROVE  PlanInv'
<1>1. /\ Cur = steps[at] /\ Cur \in Steps /\ at \in 1..Len(steps) /\ at' - 1 = at
      /\ Len(steps) \in Nat /\ at \in Nat
      /\ \A j, k \in 1..Len(steps) : steps[j] = steps[k] => j = k
  BY ListFacts DEF Cur
<1>2. ASSUME NEW k \in 1..at
      PROVE  outcomes'[steps[k]] = IF steps[k] \in stale THEN "success" ELSE "skipped"
  <2>1. CASE k = at
    BY <1>1, <2>1 DEF TypeOK
  <2>2. CASE k # at
    <3>1. k \in 1..(at - 1) /\ k \in 1..Len(steps)
      BY <1>1, <2>2
    <3>2. steps[k] # Cur
      BY <1>1, <2>2, <3>1
    <3> QED BY <3>1, <3>2 DEF PlanInv, TypeOK
  <2> QED BY <2>1, <2>2
<1>3. ASSUME NEW s \in Steps, outcomes'[s] # "none"
      PROVE  \E k \in 1..at : s = steps[k]
  <2>1. CASE s = Cur
    BY <1>1, <2>1
  <2>2. CASE s # Cur
    <3>1. PICK k \in 1..(at - 1) : s = steps[k]
      BY <1>3, <2>2 DEF PlanInv, TypeOK
    <3> QED BY <1>1, <3>1
  <2> QED BY <2>1, <2>2
<1>4. \A s \in StepsOf(steps) : s \in Steps
  BY ListFacts
<1>5. sound' # "no" =>
          /\ SingleProducer(graph)
          /\ \A s \in StepsOf(steps) \ stale :
                status'[s] = "success" /\ AsGraphed(s, config'[s])
  BY <1>4 DEF PlanInv, Planned
<1>6. \A s \in Steps \ StepsOf(steps') : graph'.produces[s] = {} /\ graph'.reads[s] = {}
  BY DEF PlanInv
<1> QED
  BY <1>1, <1>2, <1>3, <1>5, <1>6 DEF PlanInv, Planned, Looping, AsGraphed

LEMMA PlanSkip == TypeOK /\ PlanInv /\ Skip => PlanInv'
<1> SUFFICES ASSUME TypeOK, PlanInv, Skip PROVE PlanInv'
  OBVIOUS
<1>1. /\ pc = "loop" /\ pc' = "loop" /\ at <= Len(steps) /\ at' = at + 1 /\ Cur \notin stale
      /\ outcomes' = [outcomes EXCEPT ![Cur] = "skipped"]
      /\ UNCHANGED <<steps, graph, stale, sound, status, config, artifact, text>>
  BY DEF Skip, InLoop, project, rows, plan
<1>2. ASSUME NEW s \in Steps, sound' # "no", outcomes'[s] = "success", Vouches(s)'
      PROVE  AsGraphed(s, text'[s])
  <2>1. outcomes[s] = "success" /\ Vouches(s)
    BY <1>1, <1>2, HandIsListed DEF TypeOK, Vouches, Skip
  <2> QED BY <1>1, <1>2, <2>1 DEF PlanInv, Looping
<1> QED BY <1>1, <1>2, PlanAdvance DEF Looping

LEMMA PlanRecord == TypeOK /\ TextInv /\ PlanInv /\ HandInv /\ Record => PlanInv'
<1> SUFFICES ASSUME TypeOK, TextInv, PlanInv, HandInv, Record PROVE PlanInv'
  OBVIOUS
<1>1. /\ pc = "record" /\ pc' = "loop" /\ at <= Len(steps) /\ at' = at + 1 /\ Cur \in stale
      /\ outcomes' = [outcomes EXCEPT ![Cur] = "success"] /\ sound' \in {sound, "no"}
      /\ UNCHANGED <<steps, graph, stale, text>> /\ Cur \in Steps
  BY HandIsListed DEF Record, Unshown, PlanInv, TypeOK, project, plan
<1>2. ASSUME NEW s \in Steps, s # Cur
      PROVE  /\ status'[s] = status[s] /\ config'[s] = config[s] /\ artifact'[s] = artifact[s]
             /\ outcomes'[s] = outcomes[s]
  BY <1>1, <1>2 DEF Record, RecordStep, rows, TypeOK
<1>3. ASSUME NEW s \in Steps, sound' # "no", outcomes'[s] = "success", Vouches(s)'
      PROVE  AsGraphed(s, text'[s])
  <2>1. CASE s = Cur
    BY <1>1, <1>3, <2>1, RecordedAsRead DEF HandInv
  <2>2. CASE s # Cur
    BY <1>1, <1>2, <1>3, <2>2 DEF PlanInv, Looping, Vouches
  <2> QED BY <2>1, <2>2
<1> QED BY <1>1, <1>2, <1>3, PlanAdvance DEF Looping

LEMMA PlanStep ==
    TypeOK /\ TextInv /\ PlanInv /\ HandInv /\ [Next]_vars => PlanInv'
<1> SUFFICES ASSUME TypeOK, TextInv, PlanInv, HandInv, [Next]_vars PROVE PlanInv'
  OBVIOUS
<1>1. CASE Refuse \/ PlanFails \/ OnInitFails
  <2>1. /\ pc' = "idle" /\ sound' # "mending" /\ sound' \in {sound, "no"}
        /\ UNCHANGED <<steps, graph, stale, at, outcomes, text, status, config, artifact>>
    BY <1>1 DEF Refuse, PlanFails, OnInitFails, Unshown, project, rows, plan, report, PlanInv,
                Planned, Looping, TypeOK
  <2> QED BY <2>1, VouchesAsBefore, PlanQuiet
<1>2. CASE OnInit
  <2>1. /\ pc = "init" /\ pc' = "loop" /\ sound' = sound
        /\ UNCHANGED <<steps, graph, stale, at, outcomes, text, status, config, artifact>>
    BY <1>2 DEF OnInit, project, rows, plan
  <2> QED BY <2>1, VouchesAsBefore, PlanQuiet
<1>3. CASE TimesOut \/ SqlMissing \/ LoopEnds
  <2>1. /\ pc' = "hooks" /\ sound' # "mending"
        /\ UNCHANGED <<steps, graph, stale, at, outcomes, text, status, config, artifact>>
    BY <1>3 DEF TimesOut, SqlMissing, LoopEnds, Halt, Unshown, project, rows, plan, TypeOK
  <2>2. CASE sound' \in {sound, "no"}
    BY <2>1, <2>2, VouchesAsBefore, PlanQuiet
  <2>3. CASE sound' \notin {sound, "no"}
    BY <2>1 DEF PlanInv, Planned, Looping
  <2> QED BY <2>2, <2>3
<1>4. CASE StepFails
  <2>1. /\ pc' = "hooks" /\ sound' # "mending" /\ UNCHANGED <<steps, graph>>
    BY <1>4 DEF StepFails, Halt, Unshown, plan
  <2> QED BY <2>1 DEF PlanInv, Planned, Looping
<1>5. CASE Begin \/ Attempt \/ Retry \/ Executes
  <2>1. /\ Looping /\ pc' \in {"attempt", "running", "record"} /\ sound' \in {sound, "no"}
        /\ Cur \in stale
        /\ UNCHANGED <<steps, graph, stale, at, outcomes, text, status, config, artifact>>
    BY <1>5 DEF Begin, InLoop, Attempt, Retry, Executes, Unshown, Looping, PlanInv, project,
                rows, plan, report
  <2> QED BY <2>1, VouchesAsBefore, PlanQuiet
<1>6. CASE OnSuccess \/ OnFailure \/ OnExit \/ Finish \/ Crash
  <2>1. /\ pc' \in {"exit", "recheck", "idle"} /\ sound' # "mending" /\ sound' \in {sound, "no"}
        /\ UNCHANGED <<steps, graph, stale, at, outcomes, text, status, config, artifact>>
    BY <1>6 DEF OnSuccess, OnFailure, OnExit, ToldAtExit, Finish, Crash, Unshown, project, rows, plan,
                report, PlanInv, Planned, Looping, TypeOK
  <2> QED BY <2>1, VouchesAsBefore, PlanQuiet
<1>7. CASE Person \/ UNCHANGED vars
  <2>1. /\ pc' = pc /\ sound' \in {sound, "no"}
        /\ UNCHANGED <<steps, graph, stale, at, outcomes, status, config, artifact>>
    BY <1>7 DEF Person, EditText, MoveSql, EditOrder, EditAsset, Edit, Unshown, vars, rows,
                plan, report
  <2>2. \A s \in Steps : Vouches(s)' => Vouches(s) /\ text'[s] = text[s]
    BY <1>7, VouchedBefore
  <2> QED BY <2>1, <2>2, PlanQuiet
<1> QED
  BY <1>1, <1>2, <1>3, <1>4, <1>5, <1>6, <1>7, PlanStart, PlanPlan, PlanSkip, PlanRecord
     DEF Next, Process

-----------------------------------------------------------------------------
(* The attempt in hand, and the project the run works from. *)

\* What the stores hold is told apart: a hash or a step that takes nothing in, what is
\* made, and what is not there.
ContentsApart ==
    /\ Nothing \notin Sources \cup {Absent, Garbage}
    /\ \A s, a, v, inputs : Output(s, a, v, inputs) \notin Sources \cup {Absent, Garbage, Nothing}
    /\ \A f : [a \in Assets |-> f[a]] # Withheld

LEMMA SettledStart == TypeOK /\ SettledInv /\ Start => SettledInv'
<1> SUFFICES ASSUME TypeOK, SettledInv, Start PROVE SettledInv'
  OBVIOUS
<1>1. /\ pc' = "started" /\ steps' = order /\ loaded' = text /\ graph' = GraphOf(order, text, gone)
      /\ UNCHANGED <<order, text, gone>>
  BY DEF Start, project
<1> QED BY <1>1 DEF SettledInv

\* A step of the run that reads nothing of the project.
LEMMA SettledQuiet ==
    ASSUME SettledInv, settled' => settled,
           UNCHANGED <<order, text, gone, steps, loaded, graph>>,
           \/ pc' \notin {"attempt", "running", "record"}
           \/ UNCHANGED <<at, hash>> /\ pc \in {"attempt", "running", "record"}
              /\ (pc' = "attempt" \/ (pc = "running" /\ UNCHANGED readText))
    PROVE  SettledInv'
BY DEF SettledInv, Cur

LEMMA SettledStep == TypeOK /\ SettledInv /\ [Next]_vars => SettledInv'
<1> SUFFICES ASSUME TypeOK, SettledInv, [Next]_vars PROVE SettledInv'
  OBVIOUS
<1>1. CASE Refuse \/ PlanFails \/ Plan \/ OnInit \/ OnInitFails
  <2>1. /\ pc' \in {"idle", "init", "loop"} /\ settled' = settled
        /\ UNCHANGED <<order, text, gone, steps, loaded, graph>>
    BY <1>1 DEF Refuse, PlanFails, Plan, OnInit, OnInitFails, project, plan
  <2> QED BY <2>1, SettledQuiet
<1>2. CASE Skip \/ TimesOut \/ SqlMissing \/ LoopEnds \/ StepFails \/ Record
  BY <1>2, SettledQuiet
     DEF Skip, InLoop, TimesOut, SqlMissing, LoopEnds, StepFails, Record, Halt, project, plan
<1>3. CASE Begin
  <2>1. /\ pc' = "attempt" /\ hash' = TextNow(Cur) /\ Cur \notin gone /\ Cur' = Cur
        /\ UNCHANGED <<order, text, gone, steps, loaded, graph, settled>>
    BY <1>3 DEF Begin, project, plan, Cur
  <2>2. settled => TextNow(Cur) = text[Cur]
    BY DEF SettledInv, TextNow
  <2> QED BY <2>1, <2>2 DEF SettledInv
<1>4. CASE Attempt
  <2>1. /\ pc = "attempt" /\ pc' = "running" /\ readText' = TextNow(Cur) /\ Cur' = Cur
        /\ UNCHANGED <<order, text, gone, steps, loaded, graph, settled, hash>>
    BY <1>4 DEF Attempt, project, plan, Cur
  <2>2. settled => TextNow(Cur) = text[Cur]
    BY DEF SettledInv, TextNow
  <2> QED BY <2>1, <2>2 DEF SettledInv
<1>5. CASE Retry \/ Executes
  BY <1>5, SettledQuiet DEF Retry, Executes, plan, working
<1>6. CASE OnSuccess \/ OnFailure \/ OnExit \/ Finish \/ Crash
  <2>1. /\ pc' \in {"exit", "recheck", "idle"} /\ settled' = settled
        /\ UNCHANGED <<order, text, gone, steps, loaded, graph>>
    BY <1>6 DEF OnSuccess, OnFailure, OnExit, ToldAtExit, Finish, Crash, project, plan
  <2> QED BY <2>1, SettledQuiet
<1>7. CASE Person
  <2>1. ~settled'
    BY <1>7 DEF Person, EditText, MoveSql, EditOrder, EditAsset, Edit
  <2>2. \A s \in gone' : StepKind[s] = "sql"
    BY <1>7 DEF Person, EditText, MoveSql, EditOrder, EditAsset, SettledInv
  <2> QED BY <2>1, <2>2 DEF SettledInv
<1>8. CASE UNCHANGED vars
  BY <1>8 DEF vars, project, plan, working, SettledInv, Cur
<1> QED
  BY <1>1, <1>2, <1>3, <1>4, <1>5, <1>6, <1>7, <1>8, SettledStart DEF Next, Process

LEMMA HandIdle ==
    ASSUME HandInv, \A a \in Assets : disk'[a] # Nothing, pc' \notin {"running", "record"}
    PROVE  HandInv'
BY DEF HandInv

\* What an attempt leaves, whole or spoiled, is something.
LEMMA LeftIsSomething ==
    ASSUME ContentsApart, HandInv, disk' \in LeftByAttempt
    PROVE  \A a \in Assets : disk'[a] # Nothing
<1>1. CASE UNCHANGED disk
  BY <1>1 DEF HandInv
<1>2. CASE disk' = Spoiled(disk, Cur, readText)
  BY <1>2 DEF HandInv, Spoiled, ContentsApart
<1> QED BY <1>1, <1>2 DEF LeftByAttempt

\* While nothing is edited the graph is of the text an attempt reads.
LEMMA SettledGraph ==
    ASSUME TypeOK, SettledInv, settled, NEW s \in StepsOf(steps), s \notin gone
    PROVE  AsGraphed(s, text[s]) /\ TextNow(s) = text[s]
<1>1. s \in Steps
  BY ListFacts
<1>2. graph = GraphOf(steps, text, gone) /\ loaded = text
  BY DEF SettledInv
<1>3. graph.produces[s] = Produces[s][text[s]] /\ graph.reads[s] = Reads[s][text[s]]
  BY <1>1, <1>2 DEF GraphOf
<1> QED BY <1>2, <1>3 DEF AsGraphed, TextNow

LEMMA HandAttempt == TypeOK /\ SettledInv /\ HandInv /\ Attempt => HandInv'
<1> SUFFICES ASSUME TypeOK, SettledInv, HandInv, Attempt PROVE HandInv'
  OBVIOUS
<1>1. /\ pc = "attempt" /\ pc' = "running" /\ Cur \notin gone
      /\ readText' = TextNow(Cur) /\ ran' = [ran EXCEPT ![Cur] = TextNow(Cur)]
      /\ readInputs' = Inputs(disk, Cur, TextNow(Cur))
      /\ sound' = IF ~AsGraphed(Cur, TextNow(Cur)) \/ Overwrites(Cur, TextNow(Cur))
                    THEN "no" ELSE sound
      /\ UNCHANGED <<disk, text, graph, settled, status, config, artifact, steps, at>>
      /\ Cur' = Cur
  BY DEF Attempt, Unshown, project, rows, plan, Cur
<1>2. Cur \in StepsOf(steps) /\ Cur \in Steps
  BY <1>1, HandIsListed
<1>3. sound' # "no" \/ settled' => AsGraphed(Cur, TextNow(Cur))
  BY <1>1, <1>2, SettledGraph
<1>4. readText' = ran'[Cur]
  BY <1>1, <1>2 DEF TypeOK
<1>5. ASSUME sound' # "no", NEW t \in Steps \ {Cur}, Vouches(t)
      PROVE  Produces[t][text[t]] \cap Produces[Cur][readText'] = {}
  BY <1>1, <1>5 DEF Overwrites, Vouches
<1> QED
  BY <1>1, <1>3, <1>4, <1>5 DEF HandInv, AsGraphed, Inputs, Vouches

LEMMA HandExecutes == ContentsApart => (TypeOK /\ HandInv /\ Executes => HandInv')
<1> SUFFICES ASSUME ContentsApart, TypeOK, HandInv, Executes PROVE HandInv'
  OBVIOUS
<1>1. /\ pc = "running" /\ pc' = "record"
      /\ disk' = Written(disk, Cur, readText, readInputs)
      /\ StepKind[Cur] # "command" =>
            \A a \in Assets : AssetKind[a] # "pattern" => readInputs[a] # Absent
      /\ UNCHANGED <<text, graph, settled, sound, status, config, artifact, ran, readText,
                     readInputs>>
      /\ Cur' = Cur
  BY DEF Executes, rows, plan, working, Cur
<1>2. \A a \in Assets : disk'[a] # Nothing
  BY <1>1 DEF HandInv, Written, ContentsApart
<1>3. \A a \in Assets : a \notin Produces[Cur][readText] => disk'[a] = disk[a]
  BY <1>1 DEF Written
<1>4. Inputs(disk', Cur, readText) = Inputs(disk, Cur, readText)
  BY <1>3 DEF Inputs
<1>5. Cur \in Steps /\ (AsGraphed(Cur, readText) => Produces[Cur][readText] \subseteq Assets)
  BY <1>1, HandIsListed DEF AsGraphed, TypeOK, Graphs
<1>6. ASSUME AsGraphed(Cur, readText), NEW b \in Produces[Cur][readText]
      PROVE  disk'[b] = Output(Cur, b, readText, readInputs)
  BY <1>1, <1>5, <1>6 DEF Written
<1> QED
  BY <1>1, <1>2, <1>4, <1>6 DEF HandInv, AsGraphed, Vouches, Inputs

\* An edit of what the attempt in hand reads or writes is one no record can show.
LEMMA HandEdit ==
    ContentsApart => (TypeOK /\ TextInv /\ HandInv /\ (Person \/ UNCHANGED vars) => HandInv')
<1> SUFFICES ASSUME ContentsApart, TypeOK, TextInv, HandInv, Person \/ UNCHANGED vars
             PROVE  HandInv'
  OBVIOUS
<1>1. /\ UNCHANGED <<pc, graph, status, config, artifact, ran, readText, readInputs, steps, at>>
      /\ Cur' = Cur /\ (settled' => settled) /\ sound' \in {sound, "no"}
      /\ settled' => UNCHANGED disk
  BY DEF Person, EditText, MoveSql, EditOrder, EditAsset, Edit, Unshown, vars, rows, plan,
         working, project, Cur
<1>2. \A a \in Assets : disk'[a] # Nothing
  <2>1. ASSUME NEW e \in Assets, EditAsset(e)
        PROVE  \A a \in Assets : disk'[a] # Nothing
    <3>1. PICK c \in Sources \cup {Absent} : disk' = [disk EXCEPT ![e] = c]
      BY <2>1 DEF EditAsset
    <3> QED BY <3>1 DEF TypeOK, HandInv, ContentsApart
  <2>2. CASE UNCHANGED disk
    BY <2>2 DEF HandInv
  <2> QED BY <2>1, <2>2 DEF Person, EditText, MoveSql, EditOrder, vars, project
<1>3. ASSUME pc \in {"running", "record"}, sound' # "no" \/ settled',
             NEW a \in Produces[Cur][readText] \cup Reads[Cur][readText]
      PROVE  disk'[a] = disk[a]
  <2>1. a \in Assets
    <3>1. AsGraphed(Cur, readText) /\ Cur \in Steps
      BY <1>1, <1>3, HandIsListed DEF HandInv
    <3> QED BY <3>1 DEF AsGraphed, TypeOK, Graphs
  <2>2. ASSUME NEW e \in Assets, EditAsset(e) PROVE disk'[a] = disk[a]
    <3>1. ~settled' /\ sound' # "no"
      BY <1>3, <2>2 DEF EditAsset, Edit
    <3>2. a # e
      BY <1>3, <2>2, <3>1 DEF EditAsset, Unshown, Unseen
    <3> QED BY <2>1, <2>2, <3>2 DEF EditAsset, TypeOK
  <2> QED BY <2>2 DEF Person, EditText, MoveSql, EditOrder, vars, project
<1>4. pc \in {"running", "record"} /\ (sound' # "no" \/ settled') =>
        Inputs(disk', Cur, readText) = Inputs(disk, Cur, readText)
  BY <1>3 DEF Inputs
<1>5. \A t \in Steps : Vouches(t)' => Vouches(t) /\ text'[t] = text[t]
  BY VouchedBefore
<1>6. ASSUME pc \in {"running", "record"}, sound' # "no", NEW t \in Steps \ {Cur}, Vouches(t)'
      PROVE  Produces[t][text'[t]] \cap Produces[Cur][readText] = {}
  BY <1>1, <1>5, <1>6 DEF HandInv
<1>7. pc \in {"running", "record"} /\ (sound' # "no" \/ settled') =>
        /\ AsGraphed(Cur, readText)
        /\ readInputs = Inputs(disk', Cur, readText)
        /\ pc = "record" =>
              \A b \in Produces[Cur][readText] :
                  disk'[b] = Output(Cur, b, readText, readInputs)
  BY <1>1, <1>3, <1>4 DEF HandInv
<1> QED BY <1>1, <1>2, <1>6, <1>7 DEF HandInv, AsGraphed, Inputs

LEMMA HandStep ==
    ContentsApart =>
        (TypeOK /\ TextInv /\ SettledInv /\ HandInv /\ [Next]_vars => HandInv')
<1> SUFFICES ASSUME ContentsApart, TypeOK, TextInv, SettledInv, HandInv, [Next]_vars
             PROVE  HandInv'
  OBVIOUS
<1>1. CASE Start \/ Refuse \/ PlanFails \/ Plan \/ OnInit \/ OnInitFails \/ Skip \/ TimesOut
           \/ SqlMissing \/ LoopEnds \/ Begin \/ Record \/ OnSuccess \/ OnFailure \/ OnExit
           \/ Finish
  <2>1. UNCHANGED disk
    BY <1>1 DEF Start, Refuse, PlanFails, Plan, OnInit, OnInitFails, Skip, TimesOut, SqlMissing,
         LoopEnds, Begin, Record, OnSuccess, OnFailure, OnExit, ToldAtExit, Finish, project
  <2>2. pc' \notin {"running", "record"}
    BY <1>1 DEF Start, Refuse, PlanFails, Plan, OnInit, OnInitFails, Skip, InLoop, TimesOut,
         SqlMissing, Halt, LoopEnds, Begin, Record, OnSuccess, OnFailure, OnExit, ToldAtExit, Finish
  <2> QED BY <2>1, <2>2, HandIdle DEF HandInv
<1>2. CASE Retry \/ StepFails \/ Crash
  <2>1. disk' \in LeftByAttempt /\ pc' \notin {"running", "record"}
    BY <1>2 DEF Retry, StepFails, Halt, Crash
  <2> QED BY <2>1, LeftIsSomething, HandIdle
<1> QED
  BY <1>1, <1>2, HandAttempt, HandExecutes, HandEdit DEF Next, Process

-----------------------------------------------------------------------------
(* What the rows say of each other. *)

\* What a trusted row stands for is hashed or a table, and an asset.
LEMMA TrustedKinds ==
    ASSUME TypeOK, LedgerInv, NEW s \in Steps, Trusted(s),
           NEW b \in Produces[s][text[s]] \cup Reads[s][text[s]]
    PROVE  b \in Assets /\ (AssetKind[b] \in HashedKinds \/ AssetKind[b] = "table")
<1>1. text[s] \in Texts
  BY DEF TypeOK
<1>2. b \in Assets
  BY <1>1, ConstantsOK
<1>3. AssetKind[b] # "remote"
  BY DEF LedgerInv
<1> QED BY <1>2, <1>3, ConstantsOK DEF AssetKinds

\* What a step of the program owes the rows that are trusted after it.
LEMMA LedgerKept ==
    ASSUME TypeOK, LedgerInv,
           \A s \in Steps : Trusted(s)' =>
               /\ Trusted(s) /\ text'[s] = text[s] /\ artifact'[s] = artifact[s]
               /\ \A b \in Produces[s][text[s]] :
                     AssetKind[b] = "table" => disk'[b] = disk[b],
           \A s, u \in Steps : \A a \in Outside(s) :
               Trusted(s)' /\ Trusted(u)' /\ a \in Produces[u][text[u]] =>
                   /\ RowHas(u, a)' = disk'[a] => disk'[a] = disk[a]
                   /\ Waits(s, u) => Waits(s, u)'
    PROVE  LedgerInv'
<1> SUFFICES ASSUME NEW s \in Steps, Trusted(s)'
             PROVE  /\ \A a \in Produces[s][text'[s]] \cup Reads[s][text'[s]] :
                          AssetKind[a] # "remote"
                    /\ \A b \in Produces[s][text'[s]] :
                         /\ MadeBy(s, b, RowHas(s, b))'
                         /\ \A a \in Outside(s)' :
                              IF artifact'[s][a] # Nothing
                                THEN RowHas(s, b)'.inputs[a] = artifact'[s][a]
                                ELSE \A u \in Steps :
                                       /\ Trusted(u)' /\ a \in Produces[u][text'[u]]
                                       /\ RowHas(u, a)' = disk'[a]
                                       => RowHas(s, b)'.inputs[a] = disk'[a] \/ Waits(s, u)'
  BY DEF LedgerInv
<1>1. Trusted(s) /\ text'[s] = text[s] /\ artifact'[s] = artifact[s] /\ Outside(s)' = Outside(s)
  BY DEF Outside
<1>2. \A a \in Produces[s][text[s]] \cup Reads[s][text[s]] : AssetKind[a] # "remote"
  BY <1>1 DEF LedgerInv
<1>3. ASSUME NEW u \in Steps, Trusted(u)', NEW a \in Produces[u][text[u]]
      PROVE  RowHas(u, a)' = RowHas(u, a)
  <2>1. Trusted(u) /\ artifact'[u] = artifact[u]
    BY <1>3
  <2>2. AssetKind[a] \in HashedKinds \/ AssetKind[a] = "table"
    BY <2>1, TrustedKinds
  <2> QED BY <1>3, <2>1, <2>2 DEF RowHas
<1>4. ASSUME NEW b \in Produces[s][text[s]]
      PROVE  /\ MadeBy(s, b, RowHas(s, b))'
             /\ \A a \in Outside(s) :
                  IF artifact[s][a] # Nothing
                    THEN RowHas(s, b)'.inputs[a] = artifact[s][a]
                    ELSE \A u \in Steps :
                           /\ Trusted(u)' /\ a \in Produces[u][text'[u]]
                           /\ RowHas(u, a)' = disk'[a]
                           => RowHas(s, b)'.inputs[a] = disk'[a] \/ Waits(s, u)'
  <2>1. RowHas(s, b)' = RowHas(s, b)
    BY <1>3
  <2>2. MadeBy(s, b, RowHas(s, b))'
    <3>1. MadeBy(s, b, RowHas(s, b))
      BY <1>1 DEF LedgerInv
    <3> QED BY <1>1, <2>1, <3>1 DEF MadeBy, Made, Output
  <2>3. ASSUME NEW a \in Outside(s), artifact[s][a] # Nothing
        PROVE  RowHas(s, b)'.inputs[a] = artifact[s][a]
    BY <1>1, <2>1, <2>3 DEF LedgerInv
  <2>4. ASSUME NEW a \in Outside(s), artifact[s][a] = Nothing, NEW u \in Steps,
               Trusted(u)', a \in Produces[u][text'[u]], RowHas(u, a)' = disk'[a]
        PROVE  RowHas(s, b)'.inputs[a] = disk'[a] \/ Waits(s, u)'
    <3>1. Trusted(u) /\ text'[u] = text[u] /\ disk'[a] = disk[a] /\ (Waits(s, u) => Waits(s, u)')
      BY <2>4
    <3>2. RowHas(u, a) = disk[a]
      BY <1>3, <2>4, <3>1
    <3>3. RowHas(s, b).inputs[a] = disk[a] \/ Waits(s, u)
      BY <1>1, <2>4, <3>1, <3>2 DEF LedgerInv
    <3> QED BY <2>1, <3>1, <3>3
  <2> QED BY <2>2, <2>3, <2>4
<1> QED BY <1>1, <1>2, <1>4

\* A step that neither writes nor records anything.
LEMMA LedgerSame ==
    ASSUME TypeOK, LedgerInv, UNCHANGED <<disk, text, status, config, artifact>>,
           \A s \in Steps : Trusted(s)' => Trusted(s),
           \A s, u \in Steps : \A a \in Outside(s) :
               Trusted(s)' /\ Trusted(u)' /\ a \in Produces[u][text[u]] /\ Waits(s, u)
                   => Waits(s, u)'
    PROVE  LedgerInv'
BY LedgerKept

\* A step whose outcome or place in the loop is all that changes.
LEMMA LedgerQuiet ==
    ASSUME TypeOK, PlanInv, LedgerInv,
           \/ Start \/ Refuse \/ PlanFails \/ Plan \/ OnInit \/ OnInitFails \/ OnSuccess
           \/ OnFailure \/ OnExit \/ Finish \/ Begin \/ Attempt
    PROVE  LedgerInv'
<1>1. UNCHANGED <<disk, text, status, config, artifact>>
  BY DEF Start, Refuse, PlanFails, Plan, OnInit, OnInitFails, OnSuccess, OnFailure, OnExit, ToldAtExit,
         Finish, Begin, Attempt, project, rows
<1>2. \A s \in Steps : Vouches(s)' => Vouches(s)
  BY <1>1 DEF Vouches
<1>3. CASE Start \/ Plan
  <2>a. /\ pc \in {"idle", "started"} /\ pc' \in {"started", "init", "loop"}
        /\ \A s \in Steps : outcomes'[s] = "none"
    <3>1. CASE Start
      BY <3>1 DEF Start
    <3>2. CASE Plan
      <4>1. /\ pc = "started" /\ pc' \in {"init", "loop"} /\ UNCHANGED outcomes
        BY <3>2 DEF Plan, report
      <4> QED BY <4>1 DEF PlanInv
    <3> QED BY <1>3, <3>1, <3>2
  <2>1. /\ pc \notin {"attempt", "running", "record"} /\ ~Looping /\ sound # "mending"
        /\ pc' \notin {"attempt", "running", "record"}
        /\ \A s \in Steps : outcomes'[s] = "none"
    BY <2>a DEF PlanInv, Planned, Looping
  <2>2. sound' = "yes" => sound = "yes"
    BY <1>3, <2>1, PlanChooses DEF Start, Plan, Unshown, TypeOK
  <2>3. \A s \in Steps : Trusted(s)' => Trusted(s)
    BY <1>2, <2>1, <2>2 DEF Trusted, InHand
  <2> QED BY <1>1, <2>1, <2>3, LedgerSame DEF Waits
<1>4. CASE Begin \/ Attempt
  <2>1. /\ Looping /\ Looping' /\ UNCHANGED <<outcomes, at, steps>> /\ sound' \in {sound, "no"}
        /\ pc \in {"loop", "attempt"} /\ pc' \in {"attempt", "running"}
        /\ Attempt => pc = "attempt"
    BY <1>4 DEF Begin, Attempt, InLoop, Unshown, Looping, plan, report
  <2>2. \A s \in Steps : Trusted(s)' => Trusted(s)
    BY <1>2, <1>4, <2>1 DEF Trusted, InHand, Cur
  <2> QED BY <1>1, <2>1, <2>2, LedgerSame DEF Waits
<1>5. CASE \/ Refuse \/ PlanFails \/ OnInit \/ OnInitFails
           \/ OnSuccess \/ OnFailure \/ OnExit \/ Finish
  <2>1. /\ ~Looping /\ UNCHANGED outcomes /\ sound' \in {sound, "no"}
        /\ pc \notin {"attempt", "running", "record"}
    BY <1>5 DEF Refuse, PlanFails, OnInit, OnInitFails, OnSuccess, OnFailure, OnExit, ToldAtExit, Finish,
                Unshown, Looping, report
  <2>2. \A s \in Steps : Trusted(s)' => Trusted(s)
    BY <1>2, <2>1 DEF Trusted, InHand
  <2> QED BY <1>1, <2>1, <2>2, LedgerSame DEF Waits
<1> QED BY <1>3, <1>4, <1>5

\* A step skipped is below none that the run has made.
LEMMA SkippedWaitsForNone ==
    ASSUME TypeOK, PlanInv, Looping, sound # "no", NEW s \in StepsOf(steps) \ stale,
           NEW u \in Steps, outcomes[u] = "success", Vouches(s), Vouches(u),
           NEW a \in Outside(s), a \in Produces[u][text[u]]
    PROVE  FALSE
<1>1. s \in Steps
  BY ListFacts
<1>2. AsGraphed(s, text[s]) /\ AsGraphed(u, text[u])
  BY <1>1 DEF PlanInv, Planned, Vouches
<1>3. Feeds(graph, u, s)
  BY <1>2 DEF AsGraphed, Feeds, Outside
<1>4. u \in stale
  <2>1. PICK k \in 1..(at - 1) : u = steps[k]
    BY DEF PlanInv
  <2> QED BY <2>1 DEF PlanInv
<1> QED BY <1>3, <1>4 DEF PlanInv, Planned

LEMMA LedgerSkip == TypeOK /\ PlanInv /\ LedgerInv /\ Skip => LedgerInv'
<1> SUFFICES ASSUME TypeOK, PlanInv, LedgerInv, Skip PROVE LedgerInv'
  OBVIOUS
<1>1. /\ UNCHANGED <<disk, text, status, config, artifact, sound, steps>>
      /\ pc = "loop" /\ pc' = "loop" /\ Cur \in StepsOf(steps) \ stale /\ Cur \in Steps
      /\ outcomes' = [outcomes EXCEPT ![Cur] = "skipped"]
  BY HandIsListed DEF Skip, InLoop, project, rows, plan
<1>2. \A s \in Steps : outcomes'[s] = "success" => outcomes[s] = "success"
  BY <1>1 DEF TypeOK
<1>3. \A s \in Steps : Trusted(s)' => Trusted(s)
  BY <1>1, <1>2 DEF Trusted, Vouches, InHand
<1>4. ASSUME NEW s \in Steps, NEW u \in Steps, NEW a \in Outside(s), Trusted(s)', Trusted(u)',
             a \in Produces[u][text[u]], Waits(s, u)
      PROVE  Waits(s, u)'
  <2>1. Vouches(s) /\ Vouches(u) /\ sound # "no" /\ outcomes[u] = "success" /\ outcomes[s] = "none"
    BY <1>3, <1>4 DEF Trusted, Waits
  <2>2. s # Cur
    BY <1>1, <1>4, <2>1, SkippedWaitsForNone DEF Looping
  <2>3. u # Cur
    <3>1. PICK k \in 1..(at - 1) : u = steps[k]
      BY <1>1, <2>1 DEF PlanInv, Looping
    <3>2. k \in 1..Len(steps) /\ at \in 1..Len(steps) /\ k # at
      BY <3>1, ListFacts, HandIsListed DEF Skip
    <3> QED BY <3>1, <3>2, ListFacts DEF Cur
  <2> QED BY <1>1, <2>1, <2>2, <2>3 DEF TypeOK, Waits, Looping
<1> QED BY <1>1, <1>3, <1>4, LedgerSame

\* A step below one the run has made is one the run forgets if it stops here.
LEMMA WaitsIsForgotten ==
    ASSUME NEW s \in Steps, NEW u \in Steps, Vouches(s), Waits(s, u),
           NEW a \in Outside(s), a \in Produces[u][text[u]], NEW undone, s \in undone
    PROVE  Forgets(undone)
<1>1. status[s] = "success" /\ outcomes[u] = "success"
  BY DEF Vouches, Waits
<1>2. Feeds(WholeGraph, u, s)
  BY DEF Feeds, WholeGraph, Outside
<1> QED BY <1>1, <1>2 DEF Forgets

LEMMA LedgerLeaves ==
    TypeOK /\ PlanInv /\ LedgerInv /\ (TimesOut \/ SqlMissing \/ LoopEnds) => LedgerInv'
<1> SUFFICES ASSUME TypeOK, PlanInv, LedgerInv, TimesOut \/ SqlMissing \/ LoopEnds
             PROVE  LedgerInv'
  OBVIOUS
<1>1. /\ UNCHANGED <<disk, text, status, config, artifact, outcomes>>
      /\ pc = "loop" /\ pc' = "hooks"
  BY DEF TimesOut, SqlMissing, LoopEnds, InLoop, Halt, project, rows
<1>2. /\ sound' # "no" => ~Forgets(Undone)
      /\ sound' = "yes" => \/ sound = "yes"
                           \/ /\ sound = "mending" /\ at > Len(steps)
                              /\ \A t \in Undone : status[t] # "success"
      /\ sound' # "mending"
  BY DEF TimesOut, SqlMissing, LoopEnds, InLoop, Unshown, TypeOK
<1>3. ASSUME NEW s \in Steps, Trusted(s)' PROVE Trusted(s)
  <2>1. Vouches(s) /\ ~InHand(s) /\ sound' = "yes"
    BY <1>1, <1>2, <1>3 DEF Trusted, Vouches, InHand
  <2>2. CASE sound = "yes"
    BY <2>1, <2>2 DEF Trusted
  <2>3. CASE /\ sound = "mending" /\ at > Len(steps)
             /\ \A t \in Undone : status[t] # "success"
    <3>1. outcomes[s] # "none"
      BY <2>1, <2>3 DEF Undone, Vouches
    <3>2. PICK k \in 1..(at - 1) : s = steps[k]
      BY <1>1, <3>1 DEF PlanInv, Looping
    <3>3. s \in stale
      BY <2>3, <3>2, ListFacts DEF PlanInv
    <3>4. outcomes[s] = "success"
      BY <1>1, <3>2, <3>3 DEF PlanInv, Looping
    <3> QED BY <2>1, <2>3, <3>4 DEF Trusted
  <2> QED BY <1>2, <2>1, <2>2, <2>3
<1>4. ASSUME NEW s \in Steps, NEW u \in Steps, NEW a \in Outside(s), Trusted(s)', Trusted(u)',
             a \in Produces[u][text[u]], Waits(s, u)
      PROVE  FALSE
  <2>1. Vouches(s) /\ sound' # "no" /\ s \in Undone
    BY <1>3, <1>4 DEF Trusted, Waits, Undone
  <2> QED BY <1>2, <1>4, <2>1, WaitsIsForgotten
<1> QED BY <1>1, <1>3, <1>4, LedgerSame

\* What an attempt may change, cut short or not.
LEMMA AttemptTouches ==
    ASSUME TypeOK, disk' \in LeftByAttempt \/ disk' = Written(disk, Cur, readText, readInputs),
           pc # "running" => disk' \in LeftByAttempt, NEW a \in Assets, disk'[a] # disk[a]
    PROVE  pc = "running" /\ a \in Produces[Cur][readText]
BY DEF LeftByAttempt, Spoiled, Written

\* What a trusted row stands for is out of reach of the attempt in hand.
LEMMA TrustedIsApart ==
    ASSUME TypeOK, HandInv, NEW s \in Steps, Trusted(s), pc = "running",
           NEW b \in Produces[s][text[s]]
    PROVE  b \notin Produces[Cur][readText]
<1>1. s # Cur /\ Vouches(s) /\ sound # "no"
  BY DEF Trusted, InHand
<1> QED BY <1>1 DEF HandInv

\* An attempt writes, or leaves what it had written to be tried again.
LEMMA LedgerTried ==
    TypeOK /\ HandInv /\ LedgerInv /\ (Retry \/ Executes) => LedgerInv'
<1> SUFFICES ASSUME TypeOK, HandInv, LedgerInv, Retry \/ Executes PROVE LedgerInv'
  OBVIOUS
<1>1. /\ UNCHANGED <<text, status, config, artifact, outcomes, steps, at, sound>>
      /\ pc \in {"attempt", "running"} /\ pc' \in {"attempt", "record"}
      /\ disk' \in LeftByAttempt \/ disk' = Written(disk, Cur, readText, readInputs)
      /\ pc # "running" => disk' \in LeftByAttempt
  BY DEF Retry, Executes, project, rows, plan, report
<1>2. \A s \in Steps : Trusted(s)' => Trusted(s)
  BY <1>1 DEF Trusted, Vouches, InHand, Cur
<1>3. ASSUME NEW s \in Steps, Trusted(s), NEW b \in Produces[s][text[s]]
      PROVE  disk'[b] = disk[b]
  <2>1. b \in Assets
    BY <1>3, TrustedKinds
  <2> QED BY <1>1, <1>3, <2>1, AttemptTouches, TrustedIsApart
<1>4. \A s, u \in Steps : Waits(s, u) => Waits(s, u)'
  BY <1>1 DEF Waits, Looping
<1> QED BY <1>1, <1>2, <1>3, <1>4, LedgerKept

\* The run is cut short, by an attempt that fails or by the end of the process.
LEMMA LedgerCutShort ==
    TypeOK /\ HandInv /\ LedgerInv /\ (StepFails \/ Crash) => LedgerInv'
<1> SUFFICES ASSUME TypeOK, HandInv, LedgerInv, StepFails \/ Crash PROVE LedgerInv'
  OBVIOUS
<1>1. /\ UNCHANGED <<text, steps, at>>
      /\ disk' \in LeftByAttempt /\ pc' \in {"hooks", "idle"} /\ sound' # "mending"
      /\ sound' # "no" => sound = "yes"
  BY DEF StepFails, Crash, Halt, Unshown, TypeOK, project, plan
<1>2. ASSUME NEW s \in Steps, Trusted(s)'
      PROVE  Trusted(s) /\ artifact'[s] = artifact[s]
  <2>1. sound' = "yes" /\ sound = "yes" /\ Vouches(s)'
    BY <1>1, <1>2 DEF Trusted
  <2>2. CASE Crash
    <3>1. Vouches(s) /\ artifact'[s] = artifact[s]
      BY <2>1, <2>2 DEF Crash, Vouches, rows
    <3>2. ~InHand(s)
      BY <2>1, <2>2, <3>1 DEF Crash, Unshown, InHand, Vouches
    <3> QED BY <2>1, <3>1, <3>2 DEF Trusted
  <2>3. CASE StepFails
    <3>1. s # Cur
      <4>1. RowSpeaks(Cur) /\ RecordStep(Cur, "failed", Withheld)
        BY <2>1, <2>3 DEF StepFails, Unshown
      <4>2. status'[Cur] # "success"
        <5>1. Cur \in Steps /\ faults \in Nat
          BY <2>3, HandIsListed DEF StepFails, TypeOK
        <5> QED BY <4>1, <5>1 DEF RecordStep, RowSpeaks, TypeOK, rows
      <4> QED BY <2>1, <4>2 DEF Vouches
    <3>2. Vouches(s) /\ artifact'[s] = artifact[s]
      BY <1>1, <2>1, <2>3, <3>1 DEF StepFails, RecordStep, Vouches, TypeOK, rows
    <3> QED BY <2>1, <3>1, <3>2 DEF Trusted, InHand
  <2> QED BY <2>2, <2>3
<1>3. ASSUME NEW s \in Steps, Trusted(s), NEW b \in Produces[s][text[s]]
      PROVE  disk'[b] = disk[b]
  <2>1. b \in Assets
    BY <1>3, TrustedKinds
  <2> QED BY <1>1, <1>3, <2>1, AttemptTouches, TrustedIsApart
<1>4. ASSUME NEW s \in Steps, NEW u \in Steps, NEW a \in Outside(s), Trusted(s)', Trusted(u)',
             a \in Produces[u][text[u]], Waits(s, u)
      PROVE  FALSE
  <2>1. Vouches(s) /\ ~InHand(s) /\ sound' = "yes" /\ s \in Undone
    BY <1>1, <1>2, <1>4 DEF Trusted, Waits, Undone
  <2>2. CASE Crash
    <3>1. Forgets(Undone)
      BY <1>4, <2>1, WaitsIsForgotten
    <3> QED BY <1>4, <2>1, <2>2, <3>1 DEF Crash, Unshown, Waits, Looping
  <2>3. CASE StepFails
    <3>1. Forgets(Undone \ {Cur})
      BY <1>4, <2>1, <2>3, WaitsIsForgotten DEF StepFails, InHand
    <3> QED BY <2>1, <2>3, <3>1 DEF StepFails, Unshown
  <2> QED BY <2>2, <2>3
<1> QED BY <1>1, <1>2, <1>3, <1>4, LedgerKept

\* What a step recorded as a success leaves, when its row vouches for it.
LEMMA RecordedStands ==
    ASSUME ContentsApart, TypeOK, TextInv, HandInv, Record, NEW s \in Steps, s = Cur,
           Vouches(s)', sound' # "no"
    PROVE  /\ AsGraphed(s, text[s]) /\ sound # "no"
           /\ \A a \in Produces[s][text[s]] \cup Reads[s][text[s]] : AssetKind[a] # "remote"
           /\ \A b \in Produces[s][text[s]] :
                 /\ MadeBy(s, b, disk[b]) /\ RowHas(s, b)' = disk[b]
                 /\ \A a \in Outside(s) :
                       /\ disk[b].inputs[a] = disk[a]
                       /\ artifact'[s][a] \in {disk[a], Nothing}
<1>1. /\ artifact' = [artifact EXCEPT ![s] = ArtifactHash(disk, s)]
      /\ readText = text[s] /\ artifact'[s] # Withheld
  BY RecordedAsRead DEF Vouches
<1>2. artifact'[s] = ArtifactHash(disk, s) /\ ArtifactHash(disk, s) # Withheld
  BY <1>1 DEF TypeOK
<1>3. pc = "record" /\ UNCHANGED <<disk, text>> /\ sound # "no"
  BY DEF Record, Unshown, project
<1>4. /\ AsGraphed(s, text[s]) /\ readInputs = Inputs(disk, s, text[s])
      /\ \A b \in Produces[s][text[s]] : disk[b] = Output(s, b, text[s], readInputs)
  BY <1>1, <1>3 DEF HandInv
<1>5. artifact'[s] = [a \in Assets |-> IF a \in AnswersFor(s) /\ Readable(disk, a)
                                         THEN disk[a] ELSE Nothing]
      /\ \A a \in graph.produces[s] \cup graph.reads[s] : AssetKind[a] # "remote"
  BY <1>2 DEF ArtifactHash
<1>6. \A b \in Produces[s][text[s]] \cup Reads[s][text[s]] : b \in Assets
  BY <1>4 DEF AsGraphed, TypeOK, Graphs
<1>7. ASSUME NEW b \in Produces[s][text[s]]
      PROVE  /\ MadeBy(s, b, disk[b]) /\ RowHas(s, b)' = disk[b]
             /\ \A a \in Outside(s) : /\ disk[b].inputs[a] = disk[a]
                                      /\ artifact'[s][a] \in {disk[a], Nothing}
  <2>1. disk[b] = Output(s, b, text[s], readInputs) /\ b \in Assets
    BY <1>4, <1>6
  <2>2. disk[b] \notin Sources \cup {Absent, Garbage, Nothing}
    BY <2>1 DEF ContentsApart, Output
  <2>3. MadeBy(s, b, disk[b])
    BY <2>1, <2>2 DEF MadeBy, Made, Output
  <2>4. RowHas(s, b)' = disk[b]
    <3>1. AssetKind[b] \in HashedKinds => b \in AnswersFor(s) /\ Readable(disk, b)
      BY <1>4, <2>1, <2>2 DEF AnswersFor, Readable, AsGraphed
    <3> QED BY <1>3, <1>5, <2>1, <3>1 DEF RowHas
  <2>5. ASSUME NEW a \in Outside(s)
        PROVE  disk[b].inputs[a] = disk[a] /\ artifact'[s][a] \in {disk[a], Nothing}
    <3>1. a \in Assets /\ a \in Reads[s][text[s]] \ Produces[s][text[s]]
      BY <1>6 DEF Outside
    <3>2. disk[b].inputs[a] = disk[a]
      BY <1>4, <2>1, <3>1 DEF Output, Inputs
    <3> QED BY <1>5, <3>1, <3>2
  <2> QED BY <2>3, <2>4, <2>5
<1> QED BY <1>3, <1>4, <1>5, <1>7 DEF AsGraphed

\* A step the run is done with reads nothing of what the step in hand makes.
LEMMA DoneReadsNoneOfIt ==
    ASSUME TypeOK, PlanInv, Looping, sound # "no", at <= Len(steps), Cur \in stale,
           NEW s \in StepsOf(steps), s # Cur, AsGraphed(s, text[s]),
           s \notin stale \/ outcomes[s] = "success",
           NEW a \in Outside(s), a \in graph.produces[Cur]
    PROVE  FALSE
<1>1. at \in 1..Len(steps) /\ at \in Nat /\ Cur \in Steps /\ s \in Steps
  BY ListFacts
<1>2. CASE s \notin stale
  <2>1. Feeds(graph, Cur, s)
    BY DEF AsGraphed, Feeds, Outside
  <2> QED BY <1>2, <2>1 DEF PlanInv, Planned
<1>3. CASE outcomes[s] = "success"
  <2>1. PICK k \in 1..(at - 1) : s = steps[k]
    BY <1>1, <1>3 DEF PlanInv
  <2>2. k \in 1..Len(steps) /\ k < at
    BY <1>1, <2>1
  <2>3. a \in OutsideReads(graph, steps[k]) /\ ValidateOrder(graph, steps)
    BY <2>1 DEF AsGraphed, OutsideReads, Outside, PlanInv, Planned
  <2>4. PICK j \in 1..(k - 1) : a \in graph.produces[steps[j]]
    BY <1>1, <2>2, <2>3 DEF ValidateOrder, Cur
  <2>5. j \in 1..Len(steps) /\ j # at /\ steps[j] \in Steps
    BY <1>1, <2>2, <2>4, ListFacts
  <2>6. steps[j] # Cur
    BY <1>1, <2>5, ListFacts DEF Cur
  <2>7. SingleProducer(graph)
    BY DEF PlanInv, Planned
  <2> QED BY <1>1, <2>4, <2>5, <2>6, <2>7 DEF SingleProducer
<1> QED BY <1>2, <1>3

LEMMA LedgerRecord ==
    ASSUME ContentsApart, TypeOK, TextInv, PlanInv, HandInv, LedgerInv, Record
    PROVE  LedgerInv'
<1>1. /\ pc = "record" /\ pc' = "loop" /\ at <= Len(steps) /\ Cur \in stale /\ Cur \in Steps
      /\ outcomes' = [outcomes EXCEPT ![Cur] = "success"] /\ sound' \in {sound, "no"}
      /\ UNCHANGED <<disk, text>>
  BY HandIsListed DEF Record, Unshown, PlanInv, TypeOK, project
<1>2. ASSUME NEW s \in Steps, s # Cur
      PROVE  /\ status'[s] = status[s] /\ config'[s] = config[s] /\ artifact'[s] = artifact[s]
             /\ outcomes'[s] = outcomes[s]
  BY <1>1, <1>2 DEF Record, RecordStep, rows, TypeOK
<1>3. ASSUME NEW s \in Steps, s # Cur, Trusted(s)'
      PROVE  Trusted(s) /\ \A b : RowHas(s, b)' = RowHas(s, b)
  BY <1>1, <1>2, <1>3 DEF Trusted, Vouches, InHand, RowHas
<1>4. ASSUME NEW s \in Steps, s = Cur, Trusted(s)'
      PROVE  Vouches(s)' /\ sound' # "no"
  BY <1>4 DEF Trusted
<1>5. ASSUME NEW s \in Steps, Trusted(s)'
      PROVE  /\ \A a \in Produces[s][text[s]] \cup Reads[s][text[s]] : AssetKind[a] # "remote"
             /\ \A b \in Produces[s][text[s]] :
                  /\ MadeBy(s, b, RowHas(s, b)')
                  /\ \A a \in Outside(s) :
                       IF artifact'[s][a] # Nothing
                         THEN RowHas(s, b)'.inputs[a] = artifact'[s][a]
                         ELSE \A u \in Steps :
                                /\ Trusted(u)' /\ a \in Produces[u][text[u]]
                                /\ RowHas(u, a)' = disk[a]
                                => RowHas(s, b)'.inputs[a] = disk[a] \/ Waits(s, u)'
  <2>1. CASE s = Cur
    <3>1. /\ \A a \in Produces[s][text[s]] \cup Reads[s][text[s]] : AssetKind[a] # "remote"
          /\ \A b \in Produces[s][text[s]] :
                /\ MadeBy(s, b, disk[b]) /\ RowHas(s, b)' = disk[b]
                /\ \A a \in Outside(s) : disk[b].inputs[a] = disk[a]
                                         /\ artifact'[s][a] \in {disk[a], Nothing}
      BY <1>4, <1>5, <2>1, RecordedStands
    <3> QED BY <3>1
  <2>2. CASE s # Cur
    <3>1. Trusted(s) /\ artifact'[s] = artifact[s] /\ \A b : RowHas(s, b)' = RowHas(s, b)
      BY <1>2, <1>3, <1>5, <2>2
    <3>2. ASSUME NEW b \in Produces[s][text[s]], NEW a \in Outside(s),
                 artifact[s][a] = Nothing, NEW u \in Steps, Trusted(u)',
                 a \in Produces[u][text[u]], RowHas(u, a)' = disk[a]
          PROVE  RowHas(s, b).inputs[a] = disk[a] \/ Waits(s, u)'
      <4>1. CASE u # Cur
        <5>1. Trusted(u) /\ RowHas(u, a) = disk[a]
          BY <1>3, <3>2, <4>1
        <5>2. RowHas(s, b).inputs[a] = disk[a] \/ Waits(s, u)
          BY <3>1, <3>2, <5>1 DEF LedgerInv
        <5> QED BY <1>1, <1>2, <2>2, <4>1, <5>2 DEF Waits, Looping
      <4>2. CASE u = Cur
        <5>1. AsGraphed(u, text[u]) /\ sound # "no"
          BY <1>4, <3>2, <4>2, RecordedStands
        <5>2. a \in graph.produces[Cur] /\ Vouches(s) /\ Looping
          BY <1>1, <3>1, <3>2, <4>2, <5>1 DEF AsGraphed, Trusted, Looping
        <5>3. ASSUME outcomes[s] # "none" PROVE FALSE
          <6>1. PICK k \in 1..(at - 1) : s = steps[k]
            BY <5>2, <5>3 DEF PlanInv
          <6>2. s \in StepsOf(steps) /\ (s \notin stale \/ outcomes[s] = "success")
            BY <1>1, <5>2, <6>1, ListFacts DEF PlanInv
          <6>3. AsGraphed(s, text[s])
            BY <5>1, <5>2, <6>2 DEF PlanInv, Planned, Vouches
          <6> QED BY <1>1, <2>2, <3>2, <5>1, <5>2, <6>2, <6>3, DoneReadsNoneOfIt
        <5> QED BY <1>1, <1>2, <2>2, <4>2, <5>3 DEF Waits, Looping, TypeOK
      <4> QED BY <4>1, <4>2
    <3>3. /\ \A a \in Produces[s][text[s]] \cup Reads[s][text[s]] : AssetKind[a] # "remote"
          /\ \A b \in Produces[s][text[s]] :
                /\ MadeBy(s, b, RowHas(s, b))
                /\ \A a \in Outside(s) :
                      artifact[s][a] # Nothing => RowHas(s, b).inputs[a] = artifact[s][a]
      BY <3>1 DEF LedgerInv
    <3> QED BY <3>1, <3>2, <3>3
  <2> QED BY <2>1, <2>2
<1>6. \A s \in Steps : Outside(s)' = Outside(s)
  BY <1>1 DEF Outside
<1>7. \A s \in Steps : \A b : MadeBy(s, b, RowHas(s, b)') => MadeBy(s, b, RowHas(s, b))'
  BY <1>1 DEF MadeBy, Made, Output
<1> QED BY <1>1, <1>5, <1>6, <1>7 DEF LedgerInv

\* An edit puts in an asset what no step makes, and none of a table goes unflagged.
LEMMA LedgerEdit ==
    ASSUME ContentsApart, TypeOK, TextInv, LedgerInv, Person \/ UNCHANGED vars
    PROVE  LedgerInv'
<1>1. /\ UNCHANGED <<pc, status, config, artifact, outcomes, at, steps>>
      /\ sound' \in {sound, "no"}
  BY DEF Person, EditText, MoveSql, EditOrder, EditAsset, Edit, Unshown, vars, rows, plan, report
<1>2. ASSUME NEW s \in Steps, Trusted(s)'
      PROVE  Trusted(s) /\ text'[s] = text[s] /\ sound' # "no"
  <2>1. Vouches(s)' /\ ~InHand(s) /\ sound' # "no"
    BY <1>1, <1>2 DEF Trusted, InHand, Cur
  <2> QED BY <1>1, <1>2, <2>1, VouchedBefore DEF Trusted
<1>3. ASSUME sound' # "no", NEW a \in Assets, disk'[a] # disk[a]
      PROVE  disk'[a] \in Sources \cup {Absent} /\ AssetKind[a] # "table"
  <2>1. PICK e \in Assets : EditAsset(e)
    BY <1>3 DEF Person, EditText, MoveSql, EditOrder, vars, project
  <2>2. PICK c \in Sources \cup {Absent} : disk' = [disk EXCEPT ![e] = c]
    BY <2>1 DEF EditAsset
  <2>3. a = e /\ disk'[a] = c
    BY <1>3, <2>2 DEF TypeOK
  <2> QED BY <1>3, <2>1, <2>3 DEF EditAsset, Unshown, Unseen
<1>4. ASSUME NEW u \in Steps, Trusted(u)', NEW a \in Produces[u][text[u]],
             disk'[a] # disk[a]
      PROVE  AssetKind[a] # "table" /\ RowHas(u, a)' # disk'[a]
  <2>1. Trusted(u) /\ a \in Assets /\ (AssetKind[a] \in HashedKinds \/ AssetKind[a] = "table")
    BY <1>2, <1>4, TrustedKinds
  <2>2. disk'[a] \in Sources \cup {Absent} /\ AssetKind[a] # "table" /\ AssetKind[a] \in HashedKinds
    BY <1>2, <1>3, <1>4, <2>1
  <2>3. RowHas(u, a)' = RowHas(u, a)
    BY <1>1, <2>2 DEF RowHas
  <2>4. Made(RowHas(u, a))
    BY <2>1, <1>4 DEF LedgerInv, MadeBy
  <2> QED BY <2>2, <2>3, <2>4 DEF Made
<1>5. \A s, u \in Steps : Waits(s, u) => Waits(s, u)'
  BY <1>1 DEF Waits, Looping
<1> QED BY <1>1, <1>2, <1>4, <1>5, LedgerKept

LEMMA LedgerStep ==
    ASSUME ContentsApart, TypeOK, TextInv, PlanInv, HandInv, LedgerInv, [Next]_vars
    PROVE  LedgerInv'
BY LedgerQuiet, LedgerSkip, LedgerLeaves, LedgerTried, LedgerCutShort, LedgerRecord, LedgerEdit
   DEF Next, Process

-----------------------------------------------------------------------------
(* What the run is done with stands. *)

\* A step that leaves alone what a step's products and freshness hang on.
LEMMA StandsQuiet ==
    ASSUME StandsInv,
           UNCHANGED <<text, gone, disk, status, config, artifact, steps, loaded, graph>>,
           settled' => settled, sound' # "no" => sound # "no", faults' = 0 => faults = 0,
           \A s \in StepsOf(steps) : Settles(s)' => Settles(s)
    PROVE  StandsInv'
<1> SUFFICES ASSUME settled', NEW s \in StepsOf(steps), Settles(s)'
             PROVE  /\ s \notin gone
                    /\ sound' # "no" => Current(s)'
                    /\ faults' = 0 /\ SingleProducer(graph') /\ IsHashStale(s)' => Remote(s)'
  BY DEF StandsInv
<1>1. /\ s \notin gone
      /\ sound # "no" => Current(s)
      /\ faults = 0 /\ SingleProducer(graph) /\ IsHashStale(s) => Remote(s)
  BY DEF StandsInv
<1>2. Current(s) => Current(s)'
  BY DEF Current, MadeBy, Made, Output, Answered, Outside, Readable
<1>3. IsHashStale(s)' => IsHashStale(s)
  BY DEF IsHashStale, ConfigStale, TextNow, ArtifactStale, ArtifactHash, AnswersFor, Readable
<1>4. (Remote(s) => Remote(s)') /\ (SingleProducer(graph') => SingleProducer(graph))
  BY DEF Remote
<1> QED BY <1>1, <1>2, <1>3, <1>4

\* A step after which the run is done with nothing, or nothing is settled.
LEMMA StandsNothing ==
    ASSUME ~settled' \/ \A s \in StepsOf(steps') : ~Settles(s)'
    PROVE  StandsInv'
BY DEF StandsInv

\* What a fresh step's row says of its products is how they are.
LEMMA FreshSpeaks ==
    ASSUME ContentsApart, TypeOK, PlanInv, HandInv, SettledInv, LedgerInv, Plan, settled,
           sound' # "no", NEW s \in StepsOf(steps) \ stale'
    PROVE  /\ Trusted(s) /\ AsGraphed(s, text[s])
           /\ artifact[s] = [a \in Assets |-> IF a \in AnswersFor(s) /\ Readable(disk, a)
                                                THEN disk[a] ELSE Nothing]
           /\ \A b \in Produces[s][text[s]] : MadeBy(s, b, disk[b]) /\ RowHas(s, b) = disk[b]
<1>1. /\ s \in Steps /\ sound = "yes" /\ status[s] = "success" /\ ~IsHashStale(s)
      /\ AsGraphed(s, TextNow(s)) /\ TextNow(s) = text[s]
  <2>1. s \in Steps /\ TextNow(s) = text[s]
    BY ListFacts DEF SettledInv, TextNow
  <2> QED BY <2>1, PlanChooses
<1>2. /\ config[s] = text[s] /\ ArtifactHash(disk, s) = artifact[s] /\ artifact[s] # Withheld
  BY <1>1 DEF IsHashStale, ConfigStale, ArtifactStale
<1>3. Trusted(s)
  BY <1>1, <1>2 DEF Trusted, Vouches, InHand, Plan
<1>4. artifact[s] = [a \in Assets |-> IF a \in AnswersFor(s) /\ Readable(disk, a)
                                        THEN disk[a] ELSE Nothing]
  BY <1>2 DEF ArtifactHash
<1>5. ASSUME NEW b \in Produces[s][text[s]]
      PROVE  MadeBy(s, b, disk[b]) /\ RowHas(s, b) = disk[b]
  <2>1. MadeBy(s, b, RowHas(s, b)) /\ b \in Assets /\ RowHas(s, b) # Nothing
    BY <1>1, <1>3, TrustedKinds DEF LedgerInv, MadeBy, Made
  <2>2. RowHas(s, b) = disk[b]
    BY <1>4, <2>1 DEF RowHas
  <2> QED BY <2>1, <2>2
<1> QED BY <1>1, <1>3, <1>4, <1>5

\* A step the plan leaves alone is current.
LEMMA FreshIsCurrent ==
    ASSUME ContentsApart, TypeOK, PlanInv, HandInv, SettledInv, LedgerInv, Plan, settled,
           sound' # "no", NEW s \in StepsOf(steps) \ stale'
    PROVE  Current(s)
<1>1. /\ Trusted(s) /\ AsGraphed(s, text[s]) /\ s \in Steps
      /\ artifact[s] = [a \in Assets |-> IF a \in AnswersFor(s) /\ Readable(disk, a)
                                           THEN disk[a] ELSE Nothing]
      /\ \A b \in Produces[s][text[s]] : MadeBy(s, b, disk[b]) /\ RowHas(s, b) = disk[b]
  BY FreshSpeaks, ListFacts
<1>2. ASSUME NEW b \in Produces[s][text[s]], NEW a \in Answered(s)
      PROVE  disk[b].inputs[a] = disk[a]
  <2>1. a \in Outside(s) /\ a \in Assets /\ a \in graph.reads[s] /\ a \notin graph.produces[s]
    BY <1>1, TrustedKinds DEF Answered, Outside, AsGraphed
  <2>2. CASE a \in AllProduced(graph)
    <3>1. PICK u \in Steps : a \in graph.produces[u]
      BY <2>2 DEF AllProduced
    <3>2. u \in StepsOf(steps)
      BY <3>1 DEF PlanInv
    <3>3. u \notin stale'
      BY <2>1, <3>1, PlanChooses DEF Feeds
    <3>4. Trusted(u) /\ a \in Produces[u][text[u]] /\ RowHas(u, a) = disk[a]
      BY <3>1, <3>2, <3>3, FreshSpeaks DEF AsGraphed
    <3>5. artifact[s][a] = Nothing
      BY <1>1, <2>1, <2>2 DEF AnswersFor
    <3>6. ~Waits(s, u)
      BY DEF Waits, Looping, Plan
    <3> QED BY <1>1, <1>2, <2>1, <3>1, <3>4, <3>5, <3>6 DEF LedgerInv
  <2>3. CASE a \notin AllProduced(graph)
    <3>1. a \in AnswersFor(s) /\ Readable(disk, a)
      BY <1>2, <2>1, <2>3 DEF Answered, AnswersFor
    <3>2. artifact[s][a] = disk[a] /\ disk[a] # Nothing
      BY <1>1, <2>1, <3>1 DEF HandInv
    <3> QED BY <1>1, <1>2, <2>1, <3>2 DEF LedgerInv
  <2> QED BY <2>2, <2>3
<1> QED BY <1>1, <1>2 DEF Current

LEMMA StandsPlan ==
    ASSUME ContentsApart, TypeOK, PlanInv, HandInv, SettledInv, LedgerInv, Plan
    PROVE  StandsInv'
<1>1. /\ UNCHANGED <<text, gone, disk, status, config, artifact, steps, loaded, graph, settled,
                     outcomes, faults>>
      /\ pc = "started" /\ pc' \in {"init", "loop"}
  BY DEF Plan, project, rows, report, bounds
<1> SUFFICES ASSUME settled', NEW s \in StepsOf(steps), Settles(s)'
             PROVE  /\ s \notin gone
                    /\ sound' # "no" => Current(s)'
                    /\ ~IsHashStale(s)'
  BY <1>1 DEF StandsInv
<1>2. s \in Steps /\ s \notin stale'
  <2>1. outcomes[s] = "none" /\ s \in Steps
    BY <1>1, ListFacts DEF PlanInv
  <2> QED BY <1>1, <2>1 DEF Settles, AfterSteps
<1>3. ~IsHashStale(s)
  BY <1>2, PlanChooses
<1>4. s \notin gone
  <2>1. s \in gone => StepKind[s] = "sql"
    BY DEF SettledInv
  <2> QED BY <1>2, <1>3, <2>1 DEF IsHashStale, ConfigStale, TypeOK
<1>5. ~IsHashStale(s)'
  BY <1>1, <1>3
     DEF IsHashStale, ConfigStale, TextNow, ArtifactStale, ArtifactHash, AnswersFor, Readable
<1>6. sound' # "no" => Current(s)'
  <2>1. sound' # "no" => Current(s)
    BY <1>1, <1>2, FreshIsCurrent
  <2>2. Current(s) => Current(s)'
    BY <1>1 DEF Current, MadeBy, Made, Output, Answered, Outside, Readable
  <2> QED BY <2>1, <2>2
<1> QED BY <1>4, <1>5, <1>6

\* The step in hand is not one the run is done with.
LEMMA HandIsUndone ==
    ASSUME TypeOK, PlanInv, pc \in {"attempt", "running", "record"}
    PROVE  Cur \in stale /\ outcomes[Cur] = "none" /\ ~Settles(Cur)
<1>1. Cur \in stale /\ at \in 1..Len(steps) /\ Cur \in Steps
  BY ListFacts, HandIsListed DEF PlanInv
<1>2. outcomes[Cur] = "none"
  <2> SUFFICES ASSUME outcomes[Cur] # "none" PROVE FALSE
    OBVIOUS
  <2>1. PICK k \in 1..(at - 1) : Cur = steps[k]
    BY <1>1 DEF PlanInv, Looping
  <2>2. k \in 1..Len(steps) /\ k # at
    BY <1>1, <2>1
  <2> QED BY <1>1, <2>1, <2>2, ListFacts DEF Cur
<1>3. ~Settles(Cur)
  BY <1>1, <1>2 DEF Settles, AfterSteps
<1> QED BY <1>1, <1>2, <1>3

\* An attempt of one step leaves what the run is done with as it stands.
LEMMA StandsTried ==
    ASSUME TypeOK, PlanInv, HandInv, SettledInv, StandsInv, Retry \/ Executes
    PROVE  StandsInv'
<1>1. /\ UNCHANGED <<text, gone, status, config, artifact, steps, loaded, graph, settled, stale,
                     outcomes, sound, faults, at>>
      /\ pc \in {"attempt", "running"} /\ pc' \in {"attempt", "record"}
      /\ disk' \in LeftByAttempt \/ disk' = Written(disk, Cur, readText, readInputs)
      /\ pc # "running" => disk' \in LeftByAttempt
  BY DEF Retry, Executes, project, rows, plan, report, bounds
<1> SUFFICES ASSUME settled, NEW s \in StepsOf(steps), Settles(s)'
             PROVE  /\ s \notin gone
                    /\ sound # "no" => Current(s)'
                    /\ faults = 0 /\ SingleProducer(graph) /\ IsHashStale(s)' => Remote(s)'
  BY <1>1 DEF StandsInv
<1>2. /\ Settles(s) /\ s \in Steps /\ (s \notin stale \/ outcomes[s] = "success")
      /\ s # Cur /\ Cur \in stale /\ Cur \in Steps /\ at <= Len(steps) /\ Looping
  BY <1>1, ListFacts, HandIsListed, HandIsUndone DEF Settles, Planned, Looping, AfterSteps
<1>3. /\ s \notin gone
      /\ sound # "no" => Current(s)
      /\ faults = 0 /\ SingleProducer(graph) /\ IsHashStale(s) => Remote(s)
  BY <1>2 DEF StandsInv
<1>4. AsGraphed(s, text[s])
  BY <1>2, <1>3, SettledGraph DEF SettledInv, TextNow
<1>5. ASSUME NEW a \in Assets, disk'[a] # disk[a]
      PROVE  a \in graph.produces[Cur]
  BY <1>1, <1>5, AttemptTouches DEF HandInv, AsGraphed
<1>6. ASSUME SingleProducer(graph) PROVE \A b \in graph.produces[s] : disk'[b] = disk[b]
  BY <1>2, <1>5, <1>6 DEF SingleProducer, TypeOK, Graphs
<1>7. ASSUME sound # "no" PROVE Current(s)'
  <2>1. SingleProducer(graph) /\ Current(s)
    BY <1>2, <1>3, <1>7 DEF PlanInv, Planned
  <2>2. ASSUME NEW a \in Outside(s) PROVE a \in Assets /\ disk'[a] = disk[a]
    <3>1. a \in Assets
      BY <1>2, <1>4 DEF Outside, AsGraphed, TypeOK, Graphs
    <3> QED BY <1>2, <1>4, <1>5, <1>7, <3>1, DoneReadsNoneOfIt
  <2>3. \A b \in Produces[s][text[s]] : disk'[b] = disk[b]
    BY <1>4, <1>6, <2>1 DEF AsGraphed
  <2>4. \A a \in Answered(s)' : a \in Answered(s) /\ disk'[a] = disk[a]
    BY <1>1, <2>2 DEF Answered, Outside, Readable
  <2> QED BY <1>1, <2>1, <2>3, <2>4 DEF Current, MadeBy, Made, Output
<1>8. ASSUME SingleProducer(graph) PROVE IsHashStale(s)' => IsHashStale(s)
  <2>1. \A a \in AnswersFor(s) : disk'[a] = disk[a]
    BY <1>2, <1>5, <1>6, <1>8 DEF AnswersFor, AllProduced
  <2>2. ArtifactHash(disk', s) = ArtifactHash(disk, s)
    BY <2>1 DEF ArtifactHash, Readable
  <2>3. ArtifactHash(disk, s)' = ArtifactHash(disk', s)
    BY <1>1 DEF ArtifactHash, AnswersFor, Readable
  <2> QED BY <1>1, <2>2, <2>3 DEF IsHashStale, ConfigStale, TextNow, ArtifactStale
<1>9. Remote(s) => Remote(s)'
  BY <1>1 DEF Remote
<1> QED BY <1>3, <1>7, <1>8, <1>9

\* A step that has just been recorded is current, and its row says so.
LEMMA StandsRecord ==
    ASSUME ContentsApart, TypeOK, PlanInv, HandInv, SettledInv, StandsInv, Record
    PROVE  StandsInv'
<1>1. /\ UNCHANGED <<text, gone, disk, steps, loaded, graph, settled, stale>>
      /\ pc = "record" /\ pc' = "loop" /\ Cur \in Steps
      /\ outcomes' = [outcomes EXCEPT ![Cur] = "success"] /\ sound' \in {sound, "no"}
      /\ faults' = 0 => /\ faults = 0
                        /\ status' = [status EXCEPT ![Cur] = "success"]
                        /\ config' = [config EXCEPT ![Cur] = hash]
                        /\ artifact' = [artifact EXCEPT ![Cur] = ArtifactHash(disk, Cur)]
  BY HandIsListed DEF Record, RecordStep, Unshown, TypeOK, project, plan
<1> SUFFICES ASSUME settled, NEW s \in StepsOf(steps), Settles(s)'
             PROVE  /\ s \notin gone
                    /\ sound' # "no" => Current(s)'
                    /\ faults' = 0 /\ SingleProducer(graph) /\ IsHashStale(s)' => Remote(s)'
  BY <1>1 DEF StandsInv
<1>2. s \in Steps
  BY ListFacts
<1>3. /\ Current(s) => Current(s)'
      /\ Remote(s) => Remote(s)'
      /\ \A t \in Steps : ArtifactHash(disk, t)' = ArtifactHash(disk, t)
  BY <1>1 DEF Current, MadeBy, Made, Output, Answered, Outside, Readable, Remote,
              ArtifactHash, AnswersFor
<1>4. CASE s # Cur
  <2>1. Settles(s)
    BY <1>1, <1>2, <1>4 DEF Settles, Planned, Looping, AfterSteps, TypeOK
  <2>2. /\ s \notin gone
        /\ sound # "no" => Current(s)
        /\ faults = 0 /\ SingleProducer(graph) /\ IsHashStale(s) => Remote(s)
    BY <2>1 DEF StandsInv
  <2>3. faults' = 0 /\ IsHashStale(s)' => IsHashStale(s)
    BY <1>1, <1>2, <1>3, <1>4 DEF IsHashStale, ConfigStale, TextNow, ArtifactStale, TypeOK
  <2> QED BY <1>1, <1>3, <2>2, <2>3
<1>5. CASE s = Cur
  <2>1. /\ s \notin gone /\ hash = text[s] /\ readText = text[s] /\ TextNow(s) = text[s]
        /\ AsGraphed(s, text[s]) /\ readInputs = Inputs(disk, s, text[s])
        /\ \A b \in Produces[s][text[s]] : disk[b] = Output(s, b, text[s], readInputs)
        /\ \A b \in Produces[s][text[s]] : b \in Assets
        /\ \A a \in Outside(s) : a \in Assets
    <3>1. s \notin gone /\ hash = text[s] /\ readText = text[s] /\ TextNow(s) = text[s]
      BY <1>1, <1>5 DEF SettledInv, TextNow
    <3>2. /\ AsGraphed(s, text[s]) /\ readInputs = Inputs(disk, s, text[s])
          /\ \A b \in Produces[s][text[s]] : disk[b] = Output(s, b, text[s], readInputs)
      BY <1>1, <1>5, <3>1 DEF HandInv
    <3> QED BY <1>2, <3>1, <3>2 DEF AsGraphed, TypeOK, Graphs, Outside
  <2>2. ASSUME NEW b \in Produces[s][text[s]]
        PROVE  MadeBy(s, b, disk[b]) /\ disk[b] # Absent
    <3>1. disk[b] = Output(s, b, text[s], readInputs) /\ b \in Assets
      BY <2>1
    <3>2. disk[b] \notin Sources \cup {Absent, Garbage, Nothing}
      BY <3>1 DEF ContentsApart, Output
    <3> QED BY <3>1, <3>2 DEF MadeBy, Made, Output
  <2>3. ASSUME NEW b \in Produces[s][text[s]], NEW a \in Outside(s)
        PROVE  disk[b].inputs[a] = disk[a]
    <3>1. disk[b] = Output(s, b, text[s], readInputs) /\ a \in Assets
      BY <2>1
    <3>2. disk[b].inputs = readInputs /\ readInputs[a] = disk[a]
      BY <2>1, <3>1 DEF Output, Inputs, Outside
    <3> QED BY <3>2
  <2>4. Current(s)
    BY <2>2, <2>3 DEF Current, Answered
  <2>5. ASSUME ~Remote(s) PROVE ArtifactHash(disk, s) # Withheld
    <3>1. ASSUME StepKind[s] # "command", NEW a \in AnswersFor(s) PROVE Readable(disk, a)
      <4>1. CASE a \in Produces[s][text[s]]
        BY <2>2, <4>1 DEF Readable
      <4>2. CASE a \notin Produces[s][text[s]]
        <5>1. a \in Outside(s) /\ a \in Assets
          BY <2>1, <3>1, <4>2 DEF AnswersFor, AsGraphed, Outside
        <5>2. readInputs[a] = disk[a]
          BY <2>1, <5>1 DEF Inputs, Outside
        <5> QED BY <1>1, <1>5, <3>1, <5>1, <5>2 DEF HandInv, Readable
      <4> QED BY <4>1, <4>2
    <3>2. ArtifactHash(disk, s) = [a \in Assets |-> IF a \in AnswersFor(s) /\ Readable(disk, a)
                                                      THEN disk[a] ELSE Nothing]
      BY <2>5, <3>1 DEF ArtifactHash, Remote
    <3>3. \A f : [a \in Assets |-> f[a]] # Withheld
      BY DEF ContentsApart
    <3> DEFINE f == [a \in Assets |-> IF a \in AnswersFor(s) /\ Readable(disk, a)
                                        THEN disk[a] ELSE Nothing]
    <3>4. f = [a \in Assets |-> f[a]]
      OBVIOUS
    <3> QED BY <3>2, <3>3, <3>4
  <2>6. ASSUME faults' = 0, ~Remote(s) PROVE ~IsHashStale(s)'
    <3>1. /\ status'[s] = "success" /\ config'[s] = text[s]
          /\ artifact'[s] = ArtifactHash(disk, s)
      BY <1>1, <1>2, <1>5, <2>1, <2>6 DEF TypeOK
    <3> QED BY <1>1, <1>2, <1>3, <2>1, <2>5, <2>6, <3>1
            DEF IsHashStale, ConfigStale, TextNow, ArtifactStale
  <2> QED BY <1>1, <1>3, <2>1, <2>4, <2>6
<1> QED BY <1>4, <1>5

LEMMA StandsStep ==
    ASSUME ContentsApart, TypeOK, VerdictInv, PlanInv, HandInv, SettledInv, LedgerInv,
           StandsInv, [Next]_vars
    PROVE  StandsInv'
<1>1. CASE Start
  BY <1>1, StandsNothing DEF Start, Settles, Planned, Looping, AfterSteps
<1>2. CASE Refuse \/ PlanFails \/ OnInitFails \/ Crash
  <2>1. pc # "idle" /\ pc' = "idle" /\ contract' = contract
    BY <1>2 DEF Refuse, PlanFails, OnInitFails, Crash, report
  <2>2. contract' # "success"
    BY <2>1 DEF VerdictInv
  <2> QED BY <2>1, <2>2, StandsNothing DEF Settles, Planned, Looping, AfterSteps
<1>3. CASE TimesOut \/ SqlMissing \/ StepFails
  <2>1. pc' = "hooks" /\ result' = "failed"
    BY <1>3 DEF TimesOut, SqlMissing, StepFails, Halt
  <2> QED BY <2>1, StandsNothing DEF Settles, Planned, Looping, AfterSteps
<1>4. CASE OnInit \/ Skip \/ Begin \/ Attempt
  <2>1. /\ UNCHANGED <<text, gone, disk, status, config, artifact, steps, loaded, graph, stale,
                       settled, faults>>
        /\ sound' \in {sound, "no"} /\ Planned /\ Planned'
        /\ \A s \in StepsOf(steps) : outcomes'[s] = "success" => outcomes[s] = "success"
    BY <1>4, ListFacts, HandIsListed
       DEF OnInit, Skip, InLoop, Begin, Attempt, Unshown, Planned, Looping, project, rows, plan,
           report, bounds, TypeOK
  <2>2. \A s \in StepsOf(steps) : Settles(s)' => Settles(s)
    BY <2>1 DEF Settles, Planned, Looping, AfterSteps
  <2> QED BY <2>1, <2>2, StandsQuiet
<1>5. CASE LoopEnds
  <2>1. /\ UNCHANGED <<text, gone, disk, status, config, artifact, steps, loaded, graph, stale,
                       outcomes, settled, faults>>
        /\ pc = "loop" /\ at > Len(steps) /\ (sound' # "no" => sound # "no")
    BY <1>5 DEF LoopEnds, project, rows, plan, bounds
  <2>2. \A s \in StepsOf(steps) : Settles(s)
    <3> SUFFICES ASSUME NEW s \in StepsOf(steps) PROVE Settles(s)
      OBVIOUS
    <3>1. PICK k \in 1..Len(steps) : s = steps[k]
      BY ListFacts
    <3>2. k \in 1..(at - 1)
      BY <2>1, <3>1, ListFacts
    <3> QED BY <2>1, <3>1, <3>2 DEF PlanInv, Settles, Planned, Looping
  <2> QED BY <2>1, <2>2, StandsQuiet
<1>6. CASE OnSuccess \/ OnFailure \/ OnExit \/ Finish
  <2>1. /\ UNCHANGED <<text, gone, disk, status, config, artifact, steps, loaded, graph, sound,
                       settled, faults>>
        /\ pc \in {"hooks", "exit", "recheck"}
        /\ pc' \in {"exit", "recheck"} /\ result' # "failed" => result # "failed"
        /\ pc' \notin {"exit", "recheck"} => pc' = "idle"
        /\ pc' = "idle" /\ contract' = "success" => result # "failed"
    BY <1>6 DEF OnSuccess, OnFailure, OnExit, ToldAtExit, Finish, FailureOutcome, Tell, project, rows, plan,
                bounds
  <2>2. \A s \in StepsOf(steps) : Settles(s)' => Settles(s)
    BY <2>1 DEF Settles, Planned, Looping, AfterSteps
  <2> QED BY <2>1, <2>2, StandsQuiet
<1>7. CASE Person
  BY <1>7, StandsNothing DEF Person, EditText, MoveSql, EditOrder, EditAsset, Edit
<1>8. CASE UNCHANGED vars
  <2>1. /\ UNCHANGED <<text, gone, disk, status, config, artifact, steps, loaded, graph, sound,
                       settled, faults, pc, stale, outcomes, result, contract>>
    BY <1>8 DEF vars, project, rows, plan, report, bounds
  <2>2. \A s \in StepsOf(steps) : Settles(s)' => Settles(s)
    BY <2>1 DEF Settles, Planned, Looping, AfterSteps
  <2> QED BY <2>1, <2>2, StandsQuiet
<1> QED
  BY <1>1, <1>2, <1>3, <1>4, <1>5, <1>6, <1>7, <1>8, StandsPlan, StandsTried, StandsRecord
     DEF Next, Process

LEMMA StandsInit ==
    ASSUME ContentsApart, Init
    PROVE  TextInv /\ PlanInv /\ HandInv /\ SettledInv /\ LedgerInv /\ StandsInv
<1>1. /\ pc = "idle" /\ sound = "yes" /\ contract = "none" /\ gone = {} /\ at = 1
      /\ steps = order /\ loaded = text /\ graph = GraphOf(order, text, gone)
      /\ \A s \in Steps : status[s] = "none" /\ outcomes[s] = "none"
      /\ \A a \in Assets : disk[a] \in Sources \cup {Absent}
  BY DEF Init
<1>2. TextInv
  BY ConstantsOK DEF Init, TextInv, TextNow, Texts
<1>3. PlanInv
  BY <1>1 DEF PlanInv, Planned, Looping, GraphOf
<1>4. HandInv
  BY <1>1 DEF HandInv, ContentsApart
<1>5. SettledInv
  BY <1>1 DEF SettledInv
<1>6. LedgerInv
  BY <1>1 DEF LedgerInv, Trusted, Vouches
<1>7. StandsInv
  BY <1>1 DEF StandsInv, Settles, Planned, Looping, AfterSteps
<1> QED BY <1>2, <1>3, <1>4, <1>5, <1>6, <1>7

\* runner.rs:1296: after a run that succeeds every step's products are what its
\* text makes of its inputs as they are, and its row is what the next check
\* computes, for every Protocol and whatever was edited, failed, killed or lost
\* in the runs before it.
THEOREM SuccessStandsFirm ==
    ASSUME ContentsApart
    PROVE  Spec => []SuccessStands
<1> DEFINE IInv == /\ TextInv /\ VerdictInv /\ PlanInv /\ HandInv /\ SettledInv
                   /\ LedgerInv /\ StandsInv
<1>1. Init => IInv
  <2>1. Init => VerdictInv
    BY DEF Init, VerdictInv, InSteps, AfterSteps, RowAgreesWithContract
  <2> QED BY <2>1, StandsInit
<1>2. TypeOK /\ IInv /\ [Next]_vars => IInv'
  BY TextInvStep, VerdictStep, PlanStep, HandStep, SettledStep, LedgerStep, StandsStep
<1>3. IInv => SuccessStands
  BY DEF StandsInv, Settles, SuccessStands, SuccessIsCurrent, NothingToRedo, Ended, Remote
<1> HIDE DEF IInv
<1> QED BY <1>1, <1>2, <1>3, RunnerTypeOK, PTL DEF Spec
=============================================================================
