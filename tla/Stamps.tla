-------------------------------- MODULE Stamps --------------------------------
(***************************************************************************)
(* Tool preconditions (precondition.rs): what each step's tools were when  *)
(* it last succeeded is kept in build/.arcform/tools.json, one file that   *)
(* every run of the folder reads, changes and writes whole; a step whose   *)
(* tools are the same, and whose product is the one its row tells of, is   *)
(* skipped.  Tools are replaced, shadowed and taken away meanwhile.        *)
(***************************************************************************)
EXTENDS Naturals, Sequences

CONSTANTS Runs,      \* processes
          Gates,     \* step -> the stamp keys of its tool preconditions
          Places,    \* how many folders PATH names
          Builds,    \* what identifies a tool
          None, MaxFaults, MaxChanges

Steps == DOMAIN Gates
Keys == UNION {Gates[s] : s \in Steps}

VARIABLES found,    \* key -> the tool in each place: a build, "broken" or None
          store,    \* tools.json: step -> key -> identity
          row,      \* step -> the product its last row tells of
          product,  \* step -> the builds that made it
          run,      \* each run: [at, step, read]
          unsure,   \* ghost: steps whose stamp may not be of their last success
          faults, changes

vars == <<found, store, row, product, run, unsure, faults, changes>>

NoStamps == [s \in Steps |-> [k \in Keys |-> None]]
At(where, s, read, saw) == [at |-> where, step |-> s, read |-> read, saw |-> saw]
Idle == At("idle", None, None, None)

Init ==
    /\ found = [k \in Keys |-> [p \in 1..Places |-> IF p = Places THEN CHOOSE b \in Builds : TRUE ELSE None]]
    /\ store = NoStamps /\ row = [s \in Steps |-> None] /\ product = [s \in Steps |-> None]
    /\ run = [r \in Runs |-> Idle] /\ unsure = {} /\ faults = 0 /\ changes = 0

-----------------------------------------------------------------------------
(* ToolConfig::resolve: the first executable of the name on PATH.          *)
resolve(k) ==
    LET here == {p \in 1..Places : found[k][p] # None}
    IN  IF here = {} THEN None ELSE found[k][CHOOSE p \in here : \A q \in here : p <= q]

(* A tool that is not there, cannot be read or does not tell its version   *)
(* has no identity.                                                        *)
observe(k) == IF resolve(k) = "broken" THEN None ELSE resolve(k)

Identified(s) == \A k \in Gates[s] : observe(k) # None
Same(s) == \A k \in Gates[s] : store[s][k] = observe(k)
Current(s) == [k \in Gates[s] |-> resolve(k)]

Become(r, state) == run' = [run EXCEPT ![r] = state]
Fault == faults < MaxFaults /\ faults' = faults + 1

(* compute_staleness: a tool that cannot be identified stops the run.      *)
Stale(s) == row[s] = None \/ row[s] # product[s] \/ ~Same(s)

PlanFails(r, s) ==
    /\ run[r].at = "idle" /\ ~Identified(s)
    /\ UNCHANGED vars

Skip(r, s) ==
    /\ run[r].at = "idle" /\ Identified(s) /\ ~Stale(s)
    /\ UNCHANGED vars

Plan(r, s) ==
    /\ run[r].at = "idle" /\ Identified(s) /\ Stale(s)
    /\ Become(r, At("execute", s, None, None))
    /\ UNCHANGED <<found, store, row, product, unsure, faults, changes>>

(* The step runs, with the tools as they are now.                          *)
Execute(r) ==
    /\ run[r].at = "execute"
    /\ LET s == run[r].step IN
         /\ product' = [product EXCEPT ![s] = Current(s)]
         /\ unsure' = unsure \cup {s}
         /\ Become(r, At("row", s, None, Current(s)))
    /\ UNCHANGED <<found, store, row, faults, changes>>

StepFails(r) ==
    /\ run[r].at = "execute" /\ Fault
    /\ product' = [product EXCEPT ![run[r].step] = None]
    /\ row' = [row EXCEPT ![run[r].step] = None]
    /\ Become(r, Idle)
    /\ UNCHANGED <<found, store, unsure, changes>>

RecordStep(r) ==
    /\ run[r].at = "row"
    /\ row' = [row EXCEPT ![run[r].step] = product[run[r].step]]
    /\ Become(r, At("read", run[r].step, None, run[r].saw))
    /\ UNCHANGED <<found, store, product, unsure, faults, changes>>

(* record_all: the stamps are read, this step's tools are looked at, and   *)
(* the whole is written; a tool that cannot be identified loses its stamp. *)
ReadStamps(r) ==
    /\ run[r].at = "read"
    /\ Become(r, At("stamp", run[r].step, store, run[r].saw))
    /\ UNCHANGED <<found, store, row, product, unsure, faults, changes>>

\* Mutant of Stamped: a tool is stamped for every step that names it.
StampedForAll(r) ==
    [s \in Steps |-> [k \in Keys |->
       IF k \in Gates[run[r].step] THEN observe(k) ELSE run[r].read[s][k]]]

Stamped(r) ==
    [run[r].read EXCEPT ![run[r].step] =
       [k \in Keys |-> IF k \in Gates[run[r].step] THEN observe(k) ELSE @[k]]]

WriteStamps(r) ==
    /\ run[r].at = "stamp"
    /\ LET s == run[r].step IN
         /\ store' = Stamped(r)
         /\ unsure' = (IF run[r].saw = Current(s) /\ product[s] = run[r].saw
                       THEN unsure \ {s} ELSE unsure \cup {s})
                      \cup {t \in Steps \ {s} : run[r].read[t] # store[t]}
    /\ Become(r, Idle)
    /\ UNCHANGED <<found, row, product, faults, changes>>

(* The file cannot be written, or is cut short: then nothing can be read   *)
(* from it.                                                                *)
WriteFails(r) ==
    /\ run[r].at = "stamp" /\ Fault
    /\ store' \in {store, NoStamps} /\ Become(r, Idle)
    /\ UNCHANGED <<found, row, product, unsure, changes>>

Killed(r) ==
    /\ run[r].at # "idle" /\ Fault /\ Become(r, Idle)
    /\ UNCHANGED <<found, store, row, product, unsure, changes>>

(* A person installs, breaks or removes a tool, or deletes build/.         *)
Change ==
    /\ changes < MaxChanges /\ changes' = changes + 1
    /\ \/ /\ \E k \in Keys, p \in 1..Places, b \in Builds \cup {"broken", None} :
               found' = [found EXCEPT ![k][p] = b]
          /\ UNCHANGED store
       \/ store' = NoStamps /\ UNCHANGED found
    /\ UNCHANGED <<row, product, run, unsure, faults>>

Run(r) ==
    \/ Execute(r) \/ StepFails(r) \/ RecordStep(r) \/ ReadStamps(r) \/ WriteStamps(r)
    \/ WriteFails(r) \/ Killed(r)
    \/ \E s \in Steps : PlanFails(r, s) \/ Skip(r, s) \/ Plan(r, s)

Next == Change \/ \E r \in Runs : Run(r)

Spec == Init /\ [][Next]_vars

-----------------------------------------------------------------------------
(* precondition.rs:128, "same identity as the step's last successful run = *)
(* fresh (skip), any difference = stale (run)": a step that would be       *)
(* skipped has a product its present tools made - unless, since its last   *)
(* run began, the tools changed before they were stamped, the run was      *)
(* killed before that, or another run wrote its stamp away.                *)
SkippedHasItsTools ==
    \A s \in Steps :
      Identified(s) /\ ~Stale(s) /\ s \notin unsure => product[s] = Current(s)
=============================================================================
