---------------------------- MODULE ProtocolSpec ----------------------------
(***************************************************************************)
(* What recording promises of a protocol folder (record.rs:50-60): a call  *)
(* that is refused or fails changes nothing, and one that succeeds changes *)
(* the manifest and the model its new step cites as one.  A call plans on  *)
(* the manifest it read; what others did since is overwritten, for the     *)
(* code takes no lock.                                                     *)
(***************************************************************************)
EXTENDS Naturals, Sequences, SequencesExt

CONSTANTS Sessions,  \* the arc processes that may have the folder open
          Names,     \* step names
          Paths,     \* where a model may be
          Texts,     \* what a model may hold
          Absent, None

VARIABLES steps,   \* the manifest: a sequence of steps, or Absent
          files,   \* the models that landed
          plan,    \* what each session is about to land
          removed  \* ghost: the models a person has removed

vars == <<steps, files, plan, removed>>

Step == [name : Names, model : Paths \cup {None}]

Documents == Seq(Step)

Plans == [to : Documents, path : Paths \cup {None}, text : Texts \cup {None}]

Cited(doc) == {doc[i].model : i \in DOMAIN doc} \ {None}

Renamed(doc) == {[doc EXCEPT ![i].name = n] : i \in DOMAIN doc, n \in Names}

Deleted(doc) == {RemoveAt(doc, i) : i \in DOMAIN doc}

Swapped(doc) ==
    {[doc EXCEPT ![i] = doc[j], ![j] = doc[i]] : i, j \in DOMAIN doc}

(* Nothing an edit does makes a step cite a model the manifest did not.    *)
Edited(doc) == Renamed(doc) \cup Deleted(doc) \cup Swapped(doc)

Init ==
    /\ steps \in {Absent, << >>}
    /\ files = [p \in Paths |-> Absent]
    /\ plan = [s \in Sessions |-> None]
    /\ removed = {}

PlanStep(s) ==
    /\ steps # Absent
    /\ UNCHANGED <<steps, files, removed>>
    /\ \E n \in Names, p \in Paths \cup {None}, t \in Texts :
         /\ p # None => files[p] = Absent
         /\ plan' = [plan EXCEPT ![s] =
              [to |-> Append(steps, [name |-> n, model |-> p]),
               path |-> p, text |-> IF p = None THEN None ELSE t]]

PlanEdit(s) ==
    /\ steps # Absent
    /\ UNCHANGED <<steps, files, removed>>
    /\ \E doc \in Edited(steps) :
         plan' = [plan EXCEPT ![s] = [to |-> doc, path |-> None, text |-> None]]

PlanManifest(s) ==
    /\ steps = Absent
    /\ plan' = [plan EXCEPT ![s] = [to |-> << >>, path |-> None, text |-> None]]
    /\ UNCHANGED <<steps, files, removed>>

Land(s) ==
    /\ plan[s] # None
    /\ plan[s].path # None => files[plan[s].path] = Absent
    /\ steps' = plan[s].to
    /\ files' = [p \in Paths |->
                   IF p = plan[s].path THEN plan[s].text ELSE files[p]]
    /\ plan' = [plan EXCEPT ![s] = None]
    /\ UNCHANGED removed

Drop(s) ==
    /\ plan' = [plan EXCEPT ![s] = None]
    /\ UNCHANGED <<steps, files, removed>>

(* The text of a model that landed is replaced by another.                 *)
Retext(p) ==
    /\ files[p] # Absent
    /\ \E t \in Texts : files' = [files EXCEPT ![p] = t]
    /\ UNCHANGED <<steps, plan, removed>>

(* A person puts a model there, takes one away, or edits the manifest.     *)
Place(p) ==
    /\ \E t \in Texts : files' = [files EXCEPT ![p] = t]
    /\ UNCHANGED <<steps, plan, removed>>

TakeAway(p) ==
    /\ files' = [files EXCEPT ![p] = Absent]
    /\ removed' = removed \cup {p}
    /\ UNCHANGED <<steps, plan>>

EditByHand ==
    /\ steps # Absent
    /\ \/ steps' \in Edited(steps)
       \/ \E n \in Names : steps' = Append(steps, [name |-> n, model |-> None])
    /\ UNCHANGED <<files, plan, removed>>

Next ==
    \/ \E s \in Sessions :
         PlanStep(s) \/ PlanEdit(s) \/ PlanManifest(s) \/ Land(s) \/ Drop(s)
    \/ \E p \in Paths : Retext(p) \/ Place(p) \/ TakeAway(p)
    \/ EditByHand

Spec == Init /\ [][Next]_vars

-----------------------------------------------------------------------------
(* The manifest never cites a model that is not there, unless a person     *)
(* took it away.                                                           *)
CitesWhatIsThere ==
    steps # Absent => \A p \in Cited(steps) \ removed : files[p] # Absent
=============================================================================
