-------------------------------- MODULE Skills --------------------------------
(***************************************************************************)
(* arc skills install: the skills a release carries, written into the      *)
(* skills folder of each agent, beside a person's own.  Errors and kills   *)
(* come between any two file operations; one install at a time.            *)
(***************************************************************************)
EXTENDS Naturals, Sequences, SequencesExt

CONSTANTS Names,      \* the skills, a sequence: their order in the binary
          Agents,     \* [config, dir], a sequence: AGENTS
          Configs,    \* the config folders under the home
          Releases, None, MaxFaults, MaxChanges

VARIABLES dest, new, old, \* [dir -> [name -> folder]]: s, .s.arc-new, .s.arc-old
          at,       \* "idle", "plan", "stage", "mark", "swap", "aside", "moved"
          targets,  \* the folders left to install into
          release,  \* the one whose arc is running
          nth,      \* the skill at hand
          plans,    \* name -> "write" or "replace"
          had,      \* ghost: the skills put in place and not taken away by a person
          faults, changes

vars == <<dest, new, old, at, targets, release, nth, plans, had, faults, changes>>

\* A folder: whose, of which release, and what is in it.
Folder(by, r, files) == [by |-> by, release |-> r, files |-> files]
Staged(r, files) == Folder("arc", r, files)
Whole(f) == f # None /\ f.files = {"SKILL.md", ".arc-skill"}

Dirs == {Agents[i].dir : i \in DOMAIN Agents}
Skills == {Names[i] : i \in DOMAIN Names}
Here == Head(targets)
Name == Names[nth]
Nothing == [d \in Dirs |-> [s \in Skills |-> None]]

-----------------------------------------------------------------------------
(* dedupe: one folder once, under the first that names it.                 *)
dedupe(dirs) ==
    FoldLeft(LAMBDA out, d : IF d \in ToSet(out) THEN out ELSE Append(out, d), << >>, dirs)

(* agent_targets: the agents whose config folder is there.                 *)
agent_targets ==
    LET found == SelectSeq(Agents, LAMBDA a : a.config \in Configs)
    IN  dedupe([i \in DOMAIN found |-> found[i].dir])

(* plan: an absent folder is written, one with arc's marker replaced,      *)
(* anything else is a person's.                                            *)
\* Mutant of plan: a folder of the name is arc's.
plan_by_name(f) == IF f = None THEN "write" ELSE "replace"

plan(f) ==
    IF f = None THEN "write" ELSE IF ".arc-skill" \in f.files THEN "replace" ELSE "refused"

-----------------------------------------------------------------------------
Init ==
    /\ dest = Nothing /\ new = Nothing /\ old = Nothing
    /\ at = "idle" /\ targets = << >> /\ release = None /\ nth = 0 /\ plans = << >>
    /\ had = {} /\ faults = 0 /\ changes = 0

Fault == faults < MaxFaults /\ faults' = faults + 1
Put(folders, f) == [folders EXCEPT ![Here][Name] = f]

(* The next target, or the end.                                            *)
NextTarget ==
    /\ targets' = Tail(targets) /\ at' = (IF Len(targets) = 1 THEN "idle" ELSE "plan")
    /\ nth' = 0 /\ plans' = << >>

Install ==
    /\ at = "idle" /\ agent_targets # << >>
    /\ targets' = agent_targets /\ release' \in Releases /\ at' = "plan"
    /\ UNCHANGED <<dest, new, old, nth, plans, had, faults, changes>>

(* Every folder is looked at before any is written; one refusal, and this  *)
(* target is left alone.                                                   *)
Plan ==
    /\ at = "plan"
    /\ LET p == [s \in Skills |-> plan(dest[Here][s])] IN
         IF \E s \in Skills : p[s] = "refused"
         THEN NextTarget
         ELSE at' = "stage" /\ nth' = 1 /\ plans' = p /\ UNCHANGED targets
    /\ UNCHANGED <<dest, new, old, release, had, faults, changes>>

(* stage_skill: what an earlier install left is removed, the files, then   *)
(* the marker.                                                             *)
Stage ==
    /\ at = "stage"
    /\ new' = Put(new, Staged(release, {"SKILL.md"})) /\ at' = "mark"
    /\ UNCHANGED <<dest, old, targets, release, nth, plans, had, faults, changes>>

Mark ==
    /\ at = "mark"
    /\ new' = Put(new, Staged(release, {"SKILL.md", ".arc-skill"}))
    /\ IF nth < Len(Names) THEN at' = "stage" /\ nth' = nth + 1
                           ELSE at' = "swap" /\ nth' = 1
    /\ UNCHANGED <<dest, old, targets, release, plans, had, faults, changes>>

(* An error while staging takes the staged folders away.                   *)
StageFails ==
    /\ at \in {"stage", "mark"} /\ Fault
    /\ new' = [new EXCEPT ![Here] =
         [s \in Skills |-> IF \E i \in 1..nth : Names[i] = s THEN None ELSE new[Here][s]]]
    /\ NextTarget
    /\ UNCHANGED <<dest, old, release, had, changes>>

(* An error while swapping: the skills before it are new, it and those     *)
(* after it are not.                                                       *)
SwapEnds ==
    /\ new' = [new EXCEPT ![Here] =
         [s \in Skills |-> IF \E i \in nth..Len(Names) : Names[i] = s THEN None ELSE new[Here][s]]]
    /\ NextTarget

(* swap_in, first half: the earlier install is set aside, over nothing.    *)
\* Mutant of Aside: the earlier install is removed, as the new one is ready.
AsideRemoved ==
    /\ at = "swap" /\ plans[Name] = "replace" /\ dest[Here][Name] # None
    /\ old' = Put(old, None) /\ dest' = Put(dest, None) /\ at' = "aside"
    /\ UNCHANGED <<new, targets, release, nth, plans, had, faults, changes>>

Aside ==
    /\ at = "swap" /\ plans[Name] = "replace" /\ dest[Here][Name] # None
    /\ old' = Put(old, dest[Here][Name]) /\ dest' = Put(dest, None) /\ at' = "aside"
    /\ UNCHANGED <<new, targets, release, nth, plans, had, faults, changes>>

AsideFails ==
    /\ at = "swap" /\ plans[Name] = "replace"
    /\ IF dest[Here][Name] = None THEN UNCHANGED faults ELSE Fault
    /\ old' = Put(old, None) /\ SwapEnds
    /\ UNCHANGED <<dest, release, had, changes>>

(* Second half: a rename, which fails over a folder that is not empty.     *)
Moving == at = "aside" \/ (at = "swap" /\ plans[Name] = "write")

Move ==
    /\ Moving /\ dest[Here][Name] = None
    /\ dest' = Put(dest, new[Here][Name]) /\ new' = Put(new, None)
    /\ had' = had \cup {<<Here, Name>>} /\ at' = "moved"
    /\ UNCHANGED <<old, targets, release, nth, plans, faults, changes>>

(* The earlier install is put back, if that can be done.                   *)
MoveFails ==
    /\ Moving
    /\ IF dest[Here][Name] = None THEN Fault ELSE UNCHANGED faults
    /\ \/ at = "aside" /\ dest[Here][Name] = None
          /\ dest' = Put(dest, old[Here][Name]) /\ old' = Put(old, None)
       \/ UNCHANGED <<dest, old>>
    /\ SwapEnds
    /\ UNCHANGED <<release, had, changes>>

(* The one set aside is removed, unless that fails.                        *)
Moved ==
    /\ at = "moved"
    /\ \/ old' = Put(old, None) /\ UNCHANGED faults
       \/ UNCHANGED old /\ Fault
    /\ IF nth < Len(Names) THEN at' = "swap" /\ nth' = nth + 1 /\ UNCHANGED <<targets, plans>>
                           ELSE NextTarget
    /\ UNCHANGED <<dest, new, release, had, changes>>

(* arc is killed.                                                          *)
Killed ==
    /\ at # "idle" /\ Fault
    /\ at' = "idle" /\ targets' = << >> /\ nth' = 0 /\ plans' = << >>
    /\ UNCHANGED <<dest, new, old, release, had, changes>>

-----------------------------------------------------------------------------
Change == changes < MaxChanges /\ changes' = changes + 1

(* A person writes a skill of their own, at any time; between installs     *)
(* they keep one as their own by deleting the marker, or take one away.    *)
Person ==
    /\ Change
    /\ \E d \in Dirs, s \in Skills :
         \/ /\ dest[d][s] = None
            /\ dest' = [dest EXCEPT ![d][s] = Folder("person", None, {"SKILL.md"})]
            /\ had' = had \ {<<d, s>>}
         \/ /\ at = "idle" /\ dest[d][s] # None
            /\ dest' = [dest EXCEPT ![d][s] = Folder("person", None, {"SKILL.md"})]
            /\ had' = had \ {<<d, s>>}
         \/ /\ at = "idle" /\ dest[d][s] # None
            /\ dest' = [dest EXCEPT ![d][s] = None] /\ had' = had \ {<<d, s>>}
    /\ UNCHANGED <<new, old, at, targets, release, nth, plans, faults>>

Next ==
    \/ Install \/ Plan \/ Stage \/ Mark \/ StageFails \/ Aside \/ AsideFails
    \/ Move \/ MoveFails \/ Moved \/ Killed \/ Person

Spec == Init /\ [][Next]_vars

-----------------------------------------------------------------------------
(* skills.rs:243, "the failing skill's folder the old one, whole, unless   *)
(* putting it back failed too: then that folder is missing, the old one is *)
(* set aside": whatever fails and wherever arc is killed, a skill once     *)
(* installed is whole in its place or beside it, and nothing in its place  *)
(* is half written.                                                        *)
InstalledIsSomewhere ==
    \A d \in Dirs, s \in Skills :
      /\ <<d, s>> \in had => Whole(dest[d][s]) \/ Whole(old[d][s])
      /\ dest[d][s] # None /\ dest[d][s].by = "arc" => Whole(dest[d][s])

(* skills.rs:231, "any other folder of the same name is refused": no step  *)
(* of an install takes a person's folder from its place.                   *)
KeepsPersons ==
    ~Person => \A d \in Dirs, s \in Skills :
      dest[d][s] # None /\ dest[d][s].by = "person" => dest'[d][s] = dest[d][s]

(* Both of them, step by step.                                             *)
PersonsAreKept == [][KeepsPersons /\ InstalledIsSomewhere']_vars
=============================================================================
