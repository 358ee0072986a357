------------------------------ MODULE Extensions ------------------------------
(***************************************************************************)
(* Community extensions: engine.rs's check of a Protocol's SQL before a    *)
(* run, its check of each SQL file again just before a step or a hook runs *)
(* it, the comparison with the pins of arcform.yaml, and the last look at  *)
(* the installed files when the run ends; with arc upgrade, which pins.    *)
(*                                                                         *)
(* Around them: SQL files are written over, by steps and by others; files  *)
(* of installed extensions are replaced; the registry serves new builds.   *)
(*                                                                         *)
(* A SQL file is a sequence of statements, a build stands for its bytes.   *)
(***************************************************************************)
EXTENDS Naturals, Sequences, SequencesExt

CONSTANTS Vetted,      \* vetted extensions
          VettedHere,  \* those whose entry names this engine's version
          Others,      \* extensions off the list
          Builds, None,
          Slots,       \* the hooks and steps, in order: [runs, hook]
          Contents,    \* what a SQL file may hold
          MaxChanges   \* bound: what others do

VARIABLES files,    \* the SQL file of each slot
          disk,     \* the installed build of each extension
          registry, \* the build the registry serves
          manifest, \* the pins of arcform.yaml
          pc,       \* "idle", "check", "execute", "record", "ended"
          slot,     \* the slot at hand
          pins,     \* the pins the run goes by
          installed, recorded, pinned, loaded, warned,  \* ExtensionRecheck
          checked,  \* the content the last check read
          failed,   \* whether a step or a hook has failed the run
          outcome,
          loads,    \* ghost: builds loaded after they were compared
          swaps,    \* ghost: how often a compared file was changed, to two
          changes

recheck == <<installed, recorded, pinned, loaded, warned>>
vars == <<files, disk, registry, manifest, pc, slot, pins, recheck, checked,
          failed, outcome, loads, swaps, changes>>

Extensions == Vetted \cup Others

-----------------------------------------------------------------------------
(***************************************************************************)
(* What the checks read in a file.                                         *)
(***************************************************************************)
(* INSTALL from a place other than core and community, by a path, with a   *)
(* setting that moves where extensions come from or are kept, with a       *)
(* switch of the parser; or a file DuckDB gives no tokens for.             *)
Elsewhere == {"alias", "address", "path", "setting", "switch", "unread"}

Installs(content, places) ==
    {content[i].ext : i \in {j \in DOMAIN content :
                               /\ content[j].does \in {"install", "force"}
                               /\ content[j].from \in places}}

check_file(content) ==
    [refused   |-> \/ \E i \in DOMAIN content : content[i].from \in Elsewhere
                   \/ ~(Installs(content, {"community"}) \subseteq Vetted),
     installed |-> Installs(content, {"community"}) \cap Vetted,
     recorded  |-> Installs(content, {"core"})
                     \cup (Installs(content, {"community"}) \cap Vetted),
     unread    |-> \E i \in DOMAIN content : content[i].does = "query"]

unvetted_version_warnings(names) == {<<"version", x>> : x \in names \ VettedHere}

run_time_warnings(s, content) ==
    IF check_file(content).unread THEN {<<"run time", s, content>>} ELSE {}

(***************************************************************************)
(* check_extension_pins: each of names that has a pin is installed, unless *)
(* it is there, and compared.  found is how it goes: the platform may not  *)
(* be told, and an install may leave nothing.                              *)
(***************************************************************************)
Pinned(names, by) == {x \in names : by[x] # None}

InstallOf(x, got) == IF disk[x] = None /\ x \in got THEN registry[x] ELSE disk[x]

AfterInstalls(names, by, got) ==
    [x \in Extensions |-> IF x \in Pinned(names, by) THEN InstallOf(x, got) ELSE disk[x]]

PinsHold(names, by, got) ==
    \A x \in Pinned(names, by) : InstallOf(x, got) = by[x]

unpinned_warnings(names, by) == {<<"unpinned", x>> : x \in names \ Pinned(names, by)}

(* A file that is changed after it was compared.                           *)
Compared(x) == x \in installed /\ pins[x] # None

Swapped(before, after) ==
    [x \in Extensions |->
       IF Compared(x) /\ before[x] # after[x] /\ swaps[x] < 2 THEN swaps[x] + 1 ELSE swaps[x]]

-----------------------------------------------------------------------------
Init ==
    /\ files \in {f \in [DOMAIN Slots -> Contents \cup {None}] :
                   \A s \in DOMAIN Slots : f[s] = None <=> Slots[s].runs # "sql"}
    /\ disk \in [Extensions -> {None, CHOOSE b \in Builds : TRUE}]
    /\ registry \in {[x \in Extensions |-> b] : b \in Builds}
    /\ manifest \in [Vetted -> {None, CHOOSE b \in Builds : TRUE}]
    /\ pc = "idle" /\ slot = 0 /\ pins = manifest
    /\ installed = {} /\ recorded = {} /\ pinned = {} /\ loaded = << >> /\ warned = {}
    /\ checked = << >> /\ failed = FALSE /\ outcome = "none"
    /\ loads = {} /\ swaps = [x \in Extensions |-> 0] /\ changes = 0

Ends(how) == pc' = "ended" /\ outcome' = how

(***************************************************************************)
(* check_extension_installs and check_extension_pins, before the run: of   *)
(* every SQL file that is there.  The engine's version may not be read,    *)
(* and then no pin is chosen.                                              *)
(***************************************************************************)
SqlSlots == {s \in DOMAIN Slots : Slots[s].runs = "sql" /\ files[s] # None}

Start ==
    /\ pc = "idle"
    /\ LET found == {check_file(files[s]) : s \in SqlSlots}
           names == UNION {f.installed : f \in found}
       IN \E by \in {manifest, [x \in Vetted |-> None]}, got \in SUBSET Vetted,
             platform \in BOOLEAN :
          LET told == platform \/ Pinned(names, by) = {}
              passes == told /\ PinsHold(names, by, got)
          IN
          /\ pins' = by
          /\ IF \E f \in found : f.refused
             THEN Ends("refused") /\ UNCHANGED <<disk, recheck>>
             ELSE /\ disk' = IF told THEN AfterInstalls(names, by, got) ELSE disk
                  /\ IF ~passes
                     THEN Ends("refused") /\ UNCHANGED recheck
                     ELSE /\ pc' = "check" /\ UNCHANGED outcome
                          /\ installed' = names
                          /\ recorded' = UNION {f.recorded : f \in found}
                          /\ pinned' = Pinned(names, by)
                          /\ warned' = unvetted_version_warnings(names)
                               \cup (UNION {run_time_warnings(s, files[s]) : s \in SqlSlots})
                               \cup unpinned_warnings(names, by)
                          /\ UNCHANGED loaded
    /\ slot' = 1
    /\ UNCHANGED <<files, registry, manifest, checked, failed, loads, swaps, changes>>

(* After a failure only hooks run, on_success is for a run without one and *)
(* on_failure for a run with one; a step that is fresh is skipped.         *)
Wanted == /\ slot \in DOMAIN Slots
          /\ failed => Slots[slot].hook
          /\ (Slots[slot].when = "failure") => failed
          /\ (Slots[slot].when = "success") => ~failed

Pass ==
    /\ pc = "check" /\ slot \in DOMAIN Slots
    /\ ~Wanted \/ ~Slots[slot].hook
    /\ slot' = slot + 1
    /\ UNCHANGED <<files, disk, registry, manifest, pc, pins, recheck, checked,
                   failed, outcome, loads, swaps, changes>>

Fails == failed' = TRUE /\ slot' = slot + 1 /\ pc' = "check"

(***************************************************************************)
(* ExtensionRecheck::check: the slot's file, as it is now.                 *)
(***************************************************************************)
\* Mutant of Refuse: the names are noted, and found by the next check.
RefuseNoting(new) ==
    Fails /\ installed' = installed \cup new /\ UNCHANGED <<recorded, pinned, loaded, warned>>

Refuse(new) == Fails /\ UNCHANGED recheck

\* Mutant of Keep: what the end of the run is to look at stays as it was.
KeepFirst(new) == pinned

Keep(new) == pinned \cup Pinned(new, pins)

Check ==
    /\ pc = "check" /\ Wanted /\ Slots[slot].runs = "sql" /\ files[slot] # None
    /\ LET found == check_file(files[slot])
           new   == found.installed \ installed
       IN \E got \in SUBSET Vetted, platform \in BOOLEAN :
          LET told == platform \/ Pinned(new, pins) = {}
              passes == ~found.refused /\ told /\ PinsHold(new, pins, got)
          IN
          /\ disk' = IF told /\ ~found.refused THEN AfterInstalls(new, pins, got) ELSE disk
          /\ checked' = files[slot]
          /\ IF ~passes
             THEN Refuse(new)
             ELSE /\ pc' = "execute"
                  /\ installed' = installed \cup new
                  /\ recorded' = recorded \cup found.recorded
                  /\ pinned' = Keep(new)
                  /\ warned' = warned \cup unvetted_version_warnings(new)
                       \cup run_time_warnings(slot, files[slot])
                       \cup unpinned_warnings(new, pins)
                  /\ UNCHANGED <<slot, failed, loaded>>
    /\ swaps' = Swapped(disk, disk')
    /\ UNCHANGED <<files, registry, manifest, pins, outcome, loads, changes>>

(* A file that is not there is left to the engine, which fails on it.      *)
Missing ==
    /\ pc = "check" /\ Wanted /\ Slots[slot].runs = "sql" /\ files[slot] = None
    /\ Fails
    /\ UNCHANGED <<files, disk, registry, manifest, pins, recheck, checked,
                   outcome, loads, swaps, changes>>

-----------------------------------------------------------------------------
(***************************************************************************)
(* DuckDB runs the file: an INSTALL keeps what is installed, FORCE INSTALL *)
(* and UPDATE EXTENSIONS take what the registry serves, a LOAD loads what  *)
(* is installed, and a file that is there may stop at any statement.       *)
(***************************************************************************)
Takes(d, statement, x) ==
    \/ statement.does = "install" /\ statement.ext = x /\ d[x] = None
    \/ statement.does = "force" /\ statement.ext = x
    \/ statement.does = "update" /\ d[x] # None

\* After n statements; the registry serves one build the while.
Installed(d, content, n) ==
    [x \in Extensions |->
       IF \E i \in 1..n : Takes(d, content[i], x) THEN registry[x] ELSE d[x]]

Loaded(d, content, n) ==
    {<<content[i].ext, Installed(d, content, i)[content[i].ext]>> :
       i \in {j \in 1..n : content[j].does = "load"}}

(* LoadedExtensions::add keeps the first answer for each name.             *)
add(list, answer) == list \o SetToSeq({l \in answer : \A i \in DOMAIN list : list[i][1] # l[1]})

Execute ==
    /\ pc = "execute" /\ files[slot] # None
    /\ \E n \in 0..Len(files[slot]) :
         LET content == files[slot]
             passed  == n = Len(content)
                          /\ \A l \in Loaded(disk, content, n) : l[2] # None
         IN
         /\ disk' = Installed(disk, content, n)
         /\ loads' = loads \cup {l \in Loaded(disk, content, n) : Compared(l[1])}
         /\ loaded' = IF passed THEN add(loaded, Loaded(disk, content, n)) ELSE loaded
         /\ IF passed THEN slot' = slot + 1 /\ pc' = "check" /\ UNCHANGED failed ELSE Fails
    /\ UNCHANGED <<files, registry, manifest, pins, installed, recorded, pinned, warned,
                   checked, outcome, changes>>
    /\ swaps' = Swapped(disk, disk')

(* A command may start a DuckDB of its own, and may write a SQL file.      *)
Command ==
    /\ pc = "check" /\ Wanted /\ Slots[slot].runs = "command"
    /\ \/ \E x \in Extensions, b \in Builds : disk' = [disk EXCEPT ![x] = b] /\ UNCHANGED files
       \/ \E s \in DOMAIN Slots, c \in Contents :
            Slots[s].runs = "sql" /\ files' = [files EXCEPT ![s] = c] /\ UNCHANGED disk
    /\ slot' = slot + 1
    /\ UNCHANGED <<registry, manifest, pc, pins, recheck, checked, failed, outcome,
                   loads, changes>>
    /\ swaps' = Swapped(disk, disk')

(* recheck_extension_pins, and the record of what the run's DuckDB holds.  *)
Finish ==
    /\ pc = "check" /\ slot > Len(Slots)
    /\ Ends(IF failed \/ \E x \in pinned : disk[x] # pins[x] THEN "failed" ELSE "success")
    /\ UNCHANGED <<files, disk, registry, manifest, slot, pins, recheck, checked, failed,
                   loads, swaps, changes>>

-----------------------------------------------------------------------------
(* upgrade_extension: the build the registry serves is installed over what *)
(* is there, and pinned, when its file can be hashed.                      *)
Upgrade ==
    /\ changes < MaxChanges /\ changes' = changes + 1
    /\ \E x \in Vetted :
         /\ disk' = [disk EXCEPT ![x] = registry[x]]
         /\ manifest' = [manifest EXCEPT ![x] = registry[x]]
    /\ UNCHANGED <<files, registry, pc, slot, pins, recheck, checked, failed, outcome, loads>>
    /\ swaps' = Swapped(disk, disk')

(* The registry serves a new build; another process writes a SQL file.     *)
Serve ==
    /\ changes < MaxChanges /\ changes' = changes + 1
    /\ \E x \in Vetted, b \in Builds : registry' = [registry EXCEPT ![x] = b]
    /\ UNCHANGED <<files, disk, manifest, pc, slot, pins, recheck, checked, failed,
                   outcome, loads, swaps>>

Overwrite ==
    /\ pc # "ended" /\ changes < MaxChanges /\ changes' = changes + 1
    /\ \E s \in DOMAIN Slots, c \in Contents \cup {None} :
         Slots[s].runs = "sql" /\ files' = [files EXCEPT ![s] = c]
    /\ UNCHANGED <<disk, registry, manifest, pc, slot, pins, recheck, checked, failed,
                   outcome, loads, swaps>>

Next ==
    \/ Start \/ Pass \/ Check \/ Missing \/ Execute \/ Command \/ Finish
    \/ Upgrade \/ Serve \/ Overwrite

Spec == Init /\ [][Next]_vars

-----------------------------------------------------------------------------
(* engine.rs:2045, :2100: what a step or a hook runs, unless it was        *)
(* written over after the check that read it, installs nothing from        *)
(* elsewhere, each community extension it installs has been compared with  *)
(* its pin in this run, or named as without one, and SQL of its that arc   *)
(* does not read has been warned of: also in the hooks of a run that a     *)
(* check has refused.                                                      *)
RunsChecked ==
    Execute /\ files[slot] = checked =>
      LET found == check_file(checked)
      IN  /\ ~found.refused
          /\ \A x \in found.installed :
               IF pins[x] # None THEN x \in pinned ELSE <<"unpinned", x>> \in warned
          /\ run_time_warnings(slot, checked) \subseteq warned

(* engine.rs:2287, "fail the run when one differs, because a step replaced *)
(* it": in a run that succeeds, each build that a SQL file loaded after it *)
(* was compared is its pin, unless its file was replaced and put back.     *)
SuccessRanThePins ==
    outcome = "success" =>
      \A l \in loads : l[2] = pins[l[1]] \/ swaps[l[1]] >= 2

(* Both of them, step by step.                                             *)
PinsAreHonoured == [][RunsChecked /\ SuccessRanThePins']_vars
=============================================================================
