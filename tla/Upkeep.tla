-------------------------------- MODULE Upkeep --------------------------------
(***************************************************************************)
(* Five parts of arc that keep files for others to find: the checks of     *)
(* extensions around a run, a DuckLake catalog and its publishers, the     *)
(* cache of a registry, an install of skills, and the tools' stamps.       *)
(*                                                                         *)
(* They share no state: a behaviour is one of one part, and is a behaviour *)
(* of that part's module.  A variable that two parts have a use for is     *)
(* declared once; those the part at hand has no use for stay 0.            *)
(***************************************************************************)
EXTENDS Naturals

CONSTANTS None, MaxChanges,
          MaxFaults,                              \* part -> its bound
          Vetted, VettedHere, Others, Builds, Slots, Contents,  \* Extensions
          Publishers, Digests, AnswerFails, MaxSnapshots,       \* Lake
          Procs, Bodies, Queries, Ttl, MaxTime,                 \* Registry
          Names, Agents, Configs, Releases,                     \* Skills
          Runs, Gates, Places                                   \* Stamps

VARIABLES part, at, faults, changes,
          files, disk, registry, manifest, pc, slot, pins, installed, recorded,
          pinned, loaded, warned, checked, failed, outcome, loads, swaps,
          source, snapshots, data, copy, view, begun, report,
          remote, since, now, index, tmp, fetched, folders, left, meddled, proc, apart,
          dest, new, old, targets, release, nth, plans, had,
          found, store, row, product, run, unsure

OfExtensions == <<files, disk, registry, manifest, pc, slot, pins, installed,
                  recorded, pinned, loaded, warned, checked, failed, outcome,
                  loads, swaps>>
OfLake == <<source, snapshots, data, copy, view, begun, report>>
OfRegistry == <<remote, since, now, index, tmp, fetched, folders, left, meddled, proc, apart>>
OfSkills == <<dest, new, old, targets, release, nth, plans, had>>
OfStamps == <<found, store, row, product, run, unsure>>

vars == <<part, at, faults, changes,
          OfExtensions, OfLake, OfRegistry, OfSkills, OfStamps>>

E == INSTANCE Extensions
L == INSTANCE Lake WITH MaxFaults <- MaxFaults["lake"]
R == INSTANCE Registry WITH MaxFaults <- MaxFaults["registry"]
K == INSTANCE Skills WITH MaxFaults <- MaxFaults["skills"]
T == INSTANCE Stamps WITH MaxFaults <- MaxFaults["stamps"]

-----------------------------------------------------------------------------
NoExtensions ==
    /\ files = 0 /\ disk = 0 /\ registry = 0 /\ manifest = 0 /\ pc = 0 /\ slot = 0
    /\ pins = 0 /\ installed = 0 /\ recorded = 0 /\ pinned = 0 /\ loaded = 0
    /\ warned = 0 /\ checked = 0 /\ failed = 0 /\ outcome = 0 /\ loads = 0 /\ swaps = 0

NoLake == /\ source = 0 /\ snapshots = 0 /\ data = 0 /\ copy = 0 /\ view = 0
          /\ begun = 0 /\ report = 0

NoRegistry == /\ remote = 0 /\ since = 0 /\ now = 0 /\ index = 0 /\ tmp = 0
              /\ fetched = 0 /\ folders = 0 /\ left = 0 /\ meddled = 0
              /\ proc = 0 /\ apart = 0

NoSkills == /\ dest = 0 /\ new = 0 /\ old = 0 /\ targets = 0 /\ release = 0
            /\ nth = 0 /\ plans = 0 /\ had = 0

NoStamps == /\ found = 0 /\ store = 0 /\ row = 0 /\ product = 0 /\ run = 0 /\ unsure = 0

Init ==
    \/ /\ part = "extensions" /\ E!Init /\ at = 0 /\ faults = 0
       /\ NoLake /\ NoRegistry /\ NoSkills /\ NoStamps
    \/ /\ part = "lake" /\ L!Init /\ changes = 0
       /\ NoExtensions /\ NoRegistry /\ NoSkills /\ NoStamps
    \/ /\ part = "registry" /\ R!Init /\ at = 0 /\ changes = 0
       /\ NoExtensions /\ NoLake /\ NoSkills /\ NoStamps
    \/ /\ part = "skills" /\ K!Init
       /\ NoExtensions /\ NoLake /\ NoRegistry /\ NoStamps
    \/ /\ part = "stamps" /\ T!Init /\ at = 0
       /\ NoExtensions /\ NoLake /\ NoRegistry /\ NoSkills

Next ==
    /\ \/ /\ part = "extensions" /\ E!Next
          /\ UNCHANGED <<at, faults, OfLake, OfRegistry, OfSkills, OfStamps>>
       \/ /\ part = "lake" /\ L!Next
          /\ UNCHANGED <<changes, OfExtensions, OfRegistry, OfSkills, OfStamps>>
       \/ /\ part = "registry" /\ R!Next
          /\ UNCHANGED <<at, changes, OfExtensions, OfLake, OfSkills, OfStamps>>
       \/ /\ part = "skills" /\ K!Next
          /\ UNCHANGED <<OfExtensions, OfLake, OfRegistry, OfStamps>>
       \/ /\ part = "stamps" /\ T!Next
          /\ UNCHANGED <<at, OfExtensions, OfLake, OfRegistry, OfSkills>>
    /\ UNCHANGED part

Spec == Init /\ [][Next]_vars

-----------------------------------------------------------------------------
\* Every file a snapshot of the catalog refers to is in the data path, whoever
\* published it and wherever a publish failed (ducklake_publish.rs:593).
ReferencedIsThere == part = "lake" => L!ReferencedIsThere

\* A publish reported as a no-op finds the table holding the file's bytes, in the
\* newest snapshot it has looked at (ducklake_publish.rs:20).
NoOpHolds == [][part = "lake" => L!NoOpIsRight]_vars

\* The time beside an index is never later than the moment the registry last
\* served that index, unless two fetches overlap; and what is shown or run is the
\* tree its entry resolves to (registry/cache.rs:152, mod.rs:39).
CacheIsAsItSays == part = "registry" => R!CacheIsAsItSays

\* A step that its tools let pass has a product its present tools made, unless a
\* kill, a change of tools or another run came before its stamp (precondition.rs:128).
SkippedHasItsTools == part = "stamps" => T!SkippedHasItsTools

(* engine.rs:2045 and :2287: what SQL installs is checked before it runs,  *)
(* and a run that succeeds has loaded the builds it is pinned to.          *)
PinsAreHonoured ==
    [][part = "extensions" => E!RunsChecked /\ E!SuccessRanThePins']_vars

(* skills.rs:231 and :243: an install leaves a person's folder as it is,   *)
(* and never leaves an installed skill in no place.                        *)
PersonsAreKept ==
    [][part = "skills" => K!KeepsPersons /\ K!InstalledIsSomewhere']_vars
=============================================================================
