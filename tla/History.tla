------------------------------ MODULE History ------------------------------
(***************************************************************************)
(* Local history (src/src/history.rs): the entries kept for one file, the  *)
(* roads that record into them, and the roads that rewrite the file after  *)
(* keeping what it held.  Every road ends in record_keyed, which is four   *)
(* steps on disk: list the entries, write the new one, remove the save it  *)
(* merges into, prune.  A call may die, or fail, between any two of them.  *)
(*                                                                         *)
(* A text is a value of Texts.  The clock is a small integer that any Tick *)
(* may set, forwards or back.  The entry's way and the log's wording are   *)
(* left out, and so are a removal that fails and a folder that moves.      *)
(***************************************************************************)
EXTENDS Integers, FiniteSets, FiniteSetsExt, TLC

CONSTANTS Callers,      \* the threads and processes that may be in a call
          Texts,        \* what the file may hold
          Absent,       \* the file does not exist
          None,         \* no entry
          MaxEntries,   \* HISTORY_MAX_ENTRIES
          MergeWindow,  \* HISTORY_MERGE_WINDOW, in ticks
          MaxTime,      \* bound: the ticks the clock shows are 0..MaxTime
          MaxCalls      \* bound: calls and edits from outside

ASSUME HistoryAssumption ==
    /\ Absent \notin Texts
    /\ MaxEntries \in Nat \ {0}
    /\ {MergeWindow, MaxTime, MaxCalls} \subseteq Nat

\* For TLC: one text is as good as another.
Interchangeable == Permutations(Texts)

VARIABLES file,      \* the text on disk, or Absent
          entries,   \* the snapshots under the file's key
          log,       \* the ids the folder's log names
          now,       \* the wall clock
          pc, job,   \* each caller's place in its call, and the call
          calls,     \* how many calls and outside edits there have been
          lastKept,  \* ghost: the text of the last entry written
          promised   \* ghost: what a finished rewrite replaced, with the
                     \* entries kept since; forgotten when the bound may drop it

vars == <<file, entries, log, now, pc, job, calls, lastKept, promised>>

Kinds == {"save", "checkpoint", "unsaved"}
Rewrites == {"edit", "replace", "restore"}
Roads == {"record", "trailing"} \cup Rewrites
Stamps == [at : Nat, seq : Nat]
Entries == [stamp : Stamps, kind : Kinds, text : Texts]

(* What a call is to record, and what it does around that: original is the *)
(* text a rewrite read and target the one it writes; entry is the new      *)
(* entry, and old the save it replaces.                                    *)
Jobs == [road : Roads, kind : Kinds, merge : BOOLEAN, text : Texts,
         original : Texts \cup {Absent}, target : Texts,
         entry : Entries \cup {None}, old : Entries \cup {None}]

Later(a, b) == a.at > b.at \/ (a.at = b.at /\ a.seq > b.seq)

IsNewest(e) == e \in entries /\ \A f \in entries : ~Later(f.stamp, e.stamp)

Kept == {e.text : e \in entries}

\* Mutant of NextStamp: the clock alone.
NextStampFromClock(newest) == [at |-> now, seq |-> 0]

NextStamp(newest) ==
    IF newest # None /\ now <= newest.stamp.at
    THEN [at |-> newest.stamp.at, seq |-> newest.stamp.seq + 1]
    ELSE [at |-> now, seq |-> 0]

\* Mutants of Merges: a save merges whether asked to or not, and a merging save
\* replaces an entry of any kind.
MergesAlways(j, newest) ==
    /\ newest # None
    /\ j.kind = "save" /\ newest.kind = "save"
    /\ now >= newest.stamp.at /\ now - newest.stamp.at <= MergeWindow

MergesAnyKind(j, newest) ==
    /\ newest # None
    /\ j.merge /\ j.kind = "save"
    /\ now >= newest.stamp.at /\ now - newest.stamp.at <= MergeWindow

Merges(j, newest) ==
    /\ newest # None
    /\ j.merge /\ j.kind = "save" /\ newest.kind = "save"
    /\ now >= newest.stamp.at /\ now - newest.stamp.at <= MergeWindow

Recording(road, kind, merge, text, original, target) ==
    [road |-> road, kind |-> kind, merge |-> merge, text |-> text,
     original |-> original, target |-> target, entry |-> None, old |-> None]

NoJob == None

(***************************************************************************)
(* The calls.  A save is recorded by a caller that has written the file    *)
(* itself; arc's own merging save is the one after `create`.               *)
(***************************************************************************)
Init ==
    /\ file \in Texts \cup {Absent}
    /\ entries = {} /\ log = {}
    /\ now = 0
    /\ pc = [p \in Callers |-> "idle"]
    /\ job = [p \in Callers |-> NoJob]
    /\ calls = 0
    /\ lastKept = None /\ promised = {}

Enter(p, place, j) ==
    /\ pc[p] = "idle" /\ calls < MaxCalls
    /\ calls' = calls + 1
    /\ pc' = [pc EXCEPT ![p] = place]
    /\ job' = [job EXCEPT ![p] = j]
    /\ UNCHANGED <<entries, log, now, lastKept, promised>>

Save(p, t, merge) ==
    /\ Enter(p, "look", Recording("record", "save", merge, t, Absent, t))
    /\ file' = t

Checkpoint(p) ==
    /\ file # Absent
    /\ Enter(p, "look", Recording("record", "checkpoint", FALSE, file, file, file))
    /\ UNCHANGED file

Unsaved(p, t) ==
    /\ Enter(p, "look", Recording("record", "unsaved", FALSE, t, Absent, t))
    /\ UNCHANGED file

(* An edit, or a promoted step, needs a file to read.                      *)
Edit(p, t) ==
    /\ file # Absent
    /\ Enter(p, "look", Recording("edit", "checkpoint", FALSE, file, file, t))
    /\ UNCHANGED file

(* A report and a restore write a file that is not there, with nothing to  *)
(* keep first.                                                             *)
Rewrite(p, road, t) ==
    /\ IF file = Absent
       THEN Enter(p, "write", Recording(road, "checkpoint", FALSE, t, Absent, t))
       ELSE Enter(p, "look", Recording(road, "checkpoint", FALSE, file, file, t))
    /\ UNCHANGED file

Replace(p, t) == Rewrite(p, "replace", t)
Restore(p, e) == e \in entries /\ Rewrite(p, "restore", e.text)

(***************************************************************************)
(* record_keyed                                                            *)
(***************************************************************************)
AfterRecord(j) == IF j.road \in Rewrites THEN "write" ELSE "idle"

Move(p, place, j) ==
    /\ pc' = [pc EXCEPT ![p] = place]
    /\ job' = [job EXCEPT ![p] = IF place = "idle" THEN NoJob ELSE j]

Look(p) ==
    /\ pc[p] = "look"
    /\ \E newest \in entries \cup {None} :
          /\ IF entries = {} THEN newest = None
             ELSE newest # None /\ IsNewest(newest)
          /\ LET j == job[p] IN
             IF newest # None /\ newest.text = j.text
             THEN Move(p, AfterRecord(j), j)
             ELSE Move(p, "keep",
                       [j EXCEPT !.entry = [stamp |-> NextStamp(newest),
                                            kind |-> j.kind, text |-> j.text],
                                 !.old = IF Merges(j, newest) THEN newest ELSE None])
    /\ UNCHANGED <<file, entries, log, now, calls, lastKept, promised>>

(* The promises still within the bound once one more entry is kept.        *)
Aged == {[r EXCEPT !.age = r.age + 1] : r \in {q \in promised : q.age + 1 < MaxEntries}}

Promise(j, age) ==
    IF j.original \in {Absent, j.target} \/ age >= MaxEntries THEN {}
    ELSE {[road |-> j.road, text |-> j.original, age |-> age]}

SamePath(e, f) == e.stamp = f.stamp /\ e.kind = f.kind

(* A rewrite's text is promised once the save after it is kept.            *)
Keep(p) ==
    LET j == job[p] IN
    /\ pc[p] = "keep"
    /\ entries' = {e \in entries : ~SamePath(e, j.entry)} \cup {j.entry}
    /\ lastKept' = j.text
    /\ promised' = Aged \cup (IF j.road = "trailing" THEN Promise(j, 1) ELSE {})
    /\ Move(p, IF j.old = None THEN "prune" ELSE "fold", j)
    /\ UNCHANGED <<file, log, now, calls>>

\* Mutant of Fold: the merge removes the new entry.
FoldRemovesNew(p) ==
    /\ pc[p] = "fold"
    /\ entries' = entries \ {job[p].entry}
    /\ Move(p, "prune", job[p])
    /\ UNCHANGED <<file, log, now, calls, lastKept, promised>>

Fold(p) ==
    /\ pc[p] = "fold"
    /\ entries' = entries \ {job[p].old}
    /\ Move(p, "prune", job[p])
    /\ UNCHANGED <<file, log, now, calls, lastKept, promised>>

LogId(e) == [stamp |-> e.stamp, kind |-> e.kind]

(* The log's line is appended, or cannot be and is not missed.             *)
AppendLine(e) == log' \in {log, log \cup {LogId(e)}}

(* The oldest beyond the bound go; a rewrite's line waits for its write.   *)
Prune(p) ==
    /\ pc[p] = "prune"
    /\ \E kept \in kSubset(IF Cardinality(entries) < MaxEntries
                           THEN Cardinality(entries) ELSE MaxEntries, entries) :
          /\ \A e \in entries \ kept, f \in kept : ~Later(e.stamp, f.stamp)
          /\ entries' = kept
    /\ IF job[p].road \in Rewrites THEN UNCHANGED log ELSE AppendLine(job[p].entry)
    /\ Move(p, AfterRecord(job[p]), job[p])
    /\ UNCHANGED <<file, now, calls, lastKept, promised>>

(***************************************************************************)
(* The write a rewrite was for, and the unmerged save after it, which a    *)
(* restore does not make.                                                  *)
(***************************************************************************)
Write(p) ==
    LET j == job[p] IN
    /\ pc[p] = "write"
    /\ file' = j.target
    /\ IF j.entry = None THEN UNCHANGED log ELSE AppendLine(j.entry)
    /\ IF j.road = "restore"
       THEN Move(p, "idle", j) /\ promised' = promised \cup Promise(j, 0)
       ELSE /\ Move(p, "look", Recording("trailing", "save", FALSE,
                                         j.target, j.original, j.target))
            /\ UNCHANGED promised
    /\ UNCHANGED <<entries, now, calls, lastKept>>

\* Mutant of Stop: a checkpoint that fails does not stop the write.
StopIgnored(p) ==
    /\ pc[p] # "idle"
    /\ Move(p, AfterRecord(job[p]), job[p])
    /\ UNCHANGED <<file, entries, log, now, calls, lastKept, promised>>

(* The process dies, or a step of the call returns its error.              *)
Stop(p) ==
    /\ pc[p] # "idle"
    /\ Move(p, "idle", job[p])
    /\ UNCHANGED <<file, entries, log, now, calls, lastKept, promised>>

Tick ==
    /\ \E t \in 0..MaxTime \ {now} : now' = t
    /\ UNCHANGED <<file, entries, log, pc, job, calls, lastKept, promised>>

(* A person or another program writes the file, or deletes it.             *)
Elsewhere ==
    /\ calls < MaxCalls
    /\ calls' = calls + 1
    /\ \E t \in (Texts \cup {Absent}) \ {file} : file' = t
    /\ UNCHANGED <<entries, log, now, pc, job, lastKept, promised>>

Call(p) ==
    \/ \E t \in Texts : \E merge \in BOOLEAN : Save(p, t, merge)
    \/ Checkpoint(p)
    \/ \E t \in Texts : Unsaved(p, t)
    \/ \E t \in Texts : Edit(p, t)
    \/ \E t \in Texts : Replace(p, t)
    \/ \E e \in entries : Restore(p, e)

Step(p) == Look(p) \/ Keep(p) \/ Fold(p) \/ Prune(p) \/ Write(p)

Next ==
    \/ \E p \in Callers : Call(p) \/ Step(p) \/ Stop(p)
    \/ Tick
    \/ Elsewhere

Spec == Init /\ [][Next]_vars

(***************************************************************************)
(* Properties                                                              *)
(***************************************************************************)

(* Every value has its type: nothing a road records is ever the absence of *)
(* a file (history.rs:714, protocol_files.rs:113).                         *)
TypeOK ==
    /\ file \in Texts \cup {Absent}
    /\ entries \subseteq Entries
    /\ log \subseteq [stamp : Stamps, kind : Kinds]
    /\ now \in 0..MaxTime
    /\ pc \in [Callers -> {"idle", "look", "keep", "fold", "prune", "write"}]
    /\ job \in [Callers -> Jobs \cup {NoJob}]
    /\ \A p \in Callers :
          /\ pc[p] # "idle" => job[p] \in Jobs
          /\ pc[p] \in {"keep", "fold", "prune"} => job[p].entry \in Entries
    /\ calls \in 0..MaxCalls
    /\ lastKept \in Texts \cup {None}
    /\ promised \subseteq [road : Rewrites \cup {"trailing"}, text : Texts,
                           age : 0..MaxEntries - 1]

(* The text an edit, a promotion or a report replaced stays in the history *)
(* until the bound drops it, whatever is saved after it: the checkpoint    *)
(* may have been skipped as a duplicate of a save, and no later save folds *)
(* that save away (history.rs:218-221 and 1082-1084).                      *)
ReplacedIsKept ==
    \A r \in promised : r.road = "trailing" => r.text \in Kept

(* Every rollback is reversible: the text a restore replaced stays in the  *)
(* history until the bound drops it (history.rs:587-589).  The code does   *)
(* not keep this.                                                          *)
RestoreIsReversible ==
    \A r \in promised : r.road = "restore" => r.text \in Kept

(* The list's last entry is the last one recorded, though the clock may    *)
(* have stood still or stepped back (next_stamp, history.rs:1556-1558):    *)
(* the dedup and the merge both look at it.                                *)
NewestIsLatest ==
    entries # {} => \A e \in entries : IsNewest(e) => e.text = lastKept

(* What NewestIsLatest and OnlyBoundDrops rest on, for one caller: some    *)
(* entry is later than every other and holds the text last kept; the one   *)
(* being written is later than all of them; the one a merge removes is a   *)
(* save, and not the latest.                                               *)
OrderInv ==
    /\ IsFiniteSet(entries)
    /\ entries # {} => \E n \in entries :
          n.text = lastKept /\ \A e \in entries \ {n} : Later(n.stamp, e.stamp)
    /\ \A p \in Callers :
          /\ pc[p] = "keep" =>
                /\ job[p].entry.text = job[p].text
                /\ \A e \in entries : Later(job[p].entry.stamp, e.stamp)
                /\ job[p].old \in entries \cup {None}
                /\ job[p].old # None => job[p].old.kind = "save" /\ job[p].entry.kind = "save"
          /\ pc[p] = "fold" =>
                /\ job[p].old.kind = "save" /\ job[p].entry.kind = "save"
                /\ job[p].entry \in entries
                /\ Later(job[p].entry.stamp, job[p].old.stamp)
          /\ pc[p] \in {"fold", "prune"} => entries # {} /\ lastKept = job[p].text

(* What WhatItReadIsKept rests on, for one caller: a rewrite on its way to *)
(* its write is recording the text it read, and once there it is kept.     *)
KeptInv ==
    \A p \in Callers :
       /\ pc[p] \in {"look", "keep", "fold", "prune"} /\ job[p].road \in Rewrites
             => job[p].text = job[p].original
       /\ pc[p] = "write" => job[p].original \in Kept \cup {Absent}

Newer(e) == {f \in entries : Later(f.stamp, e.stamp)}

(* What ReplacedIsKept rests on, for one caller: each text promised after  *)
(* an edit or a report is in an entry that is not the newest, and that has *)
(* no more newer ones than have been kept since; no merge is about to      *)
(* remove it, for a merge removes the newest.  The first such entry is the *)
(* one last kept, when the rewrite writes and when its save is kept.       *)
PromiseInv ==
    /\ \A e, f \in entries : e.stamp = f.stamp => e = f
    /\ \A r \in promised : r.road = "trailing" =>
          \E e \in entries :
             /\ e.text = r.text
             /\ Newer(e) # {} /\ Cardinality(Newer(e)) <= r.age
             /\ \A p \in Callers : pc[p] = "fold" => e # job[p].old
    /\ \A p \in Callers :
          /\ pc[p] = "keep" /\ job[p].old # None => Newer(job[p].old) = {}
          /\ pc[p] # "idle" /\ job[p].road = "trailing" =>
                ~job[p].merge /\ (pc[p] = "keep" => job[p].old = None)
          /\ \/ pc[p] = "write"
             \/ pc[p] \in {"look", "keep"} /\ job[p].road = "trailing"
             => job[p].original = Absent \/ (entries # {} /\ lastKept = job[p].original)

KeepsWhatItRead ==
    \A p \in Callers :
       (pc[p] = "write" /\ file' # file /\ file = job[p].original)
          => file \in Kept \cup {Absent}

(* No checkpoint, no write: when a rewrite replaces the text it read, that *)
(* text is in the history at that moment, though the call may have failed, *)
(* merged, pruned or skipped a duplicate on its way there.                 *)
WhatItReadIsKept == [][KeepsWhatItRead]_vars

(* An entry leaves as the oldest of more than the bound, or as a save that *)
(* a later save replaces: a checkpoint and an unsaved text are never       *)
(* folded away (history.rs:212-228).                                       *)
OnlyBoundDrops ==
    [][\A e \in entries \ entries' :
          \/ /\ Cardinality(entries') = MaxEntries
             /\ \A f \in entries' : ~Later(e.stamp, f.stamp)
          \/ /\ e.kind = "save"
             /\ \E f \in entries' : f.kind = "save" /\ Later(f.stamp, e.stamp)]_vars
=============================================================================
