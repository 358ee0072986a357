---------------------------- MODULE HistoryProofs ----------------------------
(***************************************************************************)
(* Theorems about module History, for any texts, bound, window and clock.  *)
(***************************************************************************)
EXTENDS History, FiniteSetTheorems, TLAPS

-----------------------------------------------------------------------------
(* Types. *)

Places == {"idle", "look", "keep", "fold", "prune", "write"}

\* What TypeOK says of the calls.
CallTypes ==
    /\ pc \in [Callers -> Places]
    /\ job \in [Callers -> Jobs \cup {NoJob}]
    /\ \A p \in Callers :
          /\ pc[p] # "idle" => job[p] \in Jobs
          /\ pc[p] \in {"keep", "fold", "prune"} => job[p].entry \in Entries

\* One caller moves, with a job the place asks for.
LEMMA MoveTypes ==
    ASSUME TypeOK, NEW p \in Callers, NEW place \in Places, NEW j,
           place # "idle" => j \in Jobs,
           place \in {"keep", "fold", "prune"} => j.entry \in Entries,
           Move(p, place, j)
    PROVE  CallTypes'
BY DEF TypeOK, CallTypes, Move, Places, NoJob

\* What a call is given, it keeps with its types.
LEMMA RecordingTypes ==
    ASSUME NEW road \in Roads, NEW kind \in Kinds, NEW merge \in BOOLEAN, NEW t \in Texts,
           NEW original \in Texts \cup {Absent}, NEW target \in Texts
    PROVE  Recording(road, kind, merge, t, original, target) \in Jobs
BY DEF Recording, Jobs

LEMMA EnterTypes ==
    ASSUME TypeOK, NEW p \in Callers, NEW place \in {"look", "write"}, NEW j \in Jobs,
           Enter(p, place, j), file' \in Texts \cup {Absent}
    PROVE  TypeOK'
<1>1. CallTypes'
  BY DEF TypeOK, CallTypes, Enter, Places
<1>2. calls' \in 0..MaxCalls
  BY HistoryAssumption DEF TypeOK, Enter
<1> QED
  BY <1>1, <1>2 DEF TypeOK, CallTypes, Enter, Places

LEMMA CallTypeOK ==
    ASSUME TypeOK, NEW p \in Callers, Call(p)
    PROVE  TypeOK'
<1>1. ASSUME NEW t \in Texts, NEW merge \in BOOLEAN, Save(p, t, merge) PROVE TypeOK'
  <2>1. Recording("record", "save", merge, t, Absent, t) \in Jobs
    BY RecordingTypes DEF Roads, Kinds
  <2> QED BY <1>1, <2>1, EnterTypes DEF Save
<1>2. CASE Checkpoint(p)
  <2>1. file \in Texts
    BY <1>2 DEF Checkpoint, TypeOK
  <2>2. Recording("record", "checkpoint", FALSE, file, file, file) \in Jobs
    BY <2>1, RecordingTypes DEF Roads, Kinds
  <2> QED BY <1>2, <2>1, <2>2, EnterTypes DEF Checkpoint
<1>3. ASSUME NEW t \in Texts, Unsaved(p, t) PROVE TypeOK'
  <2>1. Recording("record", "unsaved", FALSE, t, Absent, t) \in Jobs
    BY RecordingTypes DEF Roads, Kinds
  <2> QED BY <1>3, <2>1, EnterTypes DEF Unsaved, TypeOK
<1>4. ASSUME NEW t \in Texts, Edit(p, t) PROVE TypeOK'
  <2>1. file \in Texts
    BY <1>4 DEF Edit, TypeOK
  <2>2. Recording("edit", "checkpoint", FALSE, file, file, t) \in Jobs
    BY <2>1, RecordingTypes DEF Roads, Kinds, Rewrites
  <2> QED BY <1>4, <2>1, <2>2, EnterTypes DEF Edit
<1>5. ASSUME NEW t \in Texts, NEW road \in {"replace", "restore"}, Rewrite(p, road, t)
      PROVE  TypeOK'
  <2>1. file' \in Texts \cup {Absent}
    BY <1>5 DEF Rewrite, TypeOK
  <2>2. CASE file = Absent
    <3>1. Recording(road, "checkpoint", FALSE, t, Absent, t) \in Jobs
      BY RecordingTypes DEF Roads, Kinds, Rewrites
    <3> QED BY <1>5, <2>1, <2>2, <3>1, EnterTypes DEF Rewrite
  <2>3. CASE file # Absent
    <3>1. Recording(road, "checkpoint", FALSE, file, file, t) \in Jobs
      BY <2>3, RecordingTypes DEF TypeOK, Roads, Kinds, Rewrites
    <3> QED BY <1>5, <2>1, <2>3, <3>1, EnterTypes DEF Rewrite
  <2> QED BY <2>2, <2>3
<1>6. ASSUME NEW e \in entries, Restore(p, e) PROVE TypeOK'
  <2>1. e.text \in Texts
    BY DEF TypeOK, Entries
  <2> QED BY <1>5, <1>6, <2>1 DEF Restore
<1> QED
  BY <1>1, <1>2, <1>3, <1>4, <1>5, <1>6 DEF Call, Replace

\* A stamp is a stamp, whatever the clock says.
LEMMA NextStampType ==
    ASSUME TypeOK, NEW newest \in entries \cup {None}
    PROVE  NextStamp(newest) \in Stamps
BY HistoryAssumption DEF NextStamp, TypeOK, Entries, Stamps

LEMMA LookTypeOK ==
    ASSUME TypeOK, NEW p \in Callers, Look(p)
    PROVE  TypeOK'
<1>1. job[p] \in Jobs
  BY DEF TypeOK, Look
<1>2. PICK newest \in entries \cup {None} :
        IF newest # None /\ newest.text = job[p].text
        THEN Move(p, AfterRecord(job[p]), job[p])
        ELSE Move(p, "keep",
                  [job[p] EXCEPT
                     !.entry = [stamp |-> NextStamp(newest),
                                kind |-> job[p].kind, text |-> job[p].text],
                     !.old = IF Merges(job[p], newest) THEN newest ELSE None])
  BY DEF Look
<1> DEFINE e == [stamp |-> NextStamp(newest), kind |-> job[p].kind, text |-> job[p].text]
           o == IF Merges(job[p], newest) THEN newest ELSE None
           k == [job[p] EXCEPT !.entry = e, !.old = o]
<1>3. e \in Entries
  BY <1>1, NextStampType DEF Entries, Jobs
<1>4. o \in Entries \cup {None}
  BY DEF TypeOK
<1>5. k \in Jobs /\ k.entry \in Entries
  <2> HIDE DEF e, o
  <2> QED BY <1>1, <1>3, <1>4 DEF Jobs
<1>6. CallTypes'
  <2>1. CASE Move(p, AfterRecord(job[p]), job[p])
    <3>1. AfterRecord(job[p]) \in Places
            /\ AfterRecord(job[p]) \notin {"keep", "fold", "prune"}
      BY DEF AfterRecord, Places
    <3> QED BY <1>1, <2>1, <3>1, MoveTypes
  <2>2. CASE Move(p, "keep", k)
    <3> HIDE DEF k
    <3> QED BY <1>5, <2>2, MoveTypes DEF Places
  <2> QED BY <1>2, <2>1, <2>2
<1> QED
  BY <1>6 DEF TypeOK, CallTypes, Look, Places

LEMMA KeepTypeOK ==
    ASSUME TypeOK, NEW p \in Callers, Keep(p)
    PROVE  TypeOK'
<1>1. job[p] \in Jobs /\ job[p].entry \in Entries
  BY DEF TypeOK, Keep
<1>2. CallTypes'
  BY <1>1, MoveTypes DEF Keep, Places
<1>3. entries' \subseteq Entries /\ lastKept' \in Texts
  BY <1>1 DEF TypeOK, Keep, Jobs
<1>4. promised' \subseteq [road : Rewrites \cup {"trailing"}, text : Texts,
                           age : 0..MaxEntries - 1]
  <2> DEFINE R == [road : Rewrites \cup {"trailing"}, text : Texts, age : 0..MaxEntries - 1]
  <2>1. Aged \subseteq R
    BY HistoryAssumption DEF TypeOK, Aged
  <2>2. job[p].road = "trailing" => Promise(job[p], 1) \subseteq R
    BY <1>1, HistoryAssumption DEF Promise, Jobs
  <2> QED BY <2>1, <2>2 DEF Keep
<1> QED
  BY <1>2, <1>3, <1>4 DEF TypeOK, CallTypes, Keep, Places

LEMMA FoldTypeOK ==
    ASSUME TypeOK, NEW p \in Callers, Fold(p)
    PROVE  TypeOK'
<1>1. CallTypes'
  BY MoveTypes DEF TypeOK, Fold, Places
<1> QED
  BY <1>1 DEF TypeOK, CallTypes, Fold, Places

LEMMA PruneTypeOK ==
    ASSUME TypeOK, NEW p \in Callers, Prune(p)
    PROVE  TypeOK'
<1>1. job[p] \in Jobs /\ job[p].entry \in Entries
  BY DEF TypeOK, Prune
<1>2. AfterRecord(job[p]) \in Places
        /\ AfterRecord(job[p]) \notin {"keep", "fold", "prune"}
  BY DEF AfterRecord, Places
<1>3. CallTypes'
  BY <1>1, <1>2, MoveTypes DEF Prune
<1>4. entries' \subseteq Entries
  BY DEF TypeOK, Prune, kSubset
<1>5. log' \subseteq [stamp : Stamps, kind : Kinds]
  BY <1>1 DEF TypeOK, Prune, AppendLine, LogId, Entries
<1> QED
  BY <1>3, <1>4, <1>5 DEF TypeOK, CallTypes, Prune, Places

LEMMA WriteTypeOK ==
    ASSUME TypeOK, NEW p \in Callers, Write(p)
    PROVE  TypeOK'
<1>1. job[p] \in Jobs
  BY DEF TypeOK, Write
<1>2. log' \subseteq [stamp : Stamps, kind : Kinds]
  BY <1>1 DEF TypeOK, Write, AppendLine, LogId, Entries, Jobs
<1>3. CASE job[p].road = "restore"
  <2>1. CallTypes'
    BY <1>3, MoveTypes DEF Write, Places
  <2>2. promised' \subseteq [road : Rewrites \cup {"trailing"}, text : Texts,
                             age : 0..MaxEntries - 1]
    BY <1>1, <1>3, HistoryAssumption DEF TypeOK, Write, Promise, Jobs, Rewrites
  <2> QED
    BY <1>1, <1>2, <2>1, <2>2 DEF TypeOK, CallTypes, Write, Places, Jobs
<1>4. CASE job[p].road # "restore"
  <2> DEFINE t == Recording("trailing", "save", FALSE,
                            job[p].target, job[p].original, job[p].target)
  <2>1. t \in Jobs
    BY <1>1, RecordingTypes DEF Roads, Kinds, Jobs
  <2>2. Move(p, "look", t)
    BY <1>4 DEF Write
  <2>3. CallTypes'
    <3> HIDE DEF t
    <3> QED BY <2>1, <2>2, MoveTypes DEF Places
  <2> QED
    BY <1>1, <1>2, <1>4, <2>3 DEF TypeOK, CallTypes, Write, Places, Jobs
<1> QED BY <1>3, <1>4

LEMMA StopTypeOK ==
    ASSUME TypeOK, NEW p \in Callers, Stop(p)
    PROVE  TypeOK'
<1>1. CallTypes'
  BY MoveTypes DEF Stop, Places
<1> QED
  BY <1>1 DEF TypeOK, CallTypes, Stop, Places

\* Every variable of the history and of the calls keeps its type: nothing a
\* road records is ever the absence of a file.
THEOREM HistoryTypeOK == Spec => []TypeOK
<1>1. Init => TypeOK
  BY HistoryAssumption DEF Init, TypeOK, NoJob
<1>2. TypeOK /\ [Next]_vars => TypeOK'
  <2> SUFFICES ASSUME TypeOK, [Next]_vars PROVE TypeOK'
    OBVIOUS
  <2>1. CASE UNCHANGED vars
    BY <2>1 DEF vars, TypeOK
  <2>2. CASE Tick
    BY <2>2 DEF Tick, TypeOK
  <2>3. CASE Elsewhere
    BY <2>3, HistoryAssumption DEF Elsewhere, TypeOK
  <2> QED
    BY <2>1, <2>2, <2>3, CallTypeOK, LookTypeOK, KeepTypeOK, FoldTypeOK, PruneTypeOK,
       WriteTypeOK, StopTypeOK DEF Next, Step
<1> QED BY <1>1, <1>2, PTL DEF Spec

-----------------------------------------------------------------------------
(* The list stays in the order of recording, for one caller. *)

\* Later is a strict order.
LEMMA LaterStrict ==
    ASSUME NEW a \in Stamps, NEW b \in Stamps
    PROVE  /\ ~Later(a, a)
           /\ ~(Later(a, b) /\ Later(b, a))
BY DEF Later, Stamps

LEMMA LaterTransitive ==
    ASSUME NEW a \in Stamps, NEW b \in Stamps, NEW c \in Stamps, Later(a, b), ~Later(c, b)
    PROVE  Later(a, c)
BY DEF Later, Stamps

\* The stamp taken is later than the newest entry's, whatever the clock says.
LEMMA NextStampIsLater ==
    ASSUME TypeOK, NEW newest \in entries, newest # None
    PROVE  Later(NextStamp(newest), newest.stamp)
BY HistoryAssumption DEF NextStamp, Later, TypeOK, Entries, Stamps

\* What a call does not touch keeps OrderInv, when no call is left recording.
LEMMA OrderQuiet ==
    ASSUME OrderInv, UNCHANGED <<entries, lastKept>>,
           \A p \in Callers : pc'[p] \notin {"keep", "fold", "prune"}
    PROVE  OrderInv'
BY DEF OrderInv

\* With one caller, what moves is that caller.
LEMMA MoveAlone ==
    ASSUME TypeOK, NEW p, Callers = {p}, NEW place, NEW j, Move(p, place, j)
    PROVE  \A q \in Callers : pc'[q] = place
BY DEF TypeOK, Move

LEMMA OrderLook ==
    ASSUME TypeOK, OrderInv, NEW p, Callers = {p}, Look(p)
    PROVE  OrderInv'
<1>1. PICK newest \in entries \cup {None} :
        /\ IF entries = {} THEN newest = None ELSE newest # None /\ IsNewest(newest)
        /\ IF newest # None /\ newest.text = job[p].text
           THEN Move(p, AfterRecord(job[p]), job[p])
           ELSE Move(p, "keep",
                     [job[p] EXCEPT
                        !.entry = [stamp |-> NextStamp(newest),
                                   kind |-> job[p].kind, text |-> job[p].text],
                        !.old = IF Merges(job[p], newest) THEN newest ELSE None])
  BY DEF Look
<1>2. UNCHANGED <<entries, lastKept>>
  BY DEF Look
<1>3. CASE Move(p, AfterRecord(job[p]), job[p])
  BY <1>2, <1>3, OrderQuiet, MoveAlone DEF AfterRecord
<1>4. CASE ~(newest # None /\ newest.text = job[p].text)
  <2> DEFINE e == [stamp |-> NextStamp(newest), kind |-> job[p].kind, text |-> job[p].text]
             o == IF Merges(job[p], newest) THEN newest ELSE None
             k == [job[p] EXCEPT !.entry = e, !.old = o]
  <2>1. job[p] \in Jobs
    BY DEF TypeOK, Look
  <2>2. k.entry = e /\ k.old = o /\ k.text = job[p].text
    <3> HIDE DEF e, o
    <3> QED BY <2>1 DEF Jobs
  <2>3. Move(p, "keep", k)
    BY <1>1, <1>4
  <2>4. job'[p] = k /\ pc'[p] = "keep"
    <3> HIDE DEF k
    <3> QED BY <2>3 DEF TypeOK, Move
  <2>5. ASSUME NEW f \in entries PROVE Later(NextStamp(newest), f.stamp)
    <3>1. newest \in entries /\ newest # None /\ ~Later(f.stamp, newest.stamp)
      BY <1>1, <2>5 DEF IsNewest
    <3>2. Later(NextStamp(newest), newest.stamp)
      BY <3>1, NextStampIsLater
    <3>3. NextStamp(newest) \in Stamps /\ newest.stamp \in Stamps /\ f.stamp \in Stamps
      BY <3>1, NextStampType DEF TypeOK, Entries
    <3> QED BY <3>1, <3>2, <3>3, LaterTransitive
  <2>6. o \in entries \cup {None}
    OBVIOUS
  <2>7. o # None => o.kind = "save" /\ e.kind = "save"
    BY DEF Merges
  <2> HIDE DEF k
  <2> QED BY <1>2, <2>2, <2>4, <2>5, <2>6, <2>7 DEF OrderInv
<1> QED BY <1>1, <1>3, <1>4

LEMMA OrderKeep ==
    ASSUME TypeOK, OrderInv, NEW p, Callers = {p}, Keep(p)
    PROVE  OrderInv'
<1> DEFINE new == job[p].entry
           others == {e \in entries : ~SamePath(e, new)}
<1>1. /\ job[p] \in Jobs /\ new \in Entries
      /\ new.text = job[p].text
      /\ \A e \in entries : Later(new.stamp, e.stamp)
      /\ job[p].old \in entries \cup {None}
      /\ job[p].old # None => job[p].old.kind = "save" /\ new.kind = "save"
  BY DEF TypeOK, OrderInv, Keep
<1>2. entries' = others \cup {new} /\ lastKept' = new.text
  BY <1>1 DEF Keep
<1>3. others = entries
  <2> SUFFICES ASSUME NEW e \in entries PROVE ~SamePath(e, new)
    OBVIOUS
  <2> QED BY <1>1, LaterStrict DEF SamePath, TypeOK, Entries
<1>4. IsFiniteSet(entries')
  BY <1>2, <1>3, FS_AddElement DEF OrderInv
<1>5. \A e \in entries' \ {new} : Later(new.stamp, e.stamp)
  BY <1>1, <1>2, <1>3
<1>6. job'[p] = job[p] /\ pc'[p] = IF job[p].old = None THEN "prune" ELSE "fold"
  BY DEF Keep, Move, TypeOK
<1>7. job[p].old # None => Later(new.stamp, job[p].old.stamp)
  BY <1>1
<1> HIDE DEF new, others
<1> QED BY <1>1, <1>2, <1>4, <1>5, <1>6, <1>7 DEF OrderInv, new

LEMMA OrderFold ==
    ASSUME TypeOK, OrderInv, NEW p, Callers = {p}, Fold(p)
    PROVE  OrderInv'
<1>1. PICK n \in entries :
        n.text = lastKept /\ \A e \in entries \ {n} : Later(n.stamp, e.stamp)
  BY DEF OrderInv, Fold
<1>2. PICK e \in entries : Later(e.stamp, job[p].old.stamp)
  BY DEF OrderInv, Fold
<1>3. n # job[p].old
  <2> SUFFICES ASSUME n = job[p].old PROVE FALSE
    OBVIOUS
  <2>1. n.stamp \in Stamps /\ e.stamp \in Stamps
    BY DEF TypeOK, Entries
  <2>2. e = n \/ Later(n.stamp, e.stamp)
    BY <1>1
  <2> QED BY <1>2, <2>1, <2>2, LaterStrict
<1>4. n \in entries'
  BY <1>3 DEF Fold
<1>5. IsFiniteSet(entries')
  BY FS_RemoveElement DEF OrderInv, Fold
<1>6. /\ pc'[p] = "prune" /\ job'[p].text = job[p].text
      /\ entries' \subseteq entries /\ lastKept' = lastKept
  BY DEF Fold, Move, TypeOK
<1>7. lastKept = job[p].text
  BY DEF OrderInv, Fold
<1> QED BY <1>1, <1>4, <1>5, <1>6, <1>7 DEF OrderInv

\* The last entry is among those a prune leaves.
LEMMA OrderPruned ==
    ASSUME TypeOK, OrderInv, NEW p \in Callers, Prune(p)
    PROVE  /\ entries' \subseteq entries
           /\ \A n \in entries :
                 (\A e \in entries \ {n} : Later(n.stamp, e.stamp)) => n \in entries'
           /\ entries' # {}
<1> DEFINE k == IF Cardinality(entries) < MaxEntries THEN Cardinality(entries) ELSE MaxEntries
<1>1. entries' \in kSubset(k, entries)
        /\ \A e \in entries \ entries', f \in entries' : ~Later(e.stamp, f.stamp)
  BY DEF Prune
<1>2. entries' \subseteq entries /\ Cardinality(entries') = k
  BY <1>1 DEF kSubset
<1>3. k # 0
  <2>1. Cardinality(entries) # 0
    BY FS_EmptySet DEF OrderInv, Prune
  <2> QED BY <2>1, HistoryAssumption
<1>4. entries' # {}
  BY <1>2, <1>3, FS_EmptySet
<1> HIDE DEF k
<1> QED BY <1>1, <1>2, <1>4

LEMMA OrderPrune ==
    ASSUME TypeOK, OrderInv, NEW p, Callers = {p}, Prune(p)
    PROVE  OrderInv'
<1>1. PICK n \in entries :
        n.text = lastKept /\ \A e \in entries \ {n} : Later(n.stamp, e.stamp)
  BY DEF OrderInv, Prune
<1>3. n \in entries' /\ entries' \subseteq entries
  BY <1>1, OrderPruned
<1>4. IsFiniteSet(entries')
  BY <1>3, FS_Subset DEF OrderInv
<1>5. lastKept' = lastKept /\ \A q \in Callers : pc'[q] \notin {"keep", "fold", "prune"}
  BY MoveAlone DEF Prune, AfterRecord
<1> QED BY <1>1, <1>3, <1>4, <1>5 DEF OrderInv

\* Any other step leaves the entries alone, and its caller is not recording.
LEMMA OrderOther ==
    ASSUME TypeOK, OrderInv, NEW p, Callers = {p}, Call(p) \/ Write(p) \/ Stop(p)
    PROVE  OrderInv'
<1>1. UNCHANGED <<entries, lastKept>>
  BY DEF Call, Write, Stop, Save, Checkpoint, Unsaved, Edit, Replace, Restore, Rewrite, Enter
<1>2. pc'[p] \in {"idle", "look", "write"}
  BY DEF TypeOK, Call, Write, Stop, Save, Checkpoint, Unsaved, Edit, Replace, Restore,
         Rewrite, Enter, Move
<1> QED BY <1>1, <1>2, OrderQuiet

LEMMA OrderStep ==
    ASSUME NEW p, Callers = {p}
    PROVE  TypeOK /\ OrderInv /\ [Next]_vars => OrderInv'
<1> SUFFICES ASSUME TypeOK, OrderInv, [Next]_vars PROVE OrderInv'
  OBVIOUS
<1>1. CASE UNCHANGED vars \/ Tick \/ Elsewhere
  BY <1>1 DEF vars, Tick, Elsewhere, OrderInv
<1> QED
  BY <1>1, OrderLook, OrderKeep, OrderFold, OrderPrune, OrderOther DEF Next, Step

\* While one call at a time is made, the list's last entry is the last one
\* recorded, whatever the clock does and wherever a call stops.
THEOREM ListKeepsOrder ==
    ASSUME NEW p, Callers = {p}
    PROVE  Spec => []NewestIsLatest
<1>1. Init => OrderInv
  BY FS_EmptySet DEF Init, OrderInv
<1>2. TypeOK /\ OrderInv /\ [Next]_vars => OrderInv'
  BY OrderStep
<1>3. TypeOK /\ OrderInv => NewestIsLatest
  <2> SUFFICES ASSUME TypeOK, OrderInv, NEW e \in entries, IsNewest(e) PROVE e.text = lastKept
    BY DEF NewestIsLatest
  <2> QED BY DEF OrderInv, IsNewest
<1> QED BY <1>1, <1>2, <1>3, HistoryTypeOK, PTL DEF Spec

\* While one call at a time is made, an entry leaves as the oldest beyond the
\* bound, or as a save that a later save replaces.
THEOREM DropsAreBounded ==
    ASSUME NEW p, Callers = {p}
    PROVE  Spec => OnlyBoundDrops
<1> DEFINE Allowed(e) ==
        \/ /\ Cardinality(entries') = MaxEntries
           /\ \A f \in entries' : ~Later(e.stamp, f.stamp)
        \/ /\ e.kind = "save"
           /\ \E f \in entries' : f.kind = "save" /\ Later(f.stamp, e.stamp)
<1>1. Init => OrderInv
  BY FS_EmptySet DEF Init, OrderInv
<1>2. TypeOK /\ OrderInv /\ [Next]_vars => OrderInv'
  BY OrderStep
<1>3. TypeOK /\ OrderInv /\ [Next]_vars => [\A e \in entries \ entries' : Allowed(e)]_vars
  <2> SUFFICES ASSUME TypeOK, OrderInv, [Next]_vars, NEW e \in entries \ entries'
               PROVE  Allowed(e)
    OBVIOUS
  <2>1. CASE Keep(p)
    <3>1. e \in entries => ~SamePath(e, job[p].entry)
      BY <2>1, LaterStrict DEF OrderInv, Keep, SamePath, TypeOK, Entries
    <3> QED BY <2>1, <3>1 DEF Keep
  <2>2. CASE Fold(p)
    <3>1. /\ e = job[p].old /\ e.kind = "save"
          /\ job[p].entry \in entries /\ job[p].entry.kind = "save"
          /\ Later(job[p].entry.stamp, e.stamp)
      BY <2>2 DEF Fold, OrderInv
    <3>2. job[p].entry # e
      BY <3>1, LaterStrict DEF TypeOK, Entries
    <3>3. job[p].entry \in entries'
      BY <2>2, <3>1, <3>2 DEF Fold
    <3> QED BY <3>1, <3>3
  <2>3. CASE Prune(p)
    <3> DEFINE k == IF Cardinality(entries) < MaxEntries
                    THEN Cardinality(entries) ELSE MaxEntries
    <3>1. entries' \in kSubset(k, entries)
            /\ \A d \in entries \ entries', f \in entries' : ~Later(d.stamp, f.stamp)
      BY <2>3 DEF Prune
    <3>2. entries' \subseteq entries /\ Cardinality(entries') = k
      BY <3>1 DEF kSubset
    <3>3. Cardinality(entries') # Cardinality(entries)
      BY <3>2, FS_Subset DEF OrderInv
    <3> QED BY <3>1, <3>2, <3>3
  <2>4. CASE UNCHANGED entries
    BY <2>4
  <2>5. UNCHANGED entries \/ Keep(p) \/ Fold(p) \/ Prune(p)
    BY DEF Next, Step, Call, Look, Write, Stop, Save, Checkpoint, Unsaved, Edit, Replace,
           Restore, Rewrite, Enter, Tick, Elsewhere, vars
  <2> QED BY <2>1, <2>2, <2>3, <2>4, <2>5
<1> QED BY <1>1, <1>2, <1>3, HistoryTypeOK, PTL DEF Spec, OnlyBoundDrops

-----------------------------------------------------------------------------
(* A rewrite keeps what it read, for one caller. *)

LEMMA KeptInit == Init => KeptInv
BY DEF Init, KeptInv

LEMMA KeptCall ==
    ASSUME TypeOK, KeptInv, NEW p, Callers = {p}, Call(p)
    PROVE  KeptInv'
<1>1. ASSUME NEW place \in {"look", "write"}, NEW j, Enter(p, place, j),
             place = "look" /\ j.road \in Rewrites => j.text = j.original,
             place = "write" => j.original = Absent
      PROVE  KeptInv'
  <2>1. pc'[p] = place /\ job'[p] = j
    BY <1>1 DEF Enter, TypeOK
  <2> QED BY <1>1, <2>1 DEF KeptInv
<1>2. ASSUME NEW t \in Texts, NEW merge \in BOOLEAN, Save(p, t, merge) PROVE KeptInv'
  BY <1>1, <1>2 DEF Save, Recording, Rewrites
<1>3. CASE Checkpoint(p)
  BY <1>1, <1>3 DEF Checkpoint, Recording, Rewrites
<1>4. ASSUME NEW t \in Texts, Unsaved(p, t) PROVE KeptInv'
  BY <1>1, <1>4 DEF Unsaved, Recording, Rewrites
<1>5. ASSUME NEW t \in Texts, Edit(p, t) PROVE KeptInv'
  BY <1>1, <1>5 DEF Edit, Recording, Rewrites
<1>6. ASSUME NEW t, NEW road, Rewrite(p, road, t) PROVE KeptInv'
  BY <1>1, <1>6 DEF Rewrite, Recording
<1> QED BY <1>2, <1>3, <1>4, <1>5, <1>6 DEF Call, Replace, Restore

LEMMA KeptLook ==
    ASSUME TypeOK, KeptInv, NEW p, Callers = {p}, Look(p)
    PROVE  KeptInv'
<1>1. PICK newest \in entries \cup {None} :
        IF newest # None /\ newest.text = job[p].text
        THEN Move(p, AfterRecord(job[p]), job[p])
        ELSE Move(p, "keep",
                  [job[p] EXCEPT
                     !.entry = [stamp |-> NextStamp(newest),
                                kind |-> job[p].kind, text |-> job[p].text],
                     !.old = IF Merges(job[p], newest) THEN newest ELSE None])
  BY DEF Look
<1>2. job[p] \in Jobs /\ entries' = entries
  BY DEF TypeOK, Look
<1>3. CASE newest # None /\ newest.text = job[p].text
  <2>1. /\ pc'[p] = AfterRecord(job[p])
        /\ pc'[p] # "idle" => job'[p] = job[p]
    BY <1>1, <1>3 DEF Move, TypeOK
  <2>2. job[p].text \in Kept'
    BY <1>2, <1>3 DEF Kept
  <2>3. job[p].road \in Rewrites => job[p].text = job[p].original
    BY DEF KeptInv, Look
  <2> QED BY <2>1, <2>2, <2>3 DEF KeptInv, AfterRecord
<1>4. CASE ~(newest # None /\ newest.text = job[p].text)
  <2> DEFINE e == [stamp |-> NextStamp(newest), kind |-> job[p].kind, text |-> job[p].text]
             o == IF Merges(job[p], newest) THEN newest ELSE None
             k == [job[p] EXCEPT !.entry = e, !.old = o]
  <2>1. k.road = job[p].road /\ k.text = job[p].text /\ k.original = job[p].original
    <3> HIDE DEF e, o
    <3> QED BY <1>2 DEF Jobs
  <2>2. Move(p, "keep", k)
    BY <1>1, <1>4
  <2> HIDE DEF k
  <2>3. pc'[p] = "keep" /\ job'[p] = k
    BY <2>2 DEF Move, TypeOK
  <2> QED BY <2>1, <2>3 DEF KeptInv, Look
<1> QED BY <1>3, <1>4

LEMMA KeptKeepFold ==
    ASSUME TypeOK, KeptInv, NEW p, Callers = {p}, Keep(p) \/ Fold(p)
    PROVE  KeptInv'
<1>1. pc'[p] \in {"fold", "prune"} /\ job'[p] = job[p]
  BY DEF Keep, Fold, Move, TypeOK
<1> QED BY <1>1 DEF KeptInv, Keep, Fold

LEMMA KeptPrune ==
    ASSUME TypeOK, OrderInv, KeptInv, OrderInv', NEW p, Callers = {p}, Prune(p)
    PROVE  KeptInv'
<1>1. /\ pc'[p] = AfterRecord(job[p])
      /\ pc'[p] # "idle" => job'[p] = job[p]
  BY DEF Prune, Move, TypeOK
<1>2. job[p].road \in Rewrites => job[p].text = job[p].original
  BY DEF KeptInv, Prune
<1>3. job[p].text \in Kept'
  <2>1. entries' # {} /\ lastKept' = job[p].text
    BY OrderPruned DEF OrderInv, Prune
  <2> QED BY <2>1 DEF OrderInv, Kept
<1> QED BY <1>1, <1>2, <1>3 DEF KeptInv, AfterRecord

LEMMA KeptWriteStop ==
    ASSUME TypeOK, KeptInv, NEW p, Callers = {p}, Write(p) \/ Stop(p)
    PROVE  KeptInv'
<1>1. CASE Stop(p)
  BY <1>1, MoveAlone DEF Stop, KeptInv
<1>2. CASE Write(p)
  <2>1. pc'[p] = "idle" \/ (pc'[p] = "look" /\ job'[p].road = "trailing")
    BY <1>2 DEF Write, Move, TypeOK, Recording
  <2> QED BY <2>1 DEF KeptInv, Rewrites
<1> QED BY <1>1, <1>2

LEMMA KeptStep ==
    ASSUME NEW p, Callers = {p}
    PROVE  TypeOK /\ OrderInv /\ OrderInv' /\ KeptInv /\ [Next]_vars => KeptInv'
<1> SUFFICES ASSUME TypeOK, OrderInv, OrderInv', KeptInv, [Next]_vars PROVE KeptInv'
  OBVIOUS
<1>1. CASE UNCHANGED vars \/ Tick \/ Elsewhere
  BY <1>1 DEF vars, Tick, Elsewhere, KeptInv, Kept
<1> QED
  BY <1>1, KeptCall, KeptLook, KeptKeepFold, KeptPrune, KeptWriteStop DEF Next, Step

\* While one call at a time is made, a rewrite that replaces the text it read
\* has that text in the history: no checkpoint, no write.
THEOREM NoCheckpointNoWrite ==
    ASSUME NEW c, Callers = {c}
    PROVE  Spec => WhatItReadIsKept
<1>1. Init => OrderInv /\ KeptInv
  BY FS_EmptySet, KeptInit DEF Init, OrderInv
<1>2. TypeOK /\ OrderInv /\ [Next]_vars => OrderInv'
  BY OrderStep
<1>3. TypeOK /\ OrderInv /\ OrderInv' /\ KeptInv /\ [Next]_vars => KeptInv'
  BY KeptStep
<1>4. KeptInv => KeepsWhatItRead
  BY DEF KeptInv, KeepsWhatItRead
<1> QED BY <1>1, <1>2, <1>3, <1>4, HistoryTypeOK, PTL DEF Spec, WhatItReadIsKept

-----------------------------------------------------------------------------
(* What a rewrite replaced stays in the list, for one caller. *)

LEMMA PromiseInit == Init => PromiseInv
BY DEF Init, PromiseInv

\* A step that touches neither, and is not about to fold, has only its own place to
\* account for.
LEMMA PromiseQuiet ==
    ASSUME PromiseInv, UNCHANGED <<entries, lastKept>>,
           \A r \in promised' : r.road = "trailing" => r \in promised,
           \A p \in Callers :
              /\ pc'[p] # "fold"
              /\ pc'[p] = "keep" /\ job'[p].old # None => Newer(job'[p].old) = {}
              /\ pc'[p] # "idle" /\ job'[p].road = "trailing" =>
                    ~job'[p].merge /\ (pc'[p] = "keep" => job'[p].old = None)
              /\ \/ pc'[p] = "write"
                 \/ pc'[p] \in {"look", "keep"} /\ job'[p].road = "trailing"
                 => job'[p].original = Absent \/ (entries # {} /\ lastKept = job'[p].original)
    PROVE  PromiseInv'
<1>1. \A e : Newer(e)' = Newer(e)
  BY DEF Newer
<1>2. ASSUME NEW r \in promised', r.road = "trailing"
      PROVE  \E e \in entries' :
               /\ e.text = r.text
               /\ Newer(e)' # {} /\ Cardinality(Newer(e)') <= r.age
  BY <1>1, <1>2 DEF PromiseInv
<1> QED BY <1>1, <1>2 DEF PromiseInv

LEMMA PromiseCall ==
    ASSUME TypeOK, PromiseInv, NEW p, Callers = {p}, Call(p)
    PROVE  PromiseInv'
<1>1. ASSUME NEW place \in {"look", "write"}, NEW j, Enter(p, place, j),
             j.road # "trailing", place = "write" => j.original = Absent
      PROVE  PromiseInv'
  <2>1. pc'[p] = place /\ job'[p] = j
    BY <1>1 DEF Enter, TypeOK
  <2>2. UNCHANGED <<entries, lastKept, promised>>
    BY <1>1 DEF Enter
  <2> QED BY <1>1, <2>1, <2>2, PromiseQuiet
<1>2. ASSUME NEW t \in Texts, NEW merge \in BOOLEAN, Save(p, t, merge) PROVE PromiseInv'
  BY <1>1, <1>2 DEF Save, Recording
<1>3. CASE Checkpoint(p)
  BY <1>1, <1>3 DEF Checkpoint, Recording
<1>4. ASSUME NEW t \in Texts, Unsaved(p, t) PROVE PromiseInv'
  BY <1>1, <1>4 DEF Unsaved, Recording
<1>5. ASSUME NEW t \in Texts, Edit(p, t) PROVE PromiseInv'
  BY <1>1, <1>5 DEF Edit, Recording
<1>6. ASSUME NEW t, NEW road \in {"replace", "restore"}, Rewrite(p, road, t) PROVE PromiseInv'
  BY <1>1, <1>6 DEF Rewrite, Recording
<1> QED BY <1>2, <1>3, <1>4, <1>5, <1>6 DEF Call, Replace, Restore

LEMMA PromiseLook ==
    ASSUME TypeOK, OrderInv, KeptInv, PromiseInv, NEW p, Callers = {p}, Look(p)
    PROVE  PromiseInv'
<1>1. PICK newest \in entries \cup {None} :
        /\ IF entries = {} THEN newest = None ELSE newest # None /\ IsNewest(newest)
        /\ IF newest # None /\ newest.text = job[p].text
           THEN Move(p, AfterRecord(job[p]), job[p])
           ELSE Move(p, "keep",
                     [job[p] EXCEPT
                        !.entry = [stamp |-> NextStamp(newest),
                                   kind |-> job[p].kind, text |-> job[p].text],
                        !.old = IF Merges(job[p], newest) THEN newest ELSE None])
  BY DEF Look
<1>2. job[p] \in Jobs /\ UNCHANGED <<entries, lastKept, promised>> /\ pc[p] = "look"
  BY DEF TypeOK, Look
<1>3. newest # None => newest \in entries /\ Newer(newest) = {} /\ newest.text = lastKept
  BY <1>1 DEF IsNewest, Newer, OrderInv
<1>4. CASE newest # None /\ newest.text = job[p].text
  <2>1. /\ pc'[p] = AfterRecord(job[p])
        /\ job'[p] = IF pc'[p] = "idle" THEN NoJob ELSE job[p]
    BY <1>1, <1>4 DEF Move, TypeOK
  <2>2. pc'[p] = "write" => entries # {} /\ lastKept = job[p].original
    BY <1>2, <1>3, <1>4, <2>1 DEF KeptInv, AfterRecord
  <2>3. pc'[p] # "idle" => job'[p] = job[p] /\ job[p].road # "trailing"
    BY <2>1 DEF AfterRecord, Rewrites
  <2>4. pc'[p] \in {"write", "idle"}
    BY <2>1 DEF AfterRecord
  <2>5. pc'[p] = "write" => job'[p] = job[p]
    BY <2>1
  <2> QED BY <1>2, <2>2, <2>3, <2>4, <2>5, PromiseQuiet
<1>5. CASE ~(newest # None /\ newest.text = job[p].text)
  <2> DEFINE e == [stamp |-> NextStamp(newest), kind |-> job[p].kind, text |-> job[p].text]
             o == IF Merges(job[p], newest) THEN newest ELSE None
             k == [job[p] EXCEPT !.entry = e, !.old = o]
  <2>1. /\ k.road = job[p].road /\ k.merge = job[p].merge /\ k.original = job[p].original
        /\ k.old = o
    <3> HIDE DEF e, o
    <3> QED BY <1>2 DEF Jobs
  <2>2. o # None => Newer(o) = {}
    BY <1>3
  <2>3. job[p].road = "trailing" => ~job[p].merge /\ o = None
    <3>1. job[p].road = "trailing" => ~job[p].merge
      BY <1>2 DEF PromiseInv
    <3> QED BY <3>1 DEF Merges
  <2>4. Move(p, "keep", k)
    BY <1>1, <1>5
  <2> HIDE DEF k, o
  <2>5. pc'[p] = "keep" /\ job'[p] = k
    BY <2>4 DEF Move, TypeOK
  <2>6. job[p].road = "trailing" =>
          job[p].original = Absent \/ (entries # {} /\ lastKept = job[p].original)
    BY <1>2 DEF PromiseInv
  <2> QED BY <1>2, <2>1, <2>2, <2>3, <2>5, <2>6, PromiseQuiet
<1> QED BY <1>4, <1>5

\* The new entry is one more that is newer than any other.
LEMMA OneMoreNewer ==
    ASSUME TypeOK, OrderInv, NEW p \in Callers, Keep(p), NEW e \in entries
    PROVE  /\ Newer(e)' = Newer(e) \cup {job[p].entry}
           /\ IsFiniteSet(Newer(e)) /\ Cardinality(Newer(e)) \in Nat
           /\ Cardinality(Newer(e)') = Cardinality(Newer(e)) + 1
<1> DEFINE new == job[p].entry
<1>1. /\ new \in Entries /\ \A f \in entries : Later(new.stamp, f.stamp)
      /\ entries' = {f \in entries : ~SamePath(f, new)} \cup {new}
  BY DEF TypeOK, OrderInv, Keep
<1>2. new \notin entries /\ entries' = entries \cup {new}
  BY <1>1, LaterStrict DEF SamePath, TypeOK, Entries
<1>3. Newer(e)' = Newer(e) \cup {new}
  BY <1>1, <1>2 DEF Newer
<1>4. IsFiniteSet(Newer(e)) /\ new \notin Newer(e)
  BY <1>2, FS_Subset DEF Newer, OrderInv
<1> QED BY <1>3, <1>4, FS_AddElement, FS_CardinalityType

LEMMA PromiseKeep ==
    ASSUME TypeOK, OrderInv, PromiseInv, NEW p, Callers = {p}, Keep(p)
    PROVE  PromiseInv'
<1> DEFINE new == job[p].entry
<1>1. /\ job[p] \in Jobs /\ new \in Entries
      /\ \A f \in entries : Later(new.stamp, f.stamp)
      /\ entries' = {f \in entries : ~SamePath(f, new)} \cup {new}
  BY DEF TypeOK, OrderInv, Keep
<1>2. new \notin entries /\ entries' = entries \cup {new}
  BY <1>1, LaterStrict DEF SamePath, TypeOK, Entries
<1>3. /\ pc'[p] = IF job[p].old = None THEN "prune" ELSE "fold"
      /\ job'[p] = job[p] /\ pc[p] = "keep"
  BY DEF Keep, Move, TypeOK, PromiseInv
<1>4. \A e, f \in entries' : e.stamp = f.stamp => e = f
  <2>1. \A e \in entries : e.stamp # new.stamp
    BY <1>1, LaterStrict DEF TypeOK, Entries
  <2> HIDE DEF new
  <2> QED BY <1>2, <2>1 DEF PromiseInv
<1>5. ASSUME NEW r \in promised', r.road = "trailing"
      PROVE  \E e \in entries' :
               /\ e.text = r.text
               /\ Newer(e)' # {} /\ Cardinality(Newer(e)') <= r.age
               /\ pc'[p] = "fold" => e # job'[p].old
  <2>1. CASE r \in Aged
    <3>1. PICK q \in promised : r = [q EXCEPT !.age = q.age + 1]
      BY <2>1 DEF Aged
    <3>2. /\ q.road = "trailing" /\ q.text = r.text /\ r.age = q.age + 1
          /\ q.age \in Nat
      BY <1>5, <3>1, HistoryAssumption DEF TypeOK
    <3>3. PICK e \in entries :
            e.text = q.text /\ Newer(e) # {} /\ Cardinality(Newer(e)) <= q.age
      BY <3>2 DEF PromiseInv
    <3>4. Newer(e)' # {} /\ Cardinality(Newer(e)') <= r.age
      BY <3>2, <3>3, OneMoreNewer
    <3>5. pc'[p] = "fold" => e # job'[p].old
      BY <1>3, <3>3 DEF PromiseInv
    <3> QED BY <1>2, <3>2, <3>3, <3>4, <3>5
  <2>2. CASE r \notin Aged
    <3>1. job[p].road = "trailing" /\ r \in Promise(job[p], 1)
      BY <2>2 DEF Keep
    <3>2. r.text = job[p].original /\ r.age = 1 /\ job[p].original # Absent
      BY <3>1 DEF Promise
    <3>3. job[p].old = None /\ entries # {} /\ lastKept = job[p].original
      BY <1>3, <3>1, <3>2 DEF PromiseInv
    <3>4. PICK n \in entries :
            n.text = lastKept /\ \A e \in entries \ {n} : Later(n.stamp, e.stamp)
      BY <3>3 DEF OrderInv
    <3>5. Newer(n) = {}
      BY <3>4, LaterStrict DEF Newer, TypeOK, Entries
    <3>6. Newer(n)' # {} /\ Cardinality(Newer(n)') <= r.age
      BY <3>2, <3>5, OneMoreNewer, FS_EmptySet
    <3> QED BY <1>2, <1>3, <3>2, <3>3, <3>4, <3>6
  <2> QED BY <2>1, <2>2
<1>6. job[p].road = "trailing" => ~job[p].merge
  BY <1>3 DEF PromiseInv
<1> HIDE DEF new
<1> QED BY <1>3, <1>4, <1>5, <1>6 DEF PromiseInv

LEMMA PromiseFold ==
    ASSUME TypeOK, OrderInv, PromiseInv, NEW p, Callers = {p}, Fold(p)
    PROVE  PromiseInv'
<1> DEFINE old == job[p].old
           new == job[p].entry
<1>1. /\ entries' = entries \ {old} /\ promised' = promised
      /\ pc[p] = "fold" /\ pc'[p] = "prune" /\ job'[p] = job[p]
  BY DEF Fold, Move, TypeOK, PromiseInv
<1>2. new \in entries /\ Later(new.stamp, old.stamp)
  BY <1>1 DEF OrderInv
<1>3. ASSUME NEW r \in promised, r.road = "trailing"
      PROVE  \E e \in entries' :
               /\ e.text = r.text
               /\ Newer(e)' # {} /\ Cardinality(Newer(e)') <= r.age
  <2>1. PICK e \in entries :
          /\ e.text = r.text /\ Newer(e) # {} /\ Cardinality(Newer(e)) <= r.age
          /\ e # old
    BY <1>1, <1>3 DEF PromiseInv
  <2>2. Newer(e)' = Newer(e) \ {old}
    BY <1>1 DEF Newer
  <2>3. Newer(e)' # {}
    <3> SUFFICES ASSUME Newer(e) \subseteq {old} PROVE FALSE
      BY <2>2
    <3>1. old \in entries /\ Later(old.stamp, e.stamp)
      BY <2>1 DEF Newer
    <3>2. /\ new.stamp \in Stamps /\ old.stamp \in Stamps /\ e.stamp \in Stamps
      BY <1>2, <3>1 DEF TypeOK, Entries
    <3>3. Later(new.stamp, e.stamp)
      BY <1>2, <3>1, <3>2, LaterStrict, LaterTransitive
    <3>4. new # old
      BY <1>2, <3>2, LaterStrict
    <3> QED BY <1>2, <3>3, <3>4 DEF Newer
  <2>4. IsFiniteSet(Newer(e))
    BY FS_Subset DEF Newer, OrderInv
  <2>5. Cardinality(Newer(e)') <= Cardinality(Newer(e))
        /\ Cardinality(Newer(e)') \in Nat /\ Cardinality(Newer(e)) \in Nat
    BY <2>2, <2>4, FS_Subset, FS_CardinalityType
  <2>6. r.age \in Nat
    BY HistoryAssumption DEF TypeOK
  <2> QED BY <1>1, <2>1, <2>3, <2>5, <2>6
<1>4. \A e, f \in entries' : e.stamp = f.stamp => e = f
  BY <1>1 DEF PromiseInv
<1>5. job[p].road = "trailing" => ~job[p].merge
  BY <1>1 DEF PromiseInv
<1> HIDE DEF old, new
<1> QED BY <1>1, <1>3, <1>4, <1>5 DEF PromiseInv

\* An entry with fewer newer ones than the bound is not pruned.
LEMMA PruneSpares ==
    ASSUME TypeOK, OrderInv, PromiseInv, NEW p \in Callers, Prune(p),
           NEW e \in entries, Cardinality(Newer(e)) < MaxEntries
    PROVE  e \in entries'
<1> SUFFICES ASSUME e \notin entries' PROVE FALSE
  OBVIOUS
<1> DEFINE k == IF Cardinality(entries) < MaxEntries THEN Cardinality(entries) ELSE MaxEntries
<1>1. entries' \in kSubset(k, entries)
        /\ \A d \in entries \ entries', f \in entries' : ~Later(d.stamp, f.stamp)
  BY DEF Prune
<1>2. entries' \subseteq entries /\ Cardinality(entries') = k
  BY <1>1 DEF kSubset
<1>3. Cardinality(entries') # Cardinality(entries)
  BY <1>2, FS_Subset DEF OrderInv
<1>4. Cardinality(entries') = MaxEntries
  BY <1>2, <1>3
<1>5. entries' \subseteq Newer(e)
  <2> SUFFICES ASSUME NEW f \in entries' PROVE Later(f.stamp, e.stamp)
    BY <1>2 DEF Newer
  <2>1. f # e /\ f.stamp \in Stamps /\ e.stamp \in Stamps
    BY <1>2 DEF TypeOK, Entries
  <2>2. f.stamp # e.stamp
    BY <1>2, <2>1 DEF PromiseInv
  <2>3. ~Later(e.stamp, f.stamp)
    BY <1>1
  <2> QED BY <2>1, <2>2, <2>3 DEF Later, Stamps
<1>6. IsFiniteSet(Newer(e))
  BY FS_Subset DEF Newer, OrderInv
<1>7. /\ Cardinality(entries') <= Cardinality(Newer(e))
      /\ Cardinality(Newer(e)) \in Nat
  BY <1>5, <1>6, FS_Subset, FS_CardinalityType
<1> QED BY <1>4, <1>7, HistoryAssumption

LEMMA PromisePrune ==
    ASSUME TypeOK, OrderInv, KeptInv, PromiseInv, NEW p, Callers = {p}, Prune(p)
    PROVE  PromiseInv'
<1>1. /\ pc[p] = "prune" /\ pc'[p] = AfterRecord(job[p])
      /\ job'[p] = IF pc'[p] = "idle" THEN NoJob ELSE job[p]
      /\ UNCHANGED <<promised, lastKept>>
  BY DEF Prune, Move, TypeOK
<1>2. entries' \subseteq entries /\ entries' # {}
  BY OrderPruned
<1>3. PICK n \in entries :
        n.text = lastKept /\ \A e \in entries \ {n} : Later(n.stamp, e.stamp)
  BY <1>1 DEF OrderInv
<1>4. n \in entries'
  BY <1>3, OrderPruned
<1>5. ASSUME NEW r \in promised, r.road = "trailing"
      PROVE  \E e \in entries' :
               /\ e.text = r.text
               /\ Newer(e)' # {} /\ Cardinality(Newer(e)') <= r.age
  <2>1. PICK e \in entries :
          e.text = r.text /\ Newer(e) # {} /\ Cardinality(Newer(e)) <= r.age
    BY <1>5 DEF PromiseInv
  <2>2. r.age \in Nat /\ r.age < MaxEntries /\ MaxEntries \in Nat
    BY HistoryAssumption DEF TypeOK
  <2>3. IsFiniteSet(Newer(e)) /\ Newer(e)' \subseteq Newer(e)
    BY <1>2, FS_Subset DEF Newer, OrderInv
  <2>4. /\ Cardinality(Newer(e)') <= Cardinality(Newer(e))
        /\ Cardinality(Newer(e)') \in Nat /\ Cardinality(Newer(e)) \in Nat
    BY <2>3, FS_Subset, FS_CardinalityType
  <2>5. e \in entries'
    BY <2>1, <2>2, <2>4, PruneSpares
  <2>6. Newer(e)' # {}
    <3>1. e # n
      BY <1>3, <2>1, LaterStrict DEF Newer, TypeOK, Entries
    <3> QED BY <1>3, <1>4, <3>1 DEF Newer
  <2> QED BY <2>1, <2>2, <2>4, <2>5, <2>6
<1>6. \A e, f \in entries' : e.stamp = f.stamp => e = f
  BY <1>2 DEF PromiseInv
<1>7. pc'[p] = "write" => job'[p] = job[p] /\ lastKept = job[p].original
  BY <1>1 DEF OrderInv, KeptInv, AfterRecord
<1>8. pc'[p] \in {"write", "idle"} /\ (pc'[p] # "idle" => job'[p].road # "trailing")
  BY <1>1 DEF AfterRecord, Rewrites
<1> QED BY <1>1, <1>2, <1>5, <1>6, <1>7, <1>8 DEF PromiseInv

LEMMA PromiseWrite ==
    ASSUME TypeOK, PromiseInv, NEW p, Callers = {p}, Write(p)
    PROVE  PromiseInv'
<1>1. /\ pc[p] = "write" /\ UNCHANGED <<entries, lastKept>>
      /\ job[p].original = Absent \/ (entries # {} /\ lastKept = job[p].original)
  BY DEF Write, PromiseInv
<1>2. CASE job[p].road = "restore"
  <2>1. pc'[p] = "idle" /\ job'[p] = NoJob
    BY <1>2 DEF Write, Move, TypeOK
  <2>2. \A r \in promised' : r.road = "trailing" => r \in promised
    BY <1>2 DEF Write, Promise
  <2> QED BY <1>1, <2>1, <2>2, PromiseQuiet
<1>3. CASE job[p].road # "restore"
  <2> DEFINE t == Recording("trailing", "save", FALSE,
                            job[p].target, job[p].original, job[p].target)
  <2>1. Move(p, "look", t) /\ promised' = promised
    BY <1>3 DEF Write
  <2>2. ~t.merge /\ t.original = job[p].original
    BY DEF Recording
  <2> HIDE DEF t
  <2>3. pc'[p] = "look" /\ job'[p] = t
    BY <2>1 DEF Move, TypeOK
  <2> QED BY <1>1, <2>1, <2>2, <2>3, PromiseQuiet
<1> QED BY <1>2, <1>3

LEMMA PromiseStop ==
    ASSUME TypeOK, PromiseInv, NEW p, Callers = {p}, Stop(p)
    PROVE  PromiseInv'
<1>1. pc'[p] = "idle" /\ job'[p] = NoJob /\ UNCHANGED <<entries, lastKept, promised>>
  BY DEF Stop, Move, TypeOK
<1> QED BY <1>1, PromiseQuiet

LEMMA PromiseStep ==
    ASSUME NEW p, Callers = {p}
    PROVE  TypeOK /\ OrderInv /\ KeptInv /\ PromiseInv /\ [Next]_vars => PromiseInv'
<1> SUFFICES ASSUME TypeOK, OrderInv, KeptInv, PromiseInv, [Next]_vars PROVE PromiseInv'
  OBVIOUS
<1>1. CASE UNCHANGED vars \/ Tick \/ Elsewhere
  <2>1. UNCHANGED <<entries, promised, lastKept, pc, job>>
    BY <1>1 DEF vars, Tick, Elsewhere
  <2>2. \A e : Newer(e)' = Newer(e)
    BY <2>1 DEF Newer
  <2> QED BY <2>1, <2>2 DEF PromiseInv
<1> QED
  BY <1>1, PromiseCall, PromiseLook, PromiseKeep, PromiseFold, PromisePrune, PromiseWrite,
     PromiseStop DEF Next, Step

\* While one call at a time is made, the text an edit, a promotion or a report replaced
\* stays in the history until the bound drops it, whatever the clock does, whatever
\* merges, and wherever a later call stops.
THEOREM ReplacedStays ==
    ASSUME NEW c, Callers = {c}
    PROVE  Spec => []ReplacedIsKept
<1>1. Init => OrderInv /\ KeptInv /\ PromiseInv
  BY FS_EmptySet, KeptInit, PromiseInit DEF Init, OrderInv
<1>2. TypeOK /\ OrderInv /\ [Next]_vars => OrderInv'
  BY OrderStep
<1>3. TypeOK /\ OrderInv /\ OrderInv' /\ KeptInv /\ [Next]_vars => KeptInv'
  BY KeptStep
<1>4. TypeOK /\ OrderInv /\ KeptInv /\ PromiseInv /\ [Next]_vars => PromiseInv'
  BY PromiseStep
<1>5. PromiseInv => ReplacedIsKept
  BY DEF PromiseInv, ReplacedIsKept, Kept
<1> QED BY <1>1, <1>2, <1>3, <1>4, <1>5, HistoryTypeOK, PTL DEF Spec
=============================================================================
