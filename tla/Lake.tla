--------------------------------- MODULE Lake ---------------------------------
(***************************************************************************)
(* ducklake_publish (operator/ducklake_publish.rs): publishers that        *)
(* register a copy of a built file as the rows of one table of a DuckLake  *)
(* catalog, while others write to the catalog and builds go on.            *)
(*                                                                         *)
(* The catalog is a sequence of snapshots; a table is the set of the data  *)
(* files that hold its rows.  A transaction that commits has seen every    *)
(* change to the table, or is refused: DuckLake's own rule.                *)
(***************************************************************************)
EXTENDS Naturals, Sequences, FiniteSets, FiniteSetsExt

CONSTANTS Publishers, None,
          Digests,      \* contents of the built file
          AnswerFails,  \* whether the catalog may fail to answer after a commit
          MaxSnapshots, MaxFaults

VARIABLES source,     \* the built file's content
          snapshots,  \* [marker, table]
          data,       \* the files under the data path: name -> content
          at,         \* each publisher: where it is
          copy,       \* its copy's name
          view,       \* what it has read: [current, last]
          begun,      \* the snapshot its transaction began at
          report,     \* how its last run went: [action, snapshot]
          faults

vars == <<source, snapshots, data, at, copy, view, begun, report, faults>>

\* A table that is gone, or emptied, has no file; file 0 holds rows of others.
NoTable == {}
OthersRows == {0}

Init ==
    /\ source \in Digests
    /\ snapshots = <<[marker |-> None, table |-> NoTable]>>
    /\ data = << >>
    /\ at = [p \in Publishers |-> "idle"] /\ copy = [p \in Publishers |-> 0]
    /\ view = [p \in Publishers |-> None] /\ begun = [p \in Publishers |-> 0]
    /\ report = [p \in Publishers |-> None] /\ faults = 0

Current == Len(snapshots)
Fault == faults < MaxFaults /\ faults' = faults + 1
Go(p, where) == at' = [at EXCEPT ![p] = where]
Remove(p) == data' = [data EXCEPT ![copy[p]] = None]

Fails(p) == Go(p, "idle") /\ report' = [report EXCEPT ![p] = [action |-> "failed", snapshot |-> 0]]

-----------------------------------------------------------------------------
(* A credential that is not in the environment, or a catalog that cannot   *)
(* be attached or is not local: nothing has been written.                  *)
Refuse(p) ==
    /\ at[p] = "idle" /\ Fault /\ Fails(p)
    /\ UNCHANGED <<source, snapshots, data, copy, view, begun>>

(* The copy, at a name no copy has had; cut short it is removed.           *)
copy_hashing(p) ==
    /\ at[p] = "idle" /\ Len(data) < MaxSnapshots
    /\ copy' = [copy EXCEPT ![p] = Len(data) + 1]
    /\ \/ data' = Append(data, source) /\ Go(p, "look") /\ UNCHANGED <<report, faults>>
       \/ data' = Append(data, None) /\ Fault /\ Fails(p)
    /\ UNCHANGED <<source, snapshots, view, begun>>

(* published: the snapshot now, and the last one this operator committed.  *)
Mine == {i \in DOMAIN snapshots : snapshots[i].marker # None}

published(p) ==
    /\ at[p] = "look"
    /\ view' = [view EXCEPT ![p] =
         [current |-> Current, last |-> IF Mine = {} THEN 0 ELSE Max(Mine)]]
    /\ Go(p, "decide")
    /\ UNCHANGED <<source, snapshots, data, copy, begun, report, faults>>

(* since: whether the table is still what that snapshot committed.         *)
\* Mutant of Changed: a table that is gone counts as one without changes.
ChangedRows(snapshot, current) ==
    /\ snapshot < current /\ snapshots[Current].table # NoTable
    /\ \E i \in (snapshot + 1)..current : snapshots[i].table # snapshots[i - 1].table

Changed(snapshot, current) ==
    /\ snapshot < current
    /\ \/ snapshots[Current].table = NoTable
       \/ \E i \in (snapshot + 1)..current : snapshots[i].table # snapshots[i - 1].table

Same(p) ==
    /\ view[p].last # 0
    /\ snapshots[view[p].last].marker.sha256 = data[copy[p]]
    /\ ~Changed(view[p].last, view[p].current)

Unchanged(p) ==
    /\ at[p] = "decide" /\ Same(p)
    /\ Remove(p) /\ Go(p, "idle")
    /\ report' = [report EXCEPT ![p] = [action |-> "unchanged", snapshot |-> view[p].last]]
    /\ UNCHANGED <<source, snapshots, copy, view, begun, faults>>

(* register: one transaction deletes every row and adds the copy.          *)
Begin(p) ==
    /\ at[p] = "decide" /\ ~Same(p) /\ Current < MaxSnapshots
    /\ begun' = [begun EXCEPT ![p] = Current] /\ Go(p, "commit")
    /\ UNCHANGED <<source, snapshots, data, copy, view, report, faults>>

Marker(p) == [sha256 |-> data[copy[p]], file |-> copy[p]]

Conflicts(p) == \E i \in (begun[p] + 1)..Current : snapshots[i].table # snapshots[i - 1].table

Commit(p) ==
    /\ at[p] = "commit" /\ ~Conflicts(p)
    /\ snapshots' = Append(snapshots, [marker |-> Marker(p), table |-> {copy[p]}])
    /\ Go(p, "ask")
    /\ UNCHANGED <<source, data, copy, view, begun, report, faults>>

(* The number of the snapshot that was committed is asked of the catalog.  *)
\* Mutant of Registered: the copy is removed as after a no-op.
RegisteredAndRemoved(p) ==
    /\ at[p] = "ask" /\ Remove(p) /\ Go(p, "idle")
    /\ report' = [report EXCEPT ![p] = [action |-> "registered", snapshot |->
         CHOOSE i \in DOMAIN snapshots : snapshots[i].marker = Marker(p)]]
    /\ UNCHANGED <<source, snapshots, copy, view, begun, faults>>

Registered(p) ==
    /\ at[p] = "ask" /\ Go(p, "idle")
    /\ report' = [report EXCEPT ![p] = [action |-> "registered", snapshot |->
         CHOOSE i \in DOMAIN snapshots : snapshots[i].marker = Marker(p)]]
    /\ UNCHANGED <<source, snapshots, data, copy, view, begun, faults>>

(* Any error on the way takes the copy away.                               *)
Errs(p) ==
    /\ \/ at[p] \in {"look", "decide", "commit"} /\ Fault
       \/ at[p] = "commit" /\ Conflicts(p) /\ UNCHANGED faults
       \/ at[p] = "ask" /\ AnswerFails /\ Fault
    /\ Remove(p) /\ Fails(p)
    /\ UNCHANGED <<source, snapshots, copy, view, begun>>

(* arc is killed: the copy stays, referenced or not.                       *)
Kill(p) ==
    /\ at[p] # "idle" /\ Fault /\ Go(p, "idle")
    /\ UNCHANGED <<source, snapshots, data, copy, view, begun, report>>

-----------------------------------------------------------------------------
(* Others write to the table, drop it, or write elsewhere in the catalog.  *)
OthersWrite ==
    /\ Current < MaxSnapshots /\ Fault
    /\ \E t \in {NoTable, OthersRows, snapshots[Current].table} :
         snapshots' = Append(snapshots, [marker |-> None, table |-> t])
    /\ UNCHANGED <<source, data, at, copy, view, begun, report>>

Build ==
    /\ \E d \in Digests : d # source /\ source' = d
    /\ UNCHANGED <<snapshots, data, at, copy, view, begun, report, faults>>

Publish(p) ==
    \/ Refuse(p) \/ copy_hashing(p) \/ published(p) \/ Unchanged(p) \/ Begin(p)
    \/ Commit(p) \/ Registered(p) \/ Errs(p) \/ Kill(p)

Next == OthersWrite \/ Build \/ \E p \in Publishers : Publish(p)

Spec == Init /\ [][Next]_vars

-----------------------------------------------------------------------------
(* ducklake_publish.rs:20: a publish reported as a no-op finds the table   *)
(* holding the file's bytes, in the newest snapshot it has looked at.      *)
NoOpIsRight ==
    \A p \in Publishers : Unchanged(p) =>
      LET t == snapshots[view[p].current].table
      IN  t \notin {NoTable, OthersRows} /\ \A f \in t : data[f] = data[copy[p]]

NoOpHolds == [][NoOpIsRight]_vars

(* ducklake_publish.rs:593, "on a no-op or a failure nothing does, so it   *)
(* is removed": each snapshot, old ones too, still has its files.          *)
ReferencedIsThere ==
    \A i \in DOMAIN snapshots : \A f \in snapshots[i].table \cap DOMAIN data :
      data[f] # None
=============================================================================
