------------------------------ MODULE UpkeepProofs -----------------------------
(***************************************************************************)
(* What the five parts of Upkeep promise, each in a section of its own:    *)
(* an inductive invariant of the part's module, and the promise of the     *)
(* behaviours of Upkeep that are of that part.                             *)
(***************************************************************************)
EXTENDS Upkeep, Sequences, FiniteSets, SequenceTheorems, WellFoundedInduction, TLAPS

-----------------------------------------------------------------------------
(* The catalog.                                                            *)

Points == {"idle", "look", "decide", "commit", "ask"}

\* Where a publisher has a copy that it may still remove.
Holding == {"look", "decide", "commit"}

Markers == {None} \cup [sha256 : Digests \cup {None}, file : Nat]
Snapshots == [marker : Markers, table : SUBSET Nat]

Types ==
    /\ source \in Digests
    /\ snapshots \in Seq(Snapshots) /\ Len(snapshots) # 0
    /\ data \in Seq(Digests \cup {None})
    /\ at \in [Publishers -> Points]
    /\ copy \in [Publishers -> Nat]

\* A snapshot refers to no name that no copy has had yet.
NamesAreUsed ==
    \A i \in DOMAIN snapshots : \A f \in snapshots[i].table : f \in 0..Len(data)

\* The copy of a publisher on its way is there, and no snapshot refers to it.
CopiesAreOwn ==
    \A p \in Publishers : at[p] \in Holding =>
        /\ copy[p] \in DOMAIN data /\ data[copy[p]] # None
        /\ \A i \in DOMAIN snapshots : copy[p] \notin snapshots[i].table

\* No two of them have one copy.
CopiesAreApart ==
    \A p, q \in Publishers :
        at[p] \in Holding /\ at[q] \in Holding /\ p # q => copy[p] # copy[q]

LakeInv == Types /\ NamesAreUsed /\ CopiesAreOwn /\ CopiesAreApart /\ L!ReferencedIsThere

-----------------------------------------------------------------------------
LEMMA DataIsFiles ==
    ASSUME Types
    PROVE  /\ Len(data) \in Nat /\ DOMAIN data = 1..Len(data)
           /\ Len(snapshots) \in Nat /\ DOMAIN snapshots = 1..Len(snapshots)
           /\ \A i \in DOMAIN snapshots : snapshots[i] \in Snapshots /\ snapshots[i].table \subseteq Nat
<1>1. /\ Len(data) \in Nat /\ DOMAIN data = 1..Len(data)
      /\ Len(snapshots) \in Nat /\ DOMAIN snapshots = 1..Len(snapshots)
  BY LenProperties DEF Types
<1>2. \A i \in DOMAIN snapshots : snapshots[i] \in Snapshots
  BY <1>1, ElementOfSeq DEF Types
<1> QED BY <1>1, <1>2 DEF Snapshots

LEMMA InitLake ==
    ASSUME L!Init
    PROVE  LakeInv
<1>1. [marker |-> None, table |-> L!NoTable] \in Snapshots
  BY DEF Snapshots, Markers, L!NoTable
<1>2. /\ snapshots \in Seq(Snapshots) /\ Len(snapshots) # 0
      /\ DOMAIN snapshots = {1} /\ snapshots[1].table = {}
  BY <1>1 DEF L!Init, L!NoTable
<1>3. data \in Seq(Digests \cup {None})
  BY EmptySeq DEF L!Init
<1> QED BY <1>2, <1>3 DEF L!Init, LakeInv, Types, Points, Holding, NamesAreUsed, CopiesAreOwn,
                          CopiesAreApart, L!ReferencedIsThere

\* A publisher that goes on, or gives its copy up, and changes nothing else.
LEMMA MoveLake ==
    ASSUME LakeInv, NEW p \in Publishers, NEW where \in Points,
           where \in Holding => at[p] \in Holding,
           L!Go(p, where), UNCHANGED <<source, snapshots, data, copy>>
    PROVE  LakeInv'
<1>1. Types'
  BY DEF LakeInv, Types, L!Go
<1>2. \A q \in Publishers : at'[q] \in Holding => at[q] \in Holding
  BY DEF LakeInv, Types, L!Go
<1> QED BY <1>1, <1>2 DEF LakeInv, NamesAreUsed, CopiesAreOwn, CopiesAreApart, L!ReferencedIsThere

\* A publisher that still holds its copy removes it and is done.
LEMMA RemoveLake ==
    ASSUME LakeInv, NEW p \in Publishers, at[p] \in Holding,
           L!Remove(p), L!Go(p, "idle"), UNCHANGED <<source, snapshots, copy>>
    PROVE  LakeInv'
<1>1. copy[p] \in 1..Len(data)
  BY DataIsFiles DEF LakeInv, CopiesAreOwn
<1>2. /\ data' \in Seq(Digests \cup {None}) /\ Len(data') = Len(data)
      /\ DOMAIN data' = DOMAIN data
      /\ \A f \in DOMAIN data : data'[f] = IF f = copy[p] THEN None ELSE data[f]
  <2>1. /\ data' \in Seq(Digests \cup {None}) /\ Len(data') = Len(data)
        /\ \A f \in 1..Len(data) : data'[f] = IF f = copy[p] THEN None ELSE data[f]
    BY <1>1, ExceptSeq DEF LakeInv, Types, L!Remove
  <2> QED BY <2>1, LenProperties DEF LakeInv, Types
<1>3. at' \in [Publishers -> Points] /\ at'[p] = "idle"
      /\ \A q \in Publishers : q # p => at'[q] = at[q]
  BY DEF LakeInv, Types, L!Go, Points
<1>4. Types'
  BY <1>2, <1>3 DEF LakeInv, Types
<1>5. CopiesAreOwn'
  BY <1>2, <1>3 DEF LakeInv, CopiesAreOwn, CopiesAreApart, Holding
<1>6. CopiesAreApart'
  BY <1>3 DEF LakeInv, CopiesAreApart, Holding
<1>7. L!ReferencedIsThere'
  BY <1>2 DEF LakeInv, CopiesAreOwn, L!ReferencedIsThere
<1> QED BY <1>2, <1>4, <1>5, <1>6, <1>7 DEF LakeInv, NamesAreUsed

\* A new copy has a name that nothing refers to and no publisher holds.
LEMMA CopyLake ==
    ASSUME LakeInv, None \notin Digests, NEW p \in Publishers, L!copy_hashing(p)
    PROVE  LakeInv'
<1>1. PICK d \in Digests \cup {None} :
         /\ data' = Append(data, d)
         /\ \/ d # None /\ at' = [at EXCEPT ![p] = "look"]
            \/ at' = [at EXCEPT ![p] = "idle"]
  BY DEF L!copy_hashing, L!Go, L!Fails, LakeInv, Types
<1>2. /\ data' \in Seq(Digests \cup {None}) /\ Len(data') = Len(data) + 1
      /\ DOMAIN data' = 1..(Len(data) + 1)
      /\ \A f \in DOMAIN data : data'[f] = data[f]
      /\ data'[Len(data) + 1] = d
  <2>1. /\ data' \in Seq(Digests \cup {None}) /\ Len(data') = Len(data) + 1
        /\ \A f \in 1..Len(data) : data'[f] = data[f]
        /\ data'[Len(data) + 1] = d
    BY <1>1, AppendProperties DEF LakeInv, Types
  <2> QED BY <2>1, LenProperties, DataIsFiles DEF LakeInv
<1>3. /\ Len(data) \in Nat /\ DOMAIN data = 1..Len(data)
      /\ source' = source /\ snapshots' = snapshots
      /\ copy' \in [Publishers -> Nat] /\ copy'[p] = Len(data) + 1
      /\ \A q \in Publishers : q # p => copy'[q] = copy[q]
  BY DataIsFiles DEF LakeInv, Types, L!copy_hashing
<1>4. /\ at' \in [Publishers -> Points]
      /\ \A q \in Publishers : q # p => at'[q] = at[q]
      /\ at'[p] \in Holding => d # None
  BY <1>1 DEF LakeInv, Types, Points, Holding
<1>5. Types'
  BY <1>2, <1>3, <1>4 DEF LakeInv, Types
<1>6. NamesAreUsed'
  BY <1>2, <1>3 DEF LakeInv, NamesAreUsed
<1>7. CopiesAreOwn'
  <2>1. ASSUME NEW q \in Publishers, at'[q] \in Holding
        PROVE  /\ copy'[q] \in DOMAIN data' /\ data'[copy'[q]] # None
               /\ \A i \in DOMAIN snapshots' : copy'[q] \notin snapshots'[i].table
    <3>1. CASE q = p
      BY <1>2, <1>3, <1>4, <2>1, <3>1 DEF LakeInv, NamesAreUsed
    <3>2. CASE q # p
      BY <1>2, <1>3, <1>4, <2>1, <3>2 DEF LakeInv, CopiesAreOwn
    <3> QED BY <3>1, <3>2
  <2> QED BY <2>1 DEF CopiesAreOwn
<1>8. CopiesAreApart'
  <2>1. ASSUME NEW q \in Publishers, q # p, at[q] \in Holding PROVE copy[q] # Len(data) + 1
    BY <1>3, <2>1 DEF LakeInv, CopiesAreOwn
  <2> QED BY <1>3, <1>4, <2>1 DEF LakeInv, CopiesAreApart
<1>9. L!ReferencedIsThere'
  BY <1>2, <1>3 DEF LakeInv, NamesAreUsed, L!ReferencedIsThere
<1> QED BY <1>5, <1>6, <1>7, <1>8, <1>9 DEF LakeInv

LEMMA SnapshotProperties ==
    ASSUME Types, NEW snapshot \in Snapshots, snapshots' = Append(snapshots, snapshot)
    PROVE  /\ snapshots' \in Seq(Snapshots) /\ Len(snapshots') # 0
           /\ \A i \in DOMAIN snapshots' :
                 \/ i \in DOMAIN snapshots /\ snapshots'[i] = snapshots[i]
                 \/ snapshots'[i] = snapshot
<1>1. /\ snapshots' \in Seq(Snapshots) /\ Len(snapshots') = Len(snapshots) + 1
      /\ \A i \in 1..Len(snapshots) : snapshots'[i] = snapshots[i]
      /\ snapshots'[Len(snapshots) + 1] = snapshot
  BY AppendProperties DEF Types
<1>2. DOMAIN snapshots' = 1..(Len(snapshots) + 1)
  BY <1>1, LenProperties
<1> QED BY <1>1, <1>2, DataIsFiles

\* Others add a snapshot that refers to their own rows, or to what one before it did.
LEMMA OthersLake ==
    ASSUME LakeInv, L!OthersWrite
    PROVE  LakeInv'
<1>1. PICK t \in {L!NoTable, L!OthersRows, snapshots[L!Current].table} :
         snapshots' = Append(snapshots, [marker |-> None, table |-> t])
  BY DEF L!OthersWrite
<1>2. UNCHANGED <<source, data, at, copy>>
  BY DEF L!OthersWrite
<1>3. Len(snapshots) \in DOMAIN snapshots /\ Len(data) \in Nat /\ DOMAIN data = 1..Len(data)
  BY DataIsFiles DEF LakeInv, Types
<1>4. t \subseteq {0} \/ \E i \in DOMAIN snapshots : t = snapshots[i].table
  BY <1>3 DEF L!NoTable, L!OthersRows, L!Current
<1>5. [marker |-> None, table |-> t] \in Snapshots
  <2>1. t \in SUBSET Nat
    BY <1>4, DataIsFiles DEF LakeInv
  <2> QED BY <2>1 DEF Snapshots, Markers
<1>6. \A i \in DOMAIN snapshots' :
         snapshots'[i].table \subseteq {0} \/ \E j \in DOMAIN snapshots : snapshots'[i].table = snapshots[j].table
  BY <1>1, <1>4, <1>5, SnapshotProperties DEF LakeInv
<1>7. Types'
  BY <1>1, <1>2, <1>5, SnapshotProperties DEF LakeInv, Types
<1>8. NamesAreUsed' /\ CopiesAreOwn' /\ CopiesAreApart' /\ L!ReferencedIsThere'
  <2>1. NamesAreUsed'
    BY <1>2, <1>3, <1>6 DEF LakeInv, NamesAreUsed
  <2>2. CopiesAreOwn'
    BY <1>2, <1>3, <1>6 DEF LakeInv, CopiesAreOwn
  <2>3. CopiesAreApart'
    BY <1>2 DEF LakeInv, CopiesAreApart
  <2>4. L!ReferencedIsThere'
    BY <1>2, <1>3, <1>6 DEF LakeInv, L!ReferencedIsThere
  <2> QED BY <2>1, <2>2, <2>3, <2>4
<1> QED BY <1>7, <1>8 DEF LakeInv

\* A commit refers to the publisher's own copy, which is there, and after it the
\* publisher no longer removes it.
LEMMA CommitLake ==
    ASSUME LakeInv, NEW p \in Publishers, L!Commit(p)
    PROVE  LakeInv'
<1>1. /\ at[p] = "commit" /\ at[p] \in Holding
      /\ snapshots' = Append(snapshots, [marker |-> L!Marker(p), table |-> {copy[p]}])
      /\ UNCHANGED <<source, data, copy>>
  BY DEF L!Commit, Holding
<1>2. /\ at' \in [Publishers -> Points] /\ at'[p] \notin Holding
      /\ \A q \in Publishers : q # p => at'[q] = at[q]
  BY DEF LakeInv, Types, L!Commit, L!Go, Points, Holding
<1>3. copy[p] \in DOMAIN data /\ data[copy[p]] # None /\ DOMAIN data = 1..Len(data) /\ Len(data) \in Nat
  BY <1>1, DataIsFiles DEF LakeInv, CopiesAreOwn
<1>4. [marker |-> L!Marker(p), table |-> {copy[p]}] \in Snapshots
  <2>1. data[copy[p]] \in Digests \cup {None}
    BY <1>3, ElementOfSeq DEF LakeInv, Types
  <2> QED BY <1>3, <2>1 DEF Snapshots, Markers, L!Marker
<1>5. \A i \in DOMAIN snapshots' :
         \/ i \in DOMAIN snapshots /\ snapshots'[i] = snapshots[i]
         \/ snapshots'[i].table = {copy[p]}
  BY <1>1, <1>4, SnapshotProperties DEF LakeInv
<1>6. Types'
  BY <1>1, <1>2, <1>4, SnapshotProperties DEF LakeInv, Types
<1>7. NamesAreUsed'
  BY <1>1, <1>3, <1>5 DEF LakeInv, NamesAreUsed
<1>8. CopiesAreOwn'
  BY <1>1, <1>2, <1>5 DEF LakeInv, CopiesAreOwn, CopiesAreApart
<1>9. CopiesAreApart'
  BY <1>1, <1>2 DEF LakeInv, CopiesAreApart
<1>10. L!ReferencedIsThere'
  BY <1>1, <1>3, <1>5 DEF LakeInv, L!ReferencedIsThere
<1> QED BY <1>6, <1>7, <1>8, <1>9, <1>10 DEF LakeInv

LEMMA PublishLake ==
    ASSUME LakeInv, None \notin Digests, ~AnswerFails, NEW p \in Publishers, L!Publish(p)
    PROVE  LakeInv'
<1>1. CASE L!Refuse(p)
  BY <1>1, MoveLake DEF L!Refuse, L!Fails, Points, Holding
<1>2. CASE L!copy_hashing(p)
  BY <1>2, CopyLake
<1>3. CASE L!published(p)
  BY <1>3, MoveLake DEF L!published, Points, Holding
<1>4. CASE L!Unchanged(p)
  BY <1>4, RemoveLake DEF L!Unchanged, Holding
<1>5. CASE L!Begin(p)
  BY <1>5, MoveLake DEF L!Begin, Points, Holding
<1>6. CASE L!Commit(p)
  BY <1>6, CommitLake
<1>7. CASE L!Registered(p)
  BY <1>7, MoveLake DEF L!Registered, Points, Holding
<1>8. CASE L!Errs(p)
  BY <1>8, RemoveLake DEF L!Errs, L!Fails, Holding
<1>9. CASE L!Kill(p)
  BY <1>9, MoveLake DEF L!Kill, Points, Holding
<1> QED BY <1>1, <1>2, <1>3, <1>4, <1>5, <1>6, <1>7, <1>8, <1>9 DEF L!Publish

LEMMA LakeStep ==
    ASSUME None \notin Digests, ~AnswerFails, LakeInv, [L!Next]_L!vars
    PROVE  LakeInv'
<1>1. CASE L!OthersWrite
  BY <1>1, OthersLake
<1>2. CASE L!Build
  <2>1. source' \in Digests /\ UNCHANGED <<snapshots, data, at, copy>>
    BY <1>2 DEF L!Build
  <2> QED BY <2>1
        DEF LakeInv, Types, NamesAreUsed, CopiesAreOwn, CopiesAreApart, L!ReferencedIsThere
<1>3. ASSUME NEW p \in Publishers, L!Publish(p) PROVE LakeInv'
  BY <1>3, PublishLake
<1>4. CASE UNCHANGED L!vars
  BY <1>4
        DEF L!vars, LakeInv, Types, NamesAreUsed, CopiesAreOwn, CopiesAreApart, L!ReferencedIsThere
<1> QED BY <1>1, <1>2, <1>3, <1>4 DEF L!Next

\* ducklake_publish.rs:593: with a catalog that answers after a commit, no publish,
\* however many there are and wherever they fail or are killed, takes away a file
\* that a snapshot refers to.
LEMMA FilesStay ==
    ASSUME None \notin Digests, ~AnswerFails
    PROVE  L!Spec => []L!ReferencedIsThere
<1>1. L!Init => LakeInv
  BY InitLake
<1>2. LakeInv /\ [L!Next]_L!vars => LakeInv'
  BY LakeStep
<1>3. LakeInv => L!ReferencedIsThere
  BY DEF LakeInv
<1> QED BY <1>1, <1>2, <1>3, PTL DEF L!Spec

-----------------------------------------------------------------------------
\* Among naturals there is a least.
LEMMA LeastIs ==
    ASSUME NEW S \in SUBSET Nat, S # {}
    PROVE  \E least \in S : \A n \in S : least <= n
<1> DEFINE Less == {pair \in Nat \X Nat : pair[1] < pair[2]}
<1>1. IsWellFoundedOn(Less, Nat)
  BY NatLessThanWellFounded DEF OpToRel
<1>2. \A m, n \in Nat : <<m, n>> \in Less <=> m < n
  OBVIOUS
<1> HIDE DEF Less
<1>3. PICK least \in S : \A n \in S : <<n, least>> \notin Less
  BY <1>1, WFMin
<1>4. \A n \in S : ~(n < least)
  BY <1>2, <1>3
<1> QED BY <1>4

\* The last of some snapshots.
LEMMA LastIs ==
    ASSUME NEW n \in Nat, NEW S \in SUBSET (1..n), S # {}
    PROVE  L!Max(S) \in S
<1> DEFINE D == {k \in Nat : n - k \in S}
<1>1. D # {}
  <2>1. PICK i \in S : TRUE
    OBVIOUS
  <2>2. n - i \in Nat /\ n - (n - i) = i
    OBVIOUS
  <2> QED BY <2>1, <2>2
<1>2. PICK k \in D : \A j \in D : k <= j
  BY <1>1, LeastIs
<1>3. \A i \in S : n - k >= i
  <2> SUFFICES ASSUME NEW i \in S PROVE n - k >= i
    OBVIOUS
  <2>1. n - i \in D
    OBVIOUS
  <2> QED BY <1>2, <2>1
<1>4. n - k \in S
  BY <1>2
<1> QED BY <1>3, <1>4 DEF L!Max

\* A snapshot that a publisher committed is of its copy, which has the digest
\* that its marker says.
MarkersSayTrue ==
    \A i \in DOMAIN snapshots : snapshots[i].marker # None =>
        LET file == snapshots[i].marker.file
        IN  /\ snapshots[i].table = {file} /\ file \in DOMAIN data
            /\ data[file] = snapshots[i].marker.sha256

\* What a publisher has read of the catalog was so.
ViewsAreOfSnapshots ==
    /\ view = [p \in Publishers |-> view[p]]
    /\ \A p \in Publishers : at[p] = "decide" =>
          /\ view[p].current \in DOMAIN snapshots
          /\ view[p].last # 0 => /\ view[p].last \in 1..view[p].current
                                 /\ snapshots[view[p].last].marker # None

NoOpInv == MarkersSayTrue /\ ViewsAreOfSnapshots

\* Where nothing has changed between two snapshots, the table is as it was.
LEMMA UnchangedTable ==
    ASSUME NEW s, NEW m \in Nat, NEW n \in Nat, m <= n,
           \A i \in (m + 1)..n : s[i].table = s[i - 1].table
    PROVE  s[n].table = s[m].table
<1> DEFINE D == {i \in Nat : i \in m..n /\ s[i].table # s[m].table}
<1>1. SUFFICES ASSUME D # {} PROVE FALSE
  <2>1. n \notin D => s[n].table = s[m].table
    OBVIOUS
  <2> QED BY <1>1, <2>1
<1>2. PICK i \in D : \A j \in D : i <= j
  BY <1>1, LeastIs
<1>3. i \in (m + 1)..n /\ i - 1 \in m..n /\ i - 1 \in Nat
  BY <1>2
<1>4. i - 1 \notin D
  BY <1>2, <1>3
<1> QED BY <1>2, <1>3, <1>4

\* The files of the catalog's markers are not what a publisher may remove.
LEMMA DataNoOp ==
    ASSUME LakeInv, MarkersSayTrue, snapshots' = snapshots,
           DOMAIN data \subseteq DOMAIN data',
           \A f \in DOMAIN data : (\E i \in DOMAIN snapshots : f \in snapshots[i].table) =>
               data'[f] = data[f]
    PROVE  MarkersSayTrue'
BY DEF MarkersSayTrue


LEMMA ViewsStay ==
    ASSUME Types, ViewsAreOfSnapshots, NEW p \in Publishers, NEW where \in Points \ {"decide"},
           L!Go(p, where), UNCHANGED <<snapshots, view>>
    PROVE  ViewsAreOfSnapshots'
<1>1. \A q \in Publishers : at'[q] = "decide" => at[q] = "decide"
  BY DEF Types, L!Go
<1> QED BY <1>1 DEF ViewsAreOfSnapshots

\* A catalog that has one more snapshot.
LEMMA AppendNoOp ==
    ASSUME LakeInv, NoOpInv, NEW snapshot \in Snapshots, snapshots' = Append(snapshots, snapshot),
           UNCHANGED <<data, view>>, \A p \in Publishers : at'[p] = "decide" => at[p] = "decide",
           snapshot.marker # None =>
              LET file == snapshot.marker.file
              IN  snapshot.table = {file} /\ file \in DOMAIN data /\ data[file] = snapshot.marker.sha256
    PROVE  NoOpInv'
<1>1. /\ \A i \in DOMAIN snapshots : i \in DOMAIN snapshots' /\ snapshots'[i] = snapshots[i]
      /\ \A i \in DOMAIN snapshots' :
            \/ i \in DOMAIN snapshots /\ snapshots'[i] = snapshots[i]
            \/ snapshots'[i] = snapshot
  <2>1. /\ Len(snapshots') = Len(snapshots) + 1 /\ snapshots' \in Seq(Snapshots)
        /\ \A i \in 1..Len(snapshots) : snapshots'[i] = snapshots[i]
    BY AppendProperties DEF LakeInv, Types
  <2>2. DOMAIN snapshots' = 1..(Len(snapshots) + 1)
    BY <2>1, LenProperties
  <2> QED BY <2>1, <2>2, DataIsFiles, SnapshotProperties DEF LakeInv
<1>2. MarkersSayTrue'
  BY <1>1 DEF NoOpInv, MarkersSayTrue
<1>3. ViewsAreOfSnapshots'
  <2> SUFFICES ASSUME NEW p \in Publishers, at'[p] = "decide"
               PROVE  /\ view[p].current \in DOMAIN snapshots'
                      /\ view[p].last # 0 => /\ view[p].last \in 1..view[p].current
                                             /\ snapshots'[view[p].last].marker # None
    BY DEF NoOpInv, ViewsAreOfSnapshots
  <2>1. view[p].current \in DOMAIN snapshots'
    BY <1>1 DEF NoOpInv, ViewsAreOfSnapshots
  <2>2. ASSUME view[p].last # 0
        PROVE  /\ view[p].last \in 1..view[p].current /\ view[p].last \in DOMAIN snapshots
               /\ snapshots[view[p].last].marker # None
    BY <2>2, DataIsFiles DEF LakeInv, NoOpInv, ViewsAreOfSnapshots
  <2> QED BY <1>1, <2>1, <2>2
<1> QED BY <1>2, <1>3 DEF NoOpInv

\* What a publisher has just read is so.
LEMMA PublishedNoOp ==
    ASSUME LakeInv, NoOpInv, NEW p \in Publishers, L!published(p)
    PROVE  NoOpInv'
<1> DEFINE read == [current |-> L!Current, last |-> IF L!Mine = {} THEN 0 ELSE L!Max(L!Mine)]
<1>1. /\ UNCHANGED <<snapshots, data>> /\ view' = [view EXCEPT ![p] = read]
      /\ \A q \in Publishers : q # p => at'[q] = at[q]
  BY DEF L!published, L!Go, LakeInv, Types
<1>2. L!Current \in DOMAIN snapshots /\ DOMAIN snapshots = 1..L!Current /\ L!Current \in Nat
  BY DataIsFiles DEF LakeInv, Types, L!Current
<1>3. L!Mine # {} => L!Max(L!Mine) \in L!Mine
  BY <1>2, LastIs DEF L!Mine
<1>4. /\ read.current \in DOMAIN snapshots
      /\ read.last # 0 => /\ read.last \in 1..read.current /\ snapshots[read.last].marker # None
  BY <1>2, <1>3 DEF L!Mine
<1> HIDE DEF read
<1>5. view' = [q \in Publishers |-> IF q = p THEN read ELSE view[q]]
  BY <1>1 DEF NoOpInv, ViewsAreOfSnapshots
<1>6. ViewsAreOfSnapshots'
  BY <1>1, <1>4, <1>5 DEF NoOpInv, ViewsAreOfSnapshots
<1>7. MarkersSayTrue'
  BY <1>1 DEF NoOpInv, MarkersSayTrue
<1> QED BY <1>6, <1>7 DEF NoOpInv

LEMMA RemoveNoOp ==
    ASSUME LakeInv, NoOpInv, NEW p \in Publishers, at[p] \in Holding,
           L!Remove(p), L!Go(p, "idle"), UNCHANGED <<snapshots, view>>
    PROVE  NoOpInv'
<1>1. DOMAIN data' = DOMAIN data /\ \A f \in DOMAIN data : f # copy[p] => data'[f] = data[f]
  BY DEF L!Remove
<1>2. \A i \in DOMAIN snapshots : copy[p] \notin snapshots[i].table
  BY DEF LakeInv, CopiesAreOwn
<1>3. MarkersSayTrue'
  BY <1>1, <1>2, DataNoOp DEF NoOpInv
<1> QED BY <1>3, ViewsStay DEF LakeInv, NoOpInv, Points

LEMMA PublishNoOp ==
    ASSUME LakeInv, NoOpInv, ~AnswerFails, NEW p \in Publishers, L!Publish(p)
    PROVE  NoOpInv'
<1>1. CASE L!Refuse(p) \/ L!Registered(p) \/ L!Kill(p) \/ L!Begin(p)
  <2>1. /\ UNCHANGED <<snapshots, data, view>>
        /\ \E where \in Points \ {"decide"} : L!Go(p, where)
    BY <1>1 DEF L!Refuse, L!Registered, L!Kill, L!Begin, L!Fails, Points
  <2>2. MarkersSayTrue'
    BY <2>1 DEF NoOpInv, MarkersSayTrue
  <2> QED BY <2>1, <2>2, ViewsStay DEF LakeInv, NoOpInv
<1>2. CASE L!copy_hashing(p)
  <2>1. /\ UNCHANGED <<snapshots, view>> /\ \E where \in Points \ {"decide"} : L!Go(p, where)
        /\ \E d : data' = Append(data, d)
    BY <1>2 DEF L!copy_hashing, L!Fails, Points
  <2>2. DOMAIN data \subseteq DOMAIN data' /\ \A f \in DOMAIN data : data'[f] = data[f]
    BY <2>1, DataIsFiles DEF LakeInv, Types
  <2>3. MarkersSayTrue'
    BY <2>1, <2>2, DataNoOp DEF NoOpInv
  <2> QED BY <2>1, <2>3, ViewsStay DEF LakeInv, NoOpInv
<1>3. CASE L!published(p)
  BY <1>3, PublishedNoOp
<1>4. CASE L!Unchanged(p)
  BY <1>4, RemoveNoOp DEF L!Unchanged, Holding
<1>5. CASE L!Commit(p)
  <2> DEFINE snapshot == [marker |-> L!Marker(p), table |-> {copy[p]}]
  <2>1. /\ at[p] \in Holding /\ snapshots' = Append(snapshots, snapshot) /\ UNCHANGED <<data, view>>
        /\ \A q \in Publishers : at'[q] = "decide" => at[q] = "decide"
    BY <1>5 DEF L!Commit, L!Go, Holding, LakeInv, Types
  <2>2. copy[p] \in DOMAIN data /\ copy[p] \in Nat /\ data[copy[p]] \in Digests \cup {None}
    <3>1. copy[p] \in 1..Len(data)
      BY <2>1, DataIsFiles DEF LakeInv, CopiesAreOwn
    <3> QED BY <3>1, DataIsFiles, ElementOfSeq DEF LakeInv, Types
  <2>3. /\ snapshot \in Snapshots /\ snapshot.table = {copy[p]} /\ snapshot.marker.file = copy[p]
        /\ snapshot.marker.sha256 = data[copy[p]]
    BY <2>2 DEF Snapshots, Markers, L!Marker
  <2> HIDE DEF snapshot
  <2> QED BY <2>1, <2>2, <2>3, AppendNoOp
<1>6. CASE L!Errs(p)
  BY <1>6, RemoveNoOp DEF L!Errs, L!Fails, Holding
<1> QED BY <1>1, <1>2, <1>3, <1>4, <1>5, <1>6 DEF L!Publish

LEMMA NoOpStep ==
    ASSUME LakeInv, NoOpInv, ~AnswerFails, [L!Next]_L!vars
    PROVE  NoOpInv'
<1>1. CASE L!OthersWrite
  <2>1. PICK t \in {L!NoTable, L!OthersRows, snapshots[L!Current].table} :
           snapshots' = Append(snapshots, [marker |-> None, table |-> t])
    BY <1>1 DEF L!OthersWrite
  <2>2. [marker |-> None, table |-> t] \in Snapshots
    <3>1. t \in SUBSET Nat
      BY DataIsFiles DEF LakeInv, Types, L!NoTable, L!OthersRows, L!Current
    <3> QED BY <3>1 DEF Snapshots, Markers
  <2>3. UNCHANGED <<data, view, at>>
    BY <1>1 DEF L!OthersWrite
  <2> QED BY <2>1, <2>2, <2>3, AppendNoOp
<1>2. CASE L!Build
  <2>1. UNCHANGED <<snapshots, data, view, at>>
    BY <1>2 DEF L!Build
  <2> QED BY <2>1 DEF NoOpInv, MarkersSayTrue, ViewsAreOfSnapshots
<1>3. CASE UNCHANGED L!vars
  BY <1>3 DEF L!vars, NoOpInv, MarkersSayTrue, ViewsAreOfSnapshots
<1>4. ASSUME NEW p \in Publishers, L!Publish(p) PROVE NoOpInv'
  BY <1>4, PublishNoOp
<1> QED BY <1>1, <1>2, <1>3, <1>4 DEF L!Next

LEMMA NoOpIs ==
    ASSUME LakeInv, NoOpInv
    PROVE  L!NoOpIsRight
<1> SUFFICES ASSUME NEW p \in Publishers, L!Unchanged(p)
             PROVE  LET t == snapshots[view[p].current].table
                    IN  t \notin {L!NoTable, L!OthersRows} /\ \A f \in t : data[f] = data[copy[p]]
  BY DEF L!NoOpIsRight
<1> DEFINE last == view[p].last
           newest == view[p].current
<1>1. /\ at[p] = "decide" /\ last # 0 /\ snapshots[last].marker.sha256 = data[copy[p]]
      /\ ~L!Changed(last, newest)
  BY DEF L!Unchanged, L!Same
<1>2. /\ newest \in DOMAIN snapshots /\ last \in 1..newest /\ snapshots[last].marker # None
      /\ newest \in Nat /\ last \in Nat /\ last <= newest /\ last \in DOMAIN snapshots
  BY <1>1, DataIsFiles DEF LakeInv, NoOpInv, ViewsAreOfSnapshots
<1> HIDE DEF last, newest
<1>3. snapshots[newest].table = snapshots[last].table
  <2>1. last < newest => \A i \in (last + 1)..newest : snapshots[i].table = snapshots[i - 1].table
    BY <1>1 DEF L!Changed
  <2>2. CASE last < newest
    BY <1>2, <2>1, <2>2, UnchangedTable
  <2> QED BY <1>2, <2>2
<1>4. LET file == snapshots[last].marker.file
      IN  /\ snapshots[last].table = {file} /\ file \in DOMAIN data
          /\ data[file] = snapshots[last].marker.sha256
  BY <1>2 DEF NoOpInv, MarkersSayTrue
<1>5. snapshots[last].marker.file # 0
  BY <1>4, DataIsFiles DEF LakeInv
<1> QED BY <1>1, <1>3, <1>4, <1>5 DEF L!NoTable, L!OthersRows, newest

\* A publish reported as a no-op finds the table holding the file's bytes, in the
\* newest snapshot it has looked at, whatever others publish, write and
\* drop meanwhile (ducklake_publish.rs:20).
LEMMA NoOps ==
    ASSUME None \notin Digests, ~AnswerFails
    PROVE  L!Spec => L!NoOpHolds
<1>1. L!Init => NoOpInv
  <2> SUFFICES ASSUME L!Init PROVE NoOpInv
    OBVIOUS
  <2>1. \A i \in DOMAIN snapshots : snapshots[i].marker = None
    BY DEF L!Init
  <2> QED BY <2>1 DEF L!Init, NoOpInv, MarkersSayTrue, ViewsAreOfSnapshots
<1>2. LakeInv /\ NoOpInv /\ [L!Next]_L!vars => NoOpInv'
  BY NoOpStep
<1>3. LakeInv /\ NoOpInv => L!NoOpIsRight
  BY NoOpIs
<1>4. L!Init => LakeInv
  BY InitLake
<1>5. LakeInv /\ [L!Next]_L!vars => LakeInv'
  BY LakeStep
<1> QED BY <1>1, <1>2, <1>3, <1>4, <1>5, PTL DEF L!Spec, L!NoOpHolds

-----------------------------------------------------------------------------
(* Tool stamps.                                                            *)

StampTypes ==
    /\ DOMAIN store = T!Steps
    /\ product = [s \in T!Steps |-> product[s]]
    /\ \A s \in T!Steps : product[s] = None \/ product[s] = [k \in Gates[s] |-> product[s][k]]
    /\ DOMAIN run = Runs

\* A run on its way has a step of the folder, and stamps to write over the file's.
RunsHaveSteps ==
    \A r \in Runs :
        /\ run[r].at # "idle" => run[r].step \in T!Steps
        /\ run[r].at = "stamp" => DOMAIN run[r].read = T!Steps

\* A stamp that nothing casts doubt on is of a tool that made the product.
StampsAreOfProducts ==
    \A s \in T!Steps \ unsure :
        product[s] # None => \A k \in Gates[s] : store[s][k] \in {None, product[s][k]}

StampsInv == StampTypes /\ RunsHaveSteps /\ StampsAreOfProducts

LEMMA InitStamps ==
    ASSUME T!Init
    PROVE  StampsInv
BY DEF T!Init, T!NoStamps, T!Idle, T!At, T!Keys, StampsInv, StampTypes, RunsHaveSteps,
       StampsAreOfProducts

\* A run goes to a place where it has a step, and stamps if it needs them.
LEMMA MoveStamps ==
    ASSUME StampsInv, NEW r \in Runs, NEW where, NEW s, NEW read, NEW saw,
           T!Become(r, T!At(where, s, read, saw)),
           where # "idle" => s \in T!Steps,
           where = "stamp" => DOMAIN read = T!Steps
    PROVE  DOMAIN run' = Runs /\ RunsHaveSteps'
<1>1. \A q \in Runs : run'[q] = IF q = r THEN T!At(where, s, read, saw) ELSE run[q]
  BY DEF StampsInv, StampTypes, T!Become
<1>2. DOMAIN run' = Runs
  BY DEF StampsInv, StampTypes, T!Become
<1> QED BY <1>1, <1>2 DEF StampsInv, RunsHaveSteps, T!Steps, T!At

LEMMA RestStamps ==
    ASSUME StampsInv, NEW r \in Runs, T!Become(r, T!Idle)
    PROVE  DOMAIN run' = Runs /\ RunsHaveSteps'
BY MoveStamps DEF T!Idle

LEMMA NoStampsAreNone == \A s \in T!Steps : \A k \in Gates[s] : T!NoStamps[s][k] = None
BY DEF T!NoStamps, T!Keys

\* A write of the stamps: its own step's are of the tools its product was made
\* with, or it is unsure; another step's are the file's, or that one is.
LEMMA WriteStampsKept ==
    ASSUME StampsInv, NEW r \in Runs, T!WriteStamps(r)
    PROVE  StampsInv'
<1> DEFINE s == run[r].step
<1>1. /\ s \in T!Steps /\ DOMAIN run[r].read = T!Steps
      /\ store' = T!Stamped(r) /\ UNCHANGED product /\ T!Become(r, T!Idle)
      /\ \A t \in T!Steps \ unsure' : t # s => t \notin unsure /\ run[r].read[t] = store[t]
      /\ s \notin unsure' => product[s] = T!Current(s)
  BY DEF T!WriteStamps, StampsInv, RunsHaveSteps
<1>2. DOMAIN store' = T!Steps
  BY <1>1 DEF T!Stamped
<1>3. ASSUME NEW t \in T!Steps \ unsure', product[t] # None, NEW k \in Gates[t]
      PROVE  store'[t][k] \in {None, product[t][k]}
  <2>1. CASE t = s
    <3>1. k \in T!Keys
      BY <1>3 DEF T!Keys, T!Steps
    <3>2. store'[s][k] = T!observe(k)
      BY <1>1, <2>1, <3>1 DEF T!Stamped
    <3>3. T!observe(k) \in {None, T!resolve(k)}
      BY DEF T!observe
    <3>4. product[s][k] = T!resolve(k)
      BY <1>1, <2>1 DEF T!Current
    <3> QED BY <2>1, <3>2, <3>3, <3>4
  <2>2. CASE t # s
    BY <1>1, <1>3, <2>2 DEF T!Stamped, StampsInv, StampsAreOfProducts
  <2> QED BY <2>1, <2>2
<1>4. StampTypes' /\ RunsHaveSteps'
  BY <1>1, <1>2, RestStamps DEF StampsInv, StampTypes, T!Steps
<1> QED BY <1>1, <1>3, <1>4 DEF StampsInv, StampsAreOfProducts, T!Steps

LEMMA RunStamps ==
    ASSUME StampsInv, NEW r \in Runs, T!Run(r)
    PROVE  StampsInv'
<1>1. CASE T!Execute(r)
  <2> DEFINE s == run[r].step
  <2>1. /\ s \in T!Steps /\ UNCHANGED store /\ unsure' = unsure \cup {s}
        /\ product' = [product EXCEPT ![s] = T!Current(s)]
        /\ T!Become(r, T!At("row", s, None, T!Current(s)))
    BY <1>1 DEF T!Execute, StampsInv, RunsHaveSteps
  <2>2. /\ product' = [t \in T!Steps |-> IF t = s THEN T!Current(s) ELSE product[t]]
        /\ T!Current(s) = [k \in Gates[s] |-> T!Current(s)[k]]
    BY <2>1 DEF StampsInv, StampTypes, T!Current
  <2>3. DOMAIN run' = Runs /\ RunsHaveSteps'
    BY <2>1, MoveStamps
  <2>4. StampTypes'
    <3>1. /\ DOMAIN store' = T!Steps
          /\ product' = [t \in T!Steps |-> product'[t]]
      BY <2>1, <2>2 DEF StampsInv, StampTypes
    <3>2. ASSUME NEW t \in T!Steps
          PROVE  product'[t] = None \/ product'[t] = [k \in Gates[t] |-> product'[t][k]]
      <4>1. CASE t = s
        BY <2>2, <4>1
      <4>2. CASE t # s
        BY <2>2, <4>2 DEF StampsInv, StampTypes
      <4> QED BY <4>1, <4>2
    <3> QED BY <2>3, <3>1, <3>2 DEF StampTypes, T!Steps
  <2>5. StampsAreOfProducts'
    BY <2>1, <2>2 DEF StampsInv, StampsAreOfProducts, T!Steps
  <2> QED BY <2>3, <2>4, <2>5 DEF StampsInv
<1>2. CASE T!StepFails(r)
  <2> DEFINE s == run[r].step
  <2>1. /\ s \in T!Steps /\ UNCHANGED <<store, unsure>>
        /\ product' = [product EXCEPT ![s] = None] /\ T!Become(r, T!Idle)
    BY <1>2 DEF T!StepFails, StampsInv, RunsHaveSteps
  <2>2. product' = [t \in T!Steps |-> IF t = s THEN None ELSE product[t]]
    BY <2>1 DEF StampsInv, StampTypes
  <2>3. StampTypes' /\ RunsHaveSteps'
    BY <2>1, <2>2, RestStamps DEF StampsInv, StampTypes, T!Steps
  <2>4. StampsAreOfProducts'
    BY <2>1, <2>2 DEF StampsInv, StampsAreOfProducts, T!Steps
  <2> QED BY <2>3, <2>4 DEF StampsInv
<1>3. CASE T!WriteStamps(r)
  BY <1>3, WriteStampsKept
<1>4. CASE T!WriteFails(r)
  <2>1. /\ store' \in {store, T!NoStamps} /\ UNCHANGED <<product, unsure>> /\ T!Become(r, T!Idle)
    BY <1>4 DEF T!WriteFails
  <2>2. DOMAIN store' = T!Steps
    BY <2>1 DEF T!NoStamps, StampsInv, StampTypes
  <2>3. StampTypes' /\ RunsHaveSteps'
    BY <2>1, <2>2, RestStamps DEF StampsInv, StampTypes, T!Steps
  <2>4. StampsAreOfProducts'
    BY <2>1, NoStampsAreNone DEF StampsInv, StampsAreOfProducts, T!Steps
  <2> QED BY <2>3, <2>4 DEF StampsInv
<1>5. CASE T!Killed(r)
  <2>1. UNCHANGED <<store, product, unsure>> /\ T!Become(r, T!Idle)
    BY <1>5 DEF T!Killed
  <2>2. StampTypes' /\ RunsHaveSteps'
    BY <2>1, RestStamps DEF StampsInv, StampTypes, T!Steps
  <2> QED BY <2>1, <2>2 DEF StampsInv, StampsAreOfProducts, T!Steps
<1>6. CASE T!RecordStep(r) \/ T!ReadStamps(r) \/ \E s \in T!Steps : T!Plan(r, s)
  <2>1. UNCHANGED <<store, product, unsure>>
    BY <1>6 DEF T!RecordStep, T!ReadStamps, T!Plan
  <2>2. DOMAIN run' = Runs /\ RunsHaveSteps'
    <3>1. CASE T!RecordStep(r)
      BY <3>1, MoveStamps DEF T!RecordStep, StampsInv, RunsHaveSteps
    <3>2. CASE T!ReadStamps(r)
      BY <3>2, MoveStamps DEF T!ReadStamps, StampsInv, StampTypes, RunsHaveSteps
    <3>3. ASSUME NEW s \in T!Steps, T!Plan(r, s) PROVE DOMAIN run' = Runs /\ RunsHaveSteps'
      BY <3>3, MoveStamps DEF T!Plan
    <3> QED BY <1>6, <3>1, <3>2, <3>3
  <2>3. StampTypes' /\ RunsHaveSteps'
    BY <2>1, <2>2 DEF StampsInv, StampTypes, T!Steps
  <2> QED BY <2>1, <2>3 DEF StampsInv, StampsAreOfProducts, T!Steps
<1>7. CASE \E s \in T!Steps : T!PlanFails(r, s) \/ T!Skip(r, s)
  BY <1>7 DEF T!PlanFails, T!Skip, T!vars, StampsInv, StampTypes, RunsHaveSteps,
              StampsAreOfProducts, T!Steps
<1> QED BY <1>1, <1>2, <1>3, <1>4, <1>5, <1>6, <1>7 DEF T!Run

\* precondition.rs:128: with any steps, tools and runs over one file of stamps, a step
\* that its tools let pass has a product its present tools made, unless a kill, a
\* change of tools or another run came before its stamp.
LEMMA SkippedTools == T!Spec => []T!SkippedHasItsTools
<1>1. T!Init => StampsInv
  BY InitStamps
<1>2. StampsInv /\ [T!Next]_T!vars => StampsInv'
  <2> SUFFICES ASSUME StampsInv, [T!Next]_T!vars PROVE StampsInv'
    OBVIOUS
  <2>1. CASE T!Change
    <3>1. store' \in {store, T!NoStamps} /\ UNCHANGED <<product, unsure, run>>
      BY <2>1 DEF T!Change
    <3>2. DOMAIN store' = T!Steps
      BY <3>1 DEF T!NoStamps, StampsInv, StampTypes
    <3>3. StampTypes' /\ RunsHaveSteps'
      BY <3>1, <3>2 DEF StampsInv, StampTypes, RunsHaveSteps, T!Steps
    <3>4. StampsAreOfProducts'
      BY <3>1, NoStampsAreNone DEF StampsInv, StampsAreOfProducts, T!Steps
    <3> QED BY <3>3, <3>4 DEF StampsInv
  <2>2. ASSUME NEW r \in Runs, T!Run(r) PROVE StampsInv'
    BY <2>2, RunStamps
  <2>3. CASE UNCHANGED T!vars
    BY <2>3 DEF T!vars, StampsInv, StampTypes, RunsHaveSteps, StampsAreOfProducts, T!Steps
  <2> QED BY <2>1, <2>2, <2>3 DEF T!Next
<1>3. StampsInv => T!SkippedHasItsTools
  <2> SUFFICES ASSUME StampsInv, NEW s \in T!Steps \ unsure, T!Identified(s), ~T!Stale(s)
               PROVE  product[s] = T!Current(s)
    BY DEF T!SkippedHasItsTools
  <2>1. product[s] # None /\ \A k \in Gates[s] : store[s][k] = T!observe(k) /\ T!observe(k) # None
    BY DEF T!Stale, T!Same, T!Identified
  <2>2. \A k \in Gates[s] : product[s][k] = T!resolve(k)
    BY <2>1 DEF StampsInv, StampsAreOfProducts, T!observe
  <2> QED BY <2>1, <2>2 DEF StampsInv, StampTypes, T!Current
<1> QED BY <1>1, <1>2, <1>3, PTL DEF T!Spec

-----------------------------------------------------------------------------
(* The registry's cache.                                                   *)

Fetching == {"fetch", "write", "rename", "time"}
Writing == {"write", "rename", "time"}

TimeTypes ==
    /\ now \in Nat /\ since \in Nat /\ fetched \in Nat
    /\ since <= now /\ fetched <= now
    /\ DOMAIN proc = Procs
    /\ \A p \in Procs : R!At(p, "fetch") \/ proc[p].at \in Writing =>
          proc[p].began \in Nat /\ proc[p].began <= now

OneWrites ==
    \A p, q \in Procs : proc[p].at \in Writing /\ proc[q].at \in Writing => p = q

\* What a fetch has in hand is what the registry serves, or it served it last
\* after this fetch began, and after the time that stands.
AnswersAreRecent ==
    \A p \in Procs : proc[p].at \in Writing =>
        proc[p].body = remote \/ (proc[p].began <= since /\ fetched <= since)

\* It goes where it should: through the temporary file to the index.
AnswersArrive ==
    \A p \in Procs :
        /\ R!At(p, "rename") => tmp = proc[p].body
        /\ R!At(p, "time") => index \in {None, proc[p].body}

TimeInv ==
    /\ TimeTypes
    /\ apart => OneWrites /\ AnswersAreRecent /\ AnswersArrive
    /\ R!TimeIsTheIndexs

LEMMA InitTime ==
    ASSUME R!Init
    PROVE  TimeInv
BY DEF R!Init, R!Idle, R!Holds, R!At, TimeInv, TimeTypes, OneWrites, AnswersAreRecent,
       AnswersArrive, R!TimeIsTheIndexs, Writing

\* A process that leaves the index, its time and its temporary file alone, and
\* does not begin to write.
LEMMA TimeQuiet ==
    ASSUME TimeInv, NEW p \in Procs, NEW state, R!Becomes(p, state),
           UNCHANGED <<remote, since, now, apart, index, tmp, fetched>>,
           state.at \notin Writing,
           state.at = "fetch" => state.began \in Nat /\ state.began <= now
    PROVE  TimeInv'
<1>1. /\ DOMAIN proc' = Procs
      /\ \A q \in Procs : proc'[q] = IF q = p THEN state ELSE proc[q]
  BY DEF TimeInv, TimeTypes, R!Becomes
<1>2. TimeTypes'
  BY <1>1 DEF TimeInv, TimeTypes, R!At
<1>3. apart => OneWrites' /\ AnswersAreRecent' /\ AnswersArrive'
  BY <1>1 DEF TimeInv, OneWrites, AnswersAreRecent, AnswersArrive, R!At, Writing
<1> QED BY <1>2, <1>3 DEF TimeInv, R!TimeIsTheIndexs

\* Where the state a process takes is the one it had but for its place.
LEMMA TimeSteps ==
    ASSUME TimeInv, NEW p \in Procs, R!Step(p)
    PROVE  TimeInv'
<1> USE DEF R!Holds, R!Idle, R!Reads, R!World, R!Cache, R!Trees
<1>1. CASE R!Load(p)
  <2>1. PICK state : /\ R!Becomes(p, state)
                     /\ state.at \in {"read", "fetch"}
                     /\ state.at = "fetch" => state.began = now
    BY <1>1 DEF R!Load
  <2>2. UNCHANGED <<remote, since, now, apart, index, tmp, fetched>>
    BY <1>1 DEF R!Load
  <2> QED BY <2>1, <2>2, TimeQuiet DEF Writing, TimeInv, TimeTypes
<1>2. CASE R!Answer(p)
  <2>1. /\ R!At(p, "fetch") /\ UNCHANGED <<remote, since, now, index, tmp, fetched>>
        /\ R!Becomes(p, R!Holds("write", FALSE, proc[p].began, remote, None))
        /\ apart' => apart /\ \A q \in Procs : proc[q].at \notin Writing
    BY <1>2 DEF R!Answer, Writing
  <2>2. /\ DOMAIN proc' = Procs /\ proc'[p].at = "write"
        /\ proc'[p].began = proc[p].began /\ proc'[p].body = remote
        /\ \A q \in Procs : q # p => proc'[q] = proc[q]
    BY <2>1 DEF TimeInv, TimeTypes, R!Becomes
  <2>3. TimeTypes'
    BY <2>1, <2>2 DEF TimeInv, TimeTypes, R!At
  <2>4. apart' => OneWrites' /\ AnswersAreRecent' /\ AnswersArrive'
    BY <2>1, <2>2 DEF OneWrites, AnswersAreRecent, AnswersArrive, R!At, Writing
  <2> QED BY <2>1, <2>3, <2>4 DEF TimeInv, R!TimeIsTheIndexs
<1>3. CASE R!WriteTmp(p)
  <2>1. /\ R!At(p, "write") /\ tmp' = proc[p].body
        /\ UNCHANGED <<remote, since, now, apart, index, fetched>>
    BY <1>3 DEF R!WriteTmp
  <2>2. /\ DOMAIN proc' = Procs /\ proc'[p].at = "rename"
        /\ proc'[p].began = proc[p].began /\ proc'[p].body = proc[p].body
        /\ \A q \in Procs : q # p => proc'[q] = proc[q]
    BY <1>3 DEF R!WriteTmp, TimeInv, TimeTypes, R!Becomes, R!Goes
  <2>3. TimeTypes'
    BY <2>1, <2>2 DEF TimeInv, TimeTypes, R!At, Writing
  <2>4. apart => OneWrites' /\ AnswersAreRecent' /\ AnswersArrive'
    BY <2>1, <2>2 DEF TimeInv, OneWrites, AnswersAreRecent, AnswersArrive, R!At, Writing
  <2> QED BY <2>1, <2>3, <2>4 DEF TimeInv, R!TimeIsTheIndexs
<1>4. CASE R!RenameIndex(p)
  <2>1. CASE tmp = None
    BY <1>4, <2>1, TimeQuiet DEF R!RenameIndex, Writing
  <2>2. CASE tmp # None
    <3>1. /\ R!At(p, "rename") /\ index' = tmp /\ tmp' = None
          /\ UNCHANGED <<remote, since, now, apart, fetched>>
      BY <1>4, <2>2 DEF R!RenameIndex
    <3>2. /\ DOMAIN proc' = Procs /\ proc'[p].at = "time"
          /\ proc'[p].began = proc[p].began /\ proc'[p].body = proc[p].body
          /\ \A q \in Procs : q # p => proc'[q] = proc[q]
      BY <1>4, <2>2 DEF R!RenameIndex, TimeInv, TimeTypes, R!Becomes, R!Goes
    <3>3. TimeTypes'
      BY <3>1, <3>2 DEF TimeInv, TimeTypes, R!At, Writing
    <3>4. apart => OneWrites' /\ AnswersAreRecent' /\ AnswersArrive'
      BY <3>1, <3>2 DEF TimeInv, OneWrites, AnswersAreRecent, AnswersArrive, R!At, Writing
    <3>5. R!TimeIsTheIndexs'
      BY <3>1 DEF TimeInv, AnswersAreRecent, AnswersArrive, R!At, Writing, R!TimeIsTheIndexs
    <3> QED BY <3>1, <3>3, <3>4, <3>5 DEF TimeInv
  <2> QED BY <2>1, <2>2
<1>5. CASE R!WriteTime(p)
  <2>1. /\ R!At(p, "time") /\ fetched' = proc[p].began
        /\ UNCHANGED <<remote, since, now, apart, index, tmp>>
    BY <1>5 DEF R!WriteTime
  <2>2. /\ DOMAIN proc' = Procs /\ proc'[p].at \notin Writing \cup {"fetch"}
        /\ \A q \in Procs : q # p => proc'[q] = proc[q]
    BY <1>5 DEF R!WriteTime, TimeInv, TimeTypes, R!Becomes, R!Parsed, Writing
  <2>3. TimeTypes'
    BY <2>1, <2>2 DEF TimeInv, TimeTypes, R!At, Writing
  <2>4. apart => \A q \in Procs : proc'[q].at \notin Writing
    BY <2>1, <2>2 DEF TimeInv, OneWrites, R!At, Writing
  <2>5. apart => OneWrites' /\ AnswersAreRecent' /\ AnswersArrive'
    BY <2>4 DEF OneWrites, AnswersAreRecent, AnswersArrive, R!At, Writing
  <2>6. R!TimeIsTheIndexs'
    BY <2>1 DEF TimeInv, AnswersAreRecent, AnswersArrive, R!At, Writing, R!TimeIsTheIndexs
  <2> QED BY <2>1, <2>3, <2>5, <2>6 DEF TimeInv
<1>6. CASE R!NoAnswer(p) \/ R!ReadCached(p) \/ R!Resolve(p) \/ R!NoTree(p) \/ R!Serve(p)
           \/ R!Killed(p) \/ R!Ensure(p) \/ R!StageTree(p) \/ R!RenameTree(p)
  <2>1. UNCHANGED <<remote, since, now, apart, index, tmp, fetched>>
    BY <1>6 DEF R!NoAnswer, R!ReadCached, R!Resolve, R!NoTree, R!Serve, R!Killed, R!Ensure,
                R!StageTree, R!RenameTree
  <2>2. PICK state : R!Becomes(p, state) /\ state.at \notin Writing \cup {"fetch"}
    <3>1. CASE R!NoAnswer(p) \/ R!NoTree(p) \/ R!Serve(p) \/ R!Killed(p)
      <4>1. R!Becomes(p, R!Reads) \/ R!Becomes(p, R!Idle)
        BY <3>1 DEF R!NoAnswer, R!NoTree, R!Serve, R!Killed
      <4>2. R!Reads.at \notin Writing \cup {"fetch"} /\ R!Idle.at \notin Writing \cup {"fetch"}
        BY DEF Writing
      <4> QED BY <4>1, <4>2
    <3>2. CASE R!ReadCached(p) \/ R!Resolve(p)
      <4>1. CASE R!ReadCached(p)
        BY <4>1 DEF R!ReadCached, R!Parsed, Writing
      <4>2. CASE R!Resolve(p)
        BY <4>2 DEF R!Resolve, Writing
      <4> QED BY <3>2, <4>1, <4>2
    <3>3. CASE R!Ensure(p) \/ R!StageTree(p) \/ R!RenameTree(p)
      BY <3>3 DEF R!Ensure, R!StageTree, R!RenameTree, R!Goes, Writing
    <3> QED BY <1>6, <3>1, <3>2, <3>3
  <2> QED BY <2>1, <2>2, TimeQuiet
<1> QED BY <1>1, <1>2, <1>3, <1>4, <1>5, <1>6 DEF R!Step

\* registry/cache.rs:152: with any processes over one cache, wherever they are
\* killed, and whatever a person takes from it, the time beside the index is no
\* later than the moment the registry last served that index, as long as no two
\* fetches overlap.
THEOREM TimeIsTheIndexsOwn == R!Spec => []R!TimeIsTheIndexs
<1>1. R!Init => TimeInv
  BY InitTime
<1>2. TimeInv /\ [R!Next]_R!vars => TimeInv'
  <2> SUFFICES ASSUME TimeInv, [R!Next]_R!vars PROVE TimeInv'
    OBVIOUS
  <2> USE DEF TimeInv, TimeTypes, OneWrites, AnswersAreRecent, AnswersArrive, R!TimeIsTheIndexs,
              R!At, R!Cache, R!World, R!Trees
  <2>1. CASE R!Tick
    BY <2>1 DEF R!Tick
  <2>2. CASE R!Release
    <3>1. /\ since' = now /\ remote' # remote
          /\ UNCHANGED <<now, apart, index, tmp, fetched, proc>>
      BY <2>2 DEF R!Release
    <3>2. TimeTypes' /\ OneWrites' = OneWrites /\ AnswersArrive' = AnswersArrive
      BY <3>1
    <3>3. apart => AnswersAreRecent'
      BY <3>1 DEF Writing
    <3> QED BY <3>1, <3>2, <3>3
  <2>3. CASE R!Clear
    BY <2>3 DEF R!Clear
  <2>4. CASE R!Meddle
    <3>1. /\ UNCHANGED <<remote, since, now, apart, index, tmp, fetched>>
          /\ DOMAIN proc' = Procs
          /\ \A p \in Procs : proc'[p] = proc[p] \/ proc'[p] = R!Idle
      BY <2>4 DEF R!Meddle
    <3>2. R!Idle.at \notin Writing \cup {"fetch"}
      BY DEF R!Idle, R!Holds, Writing
    <3>3. TimeTypes'
      BY <3>1, <3>2
    <3>4. apart => OneWrites' /\ AnswersAreRecent' /\ AnswersArrive'
      BY <3>1, <3>2 DEF Writing
    <3> QED BY <3>1, <3>3, <3>4
  <2>5. ASSUME NEW p \in Procs, R!Step(p) PROVE TimeInv'
    BY <2>5, TimeSteps
  <2>6. CASE UNCHANGED R!vars
    BY <2>6 DEF R!vars
  <2> QED BY <2>1, <2>2, <2>3, <2>4, <2>5, <2>6 DEF R!Next
<1>3. TimeInv => R!TimeIsTheIndexs
  BY DEF TimeInv
<1> QED BY <1>1, <1>2, <1>3, PTL DEF R!Spec

\* Two protocols of the index that are not one have folders of their own.
PathsApart == \A r, q \in R!Resolved : R!cache_path(r) = R!cache_path(q) => r = q

Paths == {R!cache_path(r) : r \in R!Resolved}

\* A tree is in its own folder, unless a person has been at it.
TreesAreWhole ==
    \A d \in DOMAIN folders :
       /\ d \in Paths
       /\ d \notin meddled => folders[d] \in R!Resolved /\ R!cache_path(folders[d]) = d

ServeInv ==
    /\ remote \in Bodies /\ index \in Bodies \cup {None} /\ tmp \in Bodies \cup {None}
    /\ DOMAIN proc = Procs
    /\ \A p \in Procs :
          /\ proc[p].at \in Writing \cup {"resolve"} => proc[p].body \in Bodies
          /\ proc[p].at \in {"ensure", "tree", "staged", "serve"} => proc[p].want \in R!Resolved
    /\ left \subseteq Paths
    /\ TreesAreWhole
    /\ R!ServedIsResolved

\* What a process may hold next, when no folder goes.
LEMMA ServeMoves ==
    ASSUME ServeInv, NEW p \in Procs, NEW state, R!Becomes(p, state),
           UNCHANGED <<remote, folders, meddled>>, left' \subseteq Paths,
           index' \in Bodies \cup {None}, tmp' \in Bodies \cup {None},
           state.at \in Writing \cup {"resolve"} => state.body \in Bodies,
           state.at \in {"ensure", "tree", "staged", "serve"} => state.want \in R!Resolved,
           state.at # "serve"
    PROVE  ServeInv'
<1>1. /\ DOMAIN proc' = Procs
      /\ \A q \in Procs : proc'[q] = IF q = p THEN state ELSE proc[q]
  BY DEF ServeInv, R!Becomes
<1>2. R!ServedIsResolved'
  BY <1>1 DEF ServeInv, R!ServedIsResolved, R!At
<1> QED BY <1>1, <1>2 DEF ServeInv, TreesAreWhole, Writing

\* A folder that is there holds its tree, when it is alone and no person was at it.
LEMMA CachedIsWhole ==
    ASSUME PathsApart, ServeInv, NEW want \in R!Resolved, R!Cached(R!cache_path(want)),
           R!Alone(R!cache_path(want)), R!cache_path(want) \notin meddled
    PROVE  /\ R!cache_path(want) \in DOMAIN folders
           /\ folders[R!cache_path(want)] = want
<1> DEFINE path == R!cache_path(want)
<1>1. R!Staged \subseteq Paths
  <2>1. \A p \in Procs : proc[p].at = "staged" => R!cache_path(proc[p].want) \in Paths
    BY DEF ServeInv, Paths
  <2> QED BY <2>1 DEF R!Staged, ServeInv
<1>2. ~R!Below(path)
  <2> HIDE DEF path
  <2>1. ASSUME NEW d \in Paths PROVE ~R!IsStrictPrefix(path, d)
    BY <2>1 DEF Paths, R!Alone, path
  <2>2. DOMAIN folders \subseteq Paths
    BY DEF ServeInv, TreesAreWhole
  <2> QED BY <1>1, <2>1, <2>2 DEF R!Below
<1>3. path \in DOMAIN folders
  BY <1>2 DEF R!Cached
<1>4. folders[path] \in R!Resolved /\ R!cache_path(folders[path]) = path
  BY <1>3 DEF ServeInv, TreesAreWhole
<1> QED BY <1>3, <1>4 DEF PathsApart

LEMMA ServeSteps ==
    ASSUME PathsApart, ServeInv, NEW p \in Procs, R!Step(p)
    PROVE  ServeInv'
<1> USE DEF R!Holds, R!Idle, R!Reads, R!World, R!Cache, R!Trees
<1>1. CASE R!Load(p) \/ R!NoAnswer(p) \/ R!NoTree(p) \/ R!Serve(p) \/ R!Killed(p)
  <2>1. PICK state : R!Becomes(p, state) /\ state.at \in {"idle", "read", "fetch"}
    <3>1. CASE R!Load(p)
      BY <3>1 DEF R!Load
    <3>2. CASE R!NoAnswer(p) \/ R!NoTree(p) \/ R!Serve(p) \/ R!Killed(p)
      <4>1. R!Becomes(p, R!Reads) \/ R!Becomes(p, R!Idle)
        BY <3>2 DEF R!NoAnswer, R!NoTree, R!Serve, R!Killed
      <4>2. R!Reads.at = "read" /\ R!Idle.at = "idle"
        OBVIOUS
      <4> QED BY <4>1, <4>2
    <3> QED BY <1>1, <3>1, <3>2
  <2>2. UNCHANGED <<remote, folders, meddled, index, tmp>>
    BY <1>1 DEF R!Load, R!NoAnswer, R!NoTree, R!Serve, R!Killed
  <2>3. left' \subseteq Paths
    <3>1. R!At(p, "staged") => R!cache_path(proc[p].want) \in Paths
      BY DEF ServeInv, R!At, Paths
    <3>2. left' = left \/ (R!At(p, "staged") /\ left' = left \cup {R!cache_path(proc[p].want)})
      BY <1>1 DEF R!Load, R!NoAnswer, R!NoTree, R!Serve, R!Killed
    <3> QED BY <3>1, <3>2 DEF ServeInv
  <2> QED BY <2>1, <2>2, <2>3, ServeMoves DEF ServeInv, Writing
<1>2. CASE R!Answer(p)
  BY <1>2, ServeMoves DEF R!Answer, ServeInv, Writing
<1>3. CASE R!WriteTmp(p)
  BY <1>3, ServeMoves DEF R!WriteTmp, R!Goes, R!At, ServeInv, Writing
<1>4. CASE R!RenameIndex(p)
  BY <1>4, ServeMoves DEF R!RenameIndex, R!Goes, R!At, ServeInv, Writing
<1>5. CASE R!WriteTime(p) \/ R!ReadCached(p)
  <2>1. PICK body \in Bodies :
            R!Becomes(p, R!Idle) \/ R!Becomes(p, R!Holds("resolve", FALSE, 0, body, None))
    BY <1>5 DEF R!WriteTime, R!ReadCached, R!Parsed, R!At, ServeInv, Writing
  <2>2. UNCHANGED <<remote, folders, left, meddled, index, tmp>>
    BY <1>5 DEF R!WriteTime, R!ReadCached
  <2> QED BY <2>1, <2>2, ServeMoves DEF ServeInv, Writing
<1>6. CASE R!Resolve(p)
  <2>1. PICK ask \in Queries :
            R!Becomes(p, IF R!resolve(proc[p].body, ask) = None THEN R!Idle
                         ELSE R!Holds("ensure", FALSE, 0, None, R!resolve(proc[p].body, ask)))
    BY <1>6 DEF R!Resolve
  <2>2. proc[p].body \in Bodies /\ UNCHANGED <<remote, folders, left, meddled, index, tmp>>
    BY <1>6 DEF R!Resolve, R!At, ServeInv
  <2>3. R!resolve(proc[p].body, ask) # None => R!resolve(proc[p].body, ask) \in R!Resolved
    BY <2>2 DEF R!Resolved
  <2> QED BY <2>1, <2>2, <2>3, ServeMoves DEF ServeInv, Writing
<1>7. CASE R!Ensure(p) \/ R!StageTree(p)
  <2> DEFINE want == proc[p].want  path == R!cache_path(want)
  <2>1. want \in R!Resolved /\ UNCHANGED <<remote, index, tmp, folders, left, meddled>>
    BY <1>7 DEF R!Ensure, R!StageTree, R!At, ServeInv
  <2>2. CASE R!Goes(p, "tree") \/ R!Goes(p, "staged")
    BY <2>1, <2>2, ServeMoves DEF ServeInv, Writing, R!Goes
  <2>3. CASE R!Goes(p, "serve") /\ R!Cached(path)
    <3>1. /\ DOMAIN proc' = Procs /\ proc'[p].at = "serve" /\ proc'[p].want = want
          /\ \A q \in Procs : q # p => proc'[q] = proc[q]
      BY <2>3 DEF ServeInv, R!Becomes, R!Goes
    <3>2. R!Alone(path) /\ path \notin meddled => path \in DOMAIN folders /\ folders[path] = want
      BY <2>1, <2>3, CachedIsWhole
    <3>3. R!ServedIsResolved'
      BY <2>1, <3>1, <3>2 DEF ServeInv, R!ServedIsResolved, R!At
    <3> QED BY <2>1, <3>1, <3>3 DEF ServeInv, TreesAreWhole, Writing
  <2>4. R!Goes(p, "tree") \/ R!Goes(p, "staged") \/ (R!Goes(p, "serve") /\ R!Cached(path))
    BY <1>7 DEF R!Ensure, R!StageTree
  <2> QED BY <2>2, <2>3, <2>4
<1>8. CASE R!RenameTree(p)
  <2> DEFINE want == proc[p].want  path == R!cache_path(want)
  <2>1. want \in R!Resolved /\ path \in Paths /\ UNCHANGED <<remote, index, tmp>>
    BY <1>8 DEF R!RenameTree, R!At, ServeInv, Paths
  <2>2. CASE R!Becomes(p, R!Idle) /\ UNCHANGED R!Trees
    BY <2>1, <2>2, ServeMoves DEF ServeInv, Writing
  <2>3. CASE /\ R!Goes(p, "serve") /\ UNCHANGED left /\ meddled' = meddled \ {path}
             /\ folders' = [d \in DOMAIN folders \cup {path} |->
                              IF d = path THEN want ELSE folders[d]]
    <3>1. /\ DOMAIN proc' = Procs /\ proc'[p].at = "serve" /\ proc'[p].want = want
          /\ \A q \in Procs : q # p => proc'[q] = proc[q]
      BY <2>3 DEF ServeInv, R!Becomes, R!Goes
    <3>2. TreesAreWhole'
      BY <2>1, <2>3 DEF ServeInv, TreesAreWhole
    <3>3. ASSUME NEW q \in Procs, proc'[q].at = "serve",
                 R!Alone(R!cache_path(proc'[q].want)), R!cache_path(proc'[q].want) \notin meddled'
          PROVE  /\ R!cache_path(proc'[q].want) \in DOMAIN folders'
                 /\ folders'[R!cache_path(proc'[q].want)] = proc'[q].want
      <4>1. CASE q = p
        BY <2>3, <3>1, <4>1
      <4>2. CASE q # p /\ R!cache_path(proc[q].want) = path
        BY <2>1, <2>3, <3>1, <3>3, <4>2 DEF ServeInv, PathsApart
      <4>3. CASE q # p /\ R!cache_path(proc[q].want) # path
        BY <2>3, <3>1, <3>3, <4>3 DEF ServeInv, R!ServedIsResolved, R!At
      <4> QED BY <4>1, <4>2, <4>3
    <3>4. R!ServedIsResolved'
      BY <3>3 DEF R!ServedIsResolved, R!At, R!Alone
    <3> QED BY <2>1, <2>3, <3>1, <3>2, <3>4 DEF ServeInv, Writing
  <2> QED BY <1>8, <2>2, <2>3 DEF R!RenameTree
<1> QED BY <1>1, <1>2, <1>3, <1>4, <1>5, <1>6, <1>7, <1>8 DEF R!Step

\* A person takes the trees away, or leaves one half made.
LEMMA ServeMeddled ==
    ASSUME ServeInv, R!Meddle
    PROVE  ServeInv'
<1> USE DEF R!World
<1>1. /\ UNCHANGED <<remote, index, tmp>> /\ DOMAIN proc' = Procs
      /\ \A p \in Procs : proc'[p] = proc[p] \/ proc'[p] = R!Idle
  BY DEF R!Meddle, ServeInv
<1>2. R!Idle.at = "idle"
  BY DEF R!Idle, R!Holds
<1>3. /\ left' \subseteq Paths /\ meddled \subseteq meddled'
      /\ TreesAreWhole'
      /\ \A d \in DOMAIN folders : d \notin meddled' => d \in DOMAIN folders' /\ folders'[d] = folders[d]
  <2>1. CASE folders' = << >> /\ left' = {} /\ meddled' = meddled \cup DOMAIN folders
    BY <2>1 DEF TreesAreWhole
  <2>2. ASSUME NEW r \in R!Resolved, UNCHANGED left, meddled' = meddled \cup {R!cache_path(r)},
               folders' = [d \in DOMAIN folders \cup {R!cache_path(r)} |->
                             IF d = R!cache_path(r) THEN None ELSE folders[d]]
        PROVE  /\ left' \subseteq Paths /\ meddled \subseteq meddled'
               /\ TreesAreWhole'
               /\ \A d \in DOMAIN folders :
                     d \notin meddled' => d \in DOMAIN folders' /\ folders'[d] = folders[d]
    <3>1. R!cache_path(r) \in Paths
      BY DEF Paths
    <3> QED BY <2>2, <3>1 DEF ServeInv, TreesAreWhole
  <2> QED BY <2>1, <2>2 DEF R!Meddle
<1>4. R!ServedIsResolved'
  <2> SUFFICES ASSUME NEW p \in Procs, proc'[p].at = "serve",
                      R!Alone(R!cache_path(proc'[p].want)),
                      R!cache_path(proc'[p].want) \notin meddled'
               PROVE  /\ R!cache_path(proc'[p].want) \in DOMAIN folders'
                      /\ folders'[R!cache_path(proc'[p].want)] = proc'[p].want
    BY DEF R!ServedIsResolved, R!At, R!Alone
  <2>1. proc'[p] = proc[p]
    BY <1>1, <1>2
  <2> QED BY <1>3, <2>1 DEF ServeInv, R!ServedIsResolved, R!At
<1> QED BY <1>1, <1>2, <1>3, <1>4 DEF ServeInv, Writing

\* transport.rs:3, registry/run.rs:56: with any processes over one cache, what is
\* shown or run is the whole tree fetched for that owner, name and ref, whatever
\* versions the index takes and wherever a fetch is killed, in a folder that is
\* alone and that no person has been at since.
THEOREM ServedIsAsResolved ==
    ASSUME PathsApart
    PROVE  R!Spec => []R!ServedIsResolved
<1>1. R!Init => ServeInv
  BY DEF R!Init, R!Idle, R!Holds, R!At, R!ServedIsResolved, ServeInv, TreesAreWhole, Writing
<1>2. ServeInv /\ [R!Next]_R!vars => ServeInv'
  <2> SUFFICES ASSUME ServeInv, [R!Next]_R!vars PROVE ServeInv'
    OBVIOUS
  <2> USE DEF R!Cache, R!World, R!Trees
  <2>1. CASE R!Tick \/ R!Release \/ R!Clear \/ UNCHANGED R!vars
    <3>1. UNCHANGED <<proc, folders, left, meddled, tmp>>
      BY <2>1 DEF R!Tick, R!Release, R!Clear, R!vars
    <3>2. remote' \in Bodies /\ index' \in Bodies \cup {None}
      BY <2>1 DEF R!Tick, R!Release, R!Clear, R!vars, ServeInv
    <3> QED BY <3>1, <3>2 DEF ServeInv, TreesAreWhole, R!ServedIsResolved, R!At
  <2>2. CASE R!Meddle
    BY <2>2, ServeMeddled
  <2>3. ASSUME NEW p \in Procs, R!Step(p) PROVE ServeInv'
    BY <2>3, ServeSteps
  <2> QED BY <2>1, <2>2, <2>3 DEF R!Next
<1>3. ServeInv => R!ServedIsResolved
  BY DEF ServeInv
<1> QED BY <1>1, <1>2, <1>3, PTL DEF R!Spec

\* Both, as the runs check them.
LEMMA CacheIsTrue ==
    ASSUME PathsApart
    PROVE  R!Spec => []R!CacheIsAsItSays
<1>1. R!TimeIsTheIndexs /\ R!ServedIsResolved => R!CacheIsAsItSays
  BY DEF R!CacheIsAsItSays
<1> QED BY <1>1, TimeIsTheIndexsOwn, ServedIsAsResolved, PTL

-----------------------------------------------------------------------------
(* Skills.                                                                 *)

\* What the binary carries: some skills, each once.
\* Nor is None a folder.
SkillsApart ==
    /\ Names \in Seq(K!Skills) /\ Len(Names) # 0
    /\ \A i, j \in 1..Len(Names) : Names[i] = Names[j] => i = j
    /\ \A by \in {"arc", "person"}, r \in Releases \cup {None},
          held \in SUBSET {"SKILL.md", ".arc-skill"} : K!Folder(by, r, held) # None

Working == {"stage", "mark", "swap", "aside", "moved"}

\* The skills the install has yet to put in place.
Left(i) == IF at \in {"stage", "mark", "swap"} THEN i \in 1..Len(Names) /\ (at = "swap" => nth <= i)
           ELSE i \in (nth + 1)..Len(Names)

\* A folder that is arc's, whole and with its marker.
Arcs(f) == f # None /\ f.by = "arc" /\ f.files = {"SKILL.md", ".arc-skill"}

\* A folder, or none, for each skill of each agent.
Shaped(f) == f = [d \in K!Dirs |-> [s \in K!Skills |-> f[d][s]]]

SkillTypes ==
    /\ Shaped(dest)
    /\ Shaped(new)
    /\ Shaped(old)
    /\ at \in Working => nth \in 1..Len(Names)
    /\ at # "idle" => release \in Releases

\* What is in a skill's place is arc's, whole, or a person's without a marker.
PlacesAreClear ==
    \A d \in K!Dirs, s \in K!Skills : dest[d][s] # None =>
        Arcs(dest[d][s]) \/ (dest[d][s].by = "person" /\ dest[d][s].files = {"SKILL.md"})

\* What is to replace an earlier install is whole, and that install is there.
StagedIsWhole ==
    K!Here \in K!Dirs =>
        /\ at \in {"stage", "mark"} => \A i \in 1..(nth - 1) : Arcs(new[K!Here][Names[i]])
        /\ at \in {"swap", "aside"} => \A i \in nth..Len(Names) : Arcs(new[K!Here][Names[i]])
        /\ at = "moved" => /\ \A i \in (nth + 1)..Len(Names) : Arcs(new[K!Here][Names[i]])
                           /\ Arcs(dest[K!Here][K!Name])
        /\ at = "aside" => Arcs(old[K!Here][K!Name])
        /\ at \in Working =>
              \A i \in 1..Len(Names) : Left(i) /\ plans[Names[i]] = "replace" =>
                  Arcs(dest[K!Here][Names[i]])

SkillsInv == SkillTypes /\ PlacesAreClear /\ StagedIsWhole /\ K!InstalledIsSomewhere

\* One folder is put in place, or taken away.
With(f, h, n, x) == [f EXCEPT ![h][n] = x]

LEMMA PutIs ==
    ASSUME NEW f, Shaped(f), NEW h, NEW n, NEW x
    PROVE  /\ Shaped(With(f, h, n, x))
           /\ \A d \in K!Dirs, s \in K!Skills :
                 With(f, h, n, x)[d][s] = IF d = h /\ s = n THEN x ELSE f[d][s]
<1> DEFINE g == With(f, h, n, x)
<1>1. \A d \in K!Dirs : g[d] = IF d = h THEN [f[d] EXCEPT ![n] = x] ELSE f[d]
  BY DEF Shaped, With
<1>2. g = [d \in K!Dirs |-> g[d]]
  BY DEF Shaped, With
<1> HIDE DEF g
<1>3. \A d \in K!Dirs : f[d] = [s \in K!Skills |-> f[d][s]]
  BY DEF Shaped
<1>4. \A d \in K!Dirs :
        /\ g[d] = [s \in K!Skills |-> g[d][s]]
        /\ \A s \in K!Skills : g[d][s] = IF d = h /\ s = n THEN x ELSE f[d][s]
  <2> SUFFICES ASSUME NEW d \in K!Dirs
               PROVE  /\ g[d] = [s \in K!Skills |-> g[d][s]]
                      /\ \A s \in K!Skills : g[d][s] = IF d = h /\ s = n THEN x ELSE f[d][s]
    OBVIOUS
  <2>1. CASE d = h
    <3>1. f[d] = [s \in K!Skills |-> f[d][s]] /\ g[d] = [f[d] EXCEPT ![n] = x]
      BY <1>1, <1>3, <2>1
    <3> QED BY <2>1, <3>1
  <2>2. CASE d # h
    BY <1>1, <1>3, <2>2
  <2> QED BY <2>1, <2>2
<1>5. /\ Shaped(g)
      /\ \A d \in K!Dirs, s \in K!Skills : g[d][s] = IF d = h /\ s = n THEN x ELSE f[d][s]
  BY <1>2, <1>4 DEF Shaped
<1> QED BY <1>5 DEF g

\* An install that gives up, or goes on to another agent, has nothing in hand.
LEMMA RestSkills ==
    ASSUME SkillsInv, SkillTypes', at' \notin Working, PlacesAreClear',
           \A d \in K!Dirs, s \in K!Skills :
              <<d, s>> \in had' => K!Whole(dest[d][s])' \/ K!Whole(old[d][s])'
    PROVE  SkillsInv'
<1>1. StagedIsWhole'
  BY DEF StagedIsWhole, Working
<1>2. K!InstalledIsSomewhere'
  BY DEF K!InstalledIsSomewhere, PlacesAreClear, Arcs, K!Whole
<1> QED BY <1>1, <1>2 DEF SkillsInv

LEMMA PutAt ==
    ASSUME NEW f, Shaped(f), NEW x, NEW g, g = K!Put(f, x)
    PROVE  /\ Shaped(g)
           /\ \A d \in K!Dirs, s \in K!Skills :
                 g[d][s] = IF d = K!Here /\ s = K!Name THEN x ELSE f[d][s]
<1>1. g = With(f, K!Here, K!Name, x)
  BY DEF K!Put, With
<1> QED BY <1>1, PutIs

\* The folders of one agent are swept.
LEMMA Swept ==
    ASSUME NEW f, Shaped(f), NEW h, NEW w, w = [s \in K!Skills |-> w[s]],
           NEW g, g = [f EXCEPT ![h] = w]
    PROVE  Shaped(g)
<1>1. \A d \in K!Dirs : g[d] = IF d = h THEN w ELSE f[d]
  BY DEF Shaped
<1>2. g = [d \in K!Dirs |-> g[d]]
  BY DEF Shaped
<1>3. \A d \in K!Dirs : f[d] = [s \in K!Skills |-> f[d][s]]
  BY DEF Shaped
<1>4. \A d \in K!Dirs : g[d] = [s \in K!Skills |-> g[d][s]]
  BY <1>1, <1>3
<1> QED BY <1>2, <1>4 DEF Shaped

LEMMA NamesAreSkills ==
    ASSUME SkillsApart
    PROVE  Len(Names) \in Nat /\ Len(Names) >= 1 /\ \A i \in 1..Len(Names) : Names[i] \in K!Skills
BY DEF SkillsApart

LEMMA ArcsAreFolders ==
    ASSUME SkillsApart, NEW r \in Releases, NEW f, f = K!Staged(r, {"SKILL.md", ".arc-skill"})
    PROVE  Arcs(f)
BY DEF SkillsApart, K!Staged, K!Folder, Arcs

LEMMA StageSkills ==
    ASSUME SkillsApart, SkillsInv, K!Stage \/ K!Mark
    PROVE  SkillsInv'
<1>1. /\ at \in {"stage", "mark"} /\ nth \in 1..Len(Names) /\ release \in Releases
      /\ UNCHANGED <<dest, old, targets, release, plans, had>>
      /\ \E f : new' = K!Put(new, f)
  BY DEF K!Stage, K!Mark, SkillsInv, SkillTypes, Working
<1>2. PICK f : /\ new' = K!Put(new, f)
               /\ at = "mark" => Arcs(f)
  BY <1>1, ArcsAreFolders DEF K!Stage, K!Mark
<1>3. /\ Shaped(new')
      /\ \A d \in K!Dirs, s \in K!Skills :
            new'[d][s] = IF d = K!Here /\ s = K!Name THEN f ELSE new[d][s]
  BY <1>2, PutAt DEF SkillsInv, SkillTypes
<1>4. \/ at = "stage" /\ at' = "mark" /\ nth' = nth
      \/ at = "mark" /\ at' = "stage" /\ nth' = nth + 1 /\ nth < Len(Names)
      \/ at = "mark" /\ at' = "swap" /\ nth' = 1 /\ nth = Len(Names)
  BY <1>1, NamesAreSkills DEF K!Stage, K!Mark
<1>5. SkillTypes'
  BY <1>1, <1>3, <1>4, NamesAreSkills DEF SkillsInv, SkillTypes, Working
<1>6. \A i \in 1..Len(Names) : K!Here \in K!Dirs =>
          new'[K!Here][Names[i]] = IF i = nth THEN f ELSE new[K!Here][Names[i]]
  BY <1>1, <1>3, NamesAreSkills DEF SkillsApart, K!Name
<1>7. StagedIsWhole'
  <2> SUFFICES ASSUME K!Here \in K!Dirs PROVE StagedIsWhole'
    BY <1>1 DEF StagedIsWhole, K!Here, K!Dirs
  <2>1. \A i \in 1..(nth - 1) : Arcs(new[K!Here][Names[i]])
    BY <1>1 DEF SkillsInv, StagedIsWhole
  <2>2. at' \in {"stage", "mark"} => \A i \in 1..(nth' - 1) : Arcs(new'[K!Here][Names[i]])
    BY <1>1, <1>2, <1>4, <1>6, <2>1, NamesAreSkills
  <2>3. at' = "swap" => \A i \in nth'..Len(Names) : Arcs(new'[K!Here][Names[i]])
    BY <1>1, <1>2, <1>4, <1>6, <2>1, NamesAreSkills
  <2>4. \A i \in 1..Len(Names) : plans[Names[i]] = "replace" => Arcs(dest[K!Here][Names[i]])
    BY <1>1 DEF SkillsInv, StagedIsWhole, Left, Working
  <2>5. at' \in {"stage", "mark", "swap"}
    BY <1>4
  <2> QED BY <1>1, <2>2, <2>3, <2>4, <2>5 DEF StagedIsWhole, K!Here, Arcs
<1> QED BY <1>1, <1>5, <1>7
      DEF SkillsInv, PlacesAreClear, K!InstalledIsSomewhere, K!Dirs, K!Skills, Arcs, K!Whole

\* The earlier install is arc's own and whole: so it is when it is set aside.
LEMMA AsideSkills ==
    ASSUME SkillsApart, SkillsInv, K!Aside
    PROVE  SkillsInv'
<1> DEFINE f == dest[K!Here][K!Name]
<1>1. /\ at = "swap" /\ at' = "aside" /\ plans[K!Name] = "replace" /\ nth \in 1..Len(Names)
      /\ UNCHANGED <<new, targets, release, nth, plans, had>>
      /\ old' = K!Put(old, f) /\ dest' = K!Put(dest, None)
      /\ K!Name \in K!Skills
  BY NamesAreSkills DEF K!Aside, SkillsInv, SkillTypes, Working, K!Name
<1>2. K!Here \in K!Dirs => Arcs(f)
  BY <1>1 DEF SkillsInv, StagedIsWhole, Working, Left, K!Name
<1>3. /\ Shaped(old')
      /\ \A d \in K!Dirs, s \in K!Skills :
            old'[d][s] = IF d = K!Here /\ s = K!Name THEN f ELSE old[d][s]
  <2> HIDE DEF f
  <2> QED BY <1>1, PutAt DEF SkillsInv, SkillTypes
<1>4. /\ Shaped(dest')
      /\ \A d \in K!Dirs, s \in K!Skills :
            dest'[d][s] = IF d = K!Here /\ s = K!Name THEN None ELSE dest[d][s]
  BY <1>1, PutAt DEF SkillsInv, SkillTypes
<1>5. SkillTypes'
  BY <1>1, <1>3, <1>4 DEF SkillsInv, SkillTypes, Working
<1>6. PlacesAreClear'
  BY <1>4 DEF SkillsInv, PlacesAreClear, Arcs, K!Dirs, K!Skills
<1>7. StagedIsWhole'
  <2> SUFFICES ASSUME K!Here \in K!Dirs PROVE StagedIsWhole'
    BY <1>1 DEF StagedIsWhole, K!Here, K!Dirs
  <2>1. \A i \in nth..Len(Names) : Arcs(new[K!Here][Names[i]])
    BY <1>1 DEF SkillsInv, StagedIsWhole
  <2>2. Arcs(old'[K!Here][K!Name])
    BY <1>1, <1>2, <1>3
  <2>3. \A i \in (nth + 1)..Len(Names) : plans[Names[i]] = "replace" => Arcs(dest'[K!Here][Names[i]])
    <3> SUFFICES ASSUME NEW i \in (nth + 1)..Len(Names), plans[Names[i]] = "replace"
                 PROVE  Arcs(dest'[K!Here][Names[i]])
      OBVIOUS
    <3>1. i \in 1..Len(Names) /\ i # nth /\ Names[i] \in K!Skills /\ Names[i] # K!Name
      BY <1>1, NamesAreSkills DEF SkillsApart, K!Name
    <3>2. Arcs(dest[K!Here][Names[i]])
      BY <1>1, <3>1, NamesAreSkills DEF SkillsInv, StagedIsWhole, Left, Working
    <3> QED BY <1>4, <3>1, <3>2
  <2> QED BY <1>1, <2>1, <2>2, <2>3 DEF StagedIsWhole, K!Here, K!Name, Left, Arcs
<1>8. \A d \in K!Dirs, s \in K!Skills : <<d, s>> \in had =>
          K!Whole(dest'[d][s]) \/ K!Whole(old'[d][s])
  <2> SUFFICES ASSUME NEW d \in K!Dirs, NEW s \in K!Skills, <<d, s>> \in had
               PROVE  K!Whole(dest'[d][s]) \/ K!Whole(old'[d][s])
    OBVIOUS
  <2>1. CASE d = K!Here /\ s = K!Name
    BY <1>2, <1>3, <2>1 DEF Arcs, K!Whole
  <2>2. CASE ~(d = K!Here /\ s = K!Name)
    BY <1>3, <1>4, <2>2 DEF SkillsInv, K!InstalledIsSomewhere
  <2> QED BY <2>1, <2>2
<1>9. K!InstalledIsSomewhere'
  BY <1>1, <1>6, <1>8 DEF K!InstalledIsSomewhere, PlacesAreClear, Arcs, K!Whole, K!Dirs, K!Skills
<1> QED BY <1>5, <1>6, <1>7, <1>9 DEF SkillsInv

LEMMA InitSkills ==
    ASSUME SkillsApart, K!Init
    PROVE  SkillsInv
<1>1. SkillTypes
  BY DEF K!Init, K!Nothing, SkillTypes, Working, Shaped
<1>2. \A d \in K!Dirs, s \in K!Skills : dest[d][s] = None
  BY DEF K!Init, K!Nothing
<1>3. PlacesAreClear /\ K!InstalledIsSomewhere
  BY <1>2 DEF K!Init, PlacesAreClear, K!InstalledIsSomewhere
<1>4. StagedIsWhole
  BY DEF K!Init, StagedIsWhole, Working
<1> QED BY <1>1, <1>3, <1>4 DEF SkillsInv

LEMMA PlanSkills ==
    ASSUME SkillsApart, SkillsInv, K!Plan
    PROVE  SkillsInv'
<1>1. at = "plan" /\ UNCHANGED <<dest, new, old, release, had>>
  BY DEF K!Plan
<1>2. at' \in {"idle", "plan", "stage"} /\ (at' = "stage" => nth' = 1)
  BY <1>1 DEF K!Plan, K!NextTarget
<1>3. SkillTypes'
  BY <1>1, <1>2, NamesAreSkills DEF SkillsInv, SkillTypes, Working
<1>4. PlacesAreClear'
  BY <1>1 DEF SkillsInv, PlacesAreClear, Arcs, K!Dirs, K!Skills
<1>5. CASE at' # "stage"
  BY <1>1, <1>2, <1>3, <1>4, <1>5, RestSkills
        DEF Working, SkillsInv, K!InstalledIsSomewhere, K!Whole, K!Dirs, K!Skills
<1>6. CASE at' = "stage"
  <2> DEFINE p == [s \in K!Skills |-> K!plan(dest[K!Here][s])]
  <2>1. UNCHANGED targets /\ plans' = p
    BY <1>6 DEF K!Plan, K!NextTarget
  <2>2. ASSUME K!Here \in K!Dirs, NEW s \in K!Skills, p[s] = "replace"
        PROVE  Arcs(dest[K!Here][s])
    <3>1. dest[K!Here][s] # None /\ ".arc-skill" \in dest[K!Here][s].files
      BY <2>2 DEF K!plan
    <3> QED BY <2>2, <3>1 DEF SkillsInv, PlacesAreClear
  <2> HIDE DEF p
  <2>3. StagedIsWhole'
    BY <1>1, <1>2, <1>6, <2>1, <2>2, NamesAreSkills
       DEF StagedIsWhole, K!Here, K!Dirs, Arcs
  <2> QED BY <1>1, <1>3, <1>4, <2>3 DEF SkillsInv, K!InstalledIsSomewhere, K!Whole, K!Dirs, K!Skills
<1> QED BY <1>5, <1>6

\* Whatever an install gives up, what is in the folders is as it was.
LEMMA EndSkills ==
    ASSUME SkillsApart, SkillsInv, K!Install \/ K!StageFails \/ K!Killed
    PROVE  SkillsInv'
<1>1. UNCHANGED <<dest, old, had>> /\ at' \notin Working
  BY DEF K!Install, K!StageFails, K!Killed, K!NextTarget, Working
<1>2. Shaped(new')
  <2>1. CASE K!Install \/ K!Killed
    BY <2>1 DEF K!Install, K!Killed, SkillsInv, SkillTypes
  <2>2. CASE K!StageFails
    <3> DEFINE w == [s \in K!Skills |->
                       IF \E i \in 1..nth : Names[i] = s THEN None ELSE new[K!Here][s]]
    <3>1. new' = [new EXCEPT ![K!Here] = w] /\ w = [s \in K!Skills |-> w[s]]
      BY <2>2 DEF K!StageFails
    <3> HIDE DEF w
    <3> QED BY <3>1, Swept DEF SkillsInv, SkillTypes
  <2> QED BY <2>1, <2>2
<1>3. at' # "idle" => release' \in Releases
  BY DEF K!Install, K!StageFails, K!Killed, K!NextTarget, SkillsInv, SkillTypes
<1>4. SkillTypes'
  BY <1>1, <1>2, <1>3 DEF SkillsInv, SkillTypes
<1>5. PlacesAreClear'
  BY <1>1 DEF SkillsInv, PlacesAreClear, Arcs, K!Dirs, K!Skills
<1> QED BY <1>1, <1>4, <1>5, RestSkills
      DEF SkillsInv, K!InstalledIsSomewhere, K!Whole, K!Dirs, K!Skills

\* The end of a swap sweeps the staged folders and nothing else.
LEMMA SwapSweeps ==
    ASSUME SkillsInv, K!SwapEnds
    PROVE  /\ Shaped(new')
           /\ at' \in {"idle", "plan"}
<1> DEFINE w == [s \in K!Skills |->
                   IF \E i \in nth..Len(Names) : Names[i] = s THEN None ELSE new[K!Here][s]]
<1>1. new' = [new EXCEPT ![K!Here] = w] /\ w = [s \in K!Skills |-> w[s]]
  BY DEF K!SwapEnds
<1>2. at' \in {"idle", "plan"}
  BY DEF K!SwapEnds, K!NextTarget
<1> HIDE DEF w
<1> QED BY <1>1, <1>2, Swept DEF SkillsInv, SkillTypes

\* What cannot be set aside stays; what an older install had set aside is gone,
\* and its skill is in its place.
LEMMA AsideFailsSkills ==
    ASSUME SkillsApart, SkillsInv, K!AsideFails
    PROVE  SkillsInv'
<1>1. /\ at = "swap" /\ nth \in 1..Len(Names) /\ plans[K!Name] = "replace"
      /\ UNCHANGED <<dest, release, had>>
      /\ old' = K!Put(old, None) /\ K!SwapEnds
  BY DEF K!AsideFails, SkillsInv, SkillTypes, Working
<1>2. /\ Shaped(old')
      /\ \A d \in K!Dirs, s \in K!Skills :
            old'[d][s] = IF d = K!Here /\ s = K!Name THEN None ELSE old[d][s]
  BY <1>1, PutAt DEF SkillsInv, SkillTypes
<1>3. SkillTypes'
  BY <1>1, <1>2, SwapSweeps DEF SkillsInv, SkillTypes, Working
<1>4. PlacesAreClear'
  BY <1>1 DEF SkillsInv, PlacesAreClear, Arcs, K!Dirs, K!Skills
<1>5. ASSUME NEW d \in K!Dirs, NEW s \in K!Skills, <<d, s>> \in had
      PROVE  K!Whole(dest[d][s]) \/ K!Whole(old'[d][s])
  <2>1. CASE d = K!Here /\ s = K!Name
    <3>1. Arcs(dest[K!Here][K!Name])
      BY <1>1, <2>1 DEF SkillsInv, StagedIsWhole, Working, Left, K!Name
    <3> QED BY <2>1, <3>1 DEF Arcs, K!Whole
  <2>2. CASE ~(d = K!Here /\ s = K!Name)
    BY <1>2, <1>5, <2>2 DEF SkillsInv, K!InstalledIsSomewhere
  <2> QED BY <2>1, <2>2
<1> QED BY <1>1, <1>3, <1>4, <1>5, SwapSweeps, RestSkills DEF Working, K!Whole, K!Dirs, K!Skills

\* What is put in place is whole.
LEMMA MoveSkills ==
    ASSUME SkillsApart, SkillsInv, K!Move
    PROVE  SkillsInv'
<1> DEFINE f == new[K!Here][K!Name]
<1>1. /\ at \in {"swap", "aside"} /\ at' = "moved" /\ nth \in 1..Len(Names)
      /\ at = "swap" => plans[K!Name] = "write"
      /\ UNCHANGED <<old, targets, release, nth, plans>>
      /\ dest' = K!Put(dest, f) /\ new' = K!Put(new, None)
      /\ had' = had \cup {<<K!Here, K!Name>>}
      /\ K!Name \in K!Skills
  BY NamesAreSkills DEF K!Move, K!Moving, SkillsInv, SkillTypes, Working, K!Name
<1>2. K!Here \in K!Dirs => Arcs(f)
  BY <1>1 DEF SkillsInv, StagedIsWhole, K!Name
<1>3. /\ Shaped(dest')
      /\ \A d \in K!Dirs, s \in K!Skills :
            dest'[d][s] = IF d = K!Here /\ s = K!Name THEN f ELSE dest[d][s]
  <2> HIDE DEF f
  <2> QED BY <1>1, PutAt DEF SkillsInv, SkillTypes
<1>4. /\ Shaped(new')
      /\ \A d \in K!Dirs, s \in K!Skills :
            new'[d][s] = IF d = K!Here /\ s = K!Name THEN None ELSE new[d][s]
  BY <1>1, PutAt DEF SkillsInv, SkillTypes
<1> HIDE DEF f
<1>5. SkillTypes'
  BY <1>1, <1>3, <1>4 DEF SkillsInv, SkillTypes, Working
<1>6. PlacesAreClear'
  BY <1>2, <1>3 DEF SkillsInv, PlacesAreClear, Arcs, K!Dirs, K!Skills
<1>7. StagedIsWhole'
  <2> SUFFICES ASSUME K!Here \in K!Dirs PROVE StagedIsWhole'
    BY <1>1 DEF StagedIsWhole, K!Here, K!Dirs
  <2>1. Arcs(dest'[K!Here][K!Name])
    BY <1>1, <1>2, <1>3
  <2>2. ASSUME NEW i \in (nth + 1)..Len(Names)
        PROVE  /\ Arcs(new'[K!Here][Names[i]])
               /\ plans[Names[i]] = "replace" => Arcs(dest'[K!Here][Names[i]])
    <3>1. /\ i \in 1..Len(Names) /\ i \in nth..Len(Names) /\ i # nth
          /\ Names[i] \in K!Skills /\ Names[i] # K!Name
      BY <1>1, NamesAreSkills DEF SkillsApart, K!Name
    <3>2. Arcs(new[K!Here][Names[i]])
      BY <1>1, <3>1 DEF SkillsInv, StagedIsWhole
    <3>3. plans[Names[i]] = "replace" => Arcs(dest[K!Here][Names[i]])
      BY <1>1, <3>1, NamesAreSkills DEF SkillsInv, StagedIsWhole, Left, Working
    <3> QED BY <1>3, <1>4, <3>1, <3>2, <3>3
  <2> QED BY <1>1, <2>1, <2>2 DEF StagedIsWhole, K!Here, K!Name, Left, Arcs
<1>8. ASSUME NEW d \in K!Dirs, NEW s \in K!Skills, <<d, s>> \in had'
      PROVE  K!Whole(dest'[d][s]) \/ K!Whole(old'[d][s])
  <2>1. CASE d = K!Here /\ s = K!Name
    BY <1>2, <1>3, <2>1 DEF Arcs, K!Whole
  <2>2. CASE ~(d = K!Here /\ s = K!Name)
    <3>1. <<d, s>> \in had
      BY <1>1, <1>8, <2>2
    <3> QED BY <1>1, <1>3, <2>2, <3>1 DEF SkillsInv, K!InstalledIsSomewhere
  <2> QED BY <2>1, <2>2
<1>9. K!InstalledIsSomewhere'
  BY <1>6, <1>8 DEF K!InstalledIsSomewhere, PlacesAreClear, Arcs, K!Whole, K!Dirs, K!Skills
<1> QED BY <1>5, <1>6, <1>7, <1>9 DEF SkillsInv

\* The earlier install goes back to its place, or stays beside it.
LEMMA MoveFailsSkills ==
    ASSUME SkillsApart, SkillsInv, K!MoveFails
    PROVE  SkillsInv'
<1> DEFINE f == old[K!Here][K!Name]
<1>1. at \in {"swap", "aside"} /\ UNCHANGED <<release, had>> /\ K!SwapEnds
  BY DEF K!MoveFails, K!Moving
<1>2. CASE UNCHANGED <<dest, old>>
  <2>1. SkillTypes'
    BY <1>1, <1>2, SwapSweeps DEF SkillsInv, SkillTypes, Working
  <2>2. PlacesAreClear'
    BY <1>2 DEF SkillsInv, PlacesAreClear, Arcs, K!Dirs, K!Skills
  <2> QED BY <1>1, <1>2, <2>1, <2>2, SwapSweeps, RestSkills
          DEF Working, SkillsInv, K!InstalledIsSomewhere, K!Whole, K!Dirs, K!Skills
<1>3. CASE at = "aside" /\ dest' = K!Put(dest, f) /\ old' = K!Put(old, None)
  <2>1. K!Here \in K!Dirs => Arcs(f)
    BY <1>3 DEF SkillsInv, StagedIsWhole
  <2>2. /\ Shaped(dest')
        /\ \A d \in K!Dirs, s \in K!Skills :
              dest'[d][s] = IF d = K!Here /\ s = K!Name THEN f ELSE dest[d][s]
    <3> HIDE DEF f
    <3> QED BY <1>3, PutAt DEF SkillsInv, SkillTypes
  <2>3. /\ Shaped(old')
        /\ \A d \in K!Dirs, s \in K!Skills :
              old'[d][s] = IF d = K!Here /\ s = K!Name THEN None ELSE old[d][s]
    BY <1>3, PutAt DEF SkillsInv, SkillTypes
  <2> HIDE DEF f
  <2>4. SkillTypes'
    BY <1>1, <2>2, <2>3, SwapSweeps DEF SkillsInv, SkillTypes, Working
  <2>5. PlacesAreClear'
    BY <2>1, <2>2 DEF SkillsInv, PlacesAreClear, Arcs, K!Dirs, K!Skills
  <2>6. ASSUME NEW d \in K!Dirs, NEW s \in K!Skills, <<d, s>> \in had
        PROVE  K!Whole(dest'[d][s]) \/ K!Whole(old'[d][s])
    <3>1. CASE d = K!Here /\ s = K!Name
      BY <2>1, <2>2, <3>1 DEF Arcs, K!Whole
    <3>2. CASE ~(d = K!Here /\ s = K!Name)
      BY <2>2, <2>3, <2>6, <3>2 DEF SkillsInv, K!InstalledIsSomewhere
    <3> QED BY <3>1, <3>2
  <2> QED BY <1>1, <2>4, <2>5, <2>6, SwapSweeps, RestSkills DEF Working, K!Whole, K!Dirs, K!Skills
<1> QED BY <1>2, <1>3 DEF K!MoveFails

\* The one set aside is removed once the new one is in its place.
LEMMA MovedSkills ==
    ASSUME SkillsApart, SkillsInv, K!Moved
    PROVE  SkillsInv'
<1>1. /\ at = "moved" /\ nth \in 1..Len(Names) /\ K!Name \in K!Skills
      /\ UNCHANGED <<dest, new, release, had>>
      /\ old' = K!Put(old, None) \/ old' = old
      /\ \/ at' = "swap" /\ nth < Len(Names) /\ nth' = nth + 1 /\ UNCHANGED <<targets, plans>>
         \/ at' \in {"idle", "plan"}
  BY NamesAreSkills DEF K!Moved, K!NextTarget, SkillsInv, SkillTypes, Working, K!Name
<1>2. /\ Shaped(old')
      /\ \A d \in K!Dirs, s \in K!Skills :
            old'[d][s] = old[d][s] \/ (d = K!Here /\ s = K!Name)
  <2>1. CASE old' = old
    BY <2>1 DEF SkillsInv, SkillTypes
  <2>2. CASE old' = K!Put(old, None)
    BY <2>2, PutAt DEF SkillsInv, SkillTypes
  <2> QED BY <1>1, <2>1, <2>2
<1>3. SkillTypes'
  <2>1. /\ at' \in Working => nth' \in 1..Len(Names)
        /\ at' # "idle" => release' \in Releases
    BY <1>1, NamesAreSkills DEF SkillsInv, SkillTypes, Working
  <2> QED BY <1>1, <1>2, <2>1 DEF SkillsInv, SkillTypes
<1>4. PlacesAreClear'
  BY <1>1 DEF SkillsInv, PlacesAreClear, Arcs, K!Dirs, K!Skills
<1>5. ASSUME NEW d \in K!Dirs, NEW s \in K!Skills, <<d, s>> \in had
      PROVE  K!Whole(dest[d][s]) \/ K!Whole(old'[d][s])
  <2>1. CASE d = K!Here /\ s = K!Name
    BY <1>1, <2>1 DEF SkillsInv, StagedIsWhole, Arcs, K!Whole
  <2>2. CASE ~(d = K!Here /\ s = K!Name)
    BY <1>2, <1>5, <2>2 DEF SkillsInv, K!InstalledIsSomewhere
  <2> QED BY <2>1, <2>2
<1>6. CASE at' \in {"idle", "plan"}
  BY <1>1, <1>3, <1>4, <1>5, <1>6, RestSkills DEF Working, K!Whole, K!Dirs, K!Skills
<1>7. CASE at' = "swap" /\ nth < Len(Names) /\ nth' = nth + 1 /\ UNCHANGED <<targets, plans>>
  <2>1. StagedIsWhole'
    <3> SUFFICES ASSUME K!Here \in K!Dirs PROVE StagedIsWhole'
      BY <1>7 DEF StagedIsWhole, K!Here, K!Dirs
    <3>1. ASSUME NEW i \in (nth + 1)..Len(Names)
          PROVE  /\ Arcs(new[K!Here][Names[i]])
                 /\ plans[Names[i]] = "replace" => Arcs(dest[K!Here][Names[i]])
      <4>1. i \in 1..Len(Names)
        BY <1>1, NamesAreSkills
      <4> QED BY <1>1, <4>1 DEF SkillsInv, StagedIsWhole, Left, Working
    <3>2. \A i \in nth'..Len(Names) : i \in (nth + 1)..Len(Names)
      BY <1>1, <1>7, NamesAreSkills
    <3>3. \A i \in 1..Len(Names) : Left(i)' => i \in nth'..Len(Names)
      BY <1>1, <1>7, NamesAreSkills DEF Left
    <3>4. /\ \A i \in nth'..Len(Names) : Arcs(new'[K!Here][Names[i]])
          /\ \A i \in 1..Len(Names) : Left(i)' /\ plans'[Names[i]] = "replace" =>
                Arcs(dest'[K!Here][Names[i]])
      BY <1>1, <1>7, <3>1, <3>2, <3>3
    <3> QED BY <1>7, <3>4 DEF StagedIsWhole, K!Here, Arcs
  <2>2. K!InstalledIsSomewhere'
    BY <1>1, <1>4, <1>5 DEF K!InstalledIsSomewhere, PlacesAreClear, Arcs, K!Whole, K!Dirs, K!Skills
  <2> QED BY <1>3, <1>4, <2>1, <2>2 DEF SkillsInv
<1> QED BY <1>1, <1>6, <1>7

\* A person writes where nothing is, and changes what is there between installs.
LEMMA PersonSkills ==
    ASSUME SkillsApart, SkillsInv, K!Person
    PROVE  SkillsInv'
<1> DEFINE own == K!Folder("person", None, {"SKILL.md"})
<1>1. PICK d \in K!Dirs, s \in K!Skills, x \in {own, None} :
        /\ at = "idle" \/ dest[d][s] = None
        /\ dest' = [dest EXCEPT ![d][s] = x]
        /\ had' = had \ {<<d, s>>}
        /\ UNCHANGED <<new, old, at, targets, release, nth, plans>>
  BY DEF K!Person
<1>3. x # None => x.by = "person" /\ x.files = {"SKILL.md"}
  BY DEF K!Folder
<1> HIDE DEF own
<1>2. /\ Shaped(dest')
      /\ \A e \in K!Dirs, t \in K!Skills :
            dest'[e][t] = IF e = d /\ t = s THEN x ELSE dest[e][t]
  <2>1. Shaped(dest) /\ dest' = With(dest, d, s, x)
    BY <1>1 DEF SkillsInv, SkillTypes, With
  <2> QED BY <2>1, PutIs
<1>4. SkillTypes'
  BY <1>1, <1>2 DEF SkillsInv, SkillTypes, Working
<1>5. PlacesAreClear'
  BY <1>2, <1>3 DEF SkillsInv, PlacesAreClear, Arcs, K!Dirs, K!Skills
<1>6. ASSUME NEW e \in K!Dirs, NEW t \in K!Skills, <<e, t>> \in had'
      PROVE  K!Whole(dest'[e][t]) \/ K!Whole(old'[e][t])
  <2>1. <<e, t>> \in had /\ ~(e = d /\ t = s)
    BY <1>1, <1>6
  <2> QED BY <1>1, <1>2, <2>1 DEF SkillsInv, K!InstalledIsSomewhere
<1>7. StagedIsWhole'
  <2>1. CASE at = "idle"
    BY <1>1, <2>1 DEF StagedIsWhole, Working
  <2>2. CASE at # "idle"
    <3>1. \A e \in K!Dirs, t \in K!Skills : Arcs(dest[e][t]) => dest'[e][t] = dest[e][t]
      BY <1>1, <1>2, <2>2 DEF Arcs
    <3>2. \A i \in 1..Len(Names) : Names[i] \in K!Skills
      BY NamesAreSkills
    <3>3. at = "moved" => K!Name \in K!Skills
      BY <3>2 DEF SkillsInv, SkillTypes, Working, K!Name
    <3> SUFFICES ASSUME K!Here \in K!Dirs PROVE StagedIsWhole'
      BY <1>1 DEF StagedIsWhole, K!Here, K!Dirs
    <3>4. \A i \in 1..Len(Names) : Left(i)' = Left(i)
      BY <1>1 DEF Left
    <3>5. at = "moved" => Arcs(dest[K!Here][K!Name]) /\ Arcs(dest'[K!Here][K!Name])
      BY <3>1, <3>3 DEF SkillsInv, StagedIsWhole
    <3>6. at \in Working => \A i \in 1..Len(Names) :
            Left(i) /\ plans[Names[i]] = "replace" =>
              Arcs(dest[K!Here][Names[i]]) /\ Arcs(dest'[K!Here][Names[i]])
      BY <3>1, <3>2 DEF SkillsInv, StagedIsWhole
    <3>7. /\ at \in {"stage", "mark"} => \A i \in 1..(nth - 1) : Arcs(new[K!Here][Names[i]])
          /\ at \in {"swap", "aside"} => \A i \in nth..Len(Names) : Arcs(new[K!Here][Names[i]])
          /\ at = "moved" => \A i \in (nth + 1)..Len(Names) : Arcs(new[K!Here][Names[i]])
          /\ at = "aside" => Arcs(old[K!Here][K!Name])
      BY DEF SkillsInv, StagedIsWhole
    <3>8. UNCHANGED <<K!Here, K!Name>>
      BY <1>1 DEF K!Here, K!Name
    <3> USE <1>1, <3>8
    <3>9. /\ (at \in {"stage", "mark"} => \A i \in 1..(nth - 1) : Arcs(new[K!Here][Names[i]]))'
          /\ (at \in {"swap", "aside"} => \A i \in nth..Len(Names) : Arcs(new[K!Here][Names[i]]))'
          /\ (at = "moved" => \A i \in (nth + 1)..Len(Names) : Arcs(new[K!Here][Names[i]]))'
          /\ (at = "aside" => Arcs(old[K!Here][K!Name]))'
      BY <3>7
    <3>10. /\ (at = "moved" => Arcs(dest[K!Here][K!Name]))'
           /\ (at \in Working => \A i \in 1..Len(Names) :
                  Left(i) /\ plans[Names[i]] = "replace" => Arcs(dest[K!Here][Names[i]]))'
      BY <3>4, <3>5, <3>6
    <3> QED BY <3>9, <3>10 DEF StagedIsWhole
  <2> QED BY <2>1, <2>2
<1>8. K!InstalledIsSomewhere'
  BY <1>5, <1>6 DEF K!InstalledIsSomewhere, PlacesAreClear, Arcs, K!Whole, K!Dirs, K!Skills
<1> QED BY <1>4, <1>5, <1>7, <1>8 DEF SkillsInv

LEMMA SkillsStep ==
    ASSUME SkillsApart, SkillsInv, [K!Next]_K!vars
    PROVE  SkillsInv'
<1>1. CASE UNCHANGED K!vars
  <2>1. SkillTypes'
    BY <1>1 DEF K!vars, SkillsInv, SkillTypes
  <2>2. PlacesAreClear'
    BY <1>1 DEF K!vars, SkillsInv, PlacesAreClear, Arcs, K!Dirs, K!Skills
  <2>3. StagedIsWhole'
    BY <1>1 DEF K!vars, SkillsInv, StagedIsWhole, Left, Arcs, K!Dirs, K!Here, K!Name
  <2>4. K!InstalledIsSomewhere'
    BY <1>1 DEF K!vars, SkillsInv, K!InstalledIsSomewhere, K!Whole, K!Dirs, K!Skills
  <2> QED BY <2>1, <2>2, <2>3, <2>4 DEF SkillsInv
<1>2. CASE K!Install \/ K!StageFails \/ K!Killed
  BY <1>2, EndSkills
<1>3. CASE K!Plan
  BY <1>3, PlanSkills
<1>4. CASE K!Stage \/ K!Mark
  BY <1>4, StageSkills
<1>5. CASE K!Aside
  BY <1>5, AsideSkills
<1>6. CASE K!AsideFails
  BY <1>6, AsideFailsSkills
<1>7. CASE K!Move
  BY <1>7, MoveSkills
<1>8. CASE K!MoveFails
  BY <1>8, MoveFailsSkills
<1>9. CASE K!Moved
  BY <1>9, MovedSkills
<1>10. CASE K!Person
  BY <1>10, PersonSkills
<1> QED BY <1>1, <1>2, <1>3, <1>4, <1>5, <1>6, <1>7, <1>8, <1>9, <1>10 DEF K!Next

\* A skill once installed is whole in its place or beside it, and nothing of
\* arc's in its place is half written, whatever fails and wherever arc is
\* killed (skills.rs:243).
THEOREM InstalledStaysSomewhere ==
    ASSUME SkillsApart
    PROVE  K!Spec => []K!InstalledIsSomewhere
<1>1. K!Init => SkillsInv
  BY InitSkills
<1>2. SkillsInv /\ [K!Next]_K!vars => SkillsInv'
  BY SkillsStep
<1>3. SkillsInv => K!InstalledIsSomewhere
  BY DEF SkillsInv
<1> QED BY <1>1, <1>2, <1>3, PTL DEF K!Spec

\* What is set aside is arc's, and what is put in place goes where nothing is.
LEMMA PersonsStep ==
    ASSUME SkillsApart, SkillsInv, [K!Next]_K!vars
    PROVE  [K!KeepsPersons]_K!vars
<1>0. SUFFICES ASSUME K!Next, ~K!Person, NEW d \in K!Dirs, NEW s \in K!Skills,
                      dest[d][s] # None, dest[d][s].by = "person"
               PROVE  dest'[d][s] = dest[d][s]
  BY DEF K!KeepsPersons
<1>1. CASE K!Install \/ K!Plan \/ K!Stage \/ K!Mark \/ K!StageFails \/ K!AsideFails \/ K!Moved \/ K!Killed
  BY <1>1 DEF K!Install, K!Plan, K!Stage, K!Mark, K!StageFails, K!AsideFails, K!Moved, K!Killed
<1>2. ASSUME NEW x, dest' = K!Put(dest, x), d = K!Here /\ s = K!Name => dest'[d][s] = dest[d][s]
      PROVE  dest'[d][s] = dest[d][s]
  BY <1>2, PutAt DEF SkillsInv, SkillTypes
<1>3. CASE K!Aside
  <2>1. at = "swap" /\ plans[K!Name] = "replace" /\ nth \in 1..Len(Names) /\ dest' = K!Put(dest, None)
    BY <1>3 DEF K!Aside, SkillsInv, SkillTypes, Working
  <2>2. ~(d = K!Here /\ s = K!Name)
    BY <1>0, <2>1 DEF SkillsInv, StagedIsWhole, Working, Left, K!Name, Arcs
  <2> QED BY <1>2, <2>1, <2>2
<1>4. CASE K!Move \/ K!MoveFails
  <2>1. \/ UNCHANGED dest
        \/ dest[K!Here][K!Name] = None /\ \E x : dest' = K!Put(dest, x)
    BY <1>4 DEF K!Move, K!MoveFails
  <2> QED BY <1>0, <1>2, <2>1
<1> QED BY <1>0, <1>1, <1>3, <1>4 DEF K!Next

\* No step of an install takes a person's folder from its place, and none
\* leaves an installed skill in no place (skills.rs:231, :243).
LEMMA Persons ==
    ASSUME SkillsApart
    PROVE  K!Spec => K!PersonsAreKept
<1>1. K!Init => SkillsInv
  BY InitSkills
<1>2. SkillsInv /\ [K!Next]_K!vars => SkillsInv'
  BY SkillsStep
<1>3. SkillsInv /\ [K!Next]_K!vars => [K!KeepsPersons]_K!vars
  BY PersonsStep
<1>4. SkillsInv => K!InstalledIsSomewhere
  BY DEF SkillsInv
<1> QED BY <1>1, <1>2, <1>3, <1>4, PTL DEF K!Spec, K!PersonsAreKept

-----------------------------------------------------------------------------
(* Extensions.                                                             *)

\* A name that was compared is pinned, or was warned of as without a pin.
NamesAreCompared ==
    /\ pc = "idle" => installed = {}
    /\ \A x \in installed : IF pins[x] # None THEN x \in pinned ELSE <<"unpinned", x>> \in warned

\* What is about to run has passed its check.
PassedIsChecked ==
    pc = "execute" =>
        /\ ~E!check_file(checked).refused
        /\ E!check_file(checked).installed \subseteq installed
        /\ E!run_time_warnings(slot, checked) \subseteq warned

ChecksInv == NamesAreCompared /\ PassedIsChecked

LEMMA StartChecks ==
    ASSUME ChecksInv, E!Start
    PROVE  ChecksInv'
<1>1. pc = "idle" /\ pc' \in {"check", "ended"}
  BY DEF E!Start, E!Ends
<1>2. CASE pc' = "ended"
  <2>1. UNCHANGED installed
    BY <1>2 DEF E!Start, E!recheck
  <2> QED BY <1>1, <1>2, <2>1 DEF ChecksInv, NamesAreCompared, PassedIsChecked
<1>3. CASE pc' = "check"
  <2>1. PICK names : /\ installed' = names /\ pinned' = E!Pinned(names, pins')
                     /\ E!unpinned_warnings(names, pins') \subseteq warned'
    BY <1>3 DEF E!Start, E!Ends
  <2>2. \A x \in names : IF pins'[x] # None THEN x \in E!Pinned(names, pins')
                         ELSE <<"unpinned", x>> \in E!unpinned_warnings(names, pins')
    BY DEF E!Pinned, E!unpinned_warnings
  <2> QED BY <1>3, <2>1, <2>2 DEF ChecksInv, NamesAreCompared, PassedIsChecked
<1> QED BY <1>1, <1>2, <1>3

LEMMA CheckChecks ==
    ASSUME ChecksInv, E!Check
    PROVE  ChecksInv'
<1> DEFINE read == E!check_file(files[slot])
           fresh == read.installed \ installed
<1>1. /\ pc = "check" /\ checked' = files[slot] /\ UNCHANGED pins
      /\ \/ /\ pc' = "check" /\ UNCHANGED <<installed, pinned, warned>>
         \/ /\ pc' = "execute" /\ ~read.refused /\ UNCHANGED slot
            /\ installed' = installed \cup fresh
            /\ pinned' = pinned \cup E!Pinned(fresh, pins)
            /\ warned \subseteq warned'
            /\ E!run_time_warnings(slot, files[slot]) \subseteq warned'
            /\ E!unpinned_warnings(fresh, pins) \subseteq warned'
  BY DEF E!Check, E!Refuse, E!Fails, E!Keep, E!recheck
<1>2. \A x \in fresh : IF pins[x] # None THEN x \in E!Pinned(fresh, pins)
                       ELSE <<"unpinned", x>> \in E!unpinned_warnings(fresh, pins)
  BY DEF E!Pinned, E!unpinned_warnings
<1>3. read.installed \subseteq installed \cup fresh
  OBVIOUS
<1> HIDE DEF fresh
<1>4. NamesAreCompared'
  BY <1>1, <1>2 DEF ChecksInv, NamesAreCompared
<1>5. PassedIsChecked'
  BY <1>1, <1>3 DEF PassedIsChecked, E!run_time_warnings
<1> QED BY <1>4, <1>5 DEF ChecksInv

LEMMA ChecksStep ==
    ASSUME ChecksInv, [E!Next]_E!vars
    PROVE  ChecksInv'
<1>1. CASE E!Start
  BY <1>1, StartChecks
<1>2. CASE E!Check
  BY <1>2, CheckChecks
<1>3. CASE E!Pass \/ E!Missing \/ E!Execute \/ E!Command \/ E!Finish
  <2>1. /\ pc \in {"check", "execute"} /\ pc' \in {"check", "ended"}
        /\ UNCHANGED <<pins, installed, pinned, warned>>
    BY <1>3 DEF E!Pass, E!Missing, E!Execute, E!Command, E!Finish, E!Fails, E!Ends, E!recheck
  <2> QED BY <2>1 DEF ChecksInv, NamesAreCompared, PassedIsChecked
<1>4. CASE E!Upgrade \/ E!Serve \/ E!Overwrite \/ UNCHANGED E!vars
  <2>1. UNCHANGED <<pc, slot, pins, installed, pinned, warned, checked>>
    BY <1>4 DEF E!Upgrade, E!Serve, E!Overwrite, E!vars, E!recheck
  <2> QED BY <2>1 DEF ChecksInv, NamesAreCompared, PassedIsChecked, E!run_time_warnings
<1> QED BY <1>1, <1>2, <1>3, <1>4 DEF E!Next

\* What a step or a hook runs, unless it was written over after the check that
\* read it, installs nothing from elsewhere, each community extension that it
\* installs was compared with its pin or named as without one, and SQL of its
\* that arc does not read was warned of (engine.rs:2045, :2100).
THEOREM WhatRunsWasChecked ==
    E!Spec => [][E!RunsChecked]_E!vars
<1>1. E!Init => ChecksInv
  BY DEF E!Init, ChecksInv, NamesAreCompared, PassedIsChecked
<1>2. ChecksInv /\ [E!Next]_E!vars => ChecksInv'
  BY ChecksStep
<1>3. ChecksInv => E!RunsChecked
  <2> SUFFICES ASSUME ChecksInv, E!Execute, files[slot] = checked
               PROVE  LET read == E!check_file(checked)
                      IN  /\ ~read.refused
                          /\ \A x \in read.installed :
                               IF pins[x] # None THEN x \in pinned ELSE <<"unpinned", x>> \in warned
                          /\ E!run_time_warnings(slot, checked) \subseteq warned
    BY DEF E!RunsChecked
  <2>1. pc = "execute"
    BY DEF E!Execute
  <2> QED BY <2>1 DEF ChecksInv, NamesAreCompared, PassedIsChecked
<1> QED BY <1>1, <1>2, <1>3, PTL DEF E!Spec

-----------------------------------------------------------------------------
PinTypes ==
    /\ disk = [x \in E!Extensions |-> disk[x]]
    /\ swaps = [x \in E!Extensions |-> swaps[x]]
    /\ \A x \in E!Extensions : swaps[x] \in Nat
    /\ installed \subseteq E!Extensions

\* What was compared and is as it was is its pin, and so was each build of its
\* that was loaded; what was changed once is not its pin now.
ComparedArePins ==
    /\ pc = "idle" => loads = {}
    /\ \A l \in loads : l[1] \in E!Extensions /\ E!Compared(l[1])
    /\ \A x \in E!Extensions :
         /\ ~E!Compared(x) => swaps[x] = 0
         /\ E!Compared(x) /\ swaps[x] = 0 =>
               disk[x] = pins[x] /\ \A l \in loads : l[1] = x => l[2] = pins[x]
         /\ E!Compared(x) /\ swaps[x] = 1 => disk[x] # pins[x]

\* A run that has succeeded has ended, and then loads nothing more.
EndedIsDone ==
    /\ outcome = "success" => pc = "ended"
    /\ E!SuccessRanThePins

PinsInv == PinTypes /\ ComparedArePins /\ EndedIsDone

\* The installed files are changed, and some builds of compared ones are loaded.
LEMMA SwapPins ==
    ASSUME PinsInv, disk' = [x \in E!Extensions |-> disk'[x]], swaps' = E!Swapped(disk, disk'),
           UNCHANGED <<pins, installed>>, pc' = "idle" => pc = "idle" /\ loads' = loads,
           outcome' = outcome, outcome = "success" => pc' = "ended" /\ loads' = loads,
           NEW fresh, loads' = loads \cup fresh,
           \A l \in fresh : /\ l[1] \in E!Extensions /\ E!Compared(l[1])
                            /\ disk'[l[1]] = disk[l[1]] => l[2] = disk[l[1]]
    PROVE  PinsInv'
<1>1. \A x \in E!Extensions :
        swaps'[x] = IF E!Compared(x) /\ disk[x] # disk'[x] /\ swaps[x] < 2 THEN swaps[x] + 1 ELSE swaps[x]
  BY DEF E!Swapped
<1>2. \A x : E!Compared(x)' <=> E!Compared(x)
  BY DEF E!Compared
<1>3. PinTypes'
  BY <1>1 DEF PinsInv, PinTypes, E!Swapped
<1>4. ComparedArePins'
  <2>1. \A l \in loads' : l[1] \in E!Extensions /\ E!Compared(l[1])
    BY DEF PinsInv, ComparedArePins
  <2>2. ASSUME NEW x \in E!Extensions
        PROVE  /\ ~E!Compared(x) => swaps'[x] = 0
               /\ E!Compared(x) /\ swaps'[x] = 0 =>
                     disk'[x] = pins[x] /\ \A l \in loads' : l[1] = x => l[2] = pins[x]
               /\ E!Compared(x) /\ swaps'[x] = 1 => disk'[x] # pins[x]
    <3>1. swaps[x] \in Nat
      BY DEF PinsInv, PinTypes
    <3>2. CASE ~E!Compared(x)
      BY <1>1, <3>2 DEF PinsInv, ComparedArePins
    <3>3. CASE E!Compared(x) /\ disk'[x] = disk[x]
      <4>1. swaps'[x] = swaps[x]
        BY <1>1, <3>3
      <4> QED BY <3>3, <4>1 DEF PinsInv, ComparedArePins
    <3>4. CASE E!Compared(x) /\ disk'[x] # disk[x]
      <4>1. swaps'[x] # 0 /\ (swaps'[x] = 1 => swaps[x] = 0)
        BY <1>1, <3>1, <3>4
      <4> QED BY <3>4, <4>1 DEF PinsInv, ComparedArePins
    <3> QED BY <3>2, <3>3, <3>4
  <2> QED BY <1>2, <2>1, <2>2 DEF PinsInv, ComparedArePins
<1>5. EndedIsDone'
  <2>1. ASSUME outcome = "success", NEW l \in loads
        PROVE  l[2] = pins[l[1]] \/ swaps'[l[1]] >= 2
    <3>1. l[1] \in E!Extensions /\ swaps[l[1]] \in Nat /\ (l[2] = pins[l[1]] \/ swaps[l[1]] >= 2)
      BY <2>1 DEF PinsInv, PinTypes, ComparedArePins, EndedIsDone, E!SuccessRanThePins
    <3> QED BY <1>1, <3>1
  <2> QED BY <2>1 DEF PinsInv, EndedIsDone, E!SuccessRanThePins
<1> QED BY <1>3, <1>4, <1>5 DEF PinsInv

LEMMA StartPins ==
    ASSUME ChecksInv, PinsInv, E!Start
    PROVE  PinsInv'
<1>1. /\ pc = "idle" /\ installed = {} /\ loads = {} /\ outcome # "success"
      /\ \A x \in E!Extensions : swaps[x] = 0
  BY DEF E!Start, ChecksInv, NamesAreCompared, PinsInv, ComparedArePins, EndedIsDone, E!Compared
<1>2. /\ pc' # "idle" /\ UNCHANGED <<loads, swaps>> /\ outcome' # "success"
  BY <1>1 DEF E!Start, E!Ends
<1>3. PICK names, got :
        /\ names \subseteq Vetted
        /\ disk' = disk \/ disk' = E!AfterInstalls(names, pins', got)
        /\ \/ UNCHANGED installed
           \/ /\ installed' = names /\ disk' = E!AfterInstalls(names, pins', got)
              /\ E!PinsHold(names, pins', got)
  <2> DEFINE read == {E!check_file(files[s]) : s \in E!SqlSlots}
  <2> DEFINE compared == UNION {f.installed : f \in read}
  <2>1. compared \subseteq Vetted
    BY DEF E!check_file
  <2> HIDE DEF read
  <2>2. PICK by, got, told :
          /\ pins' = by
          /\ IF \E f \in read : f.refused
             THEN UNCHANGED <<disk, installed>>
             ELSE /\ disk' = IF told THEN E!AfterInstalls(compared, by, got) ELSE disk
                  /\ IF ~(told /\ E!PinsHold(compared, by, got))
                     THEN UNCHANGED installed
                     ELSE installed' = compared
    BY DEF E!Start, E!Ends, E!recheck, read
  <2> HIDE DEF compared
  <2> QED BY <2>1, <2>2
<1>4. PinTypes'
  BY <1>1, <1>2, <1>3 DEF PinsInv, PinTypes, E!AfterInstalls, E!Extensions
<1>5. ASSUME NEW x \in E!Extensions, E!Compared(x)'
      PROVE  disk'[x] = pins'[x]
  <2>1. /\ x \in names /\ pins'[x] # None /\ disk' = E!AfterInstalls(names, pins', got)
        /\ E!PinsHold(names, pins', got)
    BY <1>1, <1>3, <1>5 DEF E!Compared
  <2> QED BY <2>1 DEF E!AfterInstalls, E!PinsHold, E!Pinned
<1>6. ComparedArePins'
  BY <1>1, <1>2, <1>5 DEF ComparedArePins
<1>7. EndedIsDone'
  BY <1>2 DEF EndedIsDone, E!SuccessRanThePins
<1> QED BY <1>4, <1>6, <1>7 DEF PinsInv

LEMMA CheckPins ==
    ASSUME ChecksInv, PinsInv, E!Check
    PROVE  PinsInv'
<1> DEFINE novel == E!check_file(files[slot]).installed \ installed
<1>1. novel \subseteq Vetted
  BY DEF E!check_file
<1>2. PICK got : /\ disk' = disk \/ disk' = E!AfterInstalls(novel, pins, got)
                 /\ \/ UNCHANGED installed
                    \/ /\ installed' = installed \cup novel /\ disk' = E!AfterInstalls(novel, pins, got)
                       /\ E!PinsHold(novel, pins, got)
  BY DEF E!Check, E!Refuse, E!recheck
<1>3. /\ pc = "check" /\ pc' # "idle" /\ UNCHANGED <<pins, loads, outcome>>
      /\ swaps' = E!Swapped(disk, disk')
  BY DEF E!Check, E!Refuse, E!Fails
<1>4. novel \cap installed = {}
  OBVIOUS
<1> HIDE DEF novel
<1>5. \A x \in installed : x \in E!Extensions => disk'[x] = disk[x]
  BY <1>2, <1>4 DEF E!AfterInstalls, E!Pinned
<1>6. swaps' = swaps
  <2>1. \A x \in E!Extensions : ~(E!Compared(x) /\ disk[x] # disk'[x])
    BY <1>5 DEF E!Compared
  <2> QED BY <1>3, <2>1 DEF E!Swapped, PinsInv, PinTypes
<1>7. PinTypes'
  BY <1>1, <1>2, <1>6 DEF PinsInv, PinTypes, E!AfterInstalls, E!Extensions
<1>8. ASSUME NEW x \in E!Extensions, E!Compared(x)', ~E!Compared(x)
      PROVE  disk'[x] = pins[x]
  <2>1. /\ x \in novel /\ pins[x] # None /\ disk' = E!AfterInstalls(novel, pins, got)
        /\ E!PinsHold(novel, pins, got)
    BY <1>2, <1>3, <1>8 DEF E!Compared
  <2> QED BY <2>1 DEF E!AfterInstalls, E!PinsHold, E!Pinned
<1>9. \A x : E!Compared(x) => E!Compared(x)'
  BY <1>2, <1>3 DEF E!Compared
<1>10. ASSUME NEW x \in E!Extensions, E!Compared(x)
       PROVE  disk'[x] = disk[x]
  BY <1>5, <1>10 DEF E!Compared
<1>11. ComparedArePins'
  <2>1. \A l \in loads' : l[1] \in E!Extensions /\ E!Compared(l[1])'
    BY <1>3, <1>9 DEF PinsInv, ComparedArePins
  <2>2. ASSUME NEW x \in E!Extensions
        PROVE  /\ ~E!Compared(x)' => swaps'[x] = 0
               /\ E!Compared(x)' /\ swaps'[x] = 0 =>
                     disk'[x] = pins'[x] /\ \A l \in loads' : l[1] = x => l[2] = pins'[x]
               /\ E!Compared(x)' /\ swaps'[x] = 1 => disk'[x] # pins'[x]
    <3>1. CASE E!Compared(x)
      BY <1>3, <1>6, <1>9, <1>10, <3>1 DEF PinsInv, ComparedArePins
    <3>2. CASE ~E!Compared(x)
      <4>1. swaps'[x] = 0 /\ \A l \in loads' : l[1] # x
        BY <1>3, <1>6, <3>2 DEF PinsInv, ComparedArePins
      <4> QED BY <1>3, <1>8, <3>2, <4>1
    <3> QED BY <3>1, <3>2
  <2> QED BY <1>3, <2>1, <2>2 DEF ComparedArePins
<1>12. EndedIsDone'
  BY <1>3 DEF PinsInv, EndedIsDone, E!SuccessRanThePins
<1> QED BY <1>7, <1>11, <1>12 DEF PinsInv

LEMMA ExecutePins ==
    ASSUME PinsInv, E!Execute
    PROVE  PinsInv'
<1>1. PICK n \in 0..Len(files[slot]) :
        /\ disk' = E!Installed(disk, files[slot], n)
        /\ loads' = loads \cup {l \in E!Loaded(disk, files[slot], n) : E!Compared(l[1])}
  BY DEF E!Execute
<1>2. /\ pc = "execute" /\ pc' = "check" /\ swaps' = E!Swapped(disk, disk')
      /\ UNCHANGED <<pins, installed, outcome>>
  BY DEF E!Execute, E!Fails
<1> DEFINE fresh == {l \in E!Loaded(disk, files[slot], n) : E!Compared(l[1])}
<1>3. ASSUME NEW l \in fresh
      PROVE  /\ l[1] \in E!Extensions /\ E!Compared(l[1])
             /\ disk'[l[1]] = disk[l[1]] => l[2] = disk[l[1]]
  <2>1. l[1] \in E!Extensions /\ E!Compared(l[1])
    BY DEF E!Compared, PinsInv, PinTypes
  <2>2. PICK i \in 1..n : l[2] = E!Installed(disk, files[slot], i)[l[1]]
    BY DEF E!Loaded
  <2>3. \/ l[2] = disk[l[1]]
        \/ /\ l[2] = registry[l[1]]
           /\ \E j \in 1..i : E!Takes(disk, files[slot][j], l[1])
    BY <2>1, <2>2 DEF E!Installed
  <2>4. (\E j \in 1..i : E!Takes(disk, files[slot][j], l[1])) => disk'[l[1]] = registry[l[1]]
    BY <1>1, <2>1 DEF E!Installed
  <2> QED BY <2>1, <2>3, <2>4
<1>4. disk' = [x \in E!Extensions |-> disk'[x]]
  BY <1>1 DEF E!Installed
<1>5. outcome # "success"
  BY <1>2 DEF PinsInv, EndedIsDone
<1>6. loads' = loads \cup fresh
  BY <1>1
<1> HIDE DEF fresh
<1> QED BY <1>2, <1>3, <1>4, <1>5, <1>6, SwapPins

LEMMA PinsStep ==
    ASSUME ChecksInv, PinsInv, [E!Next]_E!vars
    PROVE  PinsInv'
<1>1. CASE E!Start
  BY <1>1, StartPins
<1>2. CASE E!Check
  BY <1>2, CheckPins
<1>3. CASE E!Execute
  BY <1>3, ExecutePins
<1>4. CASE E!Command \/ E!Upgrade
  <2>1. /\ disk' = disk \/ \E x, b : disk' = [disk EXCEPT ![x] = b]
        /\ swaps' = E!Swapped(disk, disk') /\ UNCHANGED <<pins, installed, loads, pc, outcome>>
    BY <1>4 DEF E!Command, E!Upgrade, E!recheck
  <2>2. disk' = [x \in E!Extensions |-> disk'[x]]
    BY <2>1 DEF PinsInv, PinTypes
  <2>3. /\ loads' = loads /\ pc' = pc /\ outcome' = outcome
        /\ swaps' = E!Swapped(disk, disk') /\ UNCHANGED <<pins, installed>>
    BY <2>1 DEF E!recheck
  <2>4. outcome = "success" => pc' = "ended" /\ loads' = loads
    BY <2>3 DEF PinsInv, EndedIsDone
  <2>5. pc' = "idle" => pc = "idle" /\ loads' = loads
    BY <2>3
  <2> DEFINE none == {l \in loads : FALSE}
  <2>6. loads' = loads \cup none /\ none = {}
    BY <2>3
  <2> HIDE DEF none
  <2>7. \A l \in none : /\ l[1] \in E!Extensions /\ E!Compared(l[1])
                       /\ disk'[l[1]] = disk[l[1]] => l[2] = disk[l[1]]
    BY <2>6
  <2> QED BY <2>2, <2>3, <2>4, <2>5, <2>6, <2>7, SwapPins
<1>5. CASE E!Finish
  <2>1. /\ pc' = "ended" /\ UNCHANGED <<disk, pins, installed, loads, swaps>>
        /\ outcome' = "success" => \A x \in pinned : disk[x] = pins[x]
    BY <1>5 DEF E!Finish, E!Ends, E!recheck
  <2>2. ASSUME outcome' = "success", NEW l \in loads
        PROVE  l[2] = pins[l[1]] \/ swaps[l[1]] >= 2
    <3>1. l[1] \in E!Extensions /\ E!Compared(l[1]) /\ swaps[l[1]] \in Nat
      BY DEF PinsInv, PinTypes, ComparedArePins
    <3>2. disk[l[1]] = pins[l[1]]
      BY <2>1, <2>2, <3>1 DEF E!Compared, ChecksInv, NamesAreCompared
    <3>3. swaps[l[1]] # 1 /\ (swaps[l[1]] = 0 => l[2] = pins[l[1]])
      BY <3>1, <3>2 DEF PinsInv, ComparedArePins
    <3> QED BY <3>1, <3>3
  <2>3. PinTypes' /\ ComparedArePins'
    BY <2>1 DEF PinsInv, PinTypes, ComparedArePins, E!Compared
  <2> QED BY <2>1, <2>2, <2>3 DEF PinsInv, EndedIsDone, E!SuccessRanThePins
<1>6. CASE E!Pass \/ E!Missing \/ E!Serve \/ E!Overwrite \/ UNCHANGED E!vars
  <2>1. /\ UNCHANGED <<disk, pins, installed, loads, swaps, outcome>>
        /\ pc' = pc \/ (pc = "check" /\ pc' = "check")
    BY <1>6 DEF E!Pass, E!Missing, E!Fails, E!Serve, E!Overwrite, E!vars, E!recheck
  <2> QED BY <2>1
        DEF PinsInv, PinTypes, ComparedArePins, EndedIsDone, E!Compared, E!SuccessRanThePins
<1> QED BY <1>1, <1>2, <1>3, <1>4, <1>5, <1>6 DEF E!Next

LEMMA InitPins ==
    ASSUME E!Init
    PROVE  ChecksInv /\ PinsInv
<1>1. ChecksInv
  BY DEF E!Init, ChecksInv, NamesAreCompared, PassedIsChecked
<1>2. PinTypes
  BY DEF E!Init, PinTypes
<1>3. ComparedArePins
  BY DEF E!Init, ComparedArePins, E!Compared
<1>4. EndedIsDone
  BY DEF E!Init, EndedIsDone, E!SuccessRanThePins
<1> QED BY <1>1, <1>2, <1>3, <1>4 DEF PinsInv

\* Both: what SQL installs is checked before it runs, and a run that succeeds
\* has loaded the builds it is pinned to, unless a file was replaced and put
\* back (engine.rs:2045, :2287).
LEMMA Pins ==
    E!Spec => E!PinsAreHonoured
<1>1. E!Init => ChecksInv /\ PinsInv
  BY InitPins
<1>2. ChecksInv /\ PinsInv /\ [E!Next]_E!vars => (ChecksInv /\ PinsInv)'
  BY ChecksStep, PinsStep
<1>3. PinsInv => E!SuccessRanThePins
  BY DEF PinsInv, EndedIsDone
<1> QED BY <1>1, <1>2, <1>3, WhatRunsWasChecked, PTL DEF E!Spec, E!PinsAreHonoured

-----------------------------------------------------------------------------
(* The parts in Upkeep.                                                    *)

\* A behaviour is of one part, and moves when that part does.
LEMMA PartsStay == [Next]_vars => UNCHANGED part
BY DEF Next, vars

LEMMA ExtensionsMoves ==
    ASSUME [Next]_vars, part = "extensions"
    PROVE  [E!Next]_E!vars /\ (UNCHANGED E!vars => UNCHANGED vars)
BY DEF Next, vars, E!vars, OfExtensions, OfLake, OfRegistry, OfSkills, OfStamps, E!recheck

LEMMA ExtensionsIs == Spec => (part = "extensions" => E!Spec)
<1>1. Init => (part = "extensions" => E!Init)
  BY DEF Init
<1>2. [Next]_vars => /\ (part = "extensions" => [E!Next]_E!vars)
                     /\ (part = "extensions" => (part = "extensions")')
  BY PartsStay, ExtensionsMoves
<1> QED BY <1>1, <1>2, PTL DEF Spec, E!Spec

LEMMA LakeMoves ==
    ASSUME [Next]_vars, part = "lake"
    PROVE  [L!Next]_L!vars /\ (UNCHANGED L!vars => UNCHANGED vars)
BY DEF Next, vars, L!vars, OfExtensions, OfLake, OfRegistry, OfSkills, OfStamps

LEMMA LakeIs == Spec => (part = "lake" => L!Spec)
<1>1. Init => (part = "lake" => L!Init)
  BY DEF Init
<1>2. [Next]_vars => /\ (part = "lake" => [L!Next]_L!vars)
                     /\ (part = "lake" => (part = "lake")')
  BY PartsStay, LakeMoves
<1> QED BY <1>1, <1>2, PTL DEF Spec, L!Spec

LEMMA RegistryMoves ==
    ASSUME [Next]_vars, part = "registry"
    PROVE  [R!Next]_R!vars /\ (UNCHANGED R!vars => UNCHANGED vars)
BY DEF Next, vars, R!vars, OfExtensions, OfLake, OfRegistry, OfSkills, OfStamps

LEMMA RegistryIs == Spec => (part = "registry" => R!Spec)
<1>1. Init => (part = "registry" => R!Init)
  BY DEF Init
<1>2. [Next]_vars => /\ (part = "registry" => [R!Next]_R!vars)
                     /\ (part = "registry" => (part = "registry")')
  BY PartsStay, RegistryMoves
<1> QED BY <1>1, <1>2, PTL DEF Spec, R!Spec

LEMMA SkillsMoves ==
    ASSUME [Next]_vars, part = "skills"
    PROVE  [K!Next]_K!vars /\ (UNCHANGED K!vars => UNCHANGED vars)
BY DEF Next, vars, K!vars, OfExtensions, OfLake, OfRegistry, OfSkills, OfStamps

LEMMA SkillsIs == Spec => (part = "skills" => K!Spec)
<1>1. Init => (part = "skills" => K!Init)
  BY DEF Init
<1>2. [Next]_vars => /\ (part = "skills" => [K!Next]_K!vars)
                     /\ (part = "skills" => (part = "skills")')
  BY PartsStay, SkillsMoves
<1> QED BY <1>1, <1>2, PTL DEF Spec, K!Spec

LEMMA StampsMoves ==
    ASSUME [Next]_vars, part = "stamps"
    PROVE  [T!Next]_T!vars /\ (UNCHANGED T!vars => UNCHANGED vars)
BY DEF Next, vars, T!vars, OfExtensions, OfLake, OfRegistry, OfSkills, OfStamps

LEMMA StampsIs == Spec => (part = "stamps" => T!Spec)
<1>1. Init => (part = "stamps" => T!Init)
  BY DEF Init
<1>2. [Next]_vars => /\ (part = "stamps" => [T!Next]_T!vars)
                     /\ (part = "stamps" => (part = "stamps")')
  BY PartsStay, StampsMoves
<1> QED BY <1>1, <1>2, PTL DEF Spec, T!Spec

\* ducklake_publish.rs:593: with a catalog that answers after a commit, no publish,
\* however many there are and wherever they fail or are killed, takes away a file
\* that a snapshot refers to.
THEOREM PublishedFilesStay ==
    ASSUME None \notin Digests, ~AnswerFails
    PROVE  Spec => []ReferencedIsThere
<1>1. (part = "lake" => L!ReferencedIsThere) => ReferencedIsThere
  BY DEF ReferencedIsThere
<1>2. [Next]_vars => (~(part = "lake") => ~(part = "lake")')
  BY PartsStay
<1>3. L!Spec => []L!ReferencedIsThere
  BY FilesStay
<1> QED BY <1>1, <1>2, <1>3, LakeIs, PTL DEF Spec

\* A publish reported as a no-op finds the table holding the file's bytes, in the
\* newest snapshot it has looked at, whatever others publish, write and drop
\* meanwhile (ducklake_publish.rs:20).
THEOREM NoOpsAreRight ==
    ASSUME None \notin Digests, ~AnswerFails
    PROVE  Spec => NoOpHolds
<1>1. [Next]_vars /\ (part = "lake" => [L!NoOpIsRight]_L!vars)
      => [part = "lake" => L!NoOpIsRight]_vars
  BY LakeMoves
<1>2. [Next]_vars => (~(part = "lake") => ~(part = "lake")')
  BY PartsStay
<1>3. L!Spec => L!NoOpHolds
  BY NoOps
<1> QED BY <1>1, <1>2, <1>3, LakeIs, PTL DEF Spec, NoOpHolds, L!NoOpHolds

\* precondition.rs:128: with any steps, tools and runs over one file of stamps, a step
\* that its tools let pass has a product its present tools made, unless a kill, a
\* change of tools or another run came before its stamp.
THEOREM SkippedHasTheTools ==
    Spec => []SkippedHasItsTools
<1>1. (part = "stamps" => T!SkippedHasItsTools) => SkippedHasItsTools
  BY DEF SkippedHasItsTools
<1>2. [Next]_vars => (~(part = "stamps") => ~(part = "stamps")')
  BY PartsStay
<1> QED BY <1>1, <1>2, StampsIs, SkippedTools, PTL DEF Spec

\* What the registry's cache says of its index, and what it hands out
\* (registry/cache.rs:152, mod.rs:39), when no two entries have one folder.
THEOREM CacheSaysTrue ==
    ASSUME PathsApart
    PROVE  Spec => []CacheIsAsItSays
<1>1. (part = "registry" => R!CacheIsAsItSays) => CacheIsAsItSays
  BY DEF CacheIsAsItSays
<1>2. [Next]_vars => (~(part = "registry") => ~(part = "registry")')
  BY PartsStay
<1>3. R!Spec => []R!CacheIsAsItSays
  BY CacheIsTrue
<1> QED BY <1>1, <1>2, <1>3, RegistryIs, PTL DEF Spec

\* No step of an install takes a person's folder from its place, and none
\* leaves an installed skill in no place (skills.rs:231, :243).
THEOREM PersonsStay ==
    ASSUME SkillsApart
    PROVE  Spec => PersonsAreKept
<1>1. [Next]_vars /\ (part = "skills" => [K!KeepsPersons /\ K!InstalledIsSomewhere']_K!vars)
      => [part = "skills" => K!KeepsPersons /\ K!InstalledIsSomewhere']_vars
  BY SkillsMoves
<1>2. [Next]_vars => (~(part = "skills") => ~(part = "skills")')
  BY PartsStay
<1>3. K!Spec => K!PersonsAreKept
  BY Persons
<1> QED BY <1>1, <1>2, <1>3, SkillsIs, PTL DEF Spec, PersonsAreKept, K!PersonsAreKept

\* What SQL installs is checked before it runs, and a run that succeeds has
\* loaded the builds it is pinned to, unless a file was replaced and put back
\* (engine.rs:2045, :2287).
THEOREM PinsHonoured ==
    Spec => PinsAreHonoured
<1>1. [Next]_vars /\ (part = "extensions" => [E!RunsChecked /\ E!SuccessRanThePins']_E!vars)
      => [part = "extensions" => E!RunsChecked /\ E!SuccessRanThePins']_vars
  BY ExtensionsMoves
<1>2. [Next]_vars => (~(part = "extensions") => ~(part = "extensions")')
  BY PartsStay
<1> QED BY <1>1, <1>2, ExtensionsIs, Pins, PTL DEF Spec, PinsAreHonoured, E!PinsAreHonoured
=============================================================================
