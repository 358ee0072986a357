--------------------------- MODULE RecordingProofs ---------------------------
(***************************************************************************)
(* For any sessions, names and bounds: no road touches a model that is its *)
(* author's, but at a path somebody came to under a call; and as long as   *)
(* nobody has, Recording implements ProtocolSpec: a step and its model     *)
(* land as one, a manifest cites only models that are there, and no two of *)
(* its steps one model.                                                    *)
(***************************************************************************)
EXTENDS Recording, SequenceTheorems, WellFoundedInduction, TLAPS

PP == INSTANCE ProtocolSpecProofs WITH
        files <- FilesThatLanded, plan <- [s \in Sessions |-> PlanOf(s)]

-----------------------------------------------------------------------------
(* The invariant. *)

Places == {"idle", "checkpoint", "splice", "mkdir", "model", "manifest",
           "unlink", "rmdir", "rewrite"}

Types ==
    /\ steps \in P!Documents \cup {Absent}
    /\ models \in [Paths -> Texts \cup {Absent}] /\ dir \in BOOLEAN
    /\ pc \in [Sessions -> Places] /\ job \in [Sessions -> Jobs \cup {None}]
    /\ told \in [Sessions -> {"nothing", "ok", "failed"}]
    /\ landed \in SUBSET Paths /\ removed \in SUBSET Paths
    /\ authored \in [Paths -> {None, "analyst", "typed"}]

\* No two steps cite one model.
Apart(doc) ==
    \A i, j \in DOMAIN doc : doc[i].model # None /\ doc[i].model = doc[j].model => i = j

\* A manifest that may stand over the models of `there`.
Stands(doc, there) ==
    doc \in P!Documents /\ Unique(doc) /\ Apart(doc) /\ P!Cited(doc) \subseteq there

\* The folder, whoever is at work in it.
FolderIsSound ==
    /\ steps # Absent => Stands(steps, landed)
    /\ \A p \in landed : models[p] # Absent
    /\ \A p \in Paths : authored[p] # None => p \in landed /\ models[p] = authored[p]
    /\ dir \/ \A p \in Paths : models[p] = Absent

\* j has its new manifest in hand at this place (Spliced, of one session).
InHand(at, j) ==
    \/ at \in {"mkdir", "model", "manifest"}
    \/ at = "checkpoint" /\ j.road \in {"operator", "edit"}

\* j records a model.
WritesOwn(j) ==
    j.road = "step" /\ j.path \in Paths /\ j.text \in {"generated", "analyst"}

\* What session s's job is at its place.
Fit(s, at, j) ==
    /\ at = "idle" <=> j = None
    /\ at \in {"checkpoint", "splice"} =>
         \/ /\ j.road = "step" /\ j.name \in NamesOf[s] /\ j.path = None
            /\ j.text \in {"generated", "analyst"}
         \/ at = "checkpoint" /\ j.road \in {"operator", "edit"} /\ j.path = None /\ j.text = None
    /\ at \in {"mkdir", "model", "unlink", "rmdir"} => WritesOwn(j)
    /\ at = "manifest" => (j.path = None /\ j.text = None) \/ WritesOwn(j)
    /\ at = "rewrite" => j.road = "amend" /\ j.path \in Paths /\ j.text = "amended"

(* A call at work on a path.                                               *)
Records(at, j, p) == at \in {"mkdir", "model", "manifest", "unlink", "rmdir"} /\ j.path = p

Rewrites(at, j, p) == at = "rewrite" /\ j.path = p

\* What such a call needs of the file m that is at p, and the analyst's text a.
Guards(at, j, p, m, a) ==
    /\ Records(at, j, p) \/ Rewrites(at, j, p) => a = None
    /\ at \in {"mkdir", "model"} /\ j.path = p => m = Absent
    /\ at = "manifest" /\ j.path = p => m = j.text

PathIsSafe(p) ==
    /\ authored[p] # None => models[p] = authored[p]
    /\ \A s \in Sessions : Guards(pc[s], job[s], p, models[p], authored[p])
    /\ \A s, t \in Sessions :
         s # t /\ Records(pc[s], job[s], p) =>
           ~Records(pc[t], job[t], p) /\ ~Rewrites(pc[t], job[t], p)

\* What holds whatever sessions and people do to one another.
HandsOff ==
    /\ Types /\ met \in SUBSET Paths
    /\ dir \/ \A p \in Paths : models[p] = Absent
    /\ \A s \in Sessions : Fit(s, pc[s], job[s])
    /\ \A p \in Paths \ met : PathIsSafe(p)

\* What session s's job and place say of models m, landed models l and texts a of
\* analysts' own, in an undisturbed folder.
SessionIsSound(s, at, j, m, l, a) ==
    /\ Fit(s, at, j)
    /\ InHand(at, j) => Stands(j.to, l \cup {j.path})
    /\ at \in {"mkdir", "model", "unlink"} => j.path \notin l
    /\ at \in {"mkdir", "model"} => m[j.path] = Absent
    /\ at = "manifest" /\ j.path # None => j.path \notin l /\ m[j.path] = j.text
    /\ at = "rmdir" => m[j.path] # j.text
    /\ at = "rewrite" => j.path \in l /\ a[j.path] = None

RecInv ==
    /\ Types /\ FolderIsSound
    /\ \A s \in Sessions : SessionIsSound(s, pc[s], job[s], models, landed, authored)

-----------------------------------------------------------------------------
(* Documents. *)

\* ProtocolSpec's documents, and those its proofs speak of, are the same.
LEMMA SameDocuments ==
    /\ P!Documents = PP!Documents
    /\ \A doc : P!Cited(doc) = PP!Cited(doc) /\ P!Edited(doc) = PP!Edited(doc)
                /\ P!Deleted(doc) = PP!Deleted(doc)
BY DEF P!Documents, PP!Documents, P!Step, PP!Step, P!Cited, PP!Cited, P!Edited, PP!Edited,
       P!Renamed, PP!Renamed, P!Deleted, PP!Deleted, P!Swapped, PP!Swapped,
       P!RemoveAt, PP!RemoveAt

LEMMA StepsOfDocument ==
    ASSUME NEW doc \in P!Documents
    PROVE  /\ Len(doc) \in Nat /\ DOMAIN doc = 1..Len(doc)
           /\ \A i \in DOMAIN doc : doc[i] \in P!Step
<1>1. doc \in Seq(P!Step)
  BY DEF P!Documents
<1>2. Len(doc) \in Nat /\ DOMAIN doc = 1..Len(doc)
  BY <1>1, LenProperties
<1> QED BY <1>1, <1>2, ElementOfSeq

LEMMA EmptyStands ==
    ASSUME NEW there
    PROVE  Stands(<< >>, there)
<1>1. << >> \in P!Documents /\ DOMAIN << >> = {}
  BY EmptySeq DEF P!Documents
<1> QED BY <1>1 DEF Stands, Unique, Apart, P!Cited

LEMMA MoreStands ==
    ASSUME NEW doc, NEW there, NEW more, Stands(doc, there), there \subseteq more
    PROVE  Stands(doc, more)
BY DEF Stands

\* A new step with a new name and a model no other step cites.
LEMMA AppendStands ==
    ASSUME NEW doc, NEW there, Stands(doc, there),
           NEW n \in Names, ~HasName(doc, n),
           NEW p \in Paths \cup {None}, p # None => p \notin there
    PROVE  Stands(Append(doc, [name |-> n, model |-> p]), there \cup {p})
<1> DEFINE step == [name |-> n, model |-> p]
           longer == Append(doc, step)
<1>1. step \in P!Step /\ doc \in Seq(P!Step)
  BY DEF P!Step, Stands, P!Documents
<1>2. /\ longer \in P!Documents /\ Len(longer) = Len(doc) + 1
      /\ \A i \in 1..Len(doc) : longer[i] = doc[i]
      /\ longer[Len(doc) + 1] = step
  BY <1>1, AppendProperties DEF P!Documents
<1>3. /\ Len(doc) \in Nat /\ DOMAIN doc = 1..Len(doc)
      /\ DOMAIN longer = 1..(Len(doc) + 1)
  BY <1>2, StepsOfDocument DEF Stands
<1> HIDE DEF longer
<1>4. ASSUME NEW i \in DOMAIN longer
      PROVE  \/ i \in DOMAIN doc /\ longer[i] = doc[i]
             \/ i = Len(doc) + 1 /\ longer[i] = step
  BY <1>2, <1>3
<1>5. \A i \in DOMAIN doc : doc[i].name # n /\ (p # None => doc[i].model # p)
  BY <1>3 DEF Stands, HasName, P!Cited
<1>6. Unique(longer)
  BY <1>4, <1>5 DEF Unique, Stands
<1>7. Apart(longer)
  BY <1>4, <1>5 DEF Apart, Stands
<1>8. P!Cited(longer) \subseteq there \cup {p}
  BY <1>4 DEF P!Cited, Stands
<1> QED BY <1>2, <1>6, <1>7, <1>8 DEF Stands, longer

\* Neither an edit nor a deletion makes two steps cite one model, or one step cite
\* what no step did.
LEMMA EditedStands ==
    ASSUME NEW doc, NEW there, Stands(doc, there), NEW other \in P!Edited(doc), Unique(other)
    PROVE  Stands(other, there)
<1>1. doc \in PP!Documents /\ other \in PP!Edited(doc)
  BY SameDocuments DEF Stands
<1>2. PICK at : PP!Keeps(other, doc, at)
  BY <1>1, PP!EditedKeeps
<1>3. other \in P!Documents
  BY <1>1, PP!EditedKeeps, SameDocuments
<1>4. Apart(other)
  BY <1>2 DEF PP!Keeps, Apart, Stands
<1>5. P!Cited(other) \subseteq there
  BY <1>2 DEF PP!Keeps, P!Cited, Stands
<1> QED BY <1>3, <1>4, <1>5 DEF Stands

LEMMA DeletedStands ==
    ASSUME NEW doc, NEW there, Stands(doc, there), NEW other \in P!Deleted(doc)
    PROVE  Stands(other, there)
<1>1. doc \in PP!Documents /\ other \in PP!Deleted(doc) /\ other \in P!Edited(doc)
  BY SameDocuments DEF Stands, P!Edited
<1>2. PICK at : PP!Keeps(other, doc, at) /\ \A i \in DOMAIN other : other[i] = doc[at[i]]
  BY <1>1, PP!DeletedKeeps
<1>3. Unique(other)
  BY <1>2 DEF PP!Keeps, Unique, Stands
<1> QED BY <1>1, <1>3, EditedStands

-----------------------------------------------------------------------------
(* Numbers and jobs. *)

LEMMA MaxIsThere ==
    ASSUME NEW N \in Nat, NEW S, S \subseteq 0..N, S # {}
    PROVE  Max(S) \in S
<1> DEFINE T == {N - x : x \in S}
           R == {ss \in Nat \X Nat : ss[1] < ss[2]}
<1>1. T \subseteq Nat /\ T # {}
  <2>1. \A x \in S : N - x \in Nat
    OBVIOUS
  <2>2. PICK x \in S : TRUE
    OBVIOUS
  <2>3. N - x \in T
    OBVIOUS
  <2> QED BY <2>1, <2>3
<1>2. IsWellFoundedOn(R, Nat)
  BY NatLessThanWellFounded DEF OpToRel
<1>3. \A x, y \in Nat : y < x => <<y, x>> \in R
  OBVIOUS
<1> HIDE DEF T, R
<1>4. PICK low \in T : \A y \in T : ~ (<<y, low>> \in R)
  BY <1>1, <1>2, WFMin
<1>5. \A y \in T : ~ (y < low)
  BY <1>1, <1>3, <1>4
<1>6. PICK top \in S : low = N - top
  BY DEF T
<1>7. \A y \in S : top >= y
  <2> SUFFICES ASSUME NEW y \in S PROVE top >= y
    OBVIOUS
  <2>1. ~ (N - y < N - top)
    BY <1>5, <1>6 DEF T
  <2> QED BY <2>1
<1> QED BY <1>7 DEF Max

LEMMA ModelPathIsPath ==
    ASSUME Types, NEW n \in Names
    PROVE  ModelPath(n) \in Paths
<1>1. Width \in Nat /\ Width > 1 /\ Slug[n] \in Slugs
  BY RecordingAssumption
<1> DEFINE S == {0} \cup {p[1] : p \in Present}
<1>2. S \subseteq 0..(Width - 1) /\ S # {}
  BY <1>1 DEF Present, Paths
<1> HIDE DEF S
<1>3. Max(S) \in 0..(Width - 1)
  <2>1. Width - 1 \in Nat
    BY <1>1
  <2> QED BY <1>2, <2>1, MaxIsThere
<1>4. next_model_number = (Max(S) + 1) % Width
  BY DEF next_model_number, S
<1>5. (Max(S) + 1) % Width \in 0..(Width - 1)
  BY <1>1, <1>3
<1> QED BY <1>1, <1>4, <1>5 DEF ModelPath, Paths

LEMMA JobFacts ==
    ASSUME NEW j \in Jobs
    PROVE  /\ j # None
           /\ j.road \in Roads /\ j.name \in Names \cup {None} /\ j.to \in P!Documents
           /\ j.path \in Paths \cup {None} /\ j.text \in Texts \cup {None}
           /\ j.made \in BOOLEAN
BY NothingIsApart DEF Jobs

LEMMA JobIsJob ==
    ASSUME NEW road \in Roads, NEW n \in Names \cup {None}, NEW to \in P!Documents,
           NEW path \in Paths \cup {None}, NEW text \in Texts \cup {None}
    PROVE  /\ Job(road, to, path, text) \in Jobs
           /\ [Job(road, to, path, text) EXCEPT !.name = n] \in Jobs
BY DEF Job, Jobs

\* A session at work has a job.
LEMMA AtWork ==
    ASSUME RecInv, NEW s \in Sessions, pc[s] # "idle"
    PROVE  job[s] \in Jobs
<1>1. job[s] \in Jobs \cup {None} /\ Fit(s, pc[s], job[s])
  BY DEF RecInv, Types, SessionIsSound
<1> QED BY <1>1 DEF Fit

LEMMA NamesAreNames ==
    ASSUME NEW s \in Sessions, NEW n \in NamesOf[s]
    PROVE  n \in Names
BY RecordingAssumption

LEMMA TextsAreTexts == {"generated", "amended", "analyst", "typed"} = Texts
BY DEF Texts

-----------------------------------------------------------------------------
(* What holds whatever happens. *)

\* A path somebody came to stays one.
LEMMA MetGrows ==
    ASSUME [Next]_vars
    PROVE  met \subseteq met'
<1>1. ASSUME NEW s \in Sessions, NEW place, NEW j, Enter(s, place, j)
      PROVE  met \subseteq met'
  BY <1>1 DEF Enter, Meets
<1>2. ASSUME NEW s \in Sessions, Call(s) \/ Kill(s)
      PROVE  met \subseteq met'
  <2>1. ASSUME NEW n, \/ AskOperation(s, n) \/ AskSql(s, n) \/ AskOperator(s, n)
        PROVE  met \subseteq met'
    BY <1>1, <2>1 DEF AskOperation, AskSql, AskStep, AskOperator
  <2>2. CASE AskEdit(s) \/ AskCreate(s) \/ AskAmend(s)
    BY <1>1, <2>2 DEF AskEdit, AskCreate, AskAmend
  <2>3. CASE Splice(s)
    BY <2>3 DEF Splice, Meets
  <2>4. ASSUME NEW n, Refused(s, n) PROVE met \subseteq met'
    BY <2>4 DEF Refused, ghosts
  <2>5. CASE Checkpoint(s) \/ MakeDir(s) \/ WriteModel(s) \/ WriteManifest(s)
    BY <2>5 DEF Checkpoint, MakeDir, WriteModel, WriteManifest, ghosts
  <2>6. CASE RemoveModel(s) \/ RemoveDir(s) \/ Rewrite(s) \/ Kill(s)
    BY <2>6 DEF RemoveModel, RemoveDir, Rewrite, Kill, ghosts
  <2> QED BY <1>2, <2>1, <2>2, <2>3, <2>4, <2>5, <2>6 DEF Call
<1>3. ASSUME NEW p \in Paths, PersonTypes(p) \/ PersonRemoves(p)
      PROVE  met \subseteq met'
  BY <1>3 DEF PersonTypes, PersonRemoves, Meets
<1>4. CASE PersonEdits \/ UNCHANGED vars
  BY <1>4 DEF PersonEdits, vars, ghosts
<1> QED BY <1>2, <1>3, <1>4 DEF Next

\* HandsOff after a step of session s, from what is to be said of s and of the paths.
LEMMA OneGoesOn ==
    ASSUME HandsOff, NEW s \in Sessions, NEW at \in Places, NEW j \in Jobs \cup {None},
           pc' = [pc EXCEPT ![s] = at], job' = [job EXCEPT ![s] = j],
           told' \in [Sessions -> {"nothing", "ok", "failed"}],
           steps' \in P!Documents \cup {Absent}, models' \in [Paths -> Texts \cup {Absent}],
           dir' \in BOOLEAN, landed' \in SUBSET Paths, removed' \in SUBSET Paths,
           authored' \in [Paths -> {None, "analyst", "typed"}], met' \in SUBSET Paths,
           dir' \/ \A p \in Paths : models'[p] = Absent,
           Fit(s, at, j), \A p \in Paths \ met' : PathIsSafe(p)'
    PROVE  HandsOff'
<1>1. Types'
  BY DEF HandsOff, Types
<1>2. ASSUME NEW t \in Sessions
      PROVE  Fit(t, pc'[t], job'[t])
  <2>1. t # s => pc'[t] = pc[t] /\ job'[t] = job[t]
    BY DEF HandsOff, Types
  <2>2. pc'[s] = at /\ job'[s] = j
    BY DEF HandsOff, Types
  <2>3. CASE t = s
    BY <2>2, <2>3
  <2>4. CASE t # s
    <3>1. Fit(t, pc[t], job[t])
      BY DEF HandsOff
    <3> QED BY <2>1, <2>4, <3>1
  <2> QED BY <2>3, <2>4
<1> QED BY <1>1, <1>2 DEF HandsOff

\* The sessions at p after a step of s that leaves what is at p: the others', and s.
LEMMA StaysSafe ==
    ASSUME Types, NEW s \in Sessions, NEW at, NEW j, NEW p \in Paths, PathIsSafe(p),
           pc' = [pc EXCEPT ![s] = at], job' = [job EXCEPT ![s] = j],
           models'[p] = models[p], authored'[p] = authored[p],
           Guards(at, j, p, models[p], authored[p]),
           Records(at, j, p) =>
             \/ Records(pc[s], job[s], p)
             \/ \A t \in Sessions \ {s} :
                  ~Records(pc[t], job[t], p) /\ ~Rewrites(pc[t], job[t], p),
           Rewrites(at, j, p) =>
             \A t \in Sessions \ {s} : ~Records(pc[t], job[t], p)
    PROVE  PathIsSafe(p)'
<1>1. pc'[s] = at /\ job'[s] = j
  BY DEF Types
<1>2. \A t \in Sessions \ {s} : pc'[t] = pc[t] /\ job'[t] = job[t]
  BY DEF Types
<1>3. ASSUME NEW t \in Sessions
      PROVE  Guards(pc'[t], job'[t], p, models'[p], authored'[p])
  BY <1>1, <1>2 DEF PathIsSafe
<1>4. ASSUME NEW t \in Sessions, NEW u \in Sessions, t # u, Records(pc'[t], job'[t], p)
      PROVE  ~Records(pc'[u], job'[u], p) /\ ~Rewrites(pc'[u], job'[u], p)
  <2>1. CASE t = s
    <3>1. Records(at, j, p) /\ pc'[u] = pc[u] /\ job'[u] = job[u] /\ u \in Sessions \ {s}
      BY <1>1, <1>2, <1>4, <2>1
    <3> QED BY <1>4, <2>1, <3>1 DEF PathIsSafe
  <2>2. CASE u = s
    <3>1. Records(pc[t], job[t], p) /\ t \in Sessions \ {s}
      BY <1>2, <1>4, <2>2
    <3>2. ~Records(pc[s], job[s], p)
      BY <3>1 DEF PathIsSafe
    <3> QED BY <1>1, <2>2, <3>1, <3>2
  <2>3. CASE t # s /\ u # s
    BY <1>2, <1>4, <2>3 DEF PathIsSafe
  <2> QED BY <2>1, <2>2, <2>3
<1> QED BY <1>3, <1>4 DEF PathIsSafe

\* A step that leaves models and texts, and takes up no path.
LEMMA GoesOnQuietly ==
    ASSUME HandsOff, NEW s \in Sessions, NEW at \in Places, NEW j \in Jobs \cup {None},
           pc' = [pc EXCEPT ![s] = at], job' = [job EXCEPT ![s] = j],
           told' \in [Sessions -> {"nothing", "ok", "failed"}],
           UNCHANGED <<steps, models, ghosts>>, dir' \in BOOLEAN,
           dir' \/ \A p \in Paths : models[p] = Absent,
           Fit(s, at, j),
           \A p \in Paths : ~Rewrites(at, j, p) /\
             (Records(at, j, p) =>
                /\ Records(pc[s], job[s], p) /\ j.text = job[s].text
                /\ at \in {"mkdir", "model"} => pc[s] \in {"mkdir", "model"}
                /\ at # "manifest")
    PROVE  HandsOff'
<1>1. UNCHANGED <<models, authored, met>>
  BY DEF ghosts
<1>2. ASSUME NEW p \in Paths \ met'
      PROVE  PathIsSafe(p)'
  <2>1. PathIsSafe(p) /\ Types /\ p \in Paths
    BY <1>1 DEF HandsOff
  <2>2. Guards(pc[s], job[s], p, models[p], authored[p])
    BY <2>1 DEF PathIsSafe
  <2>3. Guards(at, j, p, models[p], authored[p])
    BY <2>2, <2>1 DEF Guards, Records, Rewrites
  <2> QED BY <1>1, <2>1, <2>3, StaysSafe
<1>3. /\ steps' \in P!Documents \cup {Absent} /\ models' \in [Paths -> Texts \cup {Absent}]
      /\ landed' \in SUBSET Paths /\ removed' \in SUBSET Paths /\ met' \in SUBSET Paths
      /\ authored' \in [Paths -> {None, "analyst", "typed"}]
  BY DEF HandsOff, Types, ghosts
<1> QED BY <1>1, <1>2, <1>3, OneGoesOn

LEMMA EndsQuietly ==
    ASSUME HandsOff, NEW s \in Sessions, NEW outcome \in {"nothing", "ok", "failed"},
           End(s, outcome), UNCHANGED <<steps, models, ghosts>>, dir' \in BOOLEAN,
           dir' \/ \A p \in Paths : models[p] = Absent
    PROVE  HandsOff'
<1>1. told' \in [Sessions -> {"nothing", "ok", "failed"}]
  BY DEF End, HandsOff, Types
<1>2. pc' = [pc EXCEPT ![s] = "idle"] /\ job' = [job EXCEPT ![s] = None] /\ "idle" \in Places
  BY DEF End, Go, Places
<1>3. Fit(s, "idle", None)
  BY DEF Fit
<1>4. \A p \in Paths : ~Rewrites("idle", None, p) /\ ~Records("idle", None, p)
  BY DEF Rewrites, Records
<1> QED BY <1>1, <1>2, <1>3, <1>4, GoesOnQuietly

\* A manifest may gain a step that no step has the name of, be edited, or lose a step.
LEMMA StaysDocument ==
    ASSUME NEW doc \in P!Documents
    PROVE  /\ \A n \in Names : \A p \in Paths \cup {None} :
                Append(doc, [name |-> n, model |-> p]) \in P!Documents
           /\ P!Edited(doc) \subseteq P!Documents /\ P!Deleted(doc) \subseteq P!Documents
<1>1. ASSUME NEW n \in Names, NEW p \in Paths \cup {None}
      PROVE  Append(doc, [name |-> n, model |-> p]) \in P!Documents
  <2>1. [name |-> n, model |-> p] \in P!Step /\ doc \in Seq(P!Step)
    BY DEF P!Step, P!Documents
  <2> QED BY <2>1, AppendProperties DEF P!Documents
<1>2. P!Edited(doc) \subseteq P!Documents
  <2> SUFFICES ASSUME NEW other \in P!Edited(doc) PROVE other \in P!Documents
    OBVIOUS
  <2>1. doc \in PP!Documents /\ other \in PP!Edited(doc)
    BY SameDocuments
  <2> QED BY <2>1, PP!EditedKeeps, SameDocuments
<1>3. P!Deleted(doc) \subseteq P!Edited(doc)
  BY DEF P!Edited
<1> QED BY <1>1, <1>2, <1>3

\* Every call but an amendment begins with a job that is fit, and at no path.
LEMMA AsksFit ==
    ASSUME Types, NEW s \in Sessions,
           \/ \E n \in NamesOf[s] : AskOperation(s, n) \/ AskSql(s, n) \/ AskOperator(s, n)
           \/ AskEdit(s) \/ AskCreate(s)
    PROVE  \E place \in {"checkpoint", "manifest"}, j \in Jobs :
             Enter(s, place, j) /\ Fit(s, place, j) /\ j.path = None
<1>1. << >> \in P!Documents
  BY EmptyStands DEF Stands
<1>2. ASSUME NEW n \in NamesOf[s], AskOperation(s, n) \/ AskSql(s, n)
      PROVE  \E j \in Jobs : Enter(s, "checkpoint", j) /\ Fit(s, "checkpoint", j) /\ j.path = None
  <2>1. PICK text \in {"generated", "analyst"} : AskStep(s, n, text)
    BY <1>2 DEF AskOperation, AskSql
  <2> DEFINE j == [Job("step", << >>, None, text) EXCEPT !.name = n]
  <2>2. text \in Texts /\ n \in Names /\ "step" \in Roads
    BY NamesAreNames, TextsAreTexts DEF Roads
  <2>3. j \in Jobs
    BY <1>1, <2>2, JobIsJob
  <2>4. j.road = "step" /\ j.name = n /\ j.path = None /\ j.text = text
    BY DEF Job
  <2>5. Enter(s, "checkpoint", j)
    BY <2>1 DEF AskStep
  <2> HIDE DEF j
  <2>6. Fit(s, "checkpoint", j)
    BY <2>3, <2>4, JobFacts DEF Fit
  <2> QED BY <2>3, <2>4, <2>5, <2>6
<1>3. ASSUME NEW n \in NamesOf[s], AskOperator(s, n)
      PROVE  \E j \in Jobs : Enter(s, "checkpoint", j) /\ Fit(s, "checkpoint", j) /\ j.path = None
  <2> DEFINE doc == Append(steps, [name |-> n, model |-> None])
             j == Job("operator", doc, None, None)
  <2>1. doc \in P!Documents
    BY <1>3, NamesAreNames, StaysDocument DEF AskOperator, Types
  <2>2. Enter(s, "checkpoint", j)
    BY <1>3 DEF AskOperator
  <2> HIDE DEF doc
  <2>3. j \in Jobs
    BY <2>1, JobIsJob DEF Roads
  <2>4. j.road = "operator" /\ j.path = None /\ j.text = None
    BY DEF Job
  <2> HIDE DEF j
  <2>5. Fit(s, "checkpoint", j)
    BY <2>3, <2>4, JobFacts DEF Fit
  <2> QED BY <2>2, <2>3, <2>4, <2>5
<1>4. CASE AskEdit(s)
  <2>1. PICK doc \in P!Edited(steps) : Enter(s, "checkpoint", Job("edit", doc, None, None))
    BY <1>4 DEF AskEdit
  <2> DEFINE j == Job("edit", doc, None, None)
  <2>2. doc \in P!Documents
    BY <1>4, StaysDocument DEF AskEdit, Types
  <2>3. j \in Jobs
    BY <2>2, JobIsJob DEF Roads
  <2>4. j.road = "edit" /\ j.path = None /\ j.text = None
    BY DEF Job
  <2>5. Enter(s, "checkpoint", j)
    BY <2>1
  <2> HIDE DEF j
  <2>6. Fit(s, "checkpoint", j)
    BY <2>3, <2>4, JobFacts DEF Fit
  <2> QED BY <2>3, <2>4, <2>5, <2>6
<1>5. CASE AskCreate(s)
  <2> DEFINE j == Job("create", << >>, None, None)
  <2>1. j \in Jobs
    BY <1>1, JobIsJob DEF Roads
  <2>2. j.path = None /\ j.text = None
    BY DEF Job
  <2>3. Enter(s, "manifest", j)
    BY <1>5 DEF AskCreate
  <2> HIDE DEF j
  <2>4. Fit(s, "manifest", j)
    BY <2>1, <2>2, JobFacts DEF Fit
  <2> QED BY <2>1, <2>2, <2>3, <2>4
<1> QED BY <1>2, <1>3, <1>4, <1>5

LEMMA AsksLayNoHands ==
    ASSUME HandsOff, NEW s \in Sessions,
           \/ \E n \in NamesOf[s] : AskOperation(s, n) \/ AskSql(s, n) \/ AskOperator(s, n)
           \/ AskEdit(s) \/ AskCreate(s)
    PROVE  HandsOff'
<1>1. PICK place \in {"checkpoint", "manifest"}, j \in Jobs :
        Enter(s, place, j) /\ Fit(s, place, j) /\ j.path = None
  BY AsksFit DEF HandsOff
<1>2. /\ pc' = [pc EXCEPT ![s] = place] /\ job' = [job EXCEPT ![s] = j] /\ dir' = dir
      /\ told' \in [Sessions -> {"nothing", "ok", "failed"}]
      /\ UNCHANGED <<steps, models, ghosts>>
  BY <1>1 DEF Enter, Go, Meets, folder, ghosts, HandsOff, Types
<1>3. \A p \in Paths : ~Rewrites(place, j, p) /\ ~Records(place, j, p)
  BY <1>1, NothingIsApart DEF Rewrites, Records
<1>4. dir \in BOOLEAN /\ (dir \/ \A p \in Paths : models[p] = Absent)
  BY DEF HandsOff, Types
<1>5. place \in Places /\ j \in Jobs \cup {None}
  BY DEF Places
<1> QED BY <1>1, <1>2, <1>3, <1>4, <1>5, GoesOnQuietly

\* A text that may be amended has the marker, so it is no analyst's own; and if somebody
\* is recording it, its path is met.
LEMMA AmendLaysNoHands ==
    ASSUME HandsOff, NEW s \in Sessions, AskAmend(s)
    PROVE  HandsOff'
<1>1. PICK q \in P!Cited(steps) :
         /\ models[q] # Absent /\ sql_is_generated(models[q])
         /\ Enter(s, "rewrite", Job("amend", << >>, q, "amended"))
  BY DEF AskAmend
<1> DEFINE j == Job("amend", << >>, q, "amended")
<1>2. q \in Paths
  <2>1. steps \in P!Documents
    BY DEF AskAmend, HandsOff, Types
  <2>2. PICK i \in DOMAIN steps : steps[i].model = q /\ q # None
    BY <1>1 DEF P!Cited
  <2>3. steps[i] \in P!Step
    BY <2>1, StepsOfDocument
  <2> QED BY <2>2, <2>3 DEF P!Step
<1>3. j \in Jobs
  <2>1. << >> \in P!Documents /\ "amended" \in Texts
    BY EmptyStands, TextsAreTexts DEF Stands
  <2> QED BY <1>2, <2>1, JobIsJob DEF Roads
<1>4. j.road = "amend" /\ j.path = q /\ j.text = "amended" /\ q # None
  BY <1>2, NothingIsApart DEF Job
<1>5. Enter(s, "rewrite", j)
  BY <1>1
<1> HIDE DEF j
<1>6. Fit(s, "rewrite", j)
  BY <1>2, <1>3, <1>4, JobFacts DEF Fit
<1>7. /\ pc' = [pc EXCEPT ![s] = "rewrite"] /\ job' = [job EXCEPT ![s] = j] /\ dir' = dir
      /\ told' \in [Sessions -> {"nothing", "ok", "failed"}]
      /\ UNCHANGED <<steps, models, landed, authored, removed>>
      /\ met' = IF Recorded(q) THEN met \cup {q} ELSE met
  BY <1>4, <1>5 DEF Enter, Go, Meets, folder, HandsOff, Types
<1>8. ASSUME NEW p \in Paths \ met'
      PROVE  PathIsSafe(p)'
  <2>1. PathIsSafe(p) /\ Types /\ p \in Paths
    BY <1>7 DEF HandsOff
  <2>2. p = q => ~Recorded(p)
    BY <1>7
  <2>3. p = q => authored[p] = None
    <3>1. authored[p] # None => authored[p] \in {"analyst", "typed"} /\ models[p] = authored[p]
      BY <2>1 DEF PathIsSafe, Types
    <3> QED BY <1>1, <3>1 DEF sql_is_generated
  <2>4. Guards("rewrite", j, p, models[p], authored[p])
    BY <1>4, <2>3 DEF Guards, Records, Rewrites
  <2>5. ~Records("rewrite", j, p)
    BY DEF Records
  <2>6. Rewrites("rewrite", j, p) => \A t \in Sessions \ {s} : ~Records(pc[t], job[t], p)
    BY <1>4, <2>2 DEF Rewrites, Records, Recorded
  <2> QED BY <1>7, <2>1, <2>4, <2>5, <2>6, StaysSafe
<1>9. /\ steps' \in P!Documents \cup {Absent} /\ models' \in [Paths -> Texts \cup {Absent}]
      /\ landed' \in SUBSET Paths /\ removed' \in SUBSET Paths /\ met' \in SUBSET Paths
      /\ authored' \in [Paths -> {None, "analyst", "typed"}] /\ dir' \in BOOLEAN
      /\ dir' \/ \A p \in Paths : models'[p] = Absent
  BY <1>2, <1>7 DEF HandsOff, Types
<1>10. "rewrite" \in Places /\ j \in Jobs \cup {None}
  BY <1>3 DEF Places
<1> QED BY <1>6, <1>7, <1>8, <1>9, <1>10, OneGoesOn

LEMMA CheckpointLaysNoHands ==
    ASSUME HandsOff, NEW s \in Sessions, Checkpoint(s)
    PROVE  HandsOff'
<1>1. /\ pc[s] = "checkpoint" /\ Fit(s, pc[s], job[s]) /\ job[s] \in Jobs
      /\ UNCHANGED <<steps, models, dir, ghosts>>
      /\ dir \in BOOLEAN /\ (dir \/ \A p \in Paths : models[p] = Absent)
  BY DEF Checkpoint, At, folder, HandsOff, Types, Fit
<1>2. CASE End(s, "nothing")
  BY <1>1, <1>2, EndsQuietly
<1>3. CASE Go(s, IF job[s].road = "step" THEN "splice" ELSE "manifest") /\ UNCHANGED <<job, told>>
  <2> DEFINE at == IF job[s].road = "step" THEN "splice" ELSE "manifest"
  <2>1. /\ pc' = [pc EXCEPT ![s] = at] /\ at \in {"splice", "manifest"} /\ at \in Places
        /\ job' = [job EXCEPT ![s] = job[s]]
        /\ told' \in [Sessions -> {"nothing", "ok", "failed"}]
    BY <1>3 DEF Go, Places, HandsOff, Types
  <2>2. Fit(s, at, job[s]) /\ job[s].path = None
    BY <1>1, JobFacts DEF Fit
  <2> HIDE DEF at
  <2>3. \A p \in Paths : ~Rewrites(at, job[s], p) /\ ~Records(at, job[s], p)
    BY <2>1, <2>2, NothingIsApart DEF Rewrites, Records
  <2> QED BY <1>1, <2>1, <2>2, <2>3, GoesOnQuietly
<1> QED BY <1>2, <1>3 DEF Checkpoint

\* A path a model gets holds nothing, so no text of an analyst's own either; and if
\* somebody is at work there, it is met.
LEMMA SpliceLaysNoHands ==
    ASSUME HandsOff, NEW s \in Sessions, Splice(s)
    PROVE  HandsOff'
<1>1. /\ pc[s] = "splice" /\ Fit(s, pc[s], job[s]) /\ job[s] \in Jobs
      /\ UNCHANGED <<steps, models, dir, landed, authored, removed>>
      /\ dir \in BOOLEAN /\ (dir \/ \A p \in Paths : models[p] = Absent)
  BY DEF Splice, At, folder, HandsOff, Types, Fit
<1>2. CASE End(s, "nothing") /\ UNCHANGED met
  BY <1>1, <1>2, EndsQuietly DEF ghosts
<1>3. CASE ~(End(s, "nothing") /\ UNCHANGED met)
  <2> DEFINE n == job[s].name
             q == ModelPath(n)
             doc == Append(steps, [name |-> n, model |-> q])
             j == [job[s] EXCEPT !.path = q, !.to = doc]
  <2>1. /\ job[s].road = "step" /\ n \in Names /\ job[s].text \in {"generated", "analyst"}
    BY <1>1, NamesAreNames DEF Fit
  <2>2. /\ steps # Absent /\ models[q] = Absent
        /\ job' = [job EXCEPT ![s].path = q, ![s].to = doc]
        /\ Meets(q, Watched(q)) /\ Go(s, "mkdir") /\ UNCHANGED told
    BY <1>3 DEF Splice
  <2>3. q \in Paths
    BY <2>1, ModelPathIsPath DEF HandsOff
  <2> HIDE DEF q
  <2>4. doc \in P!Documents
    BY <2>1, <2>2, <2>3, StaysDocument DEF HandsOff, Types
  <2> HIDE DEF doc
  <2>5. j \in Jobs /\ j.road = "step" /\ j.path = q /\ j.text = job[s].text
    BY <1>1, <2>1, <2>3, <2>4 DEF Jobs
  <2>6. job' = [job EXCEPT ![s] = j] /\ pc' = [pc EXCEPT ![s] = "mkdir"]
    BY <1>1, <2>2 DEF HandsOff, Types, Jobs, Go
  <2> HIDE DEF j
  <2>7. Fit(s, "mkdir", j)
    BY <2>1, <2>3, <2>5, JobFacts DEF Fit, WritesOwn
  <2>8. ASSUME NEW p \in Paths \ met'
        PROVE  PathIsSafe(p)'
    <3>1. PathIsSafe(p) /\ Types /\ p \in Paths
      BY <2>2 DEF HandsOff, Meets
    <3>2. p = q => ~Watched(p)
      BY <2>2 DEF Meets
    <3>3. p = q => models[p] = Absent /\ authored[p] = None
      <4>1. authored[p] # None => authored[p] \in Texts /\ models[p] = authored[p]
        BY <3>1, TextsAreTexts DEF PathIsSafe, Types
      <4> QED BY <2>2, <4>1, NothingIsApart
    <3>4. Guards("mkdir", j, p, models[p], authored[p])
      BY <2>5, <3>3 DEF Guards, Records, Rewrites
    <3>5. ~Rewrites("mkdir", j, p)
      BY DEF Rewrites
    <3>6. Records("mkdir", j, p) =>
            \A t \in Sessions \ {s} : ~Records(pc[t], job[t], p) /\ ~Rewrites(pc[t], job[t], p)
      BY <2>5, <3>2 DEF Rewrites, Records, Watched, Recorded
    <3> QED BY <1>1, <2>6, <3>1, <3>4, <3>5, <3>6, StaysSafe
  <2>9. /\ steps' \in P!Documents \cup {Absent} /\ models' \in [Paths -> Texts \cup {Absent}]
        /\ landed' \in SUBSET Paths /\ removed' \in SUBSET Paths /\ met' \in SUBSET Paths
        /\ authored' \in [Paths -> {None, "analyst", "typed"}] /\ dir' \in BOOLEAN
        /\ told' \in [Sessions -> {"nothing", "ok", "failed"}]
        /\ dir' \/ \A p \in Paths : models'[p] = Absent
    BY <1>1, <2>2, <2>3 DEF HandsOff, Types, Meets
  <2>10. "mkdir" \in Places /\ j \in Jobs \cup {None}
    BY <2>5 DEF Places
  <2> QED BY <2>6, <2>7, <2>8, <2>9, <2>10, OneGoesOn
<1> QED BY <1>2, <1>3

\* What is to be said of a session at work on a path.
LEMMA AtPath ==
    ASSUME HandsOff, NEW s \in Sessions, NEW p \in Paths \ met
    PROVE  /\ PathIsSafe(p) /\ Guards(pc[s], job[s], p, models[p], authored[p])
           /\ Records(pc[s], job[s], p) =>
                \A t \in Sessions \ {s} :
                  ~Records(pc[t], job[t], p) /\ ~Rewrites(pc[t], job[t], p)
BY DEF HandsOff, PathIsSafe

LEMMA MakeDirLaysNoHands ==
    ASSUME HandsOff, NEW s \in Sessions, MakeDir(s)
    PROVE  HandsOff'
<1>1. /\ pc[s] = "mkdir" /\ Fit(s, pc[s], job[s]) /\ job[s] \in Jobs
      /\ UNCHANGED <<steps, models, ghosts>>
      /\ dir \in BOOLEAN /\ (dir \/ \A p \in Paths : models[p] = Absent)
  BY DEF MakeDir, At, HandsOff, Types, Fit
<1>2. CASE End(s, "failed") /\ UNCHANGED dir
  BY <1>1, <1>2, EndsQuietly
<1>3. CASE /\ dir' = TRUE /\ job' = [job EXCEPT ![s].made = ~dir]
           /\ Go(s, "model") /\ UNCHANGED told
  <2> DEFINE j == [job[s] EXCEPT !.made = ~dir]
  <2>1. /\ j \in Jobs /\ j.road = job[s].road /\ j.path = job[s].path /\ j.text = job[s].text
    BY <1>1 DEF Jobs
  <2>2. job' = [job EXCEPT ![s] = j] /\ pc' = [pc EXCEPT ![s] = "model"]
    BY <1>1, <1>3 DEF HandsOff, Types, Jobs, Go
  <2> HIDE DEF j
  <2>3. Fit(s, "model", j)
    BY <1>1, <2>1, JobFacts DEF Fit, WritesOwn
  <2>4. \A p \in Paths : ~Rewrites("model", j, p) /\
          (Records("model", j, p) => Records(pc[s], job[s], p))
    BY <1>1, <2>1 DEF Rewrites, Records
  <2>5. told' \in [Sessions -> {"nothing", "ok", "failed"}]
    BY <1>3 DEF HandsOff, Types
  <2> QED BY <1>1, <1>3, <2>1, <2>2, <2>3, <2>4, <2>5, GoesOnQuietly DEF Places
<1> QED BY <1>2, <1>3 DEF MakeDir

\* What is written over a path that nobody else is at, or taken from it.
LEMMA WritesAtPath ==
    ASSUME HandsOff, NEW s \in Sessions, NEW at \in Places, NEW j \in Jobs \cup {None},
           pc' = [pc EXCEPT ![s] = at], job' = [job EXCEPT ![s] = j],
           told' \in [Sessions -> {"nothing", "ok", "failed"}],
           UNCHANGED <<steps, dir, ghosts>>, NEW text \in Texts \cup {Absent},
           models' = [models EXCEPT ![job[s].path] = text],
           dir \/ text = Absent, job[s].path \in Paths,
           Records(pc[s], job[s], job[s].path) \/ Rewrites(pc[s], job[s], job[s].path),
           Fit(s, at, j),
           at = "idle" \/
             /\ Records(pc[s], job[s], job[s].path) /\ at \in {"manifest", "rmdir"}
             /\ j = job[s] /\ (at = "manifest" => text = j.text)
    PROVE  HandsOff'
<1> DEFINE q == job[s].path
<1>1. UNCHANGED <<steps, dir, landed, authored, removed, met>>
  BY DEF ghosts
<1>2. /\ models' \in [Paths -> Texts \cup {Absent}] /\ models'[q] = text
      /\ \A p \in Paths : p # q => models'[p] = models[p]
  BY DEF HandsOff, Types
<1>3. dir' \/ \A p \in Paths : models'[p] = Absent
  BY <1>1, <1>2 DEF HandsOff
<1>4. ASSUME NEW p \in Paths, NEW m, NEW a
      PROVE  /\ ~Rewrites(at, j, p)
             /\ Records(at, j, p) => Records(pc[s], job[s], p) /\ p = q
  BY DEF Rewrites, Records
<1>5. ASSUME NEW p \in Paths \ met'
      PROVE  PathIsSafe(p)'
  <2>1. p \in Paths \ met /\ PathIsSafe(p) /\ Types
    BY <1>1, AtPath DEF HandsOff
  <2>2. CASE p # q
    <3>1. ~Records(at, j, p) /\ ~Rewrites(at, j, p)
      BY <1>4, <2>2
    <3>2. Guards(at, j, p, models[p], authored[p])
      <4>1. ~(at \in {"mkdir", "model", "manifest"} /\ j.path = p)
        BY <3>1 DEF Records
      <4> QED BY <3>1, <4>1 DEF Guards
    <3> QED BY <1>1, <1>2, <2>1, <2>2, <3>1, <3>2, StaysSafe
  <2>3. CASE p = q
    <3>1. authored'[p] = None
      BY <1>1, <2>1, <2>3, AtPath DEF Guards
    <3>2. /\ pc'[s] = at /\ job'[s] = j
          /\ \A t \in Sessions \ {s} : pc'[t] = pc[t] /\ job'[t] = job[t]
      BY <2>1 DEF Types
    <3>3. \A t \in Sessions \ {s} : ~Records(pc[t], job[t], p)
      BY <2>1, <2>3, AtPath DEF PathIsSafe
    <3>4. ASSUME NEW t \in Sessions
          PROVE  Guards(pc'[t], job'[t], p, models'[p], authored'[p])
      <4>1. CASE t = s
        <5>1. at \notin {"mkdir", "model"} /\ (at = "manifest" => text = j.text)
          BY DEF Records, Rewrites
        <5> QED BY <1>2, <2>3, <3>1, <3>2, <4>1, <5>1 DEF Guards
      <4>2. CASE t # s
        <5>1. ~(pc[t] \in {"mkdir", "model", "manifest"} /\ job[t].path = p)
          BY <3>3, <4>2 DEF Records
        <5> QED BY <3>1, <3>2, <4>2, <5>1 DEF Guards
      <4> QED BY <4>1, <4>2
    <3>5. ASSUME NEW t \in Sessions, NEW u \in Sessions, t # u, Records(pc'[t], job'[t], p)
          PROVE  ~Records(pc'[u], job'[u], p) /\ ~Rewrites(pc'[u], job'[u], p)
      <4>1. t = s
        BY <3>2, <3>3, <3>5
      <4>2. Records(pc[s], job[s], p)
        BY <1>4, <3>2, <3>5, <4>1
      <4> QED BY <2>1, <3>2, <3>5, <4>1, <4>2, AtPath
    <3> QED BY <3>1, <3>4, <3>5 DEF PathIsSafe
  <2> QED BY <2>2, <2>3
<1>6. /\ steps' \in P!Documents \cup {Absent} /\ dir' \in BOOLEAN
      /\ landed' \in SUBSET Paths /\ removed' \in SUBSET Paths /\ met' \in SUBSET Paths
      /\ authored' \in [Paths -> {None, "analyst", "typed"}]
  BY <1>1 DEF HandsOff, Types
<1> HIDE DEF q
<1> QED BY <1>2, <1>3, <1>5, <1>6, OneGoesOn

LEMMA WriteModelLaysNoHands ==
    ASSUME HandsOff, NEW s \in Sessions, WriteModel(s)
    PROVE  HandsOff'
<1>1. /\ pc[s] = "model" /\ Fit(s, pc[s], job[s]) /\ job[s] \in Jobs
      /\ WritesOwn(job[s])
      /\ UNCHANGED <<steps, dir, ghosts, told>> /\ job' = [job EXCEPT ![s] = job[s]]
      /\ dir \in BOOLEAN /\ (dir \/ \A p \in Paths : models[p] = Absent)
      /\ told' \in [Sessions -> {"nothing", "ok", "failed"}]
  BY DEF WriteModel, At, HandsOff, Types, Fit
<1>2. /\ Records("model", job[s], job[s].path) /\ job[s].path \in Paths
      /\ job[s].text \in Texts
  BY <1>1, TextsAreTexts DEF Records, WritesOwn
<1>3. CASE dir /\ models' = [models EXCEPT ![job[s].path] = job[s].text] /\ Go(s, "manifest")
  <2>1. Fit(s, "manifest", job[s]) /\ pc' = [pc EXCEPT ![s] = "manifest"] /\ "manifest" \in Places
    BY <1>1, <1>3, JobFacts DEF Fit, Go, Places
  <2> QED BY <1>1, <1>2, <1>3, <2>1, WritesAtPath
<1>4. CASE Go(s, "unlink") /\ UNCHANGED models
  <2>1. Fit(s, "unlink", job[s]) /\ pc' = [pc EXCEPT ![s] = "unlink"] /\ "unlink" \in Places
    BY <1>1, <1>4, JobFacts DEF Fit, Go, Places
  <2>2. \A p \in Paths : ~Rewrites("unlink", job[s], p) /\
          (Records("unlink", job[s], p) => Records(pc[s], job[s], p))
    BY <1>1 DEF Rewrites, Records
  <2> QED BY <1>1, <1>4, <2>1, <2>2, GoesOnQuietly
<1> QED BY <1>3, <1>4 DEF WriteModel

LEMMA RemoveModelLaysNoHands ==
    ASSUME HandsOff, NEW s \in Sessions, RemoveModel(s)
    PROVE  HandsOff'
<1> DEFINE at == IF job[s].made THEN "rmdir" ELSE "idle"
           j == IF job[s].made THEN job[s] ELSE None
<1>1. /\ pc[s] = "unlink" /\ Fit(s, pc[s], job[s]) /\ job[s] \in Jobs
      /\ WritesOwn(job[s]) /\ UNCHANGED <<steps, dir, ghosts>>
      /\ models' = [models EXCEPT ![job[s].path] = Absent]
  BY DEF RemoveModel, At, HandsOff, Types, Fit
<1>2. Records("unlink", job[s], job[s].path) /\ job[s].path \in Paths
  BY <1>1 DEF Records, WritesOwn
<1>3. /\ pc' = [pc EXCEPT ![s] = at] /\ job' = [job EXCEPT ![s] = j] /\ at \in Places
      /\ told' \in [Sessions -> {"nothing", "ok", "failed"}] /\ j \in Jobs \cup {None}
  BY <1>1 DEF RemoveModel, End, Go, HandsOff, Types, Places
<1>4. Fit(s, at, j) /\ (at = "idle" \/ (at = "rmdir" /\ j = job[s]))
  BY <1>1, JobFacts DEF Fit
<1> HIDE DEF at, j
<1> QED BY <1>1, <1>2, <1>3, <1>4, WritesAtPath

LEMMA RemoveDirLaysNoHands ==
    ASSUME HandsOff, NEW s \in Sessions, RemoveDir(s)
    PROVE  HandsOff'
<1>1. /\ End(s, "failed") /\ UNCHANGED <<steps, models, ghosts>> /\ dir' = (Present # {})
  BY DEF RemoveDir
<1>2. dir' \in BOOLEAN /\ (dir' \/ \A p \in Paths : models[p] = Absent)
  BY <1>1 DEF Present
<1> QED BY <1>1, <1>2, EndsQuietly

LEMMA RewriteLaysNoHands ==
    ASSUME HandsOff, NEW s \in Sessions, Rewrite(s)
    PROVE  HandsOff'
<1>1. /\ pc[s] = "rewrite" /\ job[s].path \in Paths /\ job[s].text = "amended"
      /\ UNCHANGED <<steps, dir, ghosts>>
      /\ dir \in BOOLEAN /\ (dir \/ \A p \in Paths : models[p] = Absent)
  BY DEF Rewrite, At, HandsOff, Types, Fit
<1>2. CASE End(s, "failed") /\ UNCHANGED models
  BY <1>1, <1>2, EndsQuietly
<1>3. CASE dir /\ models' = [models EXCEPT ![job[s].path] = job[s].text] /\ End(s, "ok")
  <2>1. /\ pc' = [pc EXCEPT ![s] = "idle"] /\ job' = [job EXCEPT ![s] = None] /\ "idle" \in Places
        /\ told' \in [Sessions -> {"nothing", "ok", "failed"}]
    BY <1>3 DEF End, Go, Places, HandsOff, Types
  <2>2. Fit(s, "idle", None) /\ job[s].text \in Texts
    BY <1>1, TextsAreTexts DEF Fit
  <2>3. Rewrites(pc[s], job[s], job[s].path)
    BY <1>1 DEF Rewrites
  <2> QED BY <1>1, <1>3, <2>1, <2>2, <2>3, WritesAtPath
<1> QED BY <1>2, <1>3 DEF Rewrite

\* The text that lands as its analyst's own is the one at its path.
LEMMA LandsInPlace ==
    ASSUME HandsOff, NEW s \in Sessions, pc[s] = "manifest",
           steps' = job[s].to, Landed(s), End(s, "ok"), UNCHANGED <<models, dir, removed, met>>
    PROVE  HandsOff'
<1> DEFINE q == job[s].path
<1>1. Fit(s, "manifest", job[s]) /\ job[s] \in Jobs
  BY DEF HandsOff, Types, Fit
<1>2. /\ pc' = [pc EXCEPT ![s] = "idle"] /\ job' = [job EXCEPT ![s] = None] /\ "idle" \in Places
      /\ told' \in [Sessions -> {"nothing", "ok", "failed"}] /\ Fit(s, "idle", None)
  BY DEF End, Go, Places, HandsOff, Types, Fit
<1>3. /\ steps' \in P!Documents \cup {Absent} /\ landed' \in SUBSET Paths
      /\ models' \in [Paths -> Texts \cup {Absent}] /\ dir' \in BOOLEAN
      /\ removed' \in SUBSET Paths /\ met' \in SUBSET Paths
      /\ dir' \/ \A p \in Paths : models'[p] = Absent
  BY <1>1, JobFacts DEF Landed, HandsOff, Types
<1>4. /\ authored' \in [Paths -> {None, "analyst", "typed"}]
      /\ \A p \in Paths : authored'[p] # authored[p] => p = q /\ authored'[p] = job[s].text
  BY DEF Landed, HandsOff, Types
<1>5. \A p : ~Records("idle", None, p) /\ ~Rewrites("idle", None, p)
  BY DEF Records, Rewrites
<1>6. ASSUME NEW p \in Paths \ met'
      PROVE  PathIsSafe(p)'
  <2>1. p \in Paths \ met /\ PathIsSafe(p) /\ Types
    BY AtPath DEF HandsOff
  <2>2. Guards("idle", None, p, models[p], authored[p])
    BY <1>5 DEF Guards
  <2>3. CASE authored'[p] = authored[p]
    BY <1>2, <1>5, <2>1, <2>2, <2>3, StaysSafe
  <2>4. CASE authored'[p] # authored[p]
    <3>1. p = q /\ authored'[p] = job[s].text
      BY <1>4, <2>4
    <3>2. Records("manifest", job[s], p) /\ models[p] = job[s].text
      BY <2>1, <3>1, AtPath DEF Records, Guards
    <3>3. /\ pc'[s] = "idle" /\ job'[s] = None
          /\ \A t \in Sessions \ {s} : pc'[t] = pc[t] /\ job'[t] = job[t]
      BY <1>2, <2>1 DEF Types
    <3>4. \A t \in Sessions : ~Records(pc'[t], job'[t], p) /\ ~Rewrites(pc'[t], job'[t], p)
      BY <1>5, <2>1, <3>2, <3>3, AtPath
    <3>5. \A t \in Sessions : Guards(pc'[t], job'[t], p, models'[p], authored'[p])
      BY <3>4 DEF Guards, Records
    <3> QED BY <3>1, <3>2, <3>4, <3>5 DEF PathIsSafe
  <2> QED BY <2>3, <2>4
<1> HIDE DEF q
<1>7. None \in Jobs \cup {None}
  OBVIOUS
<1> QED BY <1>2, <1>3, <1>4, <1>6, <1>7, OneGoesOn

LEMMA WriteManifestLaysNoHands ==
    ASSUME HandsOff, NEW s \in Sessions, WriteManifest(s)
    PROVE  HandsOff'
<1>1. /\ pc[s] = "manifest" /\ Fit(s, pc[s], job[s]) /\ job[s] \in Jobs
      /\ UNCHANGED <<models, dir, removed, met>>
      /\ dir \in BOOLEAN /\ (dir \/ \A p \in Paths : models[p] = Absent)
  BY DEF WriteManifest, At, HandsOff, Types, Fit
<1>2. CASE steps' = job[s].to /\ Landed(s) /\ End(s, "ok")
  BY <1>1, <1>2, LandsInPlace
<1>3. CASE End(s, "failed") /\ UNCHANGED <<steps, landed, authored>>
  BY <1>1, <1>3, EndsQuietly DEF ghosts
<1>4. CASE /\ job[s].path # None /\ Go(s, "unlink")
           /\ UNCHANGED <<job, told, steps, landed, authored>>
  <2>1. Fit(s, "unlink", job[s]) /\ pc' = [pc EXCEPT ![s] = "unlink"] /\ "unlink" \in Places
    BY <1>1, <1>4, JobFacts DEF Fit, Go, Places
  <2>2. \A p \in Paths : ~Rewrites("unlink", job[s], p) /\
          (Records("unlink", job[s], p) => Records(pc[s], job[s], p))
    BY <1>1 DEF Rewrites, Records
  <2>3. job' = [job EXCEPT ![s] = job[s]] /\ told' \in [Sessions -> {"nothing", "ok", "failed"}]
    BY <1>4 DEF HandsOff, Types
  <2>4. UNCHANGED <<steps, models, ghosts>>
    BY <1>1, <1>4 DEF ghosts
  <2> QED BY <1>1, <2>1, <2>2, <2>3, <2>4, GoesOnQuietly
<1> QED BY <1>2, <1>3, <1>4 DEF WriteManifest

\* What a person does at a path where a call is at work, they meet there.
LEMMA PeopleLayNoHands ==
    ASSUME HandsOff, NEW q \in Paths, PersonTypes(q) \/ PersonRemoves(q)
    PROVE  HandsOff'
<1>1. /\ UNCHANGED <<steps, pc, job, told>>
      /\ \E x \in {"typed", Absent} :
           /\ models' = [models EXCEPT ![q] = x]
           /\ dir' \in BOOLEAN /\ (dir' \/ (x = Absent /\ ~dir))
      /\ \E y \in {"typed", None} : authored' = [authored EXCEPT ![q] = y]
      /\ authored'[q] # None => models'[q] = authored'[q]
      /\ landed' \in SUBSET Paths /\ removed' \in SUBSET Paths
      /\ met \subseteq met' /\ met' \in SUBSET Paths
      /\ Watched(q) => q \in met'
  <2>1. CASE PersonTypes(q)
    BY <2>1 DEF PersonTypes, Meets, HandsOff, Types
  <2>2. CASE PersonRemoves(q)
    BY <2>2 DEF PersonRemoves, Meets, HandsOff, Types
  <2> QED BY <2>1, <2>2
<1>2. /\ models' \in [Paths -> Texts \cup {Absent}]
      /\ authored' \in [Paths -> {None, "analyst", "typed"}]
      /\ \A p \in Paths : p # q => models'[p] = models[p] /\ authored'[p] = authored[p]
  BY <1>1, TextsAreTexts DEF HandsOff, Types
<1>3. dir' \/ \A p \in Paths : models'[p] = Absent
  BY <1>1, <1>2 DEF HandsOff, Types
<1>4. ASSUME NEW p \in Paths \ met'
      PROVE  PathIsSafe(p)'
  <2>1. PathIsSafe(p)
    BY <1>1 DEF HandsOff
  <2>2. CASE p # q
    BY <1>1, <1>2, <2>1, <2>2 DEF PathIsSafe
  <2>3. CASE p = q
    <3>1. \A t \in Sessions : ~Records(pc[t], job[t], p) /\ ~Rewrites(pc[t], job[t], p)
      BY <1>1, <2>3 DEF Watched, Recorded, Records, Rewrites
    <3>2. \A t \in Sessions : Guards(pc[t], job[t], p, models'[p], authored'[p])
      BY <3>1 DEF Guards, Records
    <3> QED BY <1>1, <2>3, <3>1, <3>2 DEF PathIsSafe
  <2> QED BY <2>2, <2>3
<1>5. Types'
  BY <1>1, <1>2 DEF HandsOff, Types
<1>6. \A s \in Sessions : Fit(s, pc'[s], job'[s])
  BY <1>1 DEF HandsOff
<1> QED BY <1>1, <1>3, <1>4, <1>5, <1>6 DEF HandsOff

LEMMA EditsLayNoHands ==
    ASSUME HandsOff, PersonEdits
    PROVE  HandsOff'
<1>1. UNCHANGED <<models, dir, pc, job, told, ghosts>> /\ steps \in P!Documents
  BY DEF PersonEdits, HandsOff, Types
<1>2. steps' \in P!Documents
  <2>1. None \in Paths \cup {None}
    OBVIOUS
  <2> QED BY <1>1, <2>1, StaysDocument DEF PersonEdits
<1>3. Types'
  BY <1>1, <1>2 DEF HandsOff, Types, ghosts
<1> QED BY <1>1, <1>3 DEF HandsOff, PathIsSafe, ghosts

LEMMA InitLaysNoHands ==
    ASSUME Init
    PROVE  HandsOff
<1>1. Types
  <2>1. << >> \in P!Documents
    BY EmptyStands DEF Stands
  <2> QED BY <2>1 DEF Init, Types, Places
<1>2. \A s \in Sessions : Fit(s, pc[s], job[s])
  BY DEF Init, Fit
<1>3. \A p \in Paths : PathIsSafe(p)
  BY DEF Init, PathIsSafe, Guards, Records, Rewrites
<1> QED BY <1>1, <1>2, <1>3 DEF HandsOff, Init

LEMMA StepLaysNoHands ==
    ASSUME HandsOff, [Next]_vars
    PROVE  HandsOff'
<1>1. ASSUME NEW s \in Sessions, Kill(s) \/ \E n : Refused(s, n)
      PROVE  HandsOff'
  BY <1>1, EndsQuietly DEF Refused, Kill, folder, HandsOff, Types
<1>2. ASSUME NEW s \in Sessions, Call(s)
      PROVE  HandsOff'
  BY <1>1, <1>2, AsksLayNoHands, AmendLaysNoHands, CheckpointLaysNoHands, SpliceLaysNoHands,
     MakeDirLaysNoHands, WriteModelLaysNoHands, WriteManifestLaysNoHands,
     RemoveModelLaysNoHands, RemoveDirLaysNoHands, RewriteLaysNoHands DEF Call
<1>3. ASSUME NEW p \in Paths, PersonTypes(p) \/ PersonRemoves(p)
      PROVE  HandsOff'
  BY <1>3, PeopleLayNoHands
<1>4. CASE PersonEdits
  BY <1>4, EditsLayNoHands
<1>5. CASE UNCHANGED vars
  BY <1>5 DEF vars, folder, ghosts, HandsOff, Types, PathIsSafe
<1> QED BY <1>1, <1>2, <1>3, <1>4, <1>5 DEF Next

LEMMA NobodyLaysHands == Spec => []HandsOff
<1>1. Init => HandsOff
  BY InitLaysNoHands
<1>2. HandsOff /\ [Next]_vars => HandsOff'
  BY StepLaysNoHands
<1> QED BY <1>1, <1>2, PTL DEF Spec

-----------------------------------------------------------------------------
(* Sessions that do not move. *)

\* What changes at one path leaves a session as sound as it was, if it has nothing to
\* do with that path, or what it needs of it is there.
LEMMA LeftAlone ==
    ASSUME NEW t, NEW at, NEW j \in Jobs \cup {None}, NEW p \in Paths,
           NEW m, NEW l \in SUBSET Paths, NEW a,
           NEW m2, NEW l2 \in SUBSET Paths, NEW a2,
           SessionIsSound(t, at, j, m, l, a),
           \A q \in Paths : q # p => m2[q] = m[q] /\ (q \in l2 <=> q \in l) /\ a2[q] = a[q],
           at \in {"mkdir", "model", "manifest", "unlink"} => j.path # p,
           at = "rmdir" /\ j.path = p => m2[p] # j.text,
           at = "rewrite" /\ j.path = p => p \in l2 /\ a2[p] = None,
           InHand(at, j) /\ p \in P!Cited(j.to) => p \in l2 \cup {j.path}
    PROVE  SessionIsSound(t, at, j, m2, l2, a2)
<1>1. InHand(at, j) => Stands(j.to, l2 \cup {j.path})
  <2> SUFFICES ASSUME InHand(at, j) PROVE P!Cited(j.to) \subseteq l2 \cup {j.path}
    BY DEF Stands, Fit, SessionIsSound
  <2>1. P!Cited(j.to) \subseteq l \cup {j.path}
    BY DEF Fit, SessionIsSound, Stands
  <2> QED BY <2>1
<1>2. at \in {"mkdir", "model", "unlink", "rmdir"} => j.path \in Paths
  BY DEF Fit, SessionIsSound, WritesOwn
<1>3. at \in {"mkdir", "model", "unlink"} => j.path \notin l2
  BY <1>2 DEF Fit, SessionIsSound
<1>4. at \in {"mkdir", "model"} => m2[j.path] = Absent
  BY <1>2 DEF Fit, SessionIsSound
<1>5. at = "manifest" /\ j.path # None => j.path \notin l2 /\ m2[j.path] = j.text
  BY DEF Fit, SessionIsSound, WritesOwn
<1>6. at = "rmdir" => m2[j.path] # j.text
  BY <1>2 DEF Fit, SessionIsSound
<1>7. at = "rewrite" => j.path \in l2 /\ a2[j.path] = None
  BY DEF Fit, SessionIsSound
<1> QED BY <1>1, <1>3, <1>4, <1>5, <1>6, <1>7 DEF Fit, SessionIsSound

\* A session that writes, lands or takes back a model of its own leaves the others be.
LEMMA OthersKeepTheirs ==
    ASSUME RecInv, HandsOff, met = {}, NEW s \in Sessions, NEW t \in Sessions, s # t,
           pc[s] \in {"model", "manifest", "unlink"}, WritesOwn(job[s]),
           job[s].path \notin landed,
           NEW m2, NEW l2 \in SUBSET Paths, NEW a2, landed \subseteq l2,
           \A q \in Paths : q # job[s].path =>
             m2[q] = models[q] /\ (q \in l2 <=> q \in landed) /\ a2[q] = authored[q]
    PROVE  SessionIsSound(t, pc[t], job[t], m2, l2, a2)
<1> DEFINE p == job[s].path
<1>1. job[t] \in Jobs \cup {None} /\ landed \in SUBSET Paths /\ p \in Paths
  BY DEF RecInv, Types, WritesOwn
<1>2. SessionIsSound(t, pc[t], job[t], models, landed, authored)
  BY DEF RecInv
<1>3. ~Records(pc[t], job[t], p)
  <2>1. PathIsSafe(p) /\ Records(pc[s], job[s], p)
    BY <1>1 DEF HandsOff, Records
  <2> QED BY <2>1 DEF PathIsSafe
<1>4. pc[t] \in {"mkdir", "model", "unlink", "rmdir"} => job[t].path # p
  BY <1>3 DEF Records
<1>5. pc[t] = "manifest" => job[t].path # p
  BY <1>3 DEF Records
<1>6. pc[t] = "rewrite" => job[t].path # p
  BY <1>2 DEF Fit, SessionIsSound
<1>7. InHand(pc[t], job[t]) /\ p \in P!Cited(job[t].to) => p \in l2 \cup {job[t].path}
  BY <1>2 DEF Fit, SessionIsSound, Stands
<1> HIDE DEF p
<1>8. \A q \in Paths : q # p => m2[q] = models[q] /\ (q \in l2 <=> q \in landed) /\ a2[q] = authored[q]
  BY DEF p
<1> QED BY <1>1, <1>2, <1>4, <1>5, <1>6, <1>7, <1>8, LeftAlone

\* The invariant after a step of session s, from what is to be said of s, the folder
\* and the others.
LEMMA OneMoves ==
    ASSUME RecInv, NEW s \in Sessions, NEW at \in Places, NEW j \in Jobs \cup {None},
           pc' = [pc EXCEPT ![s] = at], job' = [job EXCEPT ![s] = j],
           told' \in [Sessions -> {"nothing", "ok", "failed"}],
           steps' \in P!Documents \cup {Absent}, models' \in [Paths -> Texts \cup {Absent}],
           dir' \in BOOLEAN, landed' \in SUBSET Paths, removed' \in SUBSET Paths,
           authored' \in [Paths -> {None, "analyst", "typed"}],
           FolderIsSound',
           SessionIsSound(s, at, j, models', landed', authored'),
           \A t \in Sessions : t # s =>
             SessionIsSound(t, pc[t], job[t], models', landed', authored')
    PROVE  RecInv'
<1>1. Types'
  BY DEF RecInv, Types
<1>2. \A t \in Sessions : SessionIsSound(t, pc'[t], job'[t], models', landed', authored')
  <2> SUFFICES ASSUME NEW t \in Sessions
               PROVE  SessionIsSound(t, pc'[t], job'[t], models', landed', authored')
    OBVIOUS
  <2>1. CASE t = s
    <3>1. pc'[t] = at /\ job'[t] = j
      BY <2>1 DEF RecInv, Types
    <3> QED BY <2>1, <3>1
  <2>2. CASE t # s
    <3>1. pc'[t] = pc[t] /\ job'[t] = job[t]
      BY <2>2 DEF RecInv, Types
    <3> QED BY <2>2, <3>1
  <2> QED BY <2>1, <2>2
<1> QED BY <1>1, <1>2 DEF RecInv

\* A step within a session: nothing of the folder changes but models/, which may come.
LEMMA PrivateMove ==
    ASSUME RecInv, NEW s \in Sessions, NEW at \in Places, NEW j \in Jobs \cup {None},
           pc' = [pc EXCEPT ![s] = at], job' = [job EXCEPT ![s] = j],
           told' \in [Sessions -> {"nothing", "ok", "failed"}],
           UNCHANGED <<steps, models, landed, authored, removed>>, dir' = dir \/ dir' = TRUE,
           SessionIsSound(s, at, j, models, landed, authored)
    PROVE  RecInv'
<1>1. UNCHANGED <<steps, models, landed, authored, removed>>
  OBVIOUS
<1>2. FolderIsSound'
  BY <1>1 DEF RecInv, FolderIsSound
<1>3. /\ steps' \in P!Documents \cup {Absent} /\ models' \in [Paths -> Texts \cup {Absent}]
      /\ dir' \in BOOLEAN /\ landed' \in SUBSET Paths /\ removed' \in SUBSET Paths
      /\ authored' \in [Paths -> {None, "analyst", "typed"}]
  BY <1>1 DEF RecInv, Types
<1>4. SessionIsSound(s, at, j, models', landed', authored')
  BY <1>1
<1>5. \A t \in Sessions : t # s =>
        SessionIsSound(t, pc[t], job[t], models', landed', authored')
  BY <1>1 DEF RecInv
<1> QED BY <1>2, <1>3, <1>4, <1>5, OneMoves

\* A call that has ended is sound.
LEMMA EndedIsSound ==
    ASSUME NEW s, NEW m, NEW l, NEW a
    PROVE  SessionIsSound(s, "idle", None, m, l, a)
BY DEF Fit, SessionIsSound, InHand

LEMMA EndsSoundly ==
    ASSUME RecInv, NEW s \in Sessions, NEW outcome \in {"nothing", "ok", "failed"},
           End(s, outcome), dir' = dir \/ dir' = TRUE,
           UNCHANGED <<steps, models, landed, authored, removed>>
    PROVE  RecInv'
<1>1. told' \in [Sessions -> {"nothing", "ok", "failed"}]
  BY DEF End, RecInv, Types
<1>2. pc' = [pc EXCEPT ![s] = "idle"] /\ job' = [job EXCEPT ![s] = None]
  BY DEF End, Go
<1>3. "idle" \in Places
  BY DEF Places
<1> QED BY <1>1, <1>2, <1>3, EndedIsSound, PrivateMove

-----------------------------------------------------------------------------
(* A call begins. *)

LEMMA EntersSoundly ==
    ASSUME RecInv, NEW s \in Sessions, NEW place \in Places, NEW j \in Jobs,
           Enter(s, place, j), SessionIsSound(s, place, j, models, landed, authored)
    PROVE  RecInv'
<1>1. told' \in [Sessions -> {"nothing", "ok", "failed"}]
  BY DEF Enter, RecInv, Types
<1>2. pc' = [pc EXCEPT ![s] = place] /\ job' = [job EXCEPT ![s] = j]
  BY DEF Enter, Go
<1>3. UNCHANGED <<steps, models, landed, authored, removed>> /\ dir' = dir
  BY DEF Enter, folder
<1> QED BY <1>1, <1>2, <1>3, PrivateMove

LEMMA AskStepKeeps ==
    ASSUME RecInv, NEW s \in Sessions, NEW n \in NamesOf[s],
           AskOperation(s, n) \/ AskSql(s, n)
    PROVE  RecInv'
<1>1. PICK text \in {"generated", "analyst"} : AskStep(s, n, text)
  BY DEF AskOperation, AskSql
<1> DEFINE j == [Job("step", << >>, None, text) EXCEPT !.name = n]
<1>2. << >> \in P!Documents /\ text \in Texts /\ n \in Names /\ "step" \in Roads
  BY EmptyStands, NamesAreNames, TextsAreTexts DEF Stands, Roads
<1>3. j \in Jobs
  BY <1>2, JobIsJob
<1>4. j.road = "step" /\ j.name = n /\ j.path = None /\ j.text = text
  BY DEF Job
<1>5. Enter(s, "checkpoint", j)
  BY <1>1 DEF AskStep
<1> HIDE DEF j
<1>6. SessionIsSound(s, "checkpoint", j, models, landed, authored)
  BY <1>3, <1>4, JobFacts DEF Fit, SessionIsSound, InHand
<1> QED BY <1>3, <1>5, <1>6, EntersSoundly DEF Places

LEMMA AskOperatorKeeps ==
    ASSUME RecInv, NEW s \in Sessions, NEW n \in NamesOf[s], AskOperator(s, n)
    PROVE  RecInv'
<1> DEFINE doc == Append(steps, [name |-> n, model |-> None])
           j == Job("operator", doc, None, None)
<1>1. n \in Names /\ Stands(steps, landed) /\ ~HasName(steps, n)
  BY NamesAreNames DEF AskOperator, RecInv, FolderIsSound
<1>2. Stands(doc, landed \cup {None})
  BY <1>1, AppendStands
<1>3. Enter(s, "checkpoint", j)
  BY DEF AskOperator
<1> HIDE DEF doc
<1>4. j \in Jobs
  BY <1>2, JobIsJob DEF Stands, Roads
<1>5. j.road = "operator" /\ j.path = None /\ j.text = None /\ j.to = doc
  BY DEF Job
<1> HIDE DEF j
<1>6. SessionIsSound(s, "checkpoint", j, models, landed, authored)
  BY <1>2, <1>4, <1>5, JobFacts DEF Fit, SessionIsSound, InHand
<1> QED BY <1>3, <1>4, <1>6, EntersSoundly DEF Places

LEMMA AskEditKeeps ==
    ASSUME RecInv, NEW s \in Sessions, AskEdit(s)
    PROVE  RecInv'
<1>1. PICK doc \in P!Edited(steps) :
         Unique(doc) /\ Enter(s, "checkpoint", Job("edit", doc, None, None))
  BY DEF AskEdit
<1> DEFINE j == Job("edit", doc, None, None)
<1>2. Stands(steps, landed)
  BY DEF AskEdit, RecInv, FolderIsSound
<1>3. Stands(doc, landed)
  BY <1>1, <1>2, EditedStands
<1>4. Stands(doc, landed \cup {None})
  BY <1>3, MoreStands
<1>5. j \in Jobs
  BY <1>3, JobIsJob DEF Stands, Roads
<1>6. j.road = "edit" /\ j.path = None /\ j.text = None /\ j.to = doc
  BY DEF Job
<1>7. Enter(s, "checkpoint", j)
  BY <1>1
<1> HIDE DEF j
<1>8. SessionIsSound(s, "checkpoint", j, models, landed, authored)
  BY <1>4, <1>5, <1>6, JobFacts DEF Fit, SessionIsSound, InHand
<1> QED BY <1>5, <1>7, <1>8, EntersSoundly DEF Places

LEMMA AskCreateKeeps ==
    ASSUME RecInv, NEW s \in Sessions, AskCreate(s)
    PROVE  RecInv'
<1> DEFINE j == Job("create", << >>, None, None)
<1>1. Stands(<< >>, landed \cup {None})
  BY EmptyStands
<1>2. j \in Jobs
  BY <1>1, JobIsJob DEF Stands, Roads
<1>3. j.path = None /\ j.text = None /\ j.to = << >>
  BY DEF Job
<1>4. Enter(s, "manifest", j)
  BY DEF AskCreate
<1> HIDE DEF j
<1>5. SessionIsSound(s, "manifest", j, models, landed, authored)
  BY <1>1, <1>2, <1>3, JobFacts DEF Fit, SessionIsSound, InHand
<1> QED BY <1>2, <1>4, <1>5, EntersSoundly DEF Places

\* What is to be amended is a model that landed, and not an analyst's own: the
\* manifest cites none but landed ones, and an own text has no marker.
LEMMA AskAmendKeeps ==
    ASSUME RecInv, NEW s \in Sessions, AskAmend(s)
    PROVE  RecInv'
<1>1. PICK p \in P!Cited(steps) :
         /\ models[p] # Absent /\ sql_is_generated(models[p])
         /\ Enter(s, "rewrite", Job("amend", << >>, p, "amended"))
  BY DEF AskAmend
<1> DEFINE j == Job("amend", << >>, p, "amended")
<1>2. p \in landed /\ p \in Paths
  BY <1>1 DEF AskAmend, RecInv, FolderIsSound, Stands, Types
<1>3. authored[p] = None
  <2>1. authored[p] # None => models[p] \in {"analyst", "typed"}
    BY <1>2 DEF RecInv, FolderIsSound, Types
  <2> QED BY <1>1, <2>1 DEF sql_is_generated
<1>4. << >> \in P!Documents /\ "amended" \in Texts
  BY EmptyStands, TextsAreTexts DEF Stands
<1>5. j \in Jobs
  BY <1>2, <1>4, JobIsJob DEF Roads
<1>6. j.road = "amend" /\ j.path = p /\ j.text = "amended"
  BY DEF Job
<1>7. Enter(s, "rewrite", j)
  BY <1>1
<1> HIDE DEF j
<1>8. SessionIsSound(s, "rewrite", j, models, landed, authored)
  BY <1>2, <1>3, <1>5, <1>6, JobFacts DEF Fit, SessionIsSound, InHand
<1> QED BY <1>5, <1>7, <1>8, EntersSoundly DEF Places

LEMMA RefusedKeeps ==
    ASSUME RecInv, NEW s \in Sessions, NEW n, Refused(s, n)
    PROVE  RecInv'
BY EndsSoundly DEF Refused, folder, ghosts

-----------------------------------------------------------------------------
(* A call on its way. *)

LEMMA CheckpointKeeps ==
    ASSUME RecInv, NEW s \in Sessions, Checkpoint(s)
    PROVE  RecInv'
<1>1. CASE Fault /\ End(s, "nothing")
  BY <1>1, EndsSoundly DEF Checkpoint, folder, ghosts
<1>2. CASE /\ Go(s, IF job[s].road = "step" THEN "splice" ELSE "manifest")
           /\ UNCHANGED <<job, told, faults>>
  <2> DEFINE at == IF job[s].road = "step" THEN "splice" ELSE "manifest"
  <2>1. pc[s] = "checkpoint" /\ job[s] \in Jobs
    BY AtWork DEF Checkpoint, At
  <2>2. SessionIsSound(s, "checkpoint", job[s], models, landed, authored)
    BY <2>1 DEF RecInv
  <2>3. SessionIsSound(s, at, job[s], models, landed, authored)
    BY <2>1, <2>2, JobFacts DEF Fit, SessionIsSound, InHand
  <2>4. job' = [job EXCEPT ![s] = job[s]] /\ told' \in [Sessions -> {"nothing", "ok", "failed"}]
    BY <1>2 DEF RecInv, Types
  <2>5. pc' = [pc EXCEPT ![s] = at] /\ at \in Places
    BY <1>2 DEF Go, Places
  <2>6. UNCHANGED <<steps, models, landed, authored, removed>> /\ dir' = dir
    BY DEF Checkpoint, folder, ghosts
  <2> HIDE DEF at
  <2> QED BY <2>1, <2>3, <2>4, <2>5, <2>6, PrivateMove
<1> QED BY <1>1, <1>2 DEF Checkpoint

\* The path a model gets is free, so no step cites it.
LEMMA SpliceKeeps ==
    ASSUME RecInv, NEW s \in Sessions, Splice(s)
    PROVE  RecInv'
<1> DEFINE n == job[s].name
           doc == Append(steps, [name |-> n, model |-> ModelPath(n)])
           j == [job[s] EXCEPT !.path = ModelPath(n), !.to = doc]
<1>1. CASE End(s, "nothing")
  BY <1>1, EndsSoundly DEF Splice, folder
<1>2. CASE ~End(s, "nothing")
  <2>1. pc[s] = "splice" /\ job[s] \in Jobs
    BY AtWork DEF Splice, At
  <2>2. SessionIsSound(s, "splice", job[s], models, landed, authored)
    BY <2>1 DEF RecInv
  <2>3. /\ job[s].road = "step" /\ n \in NamesOf[s] /\ n \in Names
        /\ job[s].text \in {"generated", "analyst"}
    BY <2>2, NamesAreNames DEF Fit, SessionIsSound
  <2>4. /\ steps # Absent /\ ~HasName(steps, n) /\ models[ModelPath(n)] = Absent
        /\ job' = [job EXCEPT ![s].path = ModelPath(n), ![s].to = doc]
        /\ Go(s, "mkdir") /\ UNCHANGED told
    BY <1>2 DEF Splice
  <2>5. ModelPath(n) \in Paths 
    BY <2>3, ModelPathIsPath DEF RecInv
  <2>6. ModelPath(n) \notin landed
    BY <2>4 DEF RecInv, FolderIsSound
  <2>7. Stands(doc, landed \cup {ModelPath(n)})
    BY <2>3, <2>4, <2>5, <2>6, AppendStands, NothingIsApart DEF RecInv, FolderIsSound
  <2> HIDE DEF doc
  <2>8. /\ j \in Jobs /\ j.road = "step" /\ j.path = ModelPath(n) /\ j.to = doc
        /\ j.text = job[s].text
    BY <2>1, <2>3, <2>5, <2>7 DEF Jobs, Stands
  <2>9. job' = [job EXCEPT ![s] = j]
    BY <2>1, <2>4 DEF RecInv, Types, Jobs
  <2>10. told' \in [Sessions -> {"nothing", "ok", "failed"}] /\ pc' = [pc EXCEPT ![s] = "mkdir"]
    BY <2>4 DEF RecInv, Types, Go
  <2> HIDE DEF j
  <2>11. SessionIsSound(s, "mkdir", j, models, landed, authored)
    BY <2>3, <2>4, <2>5, <2>6, <2>7, <2>8, JobFacts DEF Fit, SessionIsSound, InHand, WritesOwn
  <2>12. UNCHANGED <<steps, models, landed, authored, removed>> /\ dir' = dir
    BY DEF Splice, folder
  <2> QED BY <2>8, <2>9, <2>10, <2>11, <2>12, PrivateMove DEF Places
<1> QED BY <1>1, <1>2

LEMMA MakeDirKeeps ==
    ASSUME RecInv, NEW s \in Sessions, MakeDir(s)
    PROVE  RecInv'
<1>1. CASE Fault /\ End(s, "failed") /\ UNCHANGED dir
  BY <1>1, EndsSoundly DEF MakeDir, ghosts
<1>2. CASE /\ dir' = TRUE /\ job' = [job EXCEPT ![s].made = ~dir]
           /\ Go(s, "model") /\ UNCHANGED <<told, faults>>
  <2> DEFINE j == [job[s] EXCEPT !.made = ~dir]
  <2>1. pc[s] = "mkdir" /\ job[s] \in Jobs
    BY AtWork DEF MakeDir, At
  <2>2. SessionIsSound(s, "mkdir", job[s], models, landed, authored)
    BY <2>1 DEF RecInv
  <2>3. /\ j \in Jobs /\ j.road = job[s].road /\ j.path = job[s].path /\ j.to = job[s].to
        /\ j.text = job[s].text
    BY <2>1 DEF Jobs
  <2>4. job' = [job EXCEPT ![s] = j]
    BY <1>2, <2>1 DEF RecInv, Types, Jobs
  <2>5. told' \in [Sessions -> {"nothing", "ok", "failed"}] /\ pc' = [pc EXCEPT ![s] = "model"]
    BY <1>2 DEF RecInv, Types, Go
  <2> HIDE DEF j
  <2>6. SessionIsSound(s, "model", j, models, landed, authored)
    BY <2>2, <2>3, JobFacts DEF Fit, SessionIsSound, InHand, WritesOwn
  <2>7. UNCHANGED <<steps, models, landed, authored, removed>>
    BY DEF MakeDir, ghosts
  <2> QED BY <1>2, <2>3, <2>4, <2>5, <2>6, <2>7, PrivateMove DEF Places
<1> QED BY <1>1, <1>2 DEF MakeDir, ghosts

\* What a session has in the way of a job and of the path it writes.
LEMMA OwnModel ==
    ASSUME RecInv, NEW s \in Sessions,
           \/ pc[s] \in {"mkdir", "model", "unlink"}
           \/ pc[s] = "manifest" /\ job[s].path # None
    PROVE  /\ job[s] \in Jobs /\ WritesOwn(job[s])
           /\ job[s].path \in Paths /\ job[s].path \notin landed
           /\ job[s].text \in Texts \ {None}
           /\ SessionIsSound(s, pc[s], job[s], models, landed, authored)
<1>1. SessionIsSound(s, pc[s], job[s], models, landed, authored)
  BY DEF RecInv
<1>2. job[s] \in Jobs
  BY AtWork
<1>3. WritesOwn(job[s]) /\ job[s].path \notin landed
  BY <1>1 DEF Fit, SessionIsSound
<1> QED BY <1>1, <1>2, <1>3, NothingIsApart, TextsAreTexts DEF WritesOwn

LEMMA WriteModelKeeps ==
    ASSUME RecInv, HandsOff, met = {}, NEW s \in Sessions, WriteModel(s)
    PROVE  RecInv'
<1> DEFINE p == job[s].path
<1>1. pc[s] = "model"
  BY DEF WriteModel, At
<1>2. /\ job[s] \in Jobs /\ WritesOwn(job[s]) /\ p \in Paths /\ p \notin landed
      /\ job[s].text \in Texts /\ SessionIsSound(s, "model", job[s], models, landed, authored)
  BY <1>1, OwnModel
<1>3. /\ job' = [job EXCEPT ![s] = job[s]] /\ told' \in [Sessions -> {"nothing", "ok", "failed"}]
      /\ UNCHANGED <<steps, dir, landed, authored, removed>>
  BY DEF WriteModel, RecInv, Types, ghosts
<1>4. CASE dir /\ models' = [models EXCEPT ![p] = job[s].text] /\ Go(s, "manifest")
  <2>1. models' \in [Paths -> Texts \cup {Absent}] /\ models'[p] = job[s].text
        /\ \A q \in Paths : q # p => models'[q] = models[q]
    BY <1>2, <1>4 DEF RecInv, Types
  <2>2. FolderIsSound'
    <3>1. \A q \in landed : q \in Paths /\ q # p
      BY <1>2 DEF RecInv, Types
    <3> QED BY <1>2, <1>3, <1>4, <2>1, <3>1 DEF RecInv, FolderIsSound
  <2>3. SessionIsSound(s, "manifest", job[s], models', landed', authored')
    BY <1>2, <1>3, <2>1, JobFacts DEF Fit, SessionIsSound, InHand
  <2>4. \A t \in Sessions : t # s => SessionIsSound(t, pc[t], job[t], models', landed', authored')
    BY <1>1, <1>2, <1>3, <2>1, OthersKeepTheirs DEF RecInv, Types
  <2>5. pc' = [pc EXCEPT ![s] = "manifest"] /\ "manifest" \in Places
    BY <1>4 DEF Go, Places
  <2>6. /\ steps' \in P!Documents \cup {Absent} /\ dir' \in BOOLEAN /\ landed' \in SUBSET Paths
        /\ removed' \in SUBSET Paths /\ authored' \in [Paths -> {None, "analyst", "typed"}]
    BY <1>3 DEF RecInv, Types
  <2> QED BY <1>2, <1>3, <2>1, <2>2, <2>3, <2>4, <2>5, <2>6, OneMoves
<1>5. CASE Go(s, "unlink") /\ UNCHANGED models
  <2>1. SessionIsSound(s, "unlink", job[s], models, landed, authored)
    BY <1>2, JobFacts DEF Fit, SessionIsSound, InHand
  <2>2. pc' = [pc EXCEPT ![s] = "unlink"] /\ "unlink" \in Places
    BY <1>5 DEF Go, Places
  <2>3. UNCHANGED <<steps, models, landed, authored, removed>>
    BY <1>3, <1>5 DEF ghosts
  <2> QED BY <1>2, <1>3, <2>1, <2>2, <2>3, PrivateMove
<1> QED BY <1>4, <1>5 DEF WriteModel

\* The manifest lands, and with it the model it cites.
LEMMA LandsSoundly ==
    ASSUME RecInv, HandsOff, met = {}, NEW s \in Sessions, pc[s] = "manifest",
           steps' = job[s].to, Landed(s), End(s, "ok"), UNCHANGED <<models, dir, removed>>
    PROVE  RecInv'
<1> DEFINE p == job[s].path
           j == job[s]
<1>1. j \in Jobs /\ SessionIsSound(s, "manifest", j, models, landed, authored)
  BY AtWork DEF RecInv
<1>2. Stands(j.to, landed \cup {p})
  BY <1>1 DEF Fit, SessionIsSound, InHand
<1>3. /\ told' \in [Sessions -> {"nothing", "ok", "failed"}]
      /\ pc' = [pc EXCEPT ![s] = "idle"] /\ job' = [job EXCEPT ![s] = None] /\ "idle" \in Places
  BY DEF End, Go, RecInv, Types, Places
<1>4. CASE p = None
  <2>1. j.text # "analyst"
    BY <1>1, <1>4, NothingIsApart, TextsAreTexts DEF Fit, SessionIsSound, WritesOwn
  <2>2. landed' = landed /\ authored' = authored
    BY <1>4, <2>1 DEF Landed
  <2>3. Stands(steps', landed)
    BY <1>2, <1>4 DEF Stands, P!Cited
  <2>4. FolderIsSound'
    BY <2>2, <2>3 DEF RecInv, FolderIsSound
  <2>5. /\ steps' \in P!Documents \cup {Absent} /\ models' \in [Paths -> Texts \cup {Absent}]
        /\ dir' \in BOOLEAN /\ landed' \in SUBSET Paths /\ removed' \in SUBSET Paths
        /\ authored' \in [Paths -> {None, "analyst", "typed"}]
    BY <2>2, <2>3 DEF RecInv, Types, Stands
  <2>6. \A t \in Sessions : t # s => SessionIsSound(t, pc[t], job[t], models', landed', authored')
    BY <2>2 DEF RecInv
  <2> QED BY <1>3, <2>4, <2>5, <2>6, EndedIsSound, OneMoves
<1>5. CASE p # None
  <2>1. /\ WritesOwn(j) /\ p \in Paths /\ p \notin landed /\ models[p] = j.text
        /\ j.text \in Texts /\ j.text \in {"generated", "analyst"}
    BY <1>1, <1>5, TextsAreTexts DEF Fit, SessionIsSound, WritesOwn
  <2>2. landed' = landed \cup {p}
    BY <1>5 DEF Landed
  <2>3. /\ authored' \in [Paths -> {None, "analyst", "typed"}]
        /\ \A q \in Paths : q # p => authored'[q] = authored[q]
        /\ authored'[p] \in {authored[p], models[p]}
    BY <2>1 DEF Landed, RecInv, Types
  <2>4. authored[p] = None
    BY <2>1 DEF RecInv, FolderIsSound
  <2>5. models[p] # Absent
    BY <2>1, NothingIsApart
  <2>6. FolderIsSound'
    BY <1>2, <2>1, <2>2, <2>3, <2>4, <2>5 DEF RecInv, FolderIsSound
  <2>7. landed' \in SUBSET Paths /\ landed \subseteq landed'
    BY <2>1, <2>2 DEF RecInv, Types
  <2>8. \A t \in Sessions : t # s => SessionIsSound(t, pc[t], job[t], models', landed', authored')
    BY <2>1, <2>2, <2>3, <2>7, OthersKeepTheirs
  <2>9. /\ steps' \in P!Documents \cup {Absent} /\ models' \in [Paths -> Texts \cup {Absent}]
        /\ dir' \in BOOLEAN /\ removed' \in SUBSET Paths
    BY <1>2 DEF RecInv, Types, Stands
  <2> QED BY <1>3, <2>3, <2>6, <2>7, <2>8, <2>9, EndedIsSound, OneMoves
<1> QED BY <1>4, <1>5

LEMMA WriteManifestKeeps ==
    ASSUME RecInv, HandsOff, met = {}, NEW s \in Sessions, WriteManifest(s)
    PROVE  RecInv'
<1>1. pc[s] = "manifest" /\ UNCHANGED <<models, dir, removed>>
  BY DEF WriteManifest, At
<1>2. CASE steps' = job[s].to /\ Landed(s) /\ End(s, "ok")
  BY <1>1, <1>2, LandsSoundly
<1>3. CASE job[s].path = None /\ End(s, "failed") /\ UNCHANGED <<steps, landed, authored>>
  BY <1>1, <1>3, EndsSoundly DEF ghosts
<1>4. CASE /\ job[s].path # None /\ Go(s, "unlink")
           /\ UNCHANGED <<job, told, steps, landed, authored>>
  <2>1. /\ job[s] \in Jobs /\ WritesOwn(job[s]) /\ job[s].path \notin landed
    BY <1>1, <1>4, OwnModel
  <2>2. SessionIsSound(s, "unlink", job[s], models, landed, authored)
    BY <2>1, JobFacts DEF Fit, SessionIsSound, InHand
  <2>3. pc' = [pc EXCEPT ![s] = "unlink"] /\ "unlink" \in Places
    BY <1>4 DEF Go, Places
  <2>4. job' = [job EXCEPT ![s] = job[s]] /\ told' \in [Sessions -> {"nothing", "ok", "failed"}]
    BY <1>4 DEF RecInv, Types
  <2>5. UNCHANGED <<steps, models, landed, authored, removed>> /\ dir' = dir
    BY <1>1, <1>4 DEF ghosts
  <2> QED BY <2>1, <2>2, <2>3, <2>4, <2>5, PrivateMove
<1> QED BY <1>2, <1>3, <1>4 DEF WriteManifest

LEMMA RemoveModelKeeps ==
    ASSUME RecInv, HandsOff, met = {}, NEW s \in Sessions, RemoveModel(s)
    PROVE  RecInv'
<1> DEFINE p == job[s].path
           at == IF job[s].made THEN "rmdir" ELSE "idle"
           j == IF job[s].made THEN job[s] ELSE None
<1>1. pc[s] = "unlink" /\ models' = [models EXCEPT ![p] = Absent]
  BY DEF RemoveModel, At
<1>2. /\ job[s] \in Jobs /\ WritesOwn(job[s]) /\ p \in Paths /\ p \notin landed
      /\ job[s].text \in Texts
  BY <1>1, OwnModel
<1>3. /\ models' \in [Paths -> Texts \cup {Absent}] /\ models'[p] = Absent
      /\ \A q \in Paths : q # p => models'[q] = models[q]
  BY <1>1, <1>2 DEF RecInv, Types
<1>4. UNCHANGED <<steps, dir, landed, authored, removed>>
  BY DEF RemoveModel, ghosts
<1>5. FolderIsSound'
  <2>1. \A q \in landed : q \in Paths /\ q # p
    BY <1>2 DEF RecInv, Types
  <2> QED BY <1>2, <1>3, <1>4, <2>1 DEF RecInv, FolderIsSound
<1>6. /\ pc' = [pc EXCEPT ![s] = at] /\ job' = [job EXCEPT ![s] = j] /\ at \in Places
      /\ told' \in [Sessions -> {"nothing", "ok", "failed"}] /\ j \in Jobs \cup {None}
  BY <1>2 DEF RemoveModel, End, Go, RecInv, Types, Places
<1>7. SessionIsSound(s, at, j, models', landed', authored')
  <2>1. CASE job[s].made
    BY <1>2, <1>3, <1>4, <2>1, JobFacts, NothingIsApart DEF Fit, SessionIsSound, InHand
  <2>2. CASE ~job[s].made
    BY <2>2, EndedIsSound
  <2> QED BY <2>1, <2>2
<1>8. \A t \in Sessions : t # s => SessionIsSound(t, pc[t], job[t], models', landed', authored')
  BY <1>1, <1>2, <1>3, <1>4, OthersKeepTheirs DEF RecInv, Types
<1>9. /\ steps' \in P!Documents \cup {Absent} /\ dir' \in BOOLEAN /\ landed' \in SUBSET Paths
      /\ removed' \in SUBSET Paths /\ authored' \in [Paths -> {None, "analyst", "typed"}]
  BY <1>4 DEF RecInv, Types
<1> HIDE DEF at, j
<1> QED BY <1>3, <1>5, <1>6, <1>7, <1>8, <1>9, OneMoves

LEMMA RemoveDirKeeps ==
    ASSUME RecInv, NEW s \in Sessions, RemoveDir(s)
    PROVE  RecInv'
<1>1. /\ UNCHANGED <<steps, models, landed, authored, removed>> /\ dir' = (Present # {})
      /\ End(s, "failed")
  BY DEF RemoveDir, ghosts
<1>2. /\ told' \in [Sessions -> {"nothing", "ok", "failed"}]
      /\ pc' = [pc EXCEPT ![s] = "idle"] /\ job' = [job EXCEPT ![s] = None] /\ "idle" \in Places
  BY <1>1 DEF End, Go, RecInv, Types, Places
<1>3. FolderIsSound'
  BY <1>1 DEF RecInv, FolderIsSound, Present
<1>4. /\ steps' \in P!Documents \cup {Absent} /\ models' \in [Paths -> Texts \cup {Absent}]
      /\ dir' \in BOOLEAN /\ landed' \in SUBSET Paths /\ removed' \in SUBSET Paths
      /\ authored' \in [Paths -> {None, "analyst", "typed"}]
  BY <1>1 DEF RecInv, Types
<1>5. \A t \in Sessions : t # s => SessionIsSound(t, pc[t], job[t], models', landed', authored')
  BY <1>1 DEF RecInv
<1> QED BY <1>2, <1>3, <1>4, <1>5, EndedIsSound, OneMoves

\* An amended model landed, so no other call is recording it.
LEMMA RewriteKeeps ==
    ASSUME RecInv, NEW s \in Sessions, Rewrite(s)
    PROVE  RecInv'
<1> DEFINE p == job[s].path
<1>1. pc[s] = "rewrite" /\ UNCHANGED <<steps, dir, landed, authored, removed>>
  BY DEF Rewrite, At, ghosts
<1>2. CASE End(s, "failed") /\ UNCHANGED models
  BY <1>1, <1>2, EndsSoundly DEF ghosts
<1>3. CASE dir /\ models' = [models EXCEPT ![p] = job[s].text] /\ End(s, "ok")
  <2>1. /\ p \in landed /\ authored[p] = None /\ job[s].text = "amended"
    BY <1>1 DEF RecInv, Fit, SessionIsSound
  <2>2. p \in Paths /\ "amended" \in Texts /\ "amended" # Absent
    BY <2>1, TextsAreTexts, NothingIsApart DEF RecInv, Types
  <2>3. /\ models' \in [Paths -> Texts \cup {Absent}] /\ models'[p] = "amended"
        /\ \A q \in Paths : q # p => models'[q] = models[q]
    BY <1>3, <2>1, <2>2 DEF RecInv, Types
  <2>4. FolderIsSound'
    <3>1. \A q \in landed : q \in Paths
      BY DEF RecInv, Types
    <3> QED BY <1>1, <1>3, <2>1, <2>2, <2>3, <3>1 DEF RecInv, FolderIsSound
  <2>5. ASSUME NEW t \in Sessions
        PROVE  SessionIsSound(t, pc[t], job[t], models', landed', authored')
    <3>1. SessionIsSound(t, pc[t], job[t], models, landed, authored)
      BY DEF RecInv
    <3>2. job[t] \in Jobs \cup {None} /\ landed \in SUBSET Paths
      BY DEF RecInv, Types
    <3>3. pc[t] \in {"mkdir", "model", "unlink", "manifest"} => job[t].path # p
      BY <2>1, <2>2, <3>1, NothingIsApart DEF Fit, SessionIsSound
    <3>4. pc[t] = "rmdir" => models'[p] # job[t].text
      BY <2>3, <3>1 DEF Fit, SessionIsSound, WritesOwn
    <3> QED BY <1>1, <2>1, <2>2, <2>3, <3>1, <3>2, <3>3, <3>4, LeftAlone
  <2>6. /\ told' \in [Sessions -> {"nothing", "ok", "failed"}]
        /\ pc' = [pc EXCEPT ![s] = "idle"] /\ job' = [job EXCEPT ![s] = None] /\ "idle" \in Places
    BY <1>3 DEF End, Go, RecInv, Types, Places
  <2>7. /\ steps' \in P!Documents \cup {Absent} /\ dir' \in BOOLEAN /\ landed' \in SUBSET Paths
        /\ removed' \in SUBSET Paths /\ authored' \in [Paths -> {None, "analyst", "typed"}]
    BY <1>1 DEF RecInv, Types
  <2> QED BY <2>3, <2>4, <2>5, <2>6, <2>7, EndedIsSound, OneMoves
<1> QED BY <1>2, <1>3 DEF Rewrite

LEMMA KillKeeps ==
    ASSUME RecInv, NEW s \in Sessions, Kill(s)
    PROVE  RecInv'
BY EndsSoundly DEF Kill, folder, ghosts

-----------------------------------------------------------------------------
(* People. *)

\* A person who keeps off what calls are at work on leaves them sound.
LEMMA PersonsLeaveCalls ==
    ASSUME RecInv, NEW p \in Paths, ~Watched(p), NEW t \in Sessions,
           NEW m2, NEW l2 \in SUBSET Paths, NEW a2,
           \A q \in Paths : q # p =>
             m2[q] = models[q] /\ (q \in l2 <=> q \in landed) /\ a2[q] = authored[q],
           m2[p] \in {"typed", Absent},
           InHand(pc[t], job[t]) /\ p \in P!Cited(job[t].to) => p \in l2
    PROVE  SessionIsSound(t, pc[t], job[t], m2, l2, a2)
<1>1. SessionIsSound(t, pc[t], job[t], models, landed, authored)
  BY DEF RecInv
<1>2. job[t] \in Jobs \cup {None} /\ landed \in SUBSET Paths
  BY DEF RecInv, Types
<1>3. pc[t] \in {"mkdir", "model", "manifest", "unlink", "rewrite"} => job[t].path # p
  BY DEF Watched, Recorded
<1>4. pc[t] = "rmdir" => m2[p] # job[t].text
  BY <1>1, NothingIsApart, TextsAreTexts DEF Fit, SessionIsSound, WritesOwn
<1>5. pc[t] = "rewrite" /\ job[t].path = p => p \in l2 /\ a2[p] = None
  BY <1>3
<1>6. InHand(pc[t], job[t]) /\ p \in P!Cited(job[t].to) => p \in l2 \cup {job[t].path}
  OBVIOUS
<1> QED BY <1>1, <1>2, <1>3, <1>4, <1>5, <1>6, LeftAlone

\* The invariant after what people do: no session moves.
LEMMA NobodyMoves ==
    ASSUME RecInv, UNCHANGED <<pc, job, told>>,
           steps' \in P!Documents \cup {Absent}, models' \in [Paths -> Texts \cup {Absent}],
           dir' \in BOOLEAN, landed' \in SUBSET Paths, removed' \in SUBSET Paths,
           authored' \in [Paths -> {None, "analyst", "typed"}],
           FolderIsSound',
           \A t \in Sessions : SessionIsSound(t, pc[t], job[t], models', landed', authored')
    PROVE  RecInv'
BY DEF RecInv, Types

LEMMA PersonTypesKeeps ==
    ASSUME RecInv, met' = {}, NEW p \in Paths, PersonTypes(p)
    PROVE  RecInv'
<1>1. /\ models' = [models EXCEPT ![p] = "typed"] /\ dir' = TRUE /\ landed' = landed \cup {p}
      /\ authored' = [authored EXCEPT ![p] = "typed"] /\ ~Watched(p)
      /\ UNCHANGED <<steps, pc, job, told, removed>>
  BY DEF PersonTypes, Meets
<1>2. /\ models' \in [Paths -> Texts \cup {Absent}] /\ models'[p] = "typed"
      /\ authored' \in [Paths -> {None, "analyst", "typed"}] /\ authored'[p] = "typed"
      /\ \A q \in Paths : q # p =>
           models'[q] = models[q] /\ (q \in landed' <=> q \in landed) /\ authored'[q] = authored[q]
  BY <1>1, TextsAreTexts DEF RecInv, Types
<1>3. landed' \in SUBSET Paths
  BY <1>1 DEF RecInv, Types
<1>4. "typed" # Absent
  BY TextsAreTexts, NothingIsApart
<1>5. steps # Absent => Stands(steps, landed')
  BY <1>1, MoreStands DEF RecInv, FolderIsSound
<1>6. FolderIsSound'
  BY <1>1, <1>2, <1>3, <1>4, <1>5 DEF RecInv, FolderIsSound
<1>7. \A t \in Sessions : SessionIsSound(t, pc[t], job[t], models', landed', authored')
  BY <1>1, <1>2, <1>3, PersonsLeaveCalls
<1>8. steps' \in P!Documents \cup {Absent} /\ dir' \in BOOLEAN /\ removed' \in SUBSET Paths
  BY <1>1 DEF RecInv, Types
<1> QED BY <1>1, <1>2, <1>3, <1>6, <1>7, <1>8, NobodyMoves

\* No manifest, nor one a call has in hand, loses a model it cites.
LEMMA PersonRemovesKeeps ==
    ASSUME RecInv, met' = {}, NEW p \in Paths, PersonRemoves(p)
    PROVE  RecInv'
<1>1. /\ models' = [models EXCEPT ![p] = Absent] /\ landed' = landed \ {p}
      /\ authored' = [authored EXCEPT ![p] = None] /\ removed' = removed \cup {p}
      /\ ~Watched(p) /\ ~Needed(p) /\ UNCHANGED <<steps, dir, pc, job, told>>
  BY DEF PersonRemoves, Meets
<1>2. /\ models' \in [Paths -> Texts \cup {Absent}] /\ models'[p] = Absent
      /\ authored' \in [Paths -> {None, "analyst", "typed"}] /\ authored'[p] = None
      /\ \A q \in Paths : q # p =>
           models'[q] = models[q] /\ (q \in landed' <=> q \in landed) /\ authored'[q] = authored[q]
  BY <1>1 DEF RecInv, Types
<1>3. landed' \in SUBSET Paths /\ removed' \in SUBSET Paths
  BY <1>1 DEF RecInv, Types
<1>4. steps # Absent => Stands(steps, landed')
  <2>1. steps # Absent => Stands(steps, landed) /\ p \notin P!Cited(steps)
    BY <1>1 DEF RecInv, FolderIsSound, Needed
  <2> QED BY <1>1, <2>1 DEF Stands
<1>5. FolderIsSound'
  <2>1. \A q \in landed' : q \in Paths /\ q # p /\ q \in landed
    BY <1>1, <1>3
  <2> QED BY <1>1, <1>2, <1>4, <2>1 DEF RecInv, FolderIsSound
<1>6. \A t \in Sessions : InHand(pc[t], job[t]) => p \notin P!Cited(job[t].to)
  BY <1>1 DEF Needed, Spliced, InHand
<1>7. \A t \in Sessions : SessionIsSound(t, pc[t], job[t], models', landed', authored')
  BY <1>1, <1>2, <1>3, <1>6, PersonsLeaveCalls
<1>8. steps' \in P!Documents \cup {Absent} /\ dir' \in BOOLEAN
  BY <1>1 DEF RecInv, Types
<1> QED BY <1>1, <1>2, <1>3, <1>5, <1>7, <1>8, NobodyMoves

LEMMA PersonEditsKeeps ==
    ASSUME RecInv, PersonEdits
    PROVE  RecInv'
<1>1. UNCHANGED <<models, dir, pc, job, told, landed, authored, removed>> /\ steps # Absent
  BY DEF PersonEdits, ghosts
<1>2. Stands(steps, landed)
  BY <1>1 DEF RecInv, FolderIsSound
<1>3. Stands(steps', landed)
  <2>1. CASE steps' \in P!Deleted(steps)
    BY <1>2, <2>1, DeletedStands
  <2>2. ASSUME NEW n \in Names, ~HasName(steps, n),
               steps' = Append(steps, [name |-> n, model |-> None])
        PROVE  Stands(steps', landed)
    <3>1. Stands(steps', landed \cup {None})
      BY <1>2, <2>2, AppendStands
    <3> QED BY <3>1 DEF Stands, P!Cited
  <2> QED BY <2>1, <2>2 DEF PersonEdits
<1>4. FolderIsSound'
  BY <1>1, <1>3 DEF RecInv, FolderIsSound
<1>5. \A t \in Sessions : SessionIsSound(t, pc[t], job[t], models', landed', authored')
  BY <1>1 DEF RecInv
<1>6. /\ steps' \in P!Documents \cup {Absent} /\ models' \in [Paths -> Texts \cup {Absent}]
      /\ dir' \in BOOLEAN /\ landed' \in SUBSET Paths /\ removed' \in SUBSET Paths
      /\ authored' \in [Paths -> {None, "analyst", "typed"}]
  BY <1>1, <1>3 DEF RecInv, Types, Stands
<1> QED BY <1>1, <1>4, <1>5, <1>6, NobodyMoves

-----------------------------------------------------------------------------
(* The invariant holds. *)

LEMMA InitIsSound ==
    ASSUME Init
    PROVE  RecInv
<1>1. << >> \in P!Documents /\ Stands(<< >>, landed)
  BY EmptyStands DEF Stands
<1>2. Types
  BY <1>1 DEF Init, Types, Places
<1>3. FolderIsSound
  BY <1>1 DEF Init, FolderIsSound
<1>4. \A s \in Sessions : SessionIsSound(s, pc[s], job[s], models, landed, authored)
  BY EndedIsSound DEF Init
<1> QED BY <1>2, <1>3, <1>4 DEF RecInv

LEMMA StepIsSound ==
    ASSUME RecInv, HandsOff, met = {}, met' = {}, [Next]_vars
    PROVE  RecInv'
<1>1. ASSUME NEW s \in Sessions, Call(s)
      PROVE  RecInv'
  BY <1>1, AskStepKeeps, AskOperatorKeeps, RefusedKeeps, AskEditKeeps, AskCreateKeeps,
     AskAmendKeeps, CheckpointKeeps, SpliceKeeps, MakeDirKeeps, WriteModelKeeps,
     WriteManifestKeeps, RemoveModelKeeps, RemoveDirKeeps, RewriteKeeps DEF Call
<1>2. ASSUME NEW s \in Sessions, Kill(s)
      PROVE  RecInv'
  BY <1>2, KillKeeps
<1>3. ASSUME NEW p \in Paths, PersonTypes(p) \/ PersonRemoves(p)
      PROVE  RecInv'
  BY <1>3, PersonTypesKeeps, PersonRemovesKeeps
<1>4. CASE PersonEdits
  BY <1>4, PersonEditsKeeps
<1>5. CASE UNCHANGED vars
  BY <1>5 DEF vars, folder, ghosts, RecInv, Types, FolderIsSound
<1> QED BY <1>1, <1>2, <1>3, <1>4, <1>5 DEF Next

LEMMA RecordingIsSound == Spec => [](met = {} => RecInv)
<1>1. Init => RecInv
  BY InitIsSound
<1>2. HandsOff /\ (met = {} => RecInv) /\ [Next]_vars => (met = {} => RecInv)'
  <2> SUFFICES ASSUME HandsOff, met = {} => RecInv, [Next]_vars, met' = {}
               PROVE  RecInv'
    OBVIOUS
  <2>1. met = {}
    BY MetGrows
  <2> QED BY <2>1, StepIsSound
<1> QED BY <1>1, <1>2, NobodyLaysHands, PTL DEF Spec

\* In a folder nobody has disturbed, a manifest has no name twice and cites only models
\* that are there, but for those a person took away; and every variable keeps its type.
THEOREM CitedModelsAreThere == Spec => []CitesWhatIsThere
<1>1. HandsOff => TypeOK
  <2> SUFFICES ASSUME HandsOff PROVE TypeOK
    OBVIOUS
  <2>1. steps = Absent \/ steps \in Seq(P!Step)
    BY DEF HandsOff, Types, P!Documents
  <2>2. ~dir => Present = {}
    BY DEF HandsOff, Present
  <2>3. \A s \in Sessions : (pc[s] = "idle" <=> job[s] = None) /\ told[s] \in {"nothing", "ok", "failed"}
    BY DEF HandsOff, Fit, Types
  <2> QED BY <2>1, <2>2, <2>3 DEF TypeOK, HandsOff, Types
<1>2. RecInv => (steps # Absent => Unique(steps)) /\ P!CitesWhatIsThere
  <2> SUFFICES ASSUME RecInv, steps # Absent
               PROVE  Unique(steps) /\ \A p \in P!Cited(steps) : FilesThatLanded[p] # Absent
    BY DEF P!CitesWhatIsThere
  <2>1. Unique(steps) /\ P!Cited(steps) \subseteq landed
    BY DEF RecInv, FolderIsSound, Stands
  <2>2. \A p \in landed : p \in Paths /\ models[p] # Absent
    BY DEF RecInv, FolderIsSound, Types
  <2> QED BY <2>1, <2>2 DEF FilesThatLanded
<1>3. HandsOff /\ (met = {} => RecInv) => CitesWhatIsThere
  BY <1>1, <1>2 DEF CitesWhatIsThere, Undisturbed
<1> QED BY <1>3, NobodyLaysHands, RecordingIsSound, PTL

\* record.rs:31, 200: whatever sessions record, amend, take back or leave behind, and
\* whenever they are killed, a text of a person's or an analyst's own stays as it is,
\* unless it came to a path between a call's look there and its end.
THEOREM AuthorsKeepTheirText == Spec => []AuthorsTextIsKept
<1>1. HandsOff => AuthorsTextIsKept
  BY DEF HandsOff, PathIsSafe, AuthorsTextIsKept
<1> QED BY <1>1, NobodyLaysHands, PTL

\* record.rs:556: no two steps of a manifest ever cite one model, in such a folder.
THEOREM StepsHaveTheirOwnModels == Spec => []OneStepPerModel
<1>1. (met = {} => RecInv) => OneStepPerModel
  BY DEF RecInv, FolderIsSound, Stands, Apart, OneStepPerModel, Undisturbed
<1> QED BY <1>1, RecordingIsSound, PTL

-----------------------------------------------------------------------------
(* Each step is one of ProtocolSpec's, or a stutter. *)

\* What ProtocolSpec sees of the calls.
PlanInHand == [s \in Sessions |-> PlanOf(s)]

PlanAt(at, j) ==
    IF InHand(at, j) THEN [to |-> j.to, path |-> j.path, text |-> j.text] ELSE None

LEMMA PlanIsAt ==
    ASSUME NEW s \in Sessions
    PROVE  PlanInHand[s] = PlanAt(pc[s], job[s])
BY DEF PlanInHand, PlanOf, PlanAt, Spliced, InHand

LEMMA PlanMoves ==
    ASSUME RecInv, NEW s \in Sessions, NEW at, NEW j,
           pc' = [pc EXCEPT ![s] = at], job' = [job EXCEPT ![s] = j]
    PROVE  PlanInHand' = [PlanInHand EXCEPT ![s] = PlanAt(at, j)]
<1>1. ASSUME NEW t \in Sessions, t # s
      PROVE  PlanOf(t)' = PlanOf(t)
  <2>1. pc'[t] = pc[t] /\ job'[t] = job[t]
    BY <1>1 DEF RecInv, Types
  <2> QED BY <2>1 DEF PlanOf, Spliced
<1>2. PlanOf(s)' = PlanAt(at, j)
  <2>1. pc'[s] = at /\ job'[s] = j
    BY DEF RecInv, Types
  <2> QED BY <2>1 DEF PlanOf, Spliced, PlanAt, InHand
<1> QED BY <1>1, <1>2 DEF PlanInHand

\* A plan in hand is one of ProtocolSpec's.
LEMMA PlanIsPlan ==
    ASSUME NEW at, NEW j \in Jobs, InHand(at, j)
    PROVE  PlanAt(at, j) \in P!Plans /\ PlanAt(at, j) # None
BY JobFacts, NothingIsApart DEF PlanAt, P!Plans

\* Models that have not landed are not seen.
LEMMA SameFiles ==
    ASSUME landed' = landed, \A p \in landed : models'[p] = models[p]
    PROVE  FilesThatLanded' = FilesThatLanded
BY DEF FilesThatLanded

Mapped == P!Next \/ UNCHANGED <<steps, FilesThatLanded, PlanInHand, removed>>

\* A session that has nothing in hand after its step has dropped its plan.
LEMMA DropIsMapped ==
    ASSUME RecInv, NEW s \in Sessions, NEW at, NEW j, ~InHand(at, j),
           pc' = [pc EXCEPT ![s] = at], job' = [job EXCEPT ![s] = j],
           UNCHANGED <<steps, removed, FilesThatLanded>>
    PROVE  Mapped
<1>1. PlanInHand' = [PlanInHand EXCEPT ![s] = None]
  BY PlanMoves DEF PlanAt
<1>2. P!Drop(s)
  BY <1>1 DEF P!Drop, PlanInHand
<1> QED BY <1>2 DEF Mapped, P!Next

LEMMA EndIsMapped ==
    ASSUME RecInv, NEW s \in Sessions, NEW outcome, End(s, outcome),
           UNCHANGED <<steps, removed, FilesThatLanded>>
    PROVE  Mapped
<1>1. pc' = [pc EXCEPT ![s] = "idle"] /\ job' = [job EXCEPT ![s] = None]
  BY DEF End, Go
<1>2. ~InHand("idle", None)
  BY DEF InHand
<1> QED BY <1>1, <1>2, DropIsMapped

\* A session whose plan stays in hand.
LEMMA KeepIsMapped ==
    ASSUME RecInv, NEW s \in Sessions, NEW at, NEW j,
           PlanAt(at, j) = PlanAt(pc[s], job[s]),
           pc' = [pc EXCEPT ![s] = at], job' = [job EXCEPT ![s] = j],
           UNCHANGED <<steps, removed, FilesThatLanded>>
    PROVE  Mapped
<1>1. PlanInHand' = [PlanInHand EXCEPT ![s] = PlanAt(at, j)]
  BY PlanMoves
<1>2. PlanInHand[s] = PlanAt(at, j)
  BY PlanIsAt
<1>3. PlanInHand' = PlanInHand
  BY <1>1, <1>2 DEF PlanInHand
<1> QED BY <1>3 DEF Mapped

LEMMA AsksAreMapped ==
    ASSUME RecInv, NEW s \in Sessions,
           \/ \E n \in NamesOf[s] :
                AskOperation(s, n) \/ AskSql(s, n) \/ AskOperator(s, n) \/ Refused(s, n)
           \/ AskEdit(s) \/ AskCreate(s) \/ AskAmend(s)
    PROVE  Mapped
<1>1. ASSUME NEW place, NEW j, Enter(s, place, j)
      PROVE  /\ pc' = [pc EXCEPT ![s] = place] /\ job' = [job EXCEPT ![s] = j]
             /\ UNCHANGED <<steps, removed, FilesThatLanded>>
  BY <1>1 DEF Enter, Go, folder, ghosts, FilesThatLanded
<1>2. ASSUME NEW n \in NamesOf[s], AskOperation(s, n) \/ AskSql(s, n)
      PROVE  Mapped
  <2>1. PICK text \in {"generated", "analyst"} : AskStep(s, n, text)
    BY <1>2 DEF AskOperation, AskSql
  <2> DEFINE j == [Job("step", << >>, None, text) EXCEPT !.name = n]
  <2>2. Enter(s, "checkpoint", j) /\ j.road = "step"
    BY <2>1 DEF AskStep, Job
  <2> HIDE DEF j
  <2>3. ~InHand("checkpoint", j)
    BY <2>2 DEF InHand
  <2> QED BY <1>1, <2>2, <2>3, DropIsMapped
<1>3. ASSUME NEW n \in NamesOf[s], AskOperator(s, n)
      PROVE  Mapped
  <2> DEFINE doc == Append(steps, [name |-> n, model |-> None])
             j == Job("operator", doc, None, None)
  <2>1. Enter(s, "checkpoint", j) /\ steps # Absent /\ n \in Names
    BY <1>3, NamesAreNames DEF AskOperator
  <2>2. PlanAt("checkpoint", j) = [to |-> doc, path |-> None, text |-> None]
    BY DEF PlanAt, InHand, Job
  <2> HIDE DEF j
  <2>3. PlanInHand' = [PlanInHand EXCEPT ![s] = [to |-> doc, path |-> None, text |-> None]]
    BY <1>1, <2>1, <2>2, PlanMoves
  <2>4. "typed" \in Texts
    BY TextsAreTexts
  <2>5. P!PlanStep(s)
    BY <1>1, <2>1, <2>3, <2>4 DEF P!PlanStep, PlanInHand
  <2> QED BY <2>5 DEF Mapped, P!Next
<1>4. ASSUME NEW n \in NamesOf[s], Refused(s, n)
      PROVE  Mapped
  <2>1. End(s, "nothing") /\ UNCHANGED <<steps, removed, FilesThatLanded>>
    BY <1>4 DEF Refused, folder, ghosts, FilesThatLanded
  <2> QED BY <2>1, EndIsMapped
<1>5. CASE AskEdit(s)
  <2>1. PICK doc \in P!Edited(steps) : Enter(s, "checkpoint", Job("edit", doc, None, None))
    BY <1>5 DEF AskEdit
  <2> DEFINE j == Job("edit", doc, None, None)
  <2>2. PlanAt("checkpoint", j) = [to |-> doc, path |-> None, text |-> None]
    BY DEF PlanAt, InHand, Job
  <2>3. Enter(s, "checkpoint", j)
    BY <2>1
  <2> HIDE DEF j
  <2>4. PlanInHand' = [PlanInHand EXCEPT ![s] = [to |-> doc, path |-> None, text |-> None]]
    BY <1>1, <2>2, <2>3, PlanMoves
  <2>5. P!PlanEdit(s)
    BY <1>1, <1>5, <2>3, <2>4 DEF P!PlanEdit, PlanInHand, AskEdit
  <2> QED BY <2>5 DEF Mapped, P!Next
<1>6. CASE AskCreate(s)
  <2> DEFINE j == Job("create", << >>, None, None)
  <2>1. PlanAt("manifest", j) = [to |-> << >>, path |-> None, text |-> None]
    BY DEF PlanAt, InHand, Job
  <2>2. Enter(s, "manifest", j) /\ steps = Absent
    BY <1>6 DEF AskCreate
  <2> HIDE DEF j
  <2>3. PlanInHand' = [PlanInHand EXCEPT ![s] = [to |-> << >>, path |-> None, text |-> None]]
    BY <1>1, <2>1, <2>2, PlanMoves
  <2>4. P!PlanManifest(s)
    BY <1>1, <2>2, <2>3 DEF P!PlanManifest, PlanInHand
  <2> QED BY <2>4 DEF Mapped, P!Next
<1>7. CASE AskAmend(s)
  <2>1. PICK p \in P!Cited(steps) : Enter(s, "rewrite", Job("amend", << >>, p, "amended"))
    BY <1>7 DEF AskAmend
  <2>2. ~InHand("rewrite", Job("amend", << >>, p, "amended"))
    BY DEF InHand
  <2> QED BY <1>1, <2>1, <2>2, DropIsMapped
<1> QED BY <1>2, <1>3, <1>4, <1>5, <1>6, <1>7


LEMMA CheckpointIsMapped ==
    ASSUME RecInv, NEW s \in Sessions, Checkpoint(s)
    PROVE  Mapped
<1>1. UNCHANGED <<steps, removed, FilesThatLanded>>
  BY DEF Checkpoint, folder, ghosts, FilesThatLanded
<1>2. CASE End(s, "nothing")
  BY <1>1, <1>2, EndIsMapped
<1>3. CASE Go(s, IF job[s].road = "step" THEN "splice" ELSE "manifest") /\ UNCHANGED job
  <2>1. job' = [job EXCEPT ![s] = job[s]]
    BY <1>3 DEF RecInv, Types
  <2>2. CASE job[s].road = "step"
    <3>1. pc' = [pc EXCEPT ![s] = "splice"] /\ ~InHand("splice", job[s])
      BY <1>3, <2>2 DEF Go, InHand
    <3> QED BY <1>1, <2>1, <3>1, DropIsMapped
  <2>3. CASE job[s].road # "step"
    <3>1. pc' = [pc EXCEPT ![s] = "manifest"] /\ pc[s] = "checkpoint"
      BY <1>3, <2>3 DEF Go, Checkpoint, At
    <3>2. PlanAt("manifest", job[s]) = PlanAt(pc[s], job[s])
      BY <2>3, <3>1 DEF PlanAt, InHand, RecInv, Fit, SessionIsSound
    <3> QED BY <1>1, <2>1, <3>1, <3>2, KeepIsMapped
  <2> QED BY <2>2, <2>3
<1> QED BY <1>2, <1>3 DEF Checkpoint

LEMMA SpliceIsMapped ==
    ASSUME RecInv, NEW s \in Sessions, Splice(s)
    PROVE  Mapped
<1>1. UNCHANGED <<steps, removed, FilesThatLanded>>
  BY DEF Splice, folder, ghosts, FilesThatLanded
<1>2. CASE End(s, "nothing")
  BY <1>1, <1>2, EndIsMapped
<1>3. CASE ~End(s, "nothing")
  <2> DEFINE n == job[s].name
             p == ModelPath(n)
             doc == Append(steps, [name |-> n, model |-> p])
             j == [job[s] EXCEPT !.path = p, !.to = doc]
  <2>1. /\ pc[s] = "splice" /\ steps # Absent /\ models[p] = Absent
        /\ Go(s, "mkdir")
        /\ job' = [job EXCEPT ![s].path = p, ![s].to = doc]
    BY <1>3 DEF Splice, At
  <2>2. job[s] \in Jobs /\ n \in Names /\ job[s].text \in {"generated", "analyst"}
    BY <2>1, AtWork, NamesAreNames DEF RecInv, Fit, SessionIsSound
  <2>3. p \in Paths
    BY <2>2, ModelPathIsPath DEF RecInv
  <2>4. p \notin landed
    BY <2>1 DEF RecInv, FolderIsSound
  <2> HIDE DEF p
  <2>5. pc' = [pc EXCEPT ![s] = "mkdir"] /\ job' = [job EXCEPT ![s] = j]
    BY <2>1 DEF Go, RecInv, Types
  <2>6. PlanAt("mkdir", j) = [to |-> doc, path |-> p, text |-> job[s].text]
    BY <2>2 DEF PlanAt, InHand, Jobs
  <2> HIDE DEF j
  <2>7. PlanInHand' = [PlanInHand EXCEPT ![s] = [to |-> doc, path |-> p, text |-> job[s].text]]
    BY <2>5, <2>6, PlanMoves
  <2>8. FilesThatLanded[p] = Absent /\ p # None /\ job[s].text \in Texts
    BY <2>2, <2>3, <2>4, NothingIsApart, TextsAreTexts DEF FilesThatLanded
  <2>9. P!PlanStep(s)
    BY <1>1, <2>1, <2>2, <2>3, <2>7, <2>8 DEF P!PlanStep, PlanInHand
  <2> QED BY <2>9 DEF Mapped, P!Next
<1> QED BY <1>2, <1>3

LEMMA MakeDirIsMapped ==
    ASSUME RecInv, NEW s \in Sessions, MakeDir(s)
    PROVE  Mapped
<1>1. UNCHANGED <<steps, removed, FilesThatLanded>>
  BY DEF MakeDir, ghosts, FilesThatLanded
<1>2. CASE End(s, "failed")
  BY <1>1, <1>2, EndIsMapped
<1>3. CASE ~End(s, "failed")
  <2> DEFINE j == [job[s] EXCEPT !.made = ~dir]
  <2>1. pc[s] = "mkdir" /\ Go(s, "model") /\ job' = [job EXCEPT ![s].made = ~dir]
    BY <1>3 DEF MakeDir, At
  <2>2. pc' = [pc EXCEPT ![s] = "model"] /\ job' = [job EXCEPT ![s] = j]
    BY <2>1 DEF Go, RecInv, Types
  <2>3. PlanAt("model", j) = PlanAt(pc[s], job[s])
    BY <2>1, AtWork DEF PlanAt, InHand, Jobs
  <2> QED BY <1>1, <2>2, <2>3, KeepIsMapped
<1> QED BY <1>2, <1>3

\* A model that is being written, or taken back, has not landed.
LEMMA OwnIsNotLanded ==
    ASSUME RecInv, NEW s \in Sessions, pc[s] \in {"model", "unlink"},
           NEW t, models' = [models EXCEPT ![job[s].path] = t], landed' = landed
    PROVE  FilesThatLanded' = FilesThatLanded
<1>1. job[s].path \notin landed
  BY DEF RecInv, Fit, SessionIsSound
<1> QED BY <1>1, SameFiles DEF RecInv, Types

LEMMA WriteModelIsMapped ==
    ASSUME RecInv, NEW s \in Sessions, WriteModel(s)
    PROVE  Mapped
<1>1. /\ pc[s] = "model" /\ UNCHANGED <<steps, removed, landed>>
      /\ job' = [job EXCEPT ![s] = job[s]]
  BY DEF WriteModel, At, ghosts, RecInv, Types
<1>2. CASE models' = [models EXCEPT ![job[s].path] = job[s].text] /\ Go(s, "manifest")
  <2>1. UNCHANGED FilesThatLanded
    BY <1>1, <1>2, OwnIsNotLanded
  <2>2. PlanAt("manifest", job[s]) = PlanAt(pc[s], job[s])
    BY <1>1 DEF PlanAt, InHand
  <2> QED BY <1>1, <1>2, <2>1, <2>2, KeepIsMapped DEF Go
<1>3. CASE Go(s, "unlink") /\ UNCHANGED models
  <2>1. UNCHANGED FilesThatLanded /\ ~InHand("unlink", job[s])
    BY <1>1, <1>3 DEF FilesThatLanded, InHand
  <2> QED BY <1>1, <1>3, <2>1, DropIsMapped DEF Go
<1> QED BY <1>2, <1>3 DEF WriteModel

LEMMA WriteManifestIsMapped ==
    ASSUME RecInv, NEW s \in Sessions, WriteManifest(s)
    PROVE  Mapped
<1> DEFINE p == job[s].path
<1>1. pc[s] = "manifest" /\ UNCHANGED <<models, removed>> /\ job[s] \in Jobs
  BY AtWork DEF WriteManifest, At
<1>2. CASE steps' = job[s].to /\ Landed(s) /\ End(s, "ok")
  <2>1. PlanInHand[s] = [to |-> job[s].to, path |-> p, text |-> job[s].text]
    BY <1>1, PlanIsAt DEF PlanAt, InHand
  <2>2. PlanInHand[s] # None
    BY <1>1, PlanIsAt, PlanIsPlan DEF InHand
  <2>3. \/ p = None
        \/ p \in Paths /\ p \notin landed /\ models[p] = job[s].text
    BY <1>1 DEF RecInv, Fit, SessionIsSound, WritesOwn
  <2>4. p # None => FilesThatLanded[p] = Absent
    BY <2>3 DEF FilesThatLanded
  <2>5. landed' = landed \cup ({p} \ {None})
    BY <1>2 DEF Landed
  <2>6. FilesThatLanded' = [q \in Paths |-> IF q = p THEN job[s].text ELSE FilesThatLanded[q]]
    BY <1>1, <2>3, <2>5, NothingIsApart DEF FilesThatLanded
  <2>7. PlanInHand' = [PlanInHand EXCEPT ![s] = None]
    <3>1. pc' = [pc EXCEPT ![s] = "idle"] /\ job' = [job EXCEPT ![s] = None]
      BY <1>2 DEF End, Go
    <3>2. PlanAt("idle", None) = None
      BY DEF PlanAt, InHand
    <3>3. PlanInHand' = [PlanInHand EXCEPT ![s] = PlanAt("idle", None)]
      BY <3>1, PlanMoves
    <3> QED BY <3>2, <3>3
  <2> HIDE DEF p
  <2>8. P!Land(s)
    BY <1>1, <1>2, <2>1, <2>2, <2>4, <2>6, <2>7 DEF P!Land, PlanInHand
  <2> QED BY <2>8 DEF Mapped, P!Next
<1>3. CASE UNCHANGED <<steps, landed>> /\ End(s, "failed")
  <2>1. UNCHANGED FilesThatLanded
    BY <1>1, <1>3 DEF FilesThatLanded
  <2> QED BY <1>1, <1>3, <2>1, EndIsMapped
<1>4. CASE UNCHANGED <<steps, landed, job>> /\ Go(s, "unlink")
  <2>1. UNCHANGED FilesThatLanded /\ ~InHand("unlink", job[s])
    BY <1>1, <1>4 DEF FilesThatLanded, InHand
  <2>2. job' = [job EXCEPT ![s] = job[s]]
    BY <1>4 DEF RecInv, Types
  <2> QED BY <1>1, <1>4, <2>1, <2>2, DropIsMapped DEF Go
<1> QED BY <1>2, <1>3, <1>4 DEF WriteManifest

LEMMA RemoveModelIsMapped ==
    ASSUME RecInv, NEW s \in Sessions, RemoveModel(s)
    PROVE  Mapped
<1>1. UNCHANGED <<steps, removed, FilesThatLanded>>
  BY OwnIsNotLanded DEF RemoveModel, At, ghosts
<1>2. CASE End(s, "failed")
  BY <1>1, <1>2, EndIsMapped
<1>3. CASE Go(s, "rmdir") /\ UNCHANGED job
  <2>1. pc' = [pc EXCEPT ![s] = "rmdir"] /\ job' = [job EXCEPT ![s] = job[s]]
    BY <1>3 DEF Go, RecInv, Types
  <2>2. ~InHand("rmdir", job[s])
    BY DEF InHand
  <2> QED BY <1>1, <2>1, <2>2, DropIsMapped
<1> QED BY <1>2, <1>3 DEF RemoveModel

LEMMA RemoveDirIsMapped ==
    ASSUME RecInv, NEW s \in Sessions, RemoveDir(s) \/ Kill(s)
    PROVE  Mapped
<1>1. UNCHANGED <<steps, removed, FilesThatLanded>>
  BY DEF RemoveDir, Kill, folder, ghosts, FilesThatLanded
<1>2. PICK outcome \in {"failed", "nothing"} : End(s, outcome)
  BY DEF RemoveDir, Kill
<1> QED BY <1>1, <1>2, EndIsMapped

LEMMA RewriteIsMapped ==
    ASSUME RecInv, NEW s \in Sessions, Rewrite(s)
    PROVE  Mapped
<1> DEFINE p == job[s].path
<1>1. pc[s] = "rewrite" /\ UNCHANGED <<steps, removed, landed>>
  BY DEF Rewrite, At, ghosts
<1>2. CASE End(s, "failed") /\ UNCHANGED models
  <2>1. UNCHANGED FilesThatLanded
    BY <1>1, <1>2 DEF FilesThatLanded
  <2> QED BY <1>1, <1>2, <2>1, EndIsMapped
<1>3. CASE End(s, "ok") /\ models' = [models EXCEPT ![p] = job[s].text]
  <2>1. p \in landed /\ p \in Paths /\ models[p] # Absent /\ job[s].text = "amended"
    BY <1>1 DEF RecInv, Types, Fit, SessionIsSound, FolderIsSound
  <2> HIDE DEF p
  <2>2. FilesThatLanded' = [FilesThatLanded EXCEPT ![p] = "amended"]
    BY <1>1, <1>3, <2>1 DEF FilesThatLanded, RecInv, Types
  <2>3. FilesThatLanded[p] # Absent
    BY <2>1 DEF FilesThatLanded
  <2>4. PlanInHand' = PlanInHand
    <3>1. pc' = [pc EXCEPT ![s] = "idle"] /\ job' = [job EXCEPT ![s] = None]
      BY <1>3 DEF End, Go
    <3>2. PlanInHand' = [PlanInHand EXCEPT ![s] = PlanAt("idle", None)]
      BY <3>1, PlanMoves
    <3>3. PlanAt("idle", None) = None /\ PlanAt(pc[s], job[s]) = None
      BY <1>1 DEF PlanAt, InHand
    <3>4. PlanInHand[s] = PlanAt(pc[s], job[s])
      BY PlanIsAt
    <3> QED BY <3>2, <3>3, <3>4 DEF PlanInHand
  <2>5. P!Retext(p)
    BY <1>1, <2>2, <2>3, <2>4, TextsAreTexts DEF P!Retext, PlanInHand
  <2> QED BY <2>1, <2>5 DEF Mapped, P!Next
<1> QED BY <1>2, <1>3 DEF Rewrite

LEMMA PeopleAreMapped ==
    ASSUME RecInv,
           (\E p \in Paths : PersonTypes(p) \/ PersonRemoves(p)) \/ PersonEdits
    PROVE  Mapped
<1>1. PlanInHand' = PlanInHand
  BY DEF PersonTypes, PersonRemoves, PersonEdits, PlanInHand, PlanOf, Spliced
<1>2. ASSUME NEW p \in Paths, PersonTypes(p)
      PROVE  Mapped
  <2>1. FilesThatLanded' = [FilesThatLanded EXCEPT ![p] = "typed"]
    BY <1>2 DEF PersonTypes, FilesThatLanded, RecInv, Types
  <2>2. P!Place(p)
    BY <1>1, <1>2, <2>1, TextsAreTexts DEF P!Place, PersonTypes, PlanInHand
  <2> QED BY <2>2 DEF Mapped, P!Next
<1>3. ASSUME NEW p \in Paths, PersonRemoves(p)
      PROVE  Mapped
  <2>1. FilesThatLanded' = [FilesThatLanded EXCEPT ![p] = Absent]
    BY <1>3 DEF PersonRemoves, FilesThatLanded, RecInv, Types
  <2>2. P!TakeAway(p)
    BY <1>1, <1>3, <2>1 DEF P!TakeAway, PersonRemoves, PlanInHand
  <2> QED BY <2>2 DEF Mapped, P!Next
<1>4. CASE PersonEdits
  <2>1. UNCHANGED <<FilesThatLanded, removed>>
    BY <1>4 DEF PersonEdits, ghosts, FilesThatLanded
  <2>2. P!EditByHand
    BY <1>1, <1>4, <2>1 DEF P!EditByHand, P!Edited, PersonEdits, PlanInHand
  <2> QED BY <2>2 DEF Mapped, P!Next
<1> QED BY <1>2, <1>3, <1>4

LEMMA InitIsMapped ==
    ASSUME Init
    PROVE  P!Init
<1>1. FilesThatLanded = [p \in Paths |-> Absent]
  BY DEF Init, FilesThatLanded
<1>2. \A s \in Sessions : PlanOf(s) = None
  BY DEF Init, PlanOf, Spliced
<1> QED BY <1>1, <1>2 DEF Init, P!Init

LEMMA StepIsMapped ==
    ASSUME RecInv, [Next]_vars
    PROVE  [P!Next]_(P!vars)
<1> SUFFICES Mapped
  BY DEF Mapped, P!vars, PlanInHand
<1>1. ASSUME NEW s \in Sessions, Call(s)
      PROVE  Mapped
  BY <1>1, AsksAreMapped, CheckpointIsMapped, SpliceIsMapped, MakeDirIsMapped,
     WriteModelIsMapped, WriteManifestIsMapped, RemoveModelIsMapped, RemoveDirIsMapped,
     RewriteIsMapped DEF Call
<1>2. ASSUME NEW s \in Sessions, Kill(s)
      PROVE  Mapped
  BY <1>2, RemoveDirIsMapped
<1>3. CASE (\E p \in Paths : PersonTypes(p) \/ PersonRemoves(p)) \/ PersonEdits
  BY <1>3, PeopleAreMapped
<1>4. CASE UNCHANGED vars
  BY <1>4 DEF vars, folder, ghosts, Mapped, FilesThatLanded, PlanInHand, PlanOf, Spliced
<1> QED BY <1>1, <1>2, <1>3, <1>4 DEF Next

-----------------------------------------------------------------------------
(* A promotion that fails takes back what it wrote. *)

\* Only a directory that cannot be made, a model that is taken back and a rewrite that
\* fails are told as failures that had a model in hand.
LEMMA FailuresAreFew ==
    ASSUME RecInv, [Next]_vars, NEW s \in Sessions,
           told[s] # "failed", told'[s] = "failed", job[s].path # None
    PROVE  MakeDir(s) \/ RemoveModel(s) \/ RemoveDir(s) \/ Rewrite(s)
<1> USE DEF RecInv, Types
<1>1. ASSUME NEW t \in Sessions, NEW outcome, told' = [told EXCEPT ![t] = outcome]
      PROVE  t = s /\ outcome = "failed"
  BY <1>1
<1>2. ASSUME NEW t \in Sessions,
             \/ \E n \in NamesOf[t] :
                  AskOperation(t, n) \/ AskSql(t, n) \/ AskOperator(t, n) \/ Refused(t, n)
             \/ AskEdit(t) \/ AskCreate(t) \/ AskAmend(t)
             \/ Kill(t)
      PROVE  FALSE
  <2>1. told' = [told EXCEPT ![t] = "nothing"]
    BY <1>2 DEF AskOperation, AskSql, AskStep, AskOperator, Refused, AskEdit, AskCreate,
                AskAmend, Kill, Enter, End
  <2> QED BY <1>1, <2>1
<1>3. ASSUME NEW t \in Sessions, Checkpoint(t) \/ Splice(t) \/ WriteModel(t)
      PROVE  FALSE
  <2>1. told' = told \/ told' = [told EXCEPT ![t] = "nothing"]
    BY <1>3 DEF Checkpoint, Splice, WriteModel, End
  <2> QED BY <1>1, <2>1
<1>4. ASSUME NEW t \in Sessions, WriteManifest(t)
      PROVE  FALSE
  <2>1. \/ told' = told \/ told' = [told EXCEPT ![t] = "ok"]
        \/ told' = [told EXCEPT ![t] = "failed"] /\ job[t].path = None
    BY <1>4 DEF WriteManifest, End
  <2> QED BY <1>1, <2>1
<1>5. ASSUME NEW t \in Sessions, MakeDir(t) \/ RemoveModel(t) \/ RemoveDir(t) \/ Rewrite(t)
      PROVE  t = s
  <2>1. told' = told \/ \E outcome : told' = [told EXCEPT ![t] = outcome]
    BY <1>5 DEF MakeDir, RemoveModel, RemoveDir, Rewrite, End
  <2> QED BY <1>1, <2>1
<1>6. ASSUME NEW p \in Paths, PersonTypes(p) \/ PersonRemoves(p)
      PROVE  FALSE
  BY <1>6 DEF PersonTypes, PersonRemoves
<1>7. CASE PersonEdits \/ UNCHANGED vars
  BY <1>7 DEF PersonEdits, vars
<1> QED BY <1>2, <1>3, <1>4, <1>5, <1>6, <1>7 DEF Next, Call

LEMMA FailureIsClean ==
    ASSUME RecInv, [Next]_vars
    PROVE  [\A s \in Sessions : NoOrphanOf(s)]_vars
<1> SUFFICES ASSUME NEW s \in Sessions,
                    told[s] # "failed", told'[s] = "failed", job[s].path # None
             PROVE  job[s].road = "amend" \/ models'[job[s].path] # job[s].text
  BY DEF NoOrphanOf
<1>1. CASE MakeDir(s)
  <2>1. models' = models /\ models[job[s].path] = Absent /\ job[s].text \in Texts
    BY <1>1, TextsAreTexts DEF MakeDir, At, RecInv, Fit, SessionIsSound, WritesOwn
  <2> QED BY <2>1, NothingIsApart
<1>2. CASE RemoveModel(s)
  <2>1. /\ models' = [models EXCEPT ![job[s].path] = Absent]
        /\ job[s].path \in Paths /\ job[s].text \in Texts
    BY <1>2, TextsAreTexts DEF RemoveModel, At, RecInv, Fit, SessionIsSound, WritesOwn
  <2> QED BY <2>1, NothingIsApart DEF RecInv, Types
<1>3. CASE RemoveDir(s)
  BY <1>3 DEF RemoveDir, At, RecInv, Fit, SessionIsSound
<1>4. CASE Rewrite(s)
  BY <1>4 DEF Rewrite, At, RecInv, Fit, SessionIsSound
<1> QED BY <1>1, <1>2, <1>3, <1>4, FailuresAreFew

\* record.rs:50-60: as long as nobody comes to a path under a call, a recording implements
\* ProtocolSpec, where a step and its model land as one, and one that fails leaves no model
\* behind.
THEOREM RecordingLandsWhole == Spec => LandsWhole
<1>1. Init => P!Init
  BY InitIsMapped
<1>2. (met = {} => RecInv) /\ HandsOff /\ [Next]_vars =>
        [Undisturbed' => P!Next]_(P!vars)
  <2> SUFFICES ASSUME met = {} => RecInv, [Next]_vars, met' = {}
               PROVE  [P!Next]_(P!vars)
    BY DEF Undisturbed
  <2> QED BY MetGrows, StepIsMapped
<1>3. (met = {} => RecInv) /\ HandsOff /\ [Next]_vars =>
        [Undisturbed' => \A s \in Sessions : NoOrphanOf(s)]_vars
  <2> SUFFICES ASSUME met = {} => RecInv, [Next]_vars, met' = {}
               PROVE  [\A s \in Sessions : NoOrphanOf(s)]_vars
    BY DEF Undisturbed
  <2> QED BY MetGrows, FailureIsClean
<1> QED BY <1>1, <1>2, <1>3, RecordingIsSound, NobodyLaysHands, PTL
        DEF Spec, LandsWhole, FailureLeavesNoOrphan
=============================================================================
