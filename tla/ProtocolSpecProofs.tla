-------------------------- MODULE ProtocolSpecProofs --------------------------
(***************************************************************************)
(* What recording promises holds of any sessions, names, models and texts: *)
(* the manifest never cites a model that is not there.                     *)
(***************************************************************************)
EXTENDS ProtocolSpec, SequenceTheorems, TLAPS

\* Types, so far as the argument needs them.
Types ==
    /\ steps \in Documents \cup {Absent}
    /\ files \in [Paths -> Texts \cup {Absent}]
    /\ plan \in [Sessions -> Plans \cup {None}]
    /\ \A s \in Sessions :
          plan[s] # None /\ plan[s].path # None => plan[s].text \in Texts

\* Each model a document cites is there, but for those left out.
Has(doc, but) == \A p \in Cited(doc) \ but : files[p] # Absent

\* What a plan is about to land cites only what is there, what a person has
\* taken away and the model it brings.
PlansHold ==
    \A s \in Sessions : plan[s] # None => Has(plan[s].to, removed \cup {plan[s].path})

CitesInv == Types /\ CitesWhatIsThere /\ PlansHold

-----------------------------------------------------------------------------
(* Documents and what they cite. *)

LEMMA StepsOfDocument ==
    ASSUME NEW doc \in Documents
    PROVE  /\ Len(doc) \in Nat /\ DOMAIN doc = 1..Len(doc)
           /\ \A i \in DOMAIN doc :
                 doc[i] \in Step /\ doc[i].model \in Paths \cup {None}
<1>1. doc \in Seq(Step)
  BY DEF Documents
<1>2. Len(doc) \in Nat /\ DOMAIN doc = 1..Len(doc)
  BY <1>1, LenProperties
<1>3. \A i \in 1..Len(doc) : doc[i] \in Step
  BY <1>1, ElementOfSeq
<1> QED BY <1>2, <1>3 DEF Step

LEMMA CitedIsPaths ==
    ASSUME NEW doc \in Documents
    PROVE  Cited(doc) \subseteq Paths
BY StepsOfDocument DEF Cited

LEMMA AppendCites ==
    ASSUME NEW doc \in Documents, NEW step \in Step
    PROVE  /\ Append(doc, step) \in Documents
           /\ Cited(Append(doc, step)) \subseteq Cited(doc) \cup ({step.model} \ {None})
<1> DEFINE longer == Append(doc, step)
<1>1. /\ longer \in Documents /\ Len(longer) = Len(doc) + 1
      /\ \A i \in 1..Len(doc) : longer[i] = doc[i]
      /\ longer[Len(doc) + 1] = step
  BY AppendProperties DEF Documents
<1>2. ASSUME NEW i \in DOMAIN longer
      PROVE  \/ i \in DOMAIN doc /\ longer[i] = doc[i]
             \/ longer[i] = step
  BY <1>1, StepsOfDocument
<1> QED BY <1>1, <1>2 DEF Cited

\* Each step of `other` is a step of `doc` with its model, and no two are the same:
\* at[i] is where the step was.
Keeps(other, doc, at) ==
    /\ at \in [DOMAIN other -> DOMAIN doc]
    /\ \A i, j \in DOMAIN other : at[i] = at[j] => i = j
    /\ \A i \in DOMAIN other : other[i].model = doc[at[i]].model

\* A document made of another's steps cites nothing more.
LEMMA KeptCites ==
    ASSUME NEW doc, NEW other, NEW at, Keeps(other, doc, at)
    PROVE  Cited(other) \subseteq Cited(doc)
BY DEF Cited, Keeps

LEMMA RenamedKeeps ==
    ASSUME NEW doc \in Documents, NEW other \in Renamed(doc)
    PROVE  other \in Documents /\ \E at : Keeps(other, doc, at)
<1>1. PICK i \in DOMAIN doc, n \in Names : other = [doc EXCEPT ![i].name = n]
  BY DEF Renamed
<1>2. [doc[i] EXCEPT !.name = n] \in Step
  BY StepsOfDocument DEF Step
<1>3. other \in Documents /\ DOMAIN other = DOMAIN doc
  BY <1>1, <1>2, ExceptSeq DEF Documents
<1>4. \A j \in DOMAIN other : other[j].model = doc[j].model
  BY <1>1, StepsOfDocument DEF Step
<1>5. Keeps(other, doc, [j \in DOMAIN doc |-> j])
  BY <1>3, <1>4 DEF Keeps
<1> QED BY <1>3, <1>5

LEMMA DeletedKeeps ==
    ASSUME NEW doc \in Documents, NEW other \in Deleted(doc)
    PROVE  /\ other \in Documents
           /\ \E at : /\ Keeps(other, doc, at)
                      /\ \A j \in DOMAIN other : other[j] = doc[at[j]]
<1>1. PICK i \in DOMAIN doc : other = SubSeq(doc, 1, i - 1) \o SubSeq(doc, i + 1, Len(doc))
  BY DEF Deleted, RemoveAt
<1> DEFINE before == SubSeq(doc, 1, i - 1)
           after == SubSeq(doc, i + 1, Len(doc))
           at == [j \in 1..(Len(doc) - 1) |-> IF j < i THEN j ELSE j + 1]
<1>2. doc \in Seq(Step) /\ Len(doc) \in Nat /\ i \in 1..Len(doc) /\ DOMAIN doc = 1..Len(doc)
  BY StepsOfDocument DEF Documents
<1>3. /\ before \in Seq(Step) /\ Len(before) = i - 1
      /\ \A j \in 1..(i - 1) : before[j] = doc[j]
  BY <1>2, SubSeqProperties
<1>4. /\ after \in Seq(Step) /\ Len(after) = Len(doc) - i
      /\ \A j \in 1..(Len(doc) - i) : after[j] = doc[i + j]
  BY <1>2, SubSeqProperties
<1> HIDE DEF before, after
<1>5. /\ before \o after \in Seq(Step)
      /\ Len(before \o after) = Len(before) + Len(after)
      /\ \A j \in 1..(Len(before) + Len(after)) :
            (before \o after)[j] = IF j <= Len(before) THEN before[j] ELSE after[j - Len(before)]
  BY <1>3, <1>4, ConcatProperties
<1>6. other = before \o after
  BY <1>1 DEF before, after
<1> DEFINE size == Len(before) + Len(after)
<1>7. size = Len(doc) - 1
  BY <1>2, <1>3, <1>4
<1>8. /\ other \in Seq(Step) /\ Len(other) = size
      /\ \A j \in 1..size :
            other[j] = IF j <= Len(before) THEN before[j] ELSE after[j - Len(before)]
  BY <1>5, <1>6
<1> HIDE DEF size
<1>9. other \in Documents /\ DOMAIN other = 1..(Len(doc) - 1)
  <2>1. Len(other) = Len(doc) - 1
    BY <1>7, <1>8
  <2>2. other \in Documents
    BY <1>8 DEF Documents
  <2> QED BY <2>1, <2>2, StepsOfDocument
<1>10. ASSUME NEW j \in 1..(Len(doc) - 1)
      PROVE  at[j] \in DOMAIN doc /\ other[j] = doc[at[j]]
  <2>0. other[j] = IF j <= i - 1 THEN before[j] ELSE after[j - (i - 1)]
    BY <1>3, <1>7, <1>8
  <2>1. CASE j < i
    BY <1>2, <1>3, <2>0, <2>1
  <2>2. CASE ~(j < i)
    <3>1. j - (i - 1) \in 1..(Len(doc) - i) /\ i + (j - (i - 1)) = j + 1
      BY <1>2, <2>2
    <3>2. other[j] = after[j - (i - 1)]
      BY <1>2, <2>0, <2>2
    <3>3. at[j] = j + 1 /\ j + 1 \in DOMAIN doc
      BY <1>2, <2>2
    <3> QED BY <1>4, <3>1, <3>2, <3>3
  <2> QED BY <2>1, <2>2
<1>11. \A j, k \in 1..(Len(doc) - 1) : at[j] = at[k] => j = k
  BY <1>2
<1>12. at \in [DOMAIN other -> DOMAIN doc]
  BY <1>9, <1>10
<1> HIDE DEF at
<1>13. Keeps(other, doc, at)
  BY <1>9, <1>10, <1>11, <1>12 DEF Keeps
<1> QED BY <1>9, <1>10, <1>13

LEMMA SwappedKeeps ==
    ASSUME NEW doc \in Documents, NEW other \in Swapped(doc)
    PROVE  other \in Documents /\ \E at : Keeps(other, doc, at)
<1>1. PICK i \in DOMAIN doc, j \in DOMAIN doc :
         other = [doc EXCEPT ![i] = doc[j], ![j] = doc[i]]
  BY DEF Swapped
<1>2. doc[i] \in Step /\ doc[j] \in Step
  BY StepsOfDocument
<1>3. other \in Documents /\ DOMAIN other = DOMAIN doc
  BY <1>1, <1>2, ExceptSeq DEF Documents
<1> DEFINE at == [k \in DOMAIN doc |-> IF k = i THEN j ELSE IF k = j THEN i ELSE k]
<1>4. \A k \in DOMAIN other : other[k] = doc[at[k]]
  BY <1>1, <1>3
<1>5. Keeps(other, doc, at)
  BY <1>3, <1>4 DEF Keeps
<1> QED BY <1>3, <1>5

LEMMA EditedKeeps ==
    ASSUME NEW doc \in Documents, NEW other \in Edited(doc)
    PROVE  other \in Documents /\ \E at : Keeps(other, doc, at)
BY RenamedKeeps, DeletedKeeps, SwappedKeeps DEF Edited

LEMMA EditedCites ==
    ASSUME NEW doc \in Documents, NEW other \in Edited(doc)
    PROVE  other \in Documents /\ Cited(other) \subseteq Cited(doc)
BY EditedKeeps, KeptCites

-----------------------------------------------------------------------------
(* Every step keeps the invariant. *)

LEMMA InitCites ==
    ASSUME Init
    PROVE  CitesInv
<1>1. << >> \in Documents /\ Cited(<< >>) = {}
  BY EmptySeq DEF Documents, Cited
<1> QED BY <1>1 DEF Init, CitesInv, Types, CitesWhatIsThere, PlansHold

\* A session's plan that cites what the manifest does, and what it brings.
LEMMA PlanCites ==
    ASSUME CitesInv, NEW s \in Sessions, NEW to \in Documents, NEW path \in Paths \cup {None},
           NEW text \in Texts \cup {None}, path # None => text \in Texts,
           Has(to, removed \cup {path}),
           plan' = [plan EXCEPT ![s] = [to |-> to, path |-> path, text |-> text]],
           UNCHANGED <<steps, files, removed>>
    PROVE  CitesInv'
<1>1. [to |-> to, path |-> path, text |-> text] \in Plans
  BY DEF Plans
<1>2. Types'
  BY <1>1 DEF CitesInv, Types
<1>3. CitesWhatIsThere'
  BY DEF CitesInv, CitesWhatIsThere
<1>4. PlansHold'
  BY DEF CitesInv, Types, PlansHold, Has
<1> QED BY <1>2, <1>3, <1>4 DEF CitesInv

\* A model that is written over is still there, for the manifest and the plans.
LEMMA WrittenCites ==
    ASSUME CitesInv, Absent \notin Texts, NEW p \in Paths, NEW t \in Texts,
           files' = [files EXCEPT ![p] = t], UNCHANGED <<steps, plan, removed>>
    PROVE  CitesInv'
<1>1. \A q \in Paths : files[q] # Absent => files'[q] # Absent
  BY DEF CitesInv, Types
<1>2. Types'
  BY DEF CitesInv, Types
<1>3. CitesWhatIsThere'
  <2>1. steps # Absent => Cited(steps) \subseteq Paths
    BY CitedIsPaths DEF CitesInv, Types
  <2> QED BY <1>1, <2>1 DEF CitesInv, CitesWhatIsThere
<1>4. PlansHold'
  <2>1. \A s \in Sessions : plan[s] # None => Cited(plan[s].to) \subseteq Paths
    BY CitedIsPaths DEF CitesInv, Types, Plans
  <2> QED BY <1>1, <2>1 DEF CitesInv, PlansHold, Has
<1> QED BY <1>2, <1>3, <1>4 DEF CitesInv

LEMMA LandCites ==
    ASSUME CitesInv, Absent \notin Texts, None \notin Paths, NEW s \in Sessions, Land(s)
    PROVE  CitesInv'
<1>1. /\ plan[s] \in Plans /\ plan[s].to \in Documents
      /\ plan[s].path # None => plan[s].path \in Paths /\ plan[s].text \in Texts
  BY DEF CitesInv, Types, Land, Plans
<1>2. Cited(plan[s].to) \subseteq Paths
  BY <1>1, CitedIsPaths
<1>3. \A p \in Paths : files'[p] = IF p = plan[s].path THEN plan[s].text ELSE files[p]
  BY DEF Land
<1>4. \A p \in Paths :
         /\ files[p] # Absent => files'[p] # Absent
         /\ p = plan[s].path => files'[p] # Absent
  BY <1>1, <1>3
<1>5. Types'
  BY <1>1 DEF CitesInv, Types, Land
<1>6. CitesWhatIsThere'
  <2>1. \A p \in Cited(plan[s].to) \ (removed \cup {plan[s].path}) : files[p] # Absent
    BY DEF CitesInv, PlansHold, Has, Land
  <2> QED BY <1>2, <1>4, <2>1 DEF CitesWhatIsThere, Land
<1>7. PlansHold'
  <2>1. ASSUME NEW q \in Sessions, plan'[q] # None
        PROVE  Has(plan[q].to, removed \cup {plan[q].path})' /\ plan'[q] = plan[q]
    <3>1. plan'[q] = plan[q] /\ plan[q] # None /\ removed' = removed
      BY <2>1 DEF CitesInv, Types, Land
    <3>2. Cited(plan[q].to) \subseteq Paths
      BY <3>1, CitedIsPaths DEF CitesInv, Types, Plans
    <3>3. \A p \in Cited(plan[q].to) \ (removed \cup {plan[q].path}) : files'[p] # Absent
      BY <1>4, <3>1, <3>2 DEF CitesInv, PlansHold, Has
    <3> QED BY <3>1, <3>3 DEF Has
  <2> QED BY <2>1 DEF PlansHold
<1> QED BY <1>5, <1>6, <1>7 DEF CitesInv

LEMMA SessionCites ==
    ASSUME CitesInv, Absent \notin Texts, None \notin Paths, NEW s \in Sessions,
           PlanStep(s) \/ PlanEdit(s) \/ PlanManifest(s) \/ Land(s) \/ Drop(s)
    PROVE  CitesInv'
<1>1. CASE PlanStep(s)
  <2>1. steps \in Documents /\ Has(steps, removed)
    BY <1>1 DEF PlanStep, CitesInv, Types, CitesWhatIsThere, Has
  <2>2. PICK n \in Names, p \in Paths \cup {None}, t \in Texts :
           plan' = [plan EXCEPT ![s] = [to |-> Append(steps, [name |-> n, model |-> p]),
                                        path |-> p, text |-> IF p = None THEN None ELSE t]]
    BY <1>1 DEF PlanStep
  <2> DEFINE to == Append(steps, [name |-> n, model |-> p])
             text == IF p = None THEN None ELSE t
  <2>3. to \in Documents /\ Cited(to) \subseteq Cited(steps) \cup ({p} \ {None})
    <3>1. [name |-> n, model |-> p] \in Step
      BY DEF Step
    <3> QED BY <2>1, <3>1, AppendCites
  <2>4. Has(to, removed \cup {p})
    BY <2>1, <2>3 DEF Has
  <2>5. text \in Texts \cup {None} /\ (p # None => text \in Texts)
    OBVIOUS
  <2>6. UNCHANGED <<steps, files, removed>> /\ plan' = [plan EXCEPT ![s] = [to |-> to, path |-> p, text |-> text]]
    BY <1>1, <2>2 DEF PlanStep
  <2> HIDE DEF to, text
  <2> QED BY <2>3, <2>4, <2>5, <2>6, PlanCites
<1>2. CASE PlanEdit(s)
  <2>1. steps \in Documents /\ Has(steps, removed)
    BY <1>2 DEF PlanEdit, CitesInv, Types, CitesWhatIsThere, Has
  <2>2. PICK doc \in Edited(steps) :
           plan' = [plan EXCEPT ![s] = [to |-> doc, path |-> None, text |-> None]]
    BY <1>2 DEF PlanEdit
  <2>3. doc \in Documents /\ Has(doc, removed \cup {None})
    BY <2>1, EditedCites DEF Has
  <2> QED BY <1>2, <2>2, <2>3, PlanCites DEF PlanEdit
<1>3. CASE PlanManifest(s)
  <2>1. << >> \in Documents /\ Has(<< >>, removed \cup {None})
    BY EmptySeq DEF Documents, Has, Cited
  <2> QED BY <1>3, <2>1, PlanCites DEF PlanManifest
<1>4. CASE Land(s)
  BY <1>4, LandCites
<1>5. CASE Drop(s)
  BY <1>5 DEF Drop, CitesInv, Types, CitesWhatIsThere, PlansHold, Has
<1> QED BY <1>1, <1>2, <1>3, <1>4, <1>5

LEMMA PersonCites ==
    ASSUME CitesInv, Absent \notin Texts,
           (\E p \in Paths : Retext(p) \/ Place(p) \/ TakeAway(p)) \/ EditByHand
    PROVE  CitesInv'
<1>1. ASSUME NEW p \in Paths, Retext(p) \/ Place(p) PROVE CitesInv'
  BY <1>1, WrittenCites DEF Retext, Place
<1>2. ASSUME NEW p \in Paths, TakeAway(p) PROVE CitesInv'
  <2>1. Types'
    BY <1>2 DEF TakeAway, CitesInv, Types
  <2>2. \A q : q \notin removed' => q \notin removed /\ q # p
    BY <1>2 DEF TakeAway
  <2>3. \A q \in Paths : q # p => files'[q] = files[q]
    BY <1>2 DEF TakeAway, CitesInv, Types
  <2>4. CitesWhatIsThere'
    <3>1. steps # Absent => Cited(steps) \subseteq Paths
      BY CitedIsPaths DEF CitesInv, Types
    <3> QED BY <1>2, <2>2, <2>3, <3>1 DEF TakeAway, CitesInv, CitesWhatIsThere
  <2>5. PlansHold'
    <3>1. \A s \in Sessions : plan[s] # None => Cited(plan[s].to) \subseteq Paths
      BY CitedIsPaths DEF CitesInv, Types, Plans
    <3> QED BY <1>2, <2>2, <2>3, <3>1 DEF TakeAway, CitesInv, PlansHold, Has
  <2> QED BY <2>1, <2>4, <2>5 DEF CitesInv
<1>3. CASE EditByHand
  <2>1. steps \in Documents
    BY <1>3 DEF EditByHand, CitesInv, Types
  <2>2. steps' \in Documents /\ Cited(steps') \subseteq Cited(steps)
    <3>1. CASE steps' \in Edited(steps)
      BY <2>1, <3>1, EditedCites
    <3>2. ASSUME NEW n \in Names, steps' = Append(steps, [name |-> n, model |-> None])
          PROVE  steps' \in Documents /\ Cited(steps') \subseteq Cited(steps)
      <4>1. [name |-> n, model |-> None] \in Step
        BY DEF Step
      <4>2. Cited(steps') \subseteq Cited(steps) \cup ({None} \ {None}) /\ steps' \in Documents
        BY <2>1, <3>2, <4>1, AppendCites
      <4> QED BY <4>2
    <3> QED BY <1>3, <3>1, <3>2 DEF EditByHand
  <2>3. CitesWhatIsThere'
    BY <1>3, <2>2 DEF EditByHand, CitesInv, CitesWhatIsThere, Types
  <2> QED BY <1>3, <2>2, <2>3 DEF EditByHand, CitesInv, Types, PlansHold, Has
<1> QED BY <1>1, <1>2, <1>3

-----------------------------------------------------------------------------
\* record.rs:50-60: whatever sessions record, edit, drop or land, and whatever
\* people do beside them, the manifest cites no model that is not there, but for
\* those a person took away.
THEOREM LandedModelsStay ==
    ASSUME Absent \notin Texts, None \notin Paths
    PROVE  Spec => []CitesWhatIsThere
<1>1. Init => CitesInv
  BY InitCites
<1>2. CitesInv /\ [Next]_vars => CitesInv'
  <2> SUFFICES ASSUME CitesInv, [Next]_vars PROVE CitesInv'
    OBVIOUS
  <2>1. ASSUME NEW s \in Sessions,
               PlanStep(s) \/ PlanEdit(s) \/ PlanManifest(s) \/ Land(s) \/ Drop(s)
        PROVE  CitesInv'
    BY <2>1, SessionCites
  <2>2. CASE (\E p \in Paths : Retext(p) \/ Place(p) \/ TakeAway(p)) \/ EditByHand
    BY <2>2, PersonCites
  <2>3. CASE UNCHANGED vars
    BY <2>3 DEF vars, CitesInv, Types, CitesWhatIsThere, PlansHold, Has
  <2> QED BY <2>1, <2>2, <2>3 DEF Next
<1>3. CitesInv => CitesWhatIsThere
  BY DEF CitesInv
<1> QED BY <1>1, <1>2, <1>3, PTL DEF Spec
=============================================================================
