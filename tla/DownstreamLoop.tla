---------------------------- MODULE DownstreamLoop ----------------------------
(***************************************************************************)
(* The fixed-point loop of AssetGraph::downstream_steps (src/src/asset.rs):*)
(* passes over the steps, each pass adding the steps that read an asset    *)
(* produced by an affected step, until a pass adds none.  A pass sees the  *)
(* steps the same pass has already added.                                  *)
(***************************************************************************)
EXTENDS AssetGraph, TLAPS

VARIABLES graph,     \* the graph asked
          seeds,     \* the stale steps it is asked about
          affected,  \* the set the loop grows
          changed,   \* whether this pass has added a step
          todo,      \* the steps this pass has not visited
          at         \* "pass" while the loop runs, "done" when it has returned

loop == <<graph, seeds, affected, changed, todo, at>>

LoopWellTyped ==
    /\ graph \in Graphs
    /\ seeds \in SUBSET Steps
    /\ affected \in SUBSET Steps
    /\ changed \in BOOLEAN
    /\ todo \in SUBSET Steps
    /\ at \in {"pass", "done"}

LoopInit ==
    /\ graph \in Graphs
    /\ seeds \in SUBSET Steps
    /\ affected = seeds
    /\ changed = FALSE
    /\ todo = Steps
    /\ at = "pass"

\* Some read of s is produced by an affected step.
ReadsAffected(s) ==
    \E a \in graph.reads[s] : \E p \in affected : a \in graph.produces[p]

\* Mutant of Visit: the pass forgets to note that it added a step.
VisitForgetsChange(s) ==
    /\ at = "pass"
    /\ s \in todo
    /\ todo' = todo \ {s}
    /\ affected' = IF ReadsAffected(s) THEN affected \cup {s} ELSE affected
    /\ UNCHANGED <<graph, seeds, changed, at>>

\* The body of the `for` over the steps, for one step.
Visit(s) ==
    /\ at = "pass"
    /\ s \in todo
    /\ todo' = todo \ {s}
    /\ IF s \notin affected /\ ReadsAffected(s)
         THEN affected' = affected \cup {s} /\ changed' = TRUE
         ELSE UNCHANGED <<affected, changed>>
    /\ UNCHANGED <<graph, seeds, at>>

\* Mutant of NextPass: the flag is never cleared.
NextPassKeepsChanged ==
    /\ at = "pass"
    /\ todo = {}
    /\ changed
    /\ todo' = Steps
    /\ UNCHANGED <<graph, seeds, affected, changed, at>>

\* The head of the `while`: another pass when the last one added a step.
NextPass ==
    /\ at = "pass"
    /\ todo = {}
    /\ changed
    /\ changed' = FALSE
    /\ todo' = Steps
    /\ UNCHANGED <<graph, seeds, affected, at>>

\* The seeds are taken back out of the set returned.
Return ==
    /\ at = "pass"
    /\ todo = {}
    /\ ~changed
    /\ affected' = affected \ seeds
    /\ at' = "done"
    /\ UNCHANGED <<graph, seeds, changed, todo>>

LoopNext == (\E s \in Steps : Visit(s)) \/ NextPass \/ Return

LoopSpec == LoopInit /\ [][LoopNext]_loop

-----------------------------------------------------------------------------
\* What the loop returns is exactly the steps reached from the seeds: no step
\* that can see a stale asset is left out, and none is added for nothing.
ReturnsDownstream == at = "done" => affected = DownstreamSteps(graph, seeds)

-----------------------------------------------------------------------------
(* The inductive invariant behind ReturnsDownstream. *)

\* While the loop runs, the set lies between the seeds and what they reach, and
\* a pass that has added nothing has found nothing to add in what it visited.
LoopInv ==
    at = "pass" =>
        /\ seeds \subseteq affected
        /\ affected \subseteq Reached(graph, seeds)
        /\ ~changed => \A s \in Steps \ (todo \cup affected) : ~ReadsAffected(s)

-----------------------------------------------------------------------------
(***************************************************************************)
(* The proofs, for every set of steps, every graph over them and every set *)
(* of seeds.                                                               *)
(***************************************************************************)
\* Every variable of the loop keeps its type.
THEOREM LoopTypeOK == LoopSpec => []LoopWellTyped
<1>1. LoopInit => LoopWellTyped
  BY DEF LoopInit, LoopWellTyped
<1>2. LoopWellTyped /\ [LoopNext]_loop => LoopWellTyped'
  BY DEF LoopWellTyped, LoopNext, loop, Visit, NextPass, Return
<1>3. QED
  BY <1>1, <1>2, PTL DEF LoopSpec

\* The seeds are among the steps they reach.
LEMMA ReachedHoldsSeeds ==
    ASSUME NEW g, NEW S \in SUBSET Steps
    PROVE  S \subseteq Reached(g, S)
BY DEF Reached

\* What the seeds reach is closed: a step fed by a reached step is reached.
LEMMA ReachedClosed ==
    ASSUME NEW g, NEW S \in SUBSET Steps,
           NEW s \in Reached(g, S), NEW t \in Steps, Feeds(g, s, t)
    PROVE  t \in Reached(g, S)
<1> SUFFICES ASSUME NEW C \in SUBSET Steps, S \subseteq C, Closed(g, C)
             PROVE  t \in C
  BY DEF Reached
<1>1. s \in C
  BY DEF Reached
<1> QED
  BY <1>1 DEF Closed

\* A closed set that holds the seeds holds everything they reach.
LEMMA ReachedLeast ==
    ASSUME NEW g, NEW S, NEW C \in SUBSET Steps, S \subseteq C, Closed(g, C)
    PROVE  Reached(g, S) \subseteq C
BY DEF Reached

\* ReadsAffected in terms of the edges of the graph.
LEMMA ReadsAffectedIsFed ==
    ASSUME LoopWellTyped, NEW s \in Steps
    PROVE  ReadsAffected(s) <=> \E p \in affected : Feeds(graph, p, s)
BY DEF ReadsAffected, Feeds, LoopWellTyped, Graphs

\* The pass invariant of the loop.
LEMMA LoopInvariant == LoopSpec => []LoopInv
<1>1. LoopInit => LoopInv
  BY ReachedHoldsSeeds DEF LoopInit, LoopInv
<1>2. LoopWellTyped /\ LoopInv /\ [LoopNext]_loop => LoopInv'
  <2> SUFFICES ASSUME LoopWellTyped, LoopInv, [LoopNext]_loop, at' = "pass"
               PROVE  LoopInv'
    BY DEF LoopInv
  <2>1. ASSUME NEW s \in Steps, Visit(s)
        PROVE  LoopInv'
    <3>1. CASE s \notin affected /\ ReadsAffected(s)
      <4>1. PICK p \in affected : Feeds(graph, p, s)
        BY <3>1, ReadsAffectedIsFed
      <4>2. s \in Reached(graph, seeds)
        BY <4>1, <2>1, ReachedClosed DEF LoopInv, Visit, LoopWellTyped
      <4>3. QED
        BY <3>1, <4>2, <2>1 DEF Visit, LoopInv, LoopWellTyped
    <3>2. CASE ~(s \notin affected /\ ReadsAffected(s))
      <4>1. UNCHANGED <<graph, seeds, affected, changed>> /\ at = "pass"
        BY <3>2, <2>1 DEF Visit
      <4>2. todo' = todo \ {s}
        BY <2>1 DEF Visit
      <4>3. QED
        BY <3>2, <4>1, <4>2 DEF LoopInv, ReadsAffected
    <3>3. QED
      BY <3>1, <3>2
  <2>2. CASE NextPass
    BY <2>2 DEF NextPass, LoopInv, LoopWellTyped
  <2>3. CASE Return
    BY <2>3 DEF Return
  <2>4. CASE UNCHANGED loop
    BY <2>4 DEF loop, LoopInv, ReadsAffected
  <2>5. QED
    BY <2>1, <2>2, <2>3, <2>4 DEF LoopNext
<1>3. QED
  BY <1>1, <1>2, LoopTypeOK, PTL DEF LoopSpec

\* downstream_steps returns exactly the steps reached from the stale ones.
THEOREM LoopReturnsDownstream == LoopSpec => []ReturnsDownstream
<1>1. LoopInit => ReturnsDownstream
  BY DEF LoopInit, ReturnsDownstream
<1>2. LoopWellTyped /\ LoopInv /\ ReturnsDownstream /\ [LoopNext]_loop => ReturnsDownstream'
  <2> SUFFICES ASSUME LoopWellTyped, LoopInv, ReturnsDownstream, [LoopNext]_loop, at' = "done"
               PROVE  ReturnsDownstream'
    BY DEF ReturnsDownstream
  <2>1. CASE Return
    <3>1. Closed(graph, affected)
      <4> SUFFICES ASSUME NEW s \in affected, NEW t \in Steps, Feeds(graph, s, t)
                   PROVE  t \in affected
        BY DEF Closed
      <4>1. ReadsAffected(t)
        BY ReadsAffectedIsFed
      <4>2. QED
        BY <4>1, <2>1 DEF Return, LoopInv
    <3>2. affected = Reached(graph, seeds)
      BY <3>1, <2>1, ReachedLeast DEF Return, LoopInv, LoopWellTyped
    <3>3. QED
      BY <3>2, <2>1 DEF Return, ReturnsDownstream, DownstreamSteps
  <2>2. CASE at = "done" /\ UNCHANGED loop
    BY <2>2 DEF loop, ReturnsDownstream
  <2>3. QED
    BY <2>1, <2>2 DEF LoopNext, Visit, NextPass, loop
<1>3. QED
  BY <1>1, <1>2, LoopTypeOK, LoopInvariant, PTL DEF LoopSpec
=============================================================================
