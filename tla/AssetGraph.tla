------------------------------ MODULE AssetGraph ------------------------------
(***************************************************************************)
(* The asset graph of a Protocol (src/src/asset.rs): which step produces   *)
(* and which step reads which asset, and the two questions a run asks of   *)
(* it before its first step, validate_order and downstream_steps.          *)
(*                                                                         *)
(* A graph is a record [produces, reads] of functions from steps to sets   *)
(* of assets.  A step whose SQL file could not be read is opaque: both of  *)
(* its sets are empty.                                                     *)
(***************************************************************************)
EXTENDS Naturals, Sequences

CONSTANTS Steps,    \* the step names a manifest may hold
          Assets    \* the asset names, case folded as the graph folds them

Graphs == [produces : [Steps -> SUBSET Assets],
           reads    : [Steps -> SUBSET Assets]]

\* The steps of a manifest, in the order it lists them.
StepOrders == Seq(Steps)
StepsOf(order) == {order[k] : k \in 1..Len(order)}

\* Every asset some step produces: AssetGraph::steps[*].produces.
AllProduced(g) == UNION {g.produces[s] : s \in Steps}

\* Step t reads an asset step s produces.
Feeds(g, s, t) == g.produces[s] \cap g.reads[t] # {}

\* A step's reads that another step's work can decide.  A step that reads and
\* writes one table (INSERT INTO t SELECT ... FROM t) does not wait for itself.
OutsideReads(g, s) == g.reads[s] \ g.produces[s]

-----------------------------------------------------------------------------
\* Mutant of ValidateOrder: any producer will do, earlier or later.
ValidateProduced(g, order) ==
    \A k \in 1..Len(order) :
        \A a \in OutsideReads(g, order[k]) :
            (\E j \in 1..Len(order) : a \in g.produces[order[j]])
                => \E j \in 1..Len(order) : a \in g.produces[order[j]]

(***************************************************************************)
(* AssetGraph::validate_order: every asset a step reads that the Protocol  *)
(* produces has been produced by an earlier step.                          *)
(***************************************************************************)
ValidateOrder(g, order) ==
    \A k \in 1..Len(order) :
        \A a \in OutsideReads(g, order[k]) :
            (\E j \in 1..Len(order) : a \in g.produces[order[j]])
                => \E j \in 1..(k - 1) : a \in g.produces[order[j]]

(***************************************************************************)
(* AssetGraph::downstream_steps, by what it computes: the steps reached    *)
(* from S through read edges, without S.  They are the ones in every set   *)
(* that holds S and is closed under Feeds.  The loop that computes them is *)
(* module DownstreamLoop, where the two are shown equal.                   *)
(***************************************************************************)
Closed(g, C) == \A s \in C : \A t \in Steps : Feeds(g, s, t) => t \in C

Reached(g, S) ==
    {t \in Steps : \A C \in SUBSET Steps : (S \subseteq C /\ Closed(g, C)) => t \in C}

DownstreamSteps(g, S) == Reached(g, S) \ S

\* No asset has two producers.
SingleProducer(g) ==
    \A s, t \in Steps : s # t => g.produces[s] \cap g.produces[t] = {}
=============================================================================
