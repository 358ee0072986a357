---------------------------- MODULE MCOperators ----------------------------
(***************************************************************************)
(* The loop of DownstreamLoop on every small graph; and, in behaviours of  *)
(* their own, every operator with the settings its run turns on.           *)
(***************************************************************************)
EXTENDS DownstreamLoop, Operators, TLC

VARIABLE part   \* "loop" or "operator"

-----------------------------------------------------------------------------
Unset == [members |-> {}, pattern |-> FALSE, nominations |-> FALSE,
          neighbors |-> FALSE, fit |-> FALSE, model |-> FALSE, toPart |-> FALSE]

Step(op, with) == [op |-> op, with |-> with]

OneOfEach ==
    {Step(op, Unset) : op \in {"parquet_export", "html_link_discover", "finetype_validate",
                               "splink_resolve", "gleif_ra_fetch", "uv"}}
      \cup {Step("opendal_fetch", [Unset EXCEPT !.toPart = b]) : b \in BOOLEAN}
      \cup {Step("datapackage_describe", [Unset EXCEPT !.nominations = b]) : b \in BOOLEAN}
      \cup {Step("umap_project", [Unset EXCEPT !.neighbors = b, !.fit = c]) : b, c \in BOOLEAN}
      \cup {Step("text_embed", [Unset EXCEPT !.model = b]) : b \in BOOLEAN}
      \cup {Step("archive_extract", [Unset EXCEPT !.pattern = TRUE]),
            Step("archive_extract", [Unset EXCEPT !.members = {"x"}]),
            Step("archive_extract", [Unset EXCEPT !.members = {"x", "y"}]),
            Step("archive_extract", [Unset EXCEPT !.members = {"x"}, !.pattern = TRUE])}

-----------------------------------------------------------------------------
(* The variables of the part a behaviour is not of.                        *)
LoopRests ==
    /\ graph = << >> /\ seeds = {} /\ affected = {} /\ changed = FALSE
    /\ todo = {} /\ at = "rests"

OperatorRests ==
    /\ step = Step("uv", Unset) /\ disk = [f \in Files |-> Absent]
    /\ pc = "ended" /\ program = << >> /\ seen = {} /\ children = {}
    /\ attempt = 0 /\ outcome = "none" /\ missing = {}
    /\ began = disk /\ survived = FALSE /\ faults = 0

MCInit ==
    \/ part = "loop" /\ LoopInit /\ OperatorRests
    \/ part = "operator" /\ Init /\ LoopRests

all == <<part, loop, vars>>

Loops == part = "loop" /\ LoopNext /\ UNCHANGED <<part, vars>>
OperatorDoes(A) == part = "operator" /\ A /\ UNCHANGED <<part, loop>>

MCNext == Loops \/ OperatorDoes(Next)

(* The fairness of either module, for the part it is of.                   *)
MCSpec ==
    /\ MCInit /\ [][MCNext]_all
    /\ WF_all(Loops)
    /\ WF_all(OperatorDoes(Begin)) /\ WF_all(OperatorDoes(GoesOn)) /\ WF_all(OperatorDoes(Deadline))

-----------------------------------------------------------------------------
\* The propagation loop returns, on graphs with cycles too (asset.rs:541).
LoopReturns == part = "loop" ~> at = "done"
=============================================================================
