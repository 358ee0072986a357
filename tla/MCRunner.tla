------------------------------- MODULE MCRunner -------------------------------
(***************************************************************************)
(* Small Protocols for TLC.                                                *)
(***************************************************************************)
EXTENDS Runner, TLC, FiniteSets

CONSTANTS src, tab, out, lake,   \* assets
          load, model            \* steps

Once == [s \in Steps |-> 1]
LoadTwice == load :> 2 @@ model :> 1
NoGate == {}
NoHooks == {}
OneOrder == {<<load, model>>}

\* Two contents of an external file are interchangeable.
SameSources == Permutations(Sources)

-----------------------------------------------------------------------------
\* load makes a table from the external file src; model makes the file out
\* from the table and, in its second text, from src too.
ChainKinds == load :> "sql" @@ model :> "sql"
ChainAssets == src :> "file" @@ tab :> "table" @@ out :> "file"
ChainProduces == load :> [v \in Texts |-> {tab}] @@ model :> [v \in Texts |-> {out}]
ChainReads == load :> [v \in Texts |-> {src}]
           @@ model :> [v \in Texts |-> IF v = 1 THEN {tab} ELSE {tab, src}]

\* The second text of load makes the table no more, and leaves it to its readers.
DroppingProduces == load :> [v \in Texts |-> IF v = 1 THEN {tab} ELSE {}]
                 @@ model :> [v \in Texts |-> {out}]

\* The manifest loses a step and gets it back, or lists them the wrong way round.
ChangingOrders == {<<load, model>>, <<model, load>>, <<load>>, <<model>>}

-----------------------------------------------------------------------------
\* load is a gated command that downloads a file; model is an operator that
\* makes a directory from it and, in its second text, publishes to a remote.
FetchKinds == load :> "command" @@ model :> "op"
FetchAssets == src :> "pattern" @@ tab :> "file" @@ out :> "directory" @@ lake :> "remote"
FetchProduces == load :> [v \in Texts |-> {tab}]
              @@ model :> [v \in Texts |-> IF v = 1 THEN {out} ELSE {out, lake}]
FetchReads == load :> [v \in Texts |-> {}] @@ model :> [v \in Texts |-> {tab, src}]
GatedFetch == {load}
=============================================================================
