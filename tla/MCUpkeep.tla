------------------------------- MODULE MCUpkeep -------------------------------
(***************************************************************************)
(* A small instance of Upkeep; and, as a sixth part, edits of small texts  *)
(* by Splice.                                                              *)
(***************************************************************************)
EXTENDS Upkeep, Integers, Sequences, TLC

CONSTANTS arc1, arc2,          \* processes
          httpfs, odd, b1, b2  \* extensions, builds

VARIABLES doc, last, edits

-----------------------------------------------------------------------------
St(does, ext, from) == [does |-> does, ext |-> ext, from |-> from]
SlotOf(runs, hook, when) == [runs |-> runs, hook |-> hook, when |-> when]
MCSlots == <<SlotOf("command", FALSE, "always"), SlotOf("sql", FALSE, "always"),
             SlotOf("sql", TRUE, "failure")>>
MCContents == {<<St("install", httpfs, "community"), St("load", httpfs, "none")>>,
               <<St("update", httpfs, "none"), St("query", httpfs, "none")>>,
               <<St("force", httpfs, "community"), St("load", httpfs, "none")>>,
               <<St("install", odd, "core"), St("load", odd, "none")>>,
               <<St("install", odd, "community")>>}

Entry(owner, name, version) == [owner |-> owner, name |-> name, version |-> <<version>>]
Body(entries) == [reads |-> TRUE, version |-> 1, entries |-> entries]
Ask(query, version) == [query |-> query, version |-> version, latest |-> FALSE]
\* The second document has a new version of what the first one names; the third
\* one does not parse.  The ref asked for lies below the first one's.
MCBodies == {Body(<<Entry("o", "b", "v1")>>),
             Body(<<Entry(None, "a", "v1"), Entry("o", "b", "v2")>>),
             Body(<<Entry(None, "b", "v1"), Entry("o", "b", "v1")>>)}
MCQueries == {Ask(<<"o", "b">>, None), Ask(<<"o", "b">>, <<"v1", "x">>)}

Agent(config, dir) == [config |-> config, dir |-> dir]
MCNames == <<"author", "interpret">>
MCAgents == <<Agent("claude", "d1"), Agent("codex", "d2"), Agent("cursor", "d2")>>

MCGates == [s \in {"one", "two"} |-> {"k"}]

MCFaults == [lake |-> 2, registry |-> 1, skills |-> 2, stamps |-> 1]

Symmetry == Permutations({arc1, arc2})

(* Documents of a name and two steps, at either of the two indentations a  *)
(* sequence may have, with comments and blank lines in the places that     *)
(* ownership turns on; edited on keys that have lines of their own.        *)
P == INSTANCE Splice WITH Documents <- {}, OnDashes <- FALSE, MaxEdits <- 1

Above == { << >>, <<P!Hash(0, "own"), P!Blank>> }

Below(ind) ==
    { << >>,
      <<P!Pair(ind + 2, "sql", "s")>>,
      <<P!Hash(ind + 2, "deep"), P!Pair(ind + 2, "sql", "s"), P!Hash(ind + 4, "tail")>>,
      <<P!Pair(ind + 2, "command", "|"), P!Text(ind + 4, "t"), P!Blank, P!Hash(ind + 4, "u")>>,
      <<P!Pair(ind + 2, "with", ""), P!Pair(ind + 4, "url", "w"), P!Blank>> }

Between(ind) ==
    { << >>, <<P!Hash(ind, "head")>>, <<P!Blank, P!Hash(ind, "head")>>,
      <<P!Hash(ind, "apart"), P!Blank>> }

After ==
    { << >>, <<P!Blank, P!Hash(0, "top"), P!Pair(0, "db", "d")>>,
      <<P!Pair(0, "vconcat", ""), P!Hash(2, "inner"), P!Item(2, "plot", "x"),
        P!Pair(4, "width", "1")>> }

Document(ind, a, b, h, z) ==
    <<P!Pair(0, "name", "p")>> \o a \o <<P!Pair(0, "steps", ""), P!Item(ind, "name", "a")>>
      \o b \o h \o <<P!Item(ind, "name", "b")>> \o z

(* What stands after the steps meets the last of them, not the head.       *)
Documents ==
    UNION {{Document(ind, a, b, h, << >>) : a \in Above, b \in Below(ind), h \in Between(ind)}
             \cup {Document(ind, << >>, b, << >>, z) : b \in Below(ind), z \in After} :
           ind \in {0, 2}}
-----------------------------------------------------------------------------
MCInit ==
    \/ Init /\ doc = 0 /\ last = 0 /\ edits = 0
    \/ /\ part = "splice" /\ doc \in Documents /\ P!Begins
       /\ at = 0 /\ faults = 0 /\ changes = 0
       /\ NoExtensions /\ NoLake /\ NoRegistry /\ NoSkills /\ NoStamps

MCNext ==
    \/ Next /\ UNCHANGED <<doc, last, edits>>
    \/ part = "splice" /\ P!Next /\ UNCHANGED vars

MCSpec == MCInit /\ [][MCNext]_<<vars, doc, last, edits>>

-----------------------------------------------------------------------------
(* edit.rs:40, :121 and :201: the text an edit leaves loads to what the    *)
(* edit says, comments stay with what they are about, and a lift undoes a  *)
(* nest to the byte.                                                       *)
EditsMeanWhatTheySay == [][part = "splice" => P!EditMeansWhatItSays]_<<vars, doc, last, edits>>
=============================================================================
