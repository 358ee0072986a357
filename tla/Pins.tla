--------------------------------- MODULE Pins ---------------------------------
(***************************************************************************)
(* What a uv step may install, as operator.rs reads it: a requirement,     *)
(* from the step's deps: or the script's own PEP 723 header, and the       *)
(* header.                                                                 *)
(*                                                                         *)
(* A requirement is a sequence of signs, "p" standing for a letter, digit, *)
(* ".", "-" or "_".  A script is a sequence of lines, each a sequence of   *)
(* words; Opener and Closer are "# /// script" and "# ///".                *)
(***************************************************************************)
EXTENDS Naturals, Sequences, SequencesExt, FiniteSetsExt

Blank(s) == ToSet(s) \subseteq {" "}
Trim(s) ==
    LET kept == {i \in DOMAIN s : s[i] # " "}
    IN  IF kept = {} THEN << >> ELSE SubSeq(s, Min(kept), Max(kept))

\* The places pattern starts in s.
Places(s, pattern) ==
    {i \in 1..(Len(s) - Len(pattern) + 1) : SubSeq(s, i, i + Len(pattern) - 1) = pattern}
Before(s, i) == SubSeq(s, 1, i - 1)
After(s, i)  == SubSeq(s, i + 1, Len(s))

-----------------------------------------------------------------------------
(* unpinned_dependency: why a requirement is refused, "" when it is a pin. *)
Second(part) ==
    ToSet(part) \cap {"<", ">", "~", "=", ","} # {}  \* "!=" holds a "="

BaseOf(name) ==
    LET open == Places(name, <<"[">>)
    IN  IF open = {} THEN name ELSE Before(name, Min(open))

ExtrasFault(name) ==
    LET open   == Places(name, <<"[">>)
        extras == Front(After(name, Min(open)))
    IN  IF open = {} THEN ""
        ELSE IF Last(name) # "]" THEN "its [ is never closed"
        ELSE IF Blank(extras) \/ ~(ToSet(extras) \subseteq {"p", ","}) THEN "not a list of extras"
        ELSE ""

NameFault(name) ==
    IF ExtrasFault(name) # "" THEN ExtrasFault(name)
    ELSE IF Blank(BaseOf(name)) \/ ~(ToSet(Trim(BaseOf(name))) \subseteq {"p"})
    THEN "not a distribution name" ELSE ""

\* Mutant of VersionFault: what follows the == is not read as one version.
VersionFault_any(version) ==
    CASE Blank(version) -> "nothing after =="
      [] "*" \in ToSet(version) -> "a wildcard"
      [] OTHER -> ""

VersionFault(version) ==
    CASE Blank(version) -> "nothing after =="
      [] "*" \in ToSet(version) -> "a wildcard"
      [] OTHER -> IF ToSet(Trim(version)) \subseteq {"p", "+"} THEN "" ELSE "not a version"

unpinned_dependency(spec) ==
    LET s      == Trim(spec)
        equals == Places(s, <<"=", "=">>)
        name    == Before(s, Min(equals))
        version == After(s, Min(equals) + 1)
    IN
    CASE s = << >> -> "blank"
      [] ";" \in ToSet(s) -> "an environment marker"
      [] s # << >> /\ "@" \in ToSet(s) -> "a direct reference"
      [] OTHER ->
           IF equals = {} THEN "no =="
           ELSE IF Second(name) \/ Second(version) THEN "a second constraint"
           ELSE IF NameFault(name) # "" THEN NameFault(name)
           ELSE VersionFault(version)

-----------------------------------------------------------------------------
(***************************************************************************)
(* script_declared_dependencies: the header's lines are the comments from  *)
(* the first line the opener starts, when no line before it holds it; the  *)
(* list is what follows dependencies, at the start of a line, in brackets. *)
(***************************************************************************)
Opener == "# /// script"
Closer == "# ///"
Unread == [read |-> FALSE, deps |-> << >>]
Declares(deps) == [read |-> TRUE, deps |-> deps]

IsComment(line) == line # << >> /\ line[1] \in {"#", Opener, Closer}

\* A comment's words, without its "#" and the space after it.
Words(line) ==
    IF Len(line) >= 2 /\ line[2] = " " THEN SubSeq(line, 3, Len(line)) ELSE Tail(line)

\* The block's text, its lines joined; 0 stands for a block not closed.
BlockEnd(source, open) ==
    LET stops == {i \in (open + 1)..Len(source) :
                    source[i] = <<Closer>> \/ ~IsComment(source[i])}
    IN  IF stops = {} \/ source[Min(stops)] # <<Closer>> THEN 0 ELSE Min(stops)

Block(source, open) ==
    LET lines == [i \in 1..(BlockEnd(source, open) - open - 1) |-> Words(source[open + i])]
    IN  FlattenSeq([i \in DOMAIN lines |-> Append(lines[i], "LF")])

\* The quoted strings of a text; unread when one is not closed.
RECURSIVE Quoted(_, _)
Quoted(s, found) ==
    LET opens == {i \in DOMAIN s : s[i] = "DQ"}
        rest  == After(s, Min(opens))
        ends  == {i \in DOMAIN rest : rest[i] = "DQ"}
    IN  IF opens = {} THEN Declares(found)
        ELSE IF ends = {} THEN Unread
        ELSE Quoted(After(rest, Min(ends)), Append(found, Before(rest, Min(ends))))

ListOf(block) ==
    LET keys  == {i \in DOMAIN block :
                    block[i] = "dependencies" /\ (i = 1 \/ block[i - 1] = "LF")}
        after == After(block, Min(keys))
        opens == {i \in DOMAIN after : after[i] = "["}
        rest  == After(after, Min(opens))
        ends  == {i \in DOMAIN rest : rest[i] = "]"}
    IN
    IF keys = {} THEN Declares(<< >>)
    ELSE IF opens = {} THEN Unread
    ELSE IF ~(ToSet(Before(after, Min(opens))) \subseteq {"=", " ", "LF"}) THEN Unread
    ELSE IF ends = {} THEN Unread
    ELSE Quoted(Before(rest, Min(ends)), << >>)

Mentions(source) == {i \in DOMAIN source : Opener \in ToSet(source[i])}

script_declared_dependencies(source) ==
    IF Mentions(source) = {} THEN Declares(<< >>)
    ELSE LET open == Min(Mentions(source)) IN
         IF source[open][1] # Opener THEN Declares(<< >>)
         ELSE IF BlockEnd(source, open) = 0 THEN Unread
         ELSE ListOf(Block(source, open))


\* uv_invocation goes on to run a script whose bytes are the pinned ones.
Runs(source) ==
    LET d == script_declared_dependencies(source)
    IN  d.read /\ \A dep \in ToSet(d.deps) : unpinned_dependency(dep) = ""

-----------------------------------------------------------------------------
(***************************************************************************)
(* What uv reads, by PEP 723: the first block a line opens, up to the last *)
(* line that closes it with only comments between, as TOML: dependencies   *)
(* is a key wherever its line puts it, quoted or not, and a bracket in a   *)
(* string is part of the string.  Escapes and strings of several lines are *)
(* left out.                                                               *)
(***************************************************************************)
Openings(source) == {i \in DOMAIN source : source[i] # << >> /\ source[i][1] = Opener}
Closings(source, open) ==
    {i \in (open + 1)..Len(source) :
        source[i] = <<Closer>> /\ \A k \in (open + 1)..i : IsComment(source[k])}

UvBlock(source) ==
    LET open  == Min(Openings(source))
        close == Max(Closings(source, open))
    IN  IF Openings(source) = {} \/ Closings(source, open) = {} THEN << >>
        ELSE FlattenSeq([i \in 1..(close - open - 1) |-> Append(Words(source[open + i]), "LF")])

InString(s, i) == Cardinality({k \in 1..i : s[k] = "DQ"}) % 2 = 1

QuotedKey(s, i) ==
    /\ 1 < i /\ i + 1 < Len(s)
    /\ <<s[i - 1], s[i], s[i + 1], s[i + 2]>> = <<"DQ", "dependencies", "DQ", "=">>

UvInstalls(source) ==
    LET block == UvBlock(source)
        keys  == {i \in DOMAIN block : /\ block[i] = "dependencies"
                                       /\ ~InString(block, i) \/ QuotedKey(block, i)}
        value == After(block, Min(keys))
        rest  == After(value, Min({i \in DOMAIN value : value[i] = "["}))
        ends  == {i \in DOMAIN rest : rest[i] = "]" /\ ~InString(rest, i)}
    IN  IF keys = {} \/ "[" \notin ToSet(value) \/ ends = {} THEN << >>
        ELSE Quoted(Before(rest, Min(ends)), << >>).deps

\* The schema's pattern for a requirement.
Admits(spec) ==
    \E n \in 1..Len(spec) : \E m \in (n + 2)..Len(spec) :
      LET extras == SubSeq(spec, n + 1, m - 3) IN
      /\ SubSeq(spec, m - 2, m - 1) = <<"=", "=">>
      /\ ToSet(SubSeq(spec, 1, n)) \subseteq {"p"}
      /\ ToSet(SubSeq(spec, m, Len(spec))) \subseteq {"p", "+"}
      /\ extras # << >> =>
           /\ Len(extras) > 2 /\ extras[1] = "[" /\ Last(extras) = "]"
           /\ ToSet(SubSeq(extras, 2, Len(extras) - 1)) \subseteq {"p", ","}

NoSpaces(spec) == SelectSeq(spec, LAMBDA c : c # " ")

(* operator.rs:6664: a requirement the load takes is one name, its extras  *)
(* and one version, spaces aside - the ones the schema's pattern admits -  *)
(* and it takes every such one, but for one with two extras.               *)
PinsAreExact(spec) ==
    /\ unpinned_dependency(spec) = "" => Admits(NoSpaces(spec))
    /\ Admits(spec) /\ unpinned_dependency(spec) # "" => "," \in ToSet(spec)

-----------------------------------------------------------------------------
(***************************************************************************)
(* Where the two readings part.  "EVERY DEPENDENCY REACHING uv IS PINNED,  *)
(* WHEREVER IT IS DECLARED", says operator.rs:6984, and "what it cannot    *)
(* see gets installed anyway" (6773): so it is for four kinds of header,   *)
(* which run and install what nobody pinned.                               *)
(***************************************************************************)
Unpinned(source) ==
    {dep \in ToSet(UvInstalls(source)) : unpinned_dependency(dep) # ""}

\* A line before the header holds the opener, as prose or a string may.
MentionedBefore(source) ==
    Mentions(source) # {} /\ source[Min(Mentions(source))][1] # Opener

\* A second line closes the block: arc stops at the first, PEP 723 at the last.
ClosedTwice(source) ==
    Openings(source) # {} /\ Cardinality(Closings(source, Min(Openings(source)))) > 1

\* The key is not what its line begins with, or is in quotes.
KeyWithin(source, sign) ==
    \E i \in DOMAIN UvBlock(source) :
        UvBlock(source)[i] = "dependencies" /\ i > 1 /\ UvBlock(source)[i - 1] = sign

Header(lines) == <<<<Opener>>>> \o lines \o <<<<Closer>>>>
NotPinned == <<"=", "[", "DQ", "p", "DQ", "]">>

\* One header of each kind.
Misread ==
    {<<<<"x", Opener>>>> \o Header(<<<<"#", " ", "dependencies">> \o NotPinned>>),
     Header(<<<<Closer>>, <<"#", " ", "dependencies">> \o NotPinned>>),
     Header(<<<<"#", " ", " ", "dependencies">> \o NotPinned>>),
     Header(<<<<"#", " ", "DQ", "dependencies", "DQ">> \o NotPinned>>)}

=============================================================================
