------------------------------- MODULE Splice -------------------------------
(***************************************************************************)
(* The splice of src/src/edit.rs: an edit of a YAML document changes lines *)
(* of its text and leaves every other line alone, comments included.  The  *)
(* extents are read from the text (element_lines, with_flush_header,       *)
(* entry_lines); what a path names is yamlpath's reading of the document.  *)
(*                                                                         *)
(* A text is a sequence of lines of block style: blank ones, lines opening *)
(* with `#`, `key: value` lines that may open with a dash, and the lines   *)
(* of a block scalar.  Flow collections, comments after a value and the    *)
(* missing final newline are left out.                                     *)
(***************************************************************************)
EXTENDS Integers, Sequences, FiniteSetsExt, SequencesExt

CONSTANTS Documents,  \* the texts edits begin with
          OnDashes,   \* whether an edit may name a key on its dash's line
          MaxEdits    \* bound: edits of one text

VARIABLES doc,   \* the text
          last,  \* the edit that made it
          edits  \* how many edits there have been

vars == <<doc, last, edits>>

(***************************************************************************)
(* Lines.                                                                  *)
(***************************************************************************)
Line(kind, ind, dash, key, val) ==
    [kind |-> kind, ind |-> ind, dash |-> dash, key |-> key, val |-> val]

Blank == Line("blank", 0, FALSE, "", "")
Hash(ind, id) == Line("hash", ind, FALSE, id, "")
Text(ind, id) == Line("text", ind, FALSE, id, "")
\* A value is "" for a bare key, "|" for a block scalar, or a scalar.
Pair(ind, key, val) == Line("key", ind, FALSE, key, val)
Item(ind, key, val) == Line("key", ind, TRUE, key, val)

KeyColumn(l) == IF l.dash THEN l.ind + 2 ELSE l.ind

Cut(t, s, e) == SubSeq(t, 1, s - 1) \o SubSeq(t, e + 1, Len(t))

Put(t, at, new) == SubSeq(t, 1, at) \o new \o SubSeq(t, at + 1, Len(t))

Shift(t, by) ==
    [i \in DOMAIN t |-> IF t[i].kind = "blank" THEN t[i]
                        ELSE [t[i] EXCEPT !.ind = IF @ + by < 0 THEN 0 ELSE @ + by]]

(***************************************************************************)
(* What a text loads to: its nodes in order, each with its depth.  A node  *)
(* is a dash, a key or a line of a block scalar.                           *)
(***************************************************************************)
InScalarOf(t, k, i) ==
    /\ k < i /\ t[k].kind = "key" /\ t[k].val = "|"
    /\ \A j \in k + 1..i : t[j].kind = "blank" \/ t[j].ind > KeyColumn(t[k])
    /\ \E j \in i..Len(t) :
         t[j].kind # "blank" /\ \A m \in i..j : t[m].kind = "blank" \/ t[m].ind > KeyColumn(t[k])

(* The first key that holds line i as text, or 0.                          *)
ScalarOf(t, i) ==
    LET ks == {k \in 1..i - 1 : InScalarOf(t, k, i)} IN IF ks = {} THEN 0 ELSE Min(ks)

FirstText(t, k) == Min({i \in k + 1..Len(t) : t[i].kind # "blank"})

Node(line, col, kind, tok) == [line |-> line, col |-> col, kind |-> kind, tok |-> tok]

NodesOfLine(t, i) ==
    LET l == t[i]
        k == ScalarOf(t, i)
        key == Node(i, KeyColumn(l), "key", <<l.key, l.val>>)
    IN  CASE k # 0 ->
               <<Node(i, KeyColumn(t[k]) + 1, "text",
                      IF l.kind = "blank" THEN <<>>
                      ELSE <<l.ind - t[FirstText(t, k)].ind, l.kind, l.dash, l.key, l.val>>)>>
          [] k = 0 /\ l.kind = "key" ->
               IF l.dash THEN <<Node(i, l.ind, "dash", "-"), key>> ELSE <<key>>
          [] k = 0 /\ l.kind = "text" -> <<Node(i, l.ind, "stray", "?")>>
          [] OTHER -> << >>

Nodes(t) == FlattenSeq([i \in DOMAIN t |-> NodesOfLine(t, i)])

Parents(ns) ==
    [n \in DOMAIN ns |->
       Max({0} \cup {m \in 1..n - 1 :
              \/ ns[m].col < ns[n].col
              \/ ns[m].col = ns[n].col /\ ns[m].kind = "key" /\ ns[n].kind = "dash"})]

WellFormed(ns, parent) ==
    /\ \A n \in DOMAIN ns :
         /\ ns[n].kind # "stray"
         /\ parent[n] = 0 => ns[n].kind = "key" /\ ns[n].col = 0
         /\ parent[n] # 0 =>
              CASE ns[parent[n]].kind = "dash" -> ns[n].kind = "key"
                [] ns[parent[n]].kind = "text" -> FALSE
                [] OTHER -> ns[parent[n]].tok[2] = IF ns[n].kind = "text" THEN "|" ELSE ""
    /\ \A n, m \in DOMAIN ns :
         n < m /\ parent[n] = parent[m] =>
           /\ ns[n].kind = ns[m].kind /\ ns[n].col = ns[m].col
           /\ ns[n].kind = "key" => ns[n].tok[1] # ns[m].tok[1]

Invalid == << [depth |-> -1, tok |-> "invalid"] >>

Load(t) ==
    LET ns == Nodes(t)
        parent == Parents(ns)
        depth[n \in DOMAIN ns] == IF parent[n] = 0 THEN 0 ELSE depth[parent[n]] + 1
    IN  IF WellFormed(ns, parent)
        THEN [n \in DOMAIN ns |-> [depth |-> depth[n], tok |-> ns[n].tok]]
        ELSE Invalid

(* The last node under node n; the root is 0.                              *)
EndOf(tree, n) ==
    IF n = 0 THEN Len(tree)
    ELSE Max({e \in n..Len(tree) : \A m \in n + 1..e : tree[m].depth > tree[n].depth})

(***************************************************************************)
(* Extents, read from the text.                                            *)
(***************************************************************************)
\* Mutant of ElementEnd: a blank line ends the element.
ElementEndAtBlank(t, i) ==
    Max({e \in i..Len(t) : \A j \in i + 1..e : t[j].kind # "blank" /\ t[j].ind > t[i].ind})

(* element_lines: the lines deeper than the anchor's, with the blank ones  *)
(* among them.                                                             *)
ElementEnd(t, i) ==
    Max({e \in i..Len(t) :
           /\ e = i \/ t[e].kind # "blank"
           /\ \A j \in i + 1..e : t[j].kind = "blank" \/ t[j].ind > t[i].ind})

\* Mutant of FlushHeader: a blank line above does not end the header.
FlushHeaderOverBlanks(t, i) ==
    Min({s \in 1..i : \A j \in s..i - 1 :
           t[j].kind = "blank" \/ (t[j].kind = "hash" /\ t[j].ind <= t[i].ind)})

(* with_flush_header: the `#` lines right above, no deeper.                *)
FlushHeader(t, i) ==
    Min({s \in 1..i : \A j \in s..i - 1 : t[j].kind = "hash" /\ t[j].ind <= t[i].ind})

IsCommentWithin(l, column) == l.kind = "hash" /\ l.ind <= column

ContinuesEntry(l, column) ==
    l.kind # "blank" /\ (l.ind > column \/ (l.ind = column /\ l.dash))

EntryEnd(t, i, column) ==
    Max({e \in i..Len(t) :
           /\ e = i \/ ContinuesEntry(t[e], column)
           /\ \A j \in i + 1..e :
                \/ t[j].kind = "blank" \/ IsCommentWithin(t[j], column)
                \/ ContinuesEntry(t[j], column)})

BlanksFrom(t, e) ==
    Max({b \in e..Len(t) : \A j \in e + 1..b : t[j].kind = "blank"})

ItemChunk(t, i) == [from |-> FlushHeader(t, i), to |-> ElementEnd(t, i)]

(***************************************************************************)
(* Paths.  A node is named by its place in the order of the document, and  *)
(* 0 is the root.                                                          *)
(***************************************************************************)
Children(t, n) ==
    LET parent == Parents(Nodes(t))
    IN  SetToSortSeq({m \in DOMAIN parent : parent[m] = n}, <)

LineOf(t, n) == Nodes(t)[n].line

IsSequence(t, n) ==
    n # 0 /\ Nodes(t)[n].kind = "key" /\ Children(t, n) # << >>
          /\ Nodes(t)[Children(t, n)[1]].kind = "dash"

IsMapping(t, n) ==
    n # 0 => /\ Nodes(t)[n].kind # "text" /\ Children(t, n) # << >>
             /\ Nodes(t)[Children(t, n)[1]].kind = "key"

IsBare(t, n) == n # 0 /\ Nodes(t)[n].kind = "key" /\ Nodes(t)[n].tok[2] = "" /\ Children(t, n) = << >>

OnDash(t, n) == n # 0 /\ Nodes(t)[n].kind = "key" /\ t[LineOf(t, n)].dash

HoldsKey(t, n, key) == \E m \in Range(Children(t, n)) : Nodes(t)[m].tok[1] = key

(***************************************************************************)
(* The edits.                                                              *)
(***************************************************************************)
DeleteElement(t, n) ==
    LET i == LineOf(t, n)
        e == ElementEnd(t, i)
    IN  Cut(t, FlushHeader(t, i), IF Nodes(t)[n].kind = "dash" THEN BlanksFrom(t, e) ELSE e)

(* Item `from` is taken out with its header, and put before the item now   *)
(* at `to`, or after the last one.                                         *)
ReorderItems(t, n, from, to) ==
    LET items == Children(t, n)
        chunk == ItemChunk(t, LineOf(t, items[from]))
        moved == SubSeq(t, chunk.from, chunk.to)
        less  == Cut(t, chunk.from, chunk.to)
        rest  == Children(less, n)
        at    == IF to = Len(items)
                 THEN ItemChunk(less, LineOf(less, rest[to - 1])).to
                 ELSE ItemChunk(less, LineOf(less, rest[to])).from - 1
    IN  Put(less, at, moved)

AppendItem(t, n, item) ==
    LET i == LineOf(t, Children(t, n)[Len(Children(t, n))])
    IN  Put(t, ElementEnd(t, i), Shift(item, t[i].ind))

(* The column of a mapping's keys, as the text shows it.                   *)
BlockChildIndent(t, start, end, first) ==
    IF first.line = start THEN first.col
    ELSE LET below == {j \in start + 1..end : t[j].kind \notin {"blank", "hash"}}
         IN  IF below = {} THEN t[start].ind + 2 ELSE t[Min(below)].ind

AddKey(t, n, key, val) ==
    IF n = 0 THEN Append(t, Pair(0, key, val))
    ELSE LET i == LineOf(t, n)
             e == ElementEnd(t, i)
         IN  IF IsBare(t, n)
             THEN Put(t, i, <<Pair(t[i].ind + 2, key, val)>>)
             ELSE Put(t, e, <<Pair(BlockChildIndent(t, i, e, Nodes(t)[Children(t, n)[1]]), key, val)>>)

(* The value of a key gives way to a scalar.  The parser's span of an old  *)
(* value of several lines may run on over what follows it; the blank and   *)
(* the comment lines there are given back.                                 *)
ReplaceValue(t, n, over, val) ==
    LET i == LineOf(t, n)
        keep == {e \in i..over : e = i \/ ~(\/ t[e].kind = "blank"
                                            \/ IsCommentWithin(t[e], KeyColumn(t[i])))}
    IN  [Cut(t, i + 1, Max(keep)) EXCEPT ![i].val = val]

SpanEnds(t, n) ==
    LET i == LineOf(t, n)
        own == LineOf(t, EndOf(Load(t), n))
    IN  {e \in own..Len(t) : \A j \in own + 1..e : t[j].kind \in {"blank", "hash"}}

(* Entries of a mapping move under a new key, as the one item of a new     *)
(* sequence.                                                               *)
NestEntries(t, keys, under) ==
    LET ns == Nodes(t)
        at(k) == ns[keys[k]]
        first == at(1).line
        column == at(1).col
        on_dash == t[first].dash
        from(k) == IF k = 1 /\ on_dash THEN first ELSE FlushHeader(t, at(k).line)
        to(k) == EntryEnd(t, at(k).line, at(k).col)
        body(k) == Shift(SubSeq(t, from(k), to(k)), 4)
        (* Between two moved entries, up to the first one that stays.      *)
        split(k) ==
            LET stay == {j \in to(k - 1) + 1..from(k) - 1 : t[j].kind \in {"key", "text"}}
            IN  IF stay = {} THEN from(k) ELSE FlushHeader(t, Min(stay))
        gap(k) == Shift(SubSeq(t, to(k - 1) + 1, split(k) - 1), 4)
        stays(k) == SubSeq(t, split(k), from(k) - 1)
        more == [k \in 1..Len(keys) - 1 |-> gap(k + 1) \o body(k + 1)]
        left == [k \in 1..Len(keys) - 1 |-> stays(k + 1)]
    IN  SubSeq(t, 1, from(1) - 1)
          \o <<[t[first] EXCEPT !.key = under, !.val = ""]>>
          \o Shift(SubSeq(t, from(1), first - 1), 2)
          \o <<[t[first] EXCEPT !.ind = column + 2, !.dash = TRUE]>>
          \o Shift(SubSeq(t, first + 1, to(1)), 4)
          \o FlattenSeq(more) \o FlattenSeq(left)
          \o SubSeq(t, to(Len(keys)) + 1, Len(t))

\* Mutant of LiftEntry: the item's own header moves as far as its keys do.
LiftEntryByOne(t, n) ==
    LET key == Nodes(t)[n]
        first == LineOf(t, Children(t, n)[1])
        end == EntryEnd(t, key.line, key.col)
        by == key.col - KeyColumn(t[first])
    IN  SubSeq(t, 1, key.line - 1)
          \o Shift(SubSeq(t, key.line + 1, first - 1), by)
          \o <<[t[first] EXCEPT !.ind = t[key.line].ind, !.dash = t[key.line].dash]>>
          \o Shift(SubSeq(t, first + 1, end), by)
          \o SubSeq(t, end + 1, Len(t))

(* The one item of key n's sequence takes the place of the key.            *)
LiftEntry(t, n) ==
    LET key == Nodes(t)[n]
        first == LineOf(t, Children(t, n)[1])
        end == EntryEnd(t, key.line, key.col)
    IN  SubSeq(t, 1, key.line - 1)
          \o Shift(SubSeq(t, key.line + 1, first - 1), key.col - t[first].ind)
          \o <<[t[first] EXCEPT !.ind = t[key.line].ind, !.dash = t[key.line].dash]>>
          \o Shift(SubSeq(t, first + 1, end), key.col - KeyColumn(t[first]))
          \o SubSeq(t, end + 1, Len(t))

-----------------------------------------------------------------------------
(***************************************************************************)
(* What an edit means, said of what the text loads to.                     *)
(***************************************************************************)
Subtree(tree, n) == SubSeq(tree, n, EndOf(tree, n))

DepthOf(tree, n) == IF n = 0 THEN -1 ELSE tree[n].depth

Deeper(nodes, by) == [i \in DOMAIN nodes |-> [nodes[i] EXCEPT !.depth = @ + by]]

At(depth, tok) == [depth |-> depth, tok |-> tok]

(* The children of a node, as subtrees.                                    *)
Branches(tree, n) ==
    LET kids == SetToSortSeq({m \in n + 1..EndOf(tree, n) :
                               tree[m].depth = DepthOf(tree, n) + 1}, <)
    IN  [k \in DOMAIN kids |-> Subtree(tree, kids[k])]

WithBranches(tree, n, branches) ==
    SubSeq(tree, 1, n) \o FlattenSeq(branches) \o SubSeq(tree, EndOf(tree, n) + 1, Len(tree))

MoveItem(s, from, to) == InsertAt(RemoveAt(s, from), to, s[from])

Meaning(tree, e) ==
    LET n == e.at
        d == DepthOf(tree, n)
    IN  CASE e.op = "delete" -> Cut(tree, n, EndOf(tree, n))
          [] e.op = "reorder" ->
               WithBranches(tree, n, MoveItem(Branches(tree, n), e.from, e.to))
          [] e.op = "append" ->
               Put(tree, EndOf(tree, n),
                   << At(d + 1, "-"), At(d + 2, <<"name", "new">>),
                      At(d + 2, <<"sql", "new">>) >>)
          [] e.op = "add" -> Put(tree, EndOf(tree, n), << At(d + 1, <<"added", "x">>) >>)
          [] e.op = "replace" ->
               Put(SubSeq(tree, 1, n - 1), n - 1, << At(d, <<tree[n].tok[1], "x">>) >>)
                 \o SubSeq(tree, EndOf(tree, n) + 1, Len(tree))
          [] e.op = "nest" ->
               LET all == Branches(tree, n)
                   index == [i \in DOMAIN all |-> i]
                   moved == SelectSeq(index, LAMBDA i : e.moved[i])
                   after == SelectSeq(index, LAMBDA i : i > moved[1] /\ ~e.moved[i])
               IN  WithBranches(tree, n,
                     SubSeq(all, 1, moved[1] - 1)
                       \o << << At(d + 1, <<"under", "">>), At(d + 2, "-") >> >>
                       \o [i \in DOMAIN moved |-> Deeper(all[moved[i]], 2)]
                       \o [i \in DOMAIN after |-> all[after[i]]])
          [] e.op = "lift" ->
               SubSeq(tree, 1, n - 1)
                 \o Deeper(SubSeq(tree, n + 2, EndOf(tree, n)), -2)
                 \o SubSeq(tree, EndOf(tree, n) + 1, Len(tree))

(***************************************************************************)
(* The edits of a text, one after another; a result that does not load is  *)
(* refused.                                                                *)
(***************************************************************************)
NoEdit == [op |-> "none", at |-> 0, from |-> 0, to |-> 0, moved |-> << >>]

Edit(op, n) == [NoEdit EXCEPT !.op = op, !.at = n]

Begins == last = NoEdit /\ edits = 0

Init == doc \in Documents /\ Begins

Apply(e, t) ==
    /\ Load(t) # Invalid
    /\ doc' = t /\ last' = e /\ edits' = edits + 1

Targets == {n \in DOMAIN Nodes(doc) : OnDashes \/ ~OnDash(doc, n)}

Delete ==
    \E n \in Targets :
      Nodes(doc)[n].kind # "text" /\ Apply(Edit("delete", n), DeleteElement(doc, n))

Reorder ==
    \E n \in Targets : IsSequence(doc, n) /\
      \E from, to \in DOMAIN Children(doc, n) :
        from # to /\ Apply([Edit("reorder", n) EXCEPT !.from = from, !.to = to],
                           ReorderItems(doc, n, from, to))

AppendStep ==
    \E n \in Targets :
      IsSequence(doc, n) /\ Apply(Edit("append", n),
                                  AppendItem(doc, n, <<Item(0, "name", "new"), Pair(2, "sql", "new")>>))

Add ==
    \E n \in Targets \cup {0} :
      ~(~IsMapping(doc, n) /\ ~IsBare(doc, n)) /\ Apply(Edit("add", n), AddKey(doc, n, "added", "x"))

Replace ==
    \E n \in Targets : Nodes(doc)[n].kind = "key" /\
      \E over \in SpanEnds(doc, n) : Apply(Edit("replace", n), ReplaceValue(doc, n, over, "x"))

Moved(t, n, moved) ==
    LET kids == Children(t, n)
    IN  [k \in DOMAIN SelectSeq(moved, LAMBDA b : b) |->
           SelectSeq([i \in DOMAIN kids |-> IF moved[i] THEN kids[i] ELSE 0],
                     LAMBDA m : m # 0)[k]]

(* One entry or two of a mapping; a result that does not load to what the  *)
(* nest says is refused.                                                   *)
NestsOf(t) ==
    UNION {{[Edit("nest", n) EXCEPT !.moved = [i \in DOMAIN Children(t, n) |-> i \in ks]] :
              ks \in kSubset(1, DOMAIN Children(t, n)) \cup kSubset(2, DOMAIN Children(t, n))} :
             n \in {n \in 0..Len(Nodes(t)) : IsMapping(t, n) /\ ~HoldsKey(t, n, "under")}}

Nested(t, e) == NestEntries(t, Moved(t, e.at, e.moved), "under")

Nest ==
    \E e \in NestsOf(doc) :
      /\ Load(Nested(doc, e)) = Meaning(Load(doc), e)
      /\ Apply(e, Nested(doc, e))

(* A lift that would write a key twice is refused.                         *)
Lift ==
    \E n \in Targets :
      /\ IsSequence(doc, n) /\ Len(Children(doc, n)) = 1
      /\ Apply(Edit("lift", n), LiftEntry(doc, n))

Next == edits < MaxEdits /\ (Delete \/ Reorder \/ AppendStep \/ Add \/ Replace
                               \/ Nest \/ Lift)

Spec == Init /\ [][Next]_vars

-----------------------------------------------------------------------------
(* Every text an edit leaves has what the edit says of the document, and   *)
(* nothing else changed in what it loads to (edit.rs:121-201).             *)
LoadsAsAsked == Load(doc') = Meaning(Load(doc), last')

(* edit.rs:40-50: a `#` block flush above a key's line, no deeper than it, *)
(* is that line's header.                                                  *)
Comments(t) == {i \in DOMAIN t : t[i].kind = "hash" /\ ScalarOf(t, i) = 0}

Below(t, i) == {j \in i + 1..Len(t) : \A m \in i + 1..j - 1 : m \in Comments(t)}

(* The line a comment is the header of, by what the line says; or none.    *)
Owner(t, i) ==
    LET js == {j \in Below(t, i) \ Comments(t) :
                 t[j].kind = "key" /\ ScalarOf(t, j) = 0 /\ \A m \in i..j - 1 : t[m].ind <= t[j].ind}
    IN  {<<t[j].key, t[j].val>> : j \in js}

Comment(t, id) == CHOOSE i \in Comments(t) : t[i].key = id

CommentIds(t) == {t[i].key : i \in Comments(t)}

Lines(t) == {<<t[i].key, t[i].val>> : i \in {i \in DOMAIN t : t[i].kind = "key"}}

(* Whatever edits do, a header stays with its line for as long as the line *)
(* is there.  The header of an item stays with the item, whose first key a *)
(* nest or a lift may change.                                              *)
Opens(t, owner) == \E i \in DOMAIN t : t[i].dash /\ <<t[i].key, t[i].val>> \in owner

HeaderKept(t, u, id) ==
    LET owner == Owner(t, Comment(t, id))
    IN  /\ owner # {} /\ owner \subseteq Lines(u)
        /\ last'.op \in {"nest", "lift"} => ~Opens(t, owner)
        =>
          id \in CommentIds(u) /\ Owner(u, Comment(u, id)) = owner

(* A comment with a blank line below it is the sequence's: an item that is *)
(* moved or deleted does not take it along.                                *)
ApartKept(t, u, id) ==
    LET i == Comment(t, id)
    IN  /\ i < Len(t) /\ t[i + 1].kind = "blank"
        /\ last'.op = "delete" => /\ Nodes(t)[last'.at].kind = "dash"
                                  /\ t[i].ind <= t[LineOf(t, last'.at)].ind
        /\ last'.op # "replace"
        => id \in CommentIds(u)

CommentsFollow ==
    \A id \in CommentIds(doc) : HeaderKept(doc, doc', id) /\ ApartKept(doc, doc', id)

(* edit.rs:201: Lift "is the inverse of Nest", to the byte, for entries    *)
(* that follow one another.                                                *)
Adjacent(e) ==
    \A i, j \in DOMAIN e.moved : e.moved[i] /\ e.moved[j] => i - j \in -1..1

LiftUndoesNest ==
    last'.op = "nest" /\ Adjacent(last') =>
       LET n == Moved(doc, last'.at, last'.moved)[1] IN LiftEntry(doc', n) = doc

EditMeansWhatItSays == LoadsAsAsked /\ CommentsFollow /\ LiftUndoesNest
=============================================================================
