--------------------------- MODULE OperatorsProofs ---------------------------
(***************************************************************************)
(* What an operator leaves on disk, for every step of the catalogue, with  *)
(* any settings a manifest may give it, any number of attempts, of faults  *)
(* and of versions of what it reads.                                       *)
(*                                                                         *)
(* The argument is about what is still owed.  A product is pending in a    *)
(* program when one of the operations left yields it and nothing after     *)
(* that one reads more or touches the product again.  While arc waits for  *)
(* a child, what is left is the child's program and then arc's own; it may *)
(* end once nothing is pending.  A process that outlived a deadline breaks *)
(* this, and only this: it still writes nothing the step does not declare, *)
(* and no fit that was there.                                              *)
(***************************************************************************)
EXTENDS Operators, SequenceTheorems, TLAPS

Versions == Inputs \X Nat
Contents == {Absent, Half} \cup {Whole(vs) : vs \in SUBSET Versions}
Members  == {"x", "y"}
Calls    == {"script", "version", "profile"}
Verbs    == {"read", "fetch", "fit", "floor", "spawn", "mkdir", "write", "publish",
             "finish", "move", "expand", "entry"}
Names    == Files \cup Members \cup {".."} \cup Calls
Items    == [do : Verbs, file : Names]

WellTyped ==
    /\ step \in OperatorSteps
    /\ disk \in [Files -> Contents] /\ began \in [Files -> Contents]
    /\ disk["dest"] \in {Absent, Whole({})}
    /\ pc \in {"idle", "runs", "waits", "ended"}
    /\ program \in Seq(Items) /\ seen \in SUBSET Versions
    /\ children \in SUBSET [left : Seq(Items), seen : SUBSET Versions, attempt : Nat]
    /\ attempt \in Nat /\ faults \in Nat
    /\ survived \in BOOLEAN

-----------------------------------------------------------------------------
(* What a program of the step st may do, and what it may write: a fit that *)
(* was there when the step began, in the folder b, is not written.         *)
Targets(st) ==
    (Declared(st) \ {"dest"})
      \cup (IF st.op = "archive_extract" /\ st.with.members # {} /\ st.with.pattern
            THEN {Dest.x, Dest.y} ELSE {})

Writable(st, b) ==
    IF st.op = "umap_project" /\ b["out2"] # Absent THEN Targets(st) \ {"out2"}
    ELSE Targets(st)

MayDo(st, b, i) ==
    \/ i.do \in {"read", "fetch"} /\ i.file \in Inputs
    \/ i.do = "floor"
    \/ i.do = "spawn" /\ i.file \in DOMAIN resolve(st).does
    \/ i.do = "mkdir" /\ i.file = "dest"
    \/ i.do = "fit" /\ i.file = "out2" /\ st.op = "umap_project" /\ "out2" \in Targets(st)
    \/ i.do = "expand" /\ st.op = "archive_extract"
    \/ i.do = "entry" /\ i.file \in Members \cup {".."} /\ st.op = "archive_extract"
    \/ i.do \in {"write", "finish"} /\ i.file \in Writable(st, b) /\ ~Publishes(st)
    \/ i.do \in {"publish", "move"} /\ i.file \in Writable(st, b)
    \/ i.do = "finish" /\ i.file = "part"

Proper(st, b, prog) == \A k \in DOMAIN prog : MayDo(st, b, prog[k])

(* A file is moved right after it was finished.                            *)
Handed(prog, s, d) ==
    \A k \in DOMAIN prog :
       prog[k].do = "move" =>
         IF k = 1 THEN d["part"] = Whole(s) ELSE prog[k - 1] = Do("finish", "part")

(* The operations on a product, and those that complete it.                *)
Disturbs(i, p) ==
    \/ i.do \in {"read", "fetch", "fit", "spawn", "expand"}
    \/ i.file = p
    \/ \E n \in Members : i = Do("entry", n) /\ p = Dest[n]

Yields(i, p) ==
    \/ i.do \in {"write", "publish", "finish", "move", "fit"} /\ i.file = p
    \/ i = Do("spawn", "script")
    \/ i = Do("expand", "a") /\ p \in {Dest.x, Dest.y}
    \/ \E n \in Members : i = Do("entry", n) /\ p = Dest[n]

Pending(prog, p) ==
    \E k \in DOMAIN prog :
       /\ Yields(prog[k], p)
       /\ \A j \in DOMAIN prog : j > k => ~Disturbs(prog[j], p)

(* The product is made from what was read, is a fit that was read, or is   *)
(* no longer a member.                                                     *)
Settled(st, prog, s, d, p) ==
    /\ \A k \in DOMAIN prog : ~Disturbs(prog[k], p)
    /\ \/ d[p] = Whole(s)
       \/ st.op = "umap_project" /\ p = "out2" /\ d[p].is = "whole" /\ d[p].of \subseteq s
       \/ /\ st.op = "archive_extract"
          /\ \A i \in DOMAIN Entries(s) : Entries(s)[i] # ".." => p # Dest[Entries(s)[i]]

Owed(st) == Declared(st) \ {"dest"}

Sound(st, prog, s, d) ==
    /\ Handed(prog, s, d)
    /\ \A p \in Owed(st) : Pending(prog, p) \/ Settled(st, prog, s, d, p)

-----------------------------------------------------------------------------
(* Who is alive.                                                           *)
Alone ==
    /\ survived => resolve(step).mode = "inherit"
    /\ outcome = "ok" => pc = "ended"
    /\ ~survived =>
         /\ \A c, d \in children : c = d
         /\ pc \in {"idle", "runs"} => children = {}
         /\ pc = "waits" => \A c \in children : c.attempt = attempt
         /\ outcome = "ok" => children = {}

ProgramsAreProper ==
    /\ Proper(step, began, program)
    /\ \A c \in children : Proper(step, began, c.left)

ProgramsAreSound ==
    ~survived =>
      /\ pc = "runs" => Sound(step, program, seen, disk)
      /\ \A c \in children :
           /\ Handed(c.left, c.seen, disk)
           /\ pc = "waits" => Sound(step, c.left \o program, c.seen, disk)

(* What the step may not write is as it was.                               *)
Untouched == \A p \in Products \ Writable(step, began) : disk[p] = began[p]

IInv ==
    /\ WellTyped /\ Alone /\ ProgramsAreProper /\ ProgramsAreSound /\ Untouched
    /\ PublishedWhole /\ SuccessIsAnswered

-----------------------------------------------------------------------------
(***************************************************************************)
(* Steps and their programs.                                               *)
(***************************************************************************)
\* What is known of a step that runs.
LEMMA StepIsRead ==
    ASSUME NEW st \in OperatorSteps
    PROVE  /\ st.op \in Catalog
           /\ st.with \in Settings
           /\ st.op = "archive_extract" => st.with.members # {} \/ st.with.pattern
BY StepsAreRead

\* The operations of the catalogue.
LEMMA CatalogItems ==
    /\ \A f \in Inputs : Do("read", f) \in Items /\ Do("fetch", f) \in Items /\ Do("floor", f) \in Items
    /\ \A n \in Calls : Do("spawn", n) \in Items
    /\ Do("expand", "a") \in Items /\ Do("mkdir", "dest") \in Items /\ Do("fit", "out2") \in Items
    /\ \A f \in {"out", "out2"} : Do("write", f) \in Items /\ Do("publish", f) \in Items
<1>1. Inputs \subseteq Names /\ Calls \subseteq Names /\ {"a", "dest", "out", "out2"} \subseteq Names
  BY DEF Names, Files, Products, Inputs
<1>2. QED
  BY <1>1 DEF Do, Items, Verbs

\* The members' files are files of their own.
LEMMA DestsAreFiles ==
    /\ Dest["x"] = "dest/x" /\ Dest["y"] = "dest/y"
    /\ Dest.x = "dest/x" /\ Dest.y = "dest/y"
BY DEF Dest

\* What a step of one product owes, and may write whatever the folder held.
LEMMA OneProduct ==
    ASSUME NEW st, resolve(st).produces = {"out"}
    PROVE  /\ Owed(st) = {"out"} /\ "out" \in Targets(st)
           /\ \A b : "out" \in Writable(st, b)
BY DEF Owed, Declared, Targets, Writable

\* A program that reads, and begins its one product last by the operation w.
ReadsThen(w, st, prog) ==
    /\ resolve(st).produces = {"out"}
    /\ prog \in Seq(Items) /\ Len(prog) > 0
    /\ prog[Len(prog)].do = w /\ prog[Len(prog)].file = "out"
    /\ \A k \in 1..Len(prog) :
         \/ k = Len(prog)
         \/ prog[k].do \in {"read", "fetch", "floor"} /\ prog[k].file \in Inputs
         \/ prog[k].do = "spawn" /\ prog[k].file \in DOMAIN resolve(st).does

\* What such a program is: each of its operations is in order, none is the
\* second half of another, and it owes what its step does.
Ready(st, prog) ==
    /\ prog \in Seq(Items)
    /\ \A b : Proper(st, b, prog)
    /\ \A k \in DOMAIN prog : prog[k].do # "move"
    /\ \A p \in Owed(st) : Pending(prog, p)

LEMMA EndsInProduct ==
    ASSUME NEW st, NEW prog, NEW w, ReadsThen(w, st, prog),
           w = "publish" \/ (w = "write" /\ ~Publishes(st))
    PROVE  Ready(st, prog)
<1>1. Len(prog) \in Nat /\ DOMAIN prog = 1..Len(prog) /\ Len(prog) \in DOMAIN prog
  BY LenProperties DEF ReadsThen
<1>2. /\ \A b : MayDo(st, b, prog[Len(prog)])
      /\ Yields(prog[Len(prog)], "out") /\ prog[Len(prog)].do # "move"
  BY OneProduct DEF MayDo, Yields, ReadsThen
<1>3. \A k \in 1..Len(prog) : (\A b : MayDo(st, b, prog[k])) /\ prog[k].do # "move"
  BY <1>2 DEF MayDo, ReadsThen
<1>4. Pending(prog, "out")
  BY <1>1, <1>2 DEF Pending
<1>5. QED
  BY <1>1, <1>3, <1>4, OneProduct DEF Ready, Proper, ReadsThen

\* A program that is ready is sound, whatever was read and the folder holds.
LEMMA ReadyIsSound ==
    ASSUME NEW st, NEW prog, Ready(st, prog)
    PROVE  \A s, d : Sound(st, prog, s, d)
BY DEF Ready, Sound, Handed

\* What is so of a step before it does anything.
Starts(st) ==
    /\ resolve(st).produces \subseteq Products \cup {"dest"}
    /\ "dest" \in resolve(st).produces => st.op = "archive_extract"
    /\ resolve(st).mode \in {"none", "inherit", "capture"}
    /\ Publishes(st) => resolve(st).mode # "inherit"
    /\ DOMAIN resolve(st).does \subseteq Calls
    /\ Ready(st, resolve(st).run)
    /\ \A n \in DOMAIN resolve(st).does :
         LET prog == resolve(st).does[n] IN
         /\ prog \in Seq(Items)
         /\ \A b : Proper(st, b, prog)
         /\ \A k \in DOMAIN prog : prog[k].do # "move"
         /\ n = "script" => Ready(st, prog)

\* A step that is one script is ready when its script is.
LEMMA WrapsAreReady ==
    ASSUME NEW st, NEW prog, resolve(st).run = <<Do("spawn", "script")>>,
           resolve(st).does = [script |-> prog], Ready(st, prog)
    PROVE  /\ Ready(st, resolve(st).run)
           /\ DOMAIN resolve(st).does \subseteq Calls
           /\ \A n \in DOMAIN resolve(st).does : n = "script" /\ resolve(st).does[n] = prog
<1>1. \A n \in DOMAIN resolve(st).does : n = "script" /\ resolve(st).does[n] = prog
  OBVIOUS
<1>2. "script" \in DOMAIN resolve(st).does
  OBVIOUS
<1> DEFINE r == <<Do("spawn", "script")>>
<1>3. r \in Seq(Items) /\ DOMAIN r = {1} /\ r[1] = Do("spawn", "script")
  BY CatalogItems DEF Calls
<1>4. Do("spawn", "script").do = "spawn" /\ Do("spawn", "script").file = "script"
  BY DEF Do
<1> HIDE DEF r
<1>5. \A b : MayDo(st, b, Do("spawn", "script"))
  BY <1>2, <1>4 DEF MayDo
<1>6. \A p : Yields(Do("spawn", "script"), p)
  BY DEF Yields
<1>7. \A p : Pending(r, p)
  BY <1>3, <1>6 DEF Pending
<1>8. (\A b : Proper(st, b, r)) /\ \A k \in DOMAIN r : r[k].do # "move"
  BY <1>3, <1>4, <1>5 DEF Proper
<1>9. Ready(st, r)
  BY <1>3, <1>7, <1>8 DEF Ready
<1>10. QED
  BY <1>1, <1>9 DEF r, Calls

\* Every step of the catalogue starts so: its program, and those of its children,
\* are in order and owe all that it produces.
LEMMA StartsSound ==
    ASSUME NEW st \in OperatorSteps
    PROVE  Starts(st)
<1>1. CASE st.op = "parquet_export"
  <2>1. resolve(st) = ParquetExport(st.with)
    BY <1>1 DEF resolve
  <2>2. /\ resolve(st).produces = {"out"} /\ resolve(st).mode = "none"
        /\ resolve(st).does = << >>
    BY <2>1 DEF ParquetExport, InProcess, Operator
  <2>3. ReadsThen("write", st, resolve(st).run)
    BY <2>1, <2>2, CatalogItems DEF ParquetExport, InProcess, Operator, Write, Publish, Inputs, Do, ReadsThen
  <2>4. Ready(st, resolve(st).run)
    BY <1>1, <2>3, EndsInProduct DEF Publishes, Publishers
  <2>5. QED
    BY <2>2, <2>4 DEF Starts, Products
<1>2. CASE st.op = "opendal_fetch"
  <2>1. resolve(st) = OpendalFetch(st.with)
    BY <1>2 DEF resolve
  <2>2. /\ resolve(st).produces = {"out"} /\ resolve(st).mode = "none"
        /\ resolve(st).does = << >>
    BY <2>1 DEF OpendalFetch, InProcess, Operator
  <2>3. CASE st.with.toPart
    <3>1. ReadsThen("write", st, resolve(st).run)
      BY <2>1, <2>2, <2>3, CatalogItems
      DEF OpendalFetch, InProcess, Operator, Write, Publish, Inputs, Do, ReadsThen
    <3>2. QED
      BY <1>2, <2>2, <2>3, <3>1, EndsInProduct DEF Starts, Publishes, Products
  <2>5. CASE ~st.with.toPart
    <3>1. ReadsThen("publish", st, resolve(st).run)
      BY <2>1, <2>2, <2>5, CatalogItems
      DEF OpendalFetch, InProcess, Operator, Write, Publish, Inputs, Do, ReadsThen
    <3>2. QED
      BY <2>2, <3>1, EndsInProduct DEF Starts, Products
  <2>6. QED
    BY <2>3, <2>5
<1>3. CASE st.op = "html_link_discover"
  <2>1. resolve(st) = HtmlLinkDiscover(st.with)
    BY <1>3 DEF resolve
  <2>2. /\ resolve(st).produces = {"out"} /\ resolve(st).mode = "none"
        /\ resolve(st).does = << >>
    BY <2>1 DEF HtmlLinkDiscover, InProcess, Operator
  <2>3. ReadsThen("publish", st, resolve(st).run)
    BY <2>1, <2>2, CatalogItems DEF HtmlLinkDiscover, InProcess, Operator, Write, Publish, Inputs, Do, ReadsThen
  <2>4. Ready(st, resolve(st).run)
    BY <1>3, <2>3, EndsInProduct DEF Publishes, Publishers
  <2>5. QED
    BY <2>2, <2>4 DEF Starts, Products
<1>4. CASE st.op = "splink_resolve"
  <2>1. resolve(st) = SplinkResolve(st.with)
    BY <1>4 DEF resolve
  <2> DEFINE prog == resolve(st).does["script"]
  <2>2. /\ resolve(st).produces = {"out"} /\ resolve(st).mode \in {"inherit", "capture"}
        /\ resolve(st).run = <<Do("spawn", "script")>>
        /\ resolve(st).does = [script |-> prog]
        /\ Publishes(st) => resolve(st).mode = "capture"
    BY <1>4, <2>1 DEF SplinkResolve, Wraps, Operator, Publishes, Publishers
  <2>6. prog = <<Do("read", "a"), Do("read", "b"), Do("write", "out")>>
    BY <2>1 DEF SplinkResolve, Wraps, Operator, Write, Publish
  <2> HIDE DEF prog
  <2>3. ReadsThen("write", st, prog)
    BY <2>2, <2>6, CatalogItems DEF Inputs, Do, ReadsThen
  <2>4. Ready(st, prog)
    BY <1>4, <2>3, EndsInProduct DEF Publishes, Publishers
  <2>5. QED
    BY <2>2, <2>4, WrapsAreReady DEF Starts, Ready, Products
<1>5. CASE st.op = "gleif_ra_fetch"
  <2>1. resolve(st) = GleifRaFetch(st.with)
    BY <1>5 DEF resolve
  <2> DEFINE prog == resolve(st).does["script"]
  <2>2. /\ resolve(st).produces = {"out"} /\ resolve(st).mode \in {"inherit", "capture"}
        /\ resolve(st).run = <<Do("spawn", "script")>>
        /\ resolve(st).does = [script |-> prog]
        /\ Publishes(st) => resolve(st).mode = "capture"
    BY <1>5, <2>1 DEF GleifRaFetch, Wraps, Operator, Publishes, Publishers
  <2>6. prog = <<Do("fetch", "a"), Do("publish", "out")>>
    BY <2>1 DEF GleifRaFetch, Wraps, Operator, Write, Publish
  <2> HIDE DEF prog
  <2>3. ReadsThen("publish", st, prog)
    BY <2>2, <2>6, CatalogItems DEF Inputs, Do, ReadsThen
  <2>4. Ready(st, prog)
    BY <1>5, <2>3, EndsInProduct DEF Publishes, Publishers
  <2>5. QED
    BY <2>2, <2>4, WrapsAreReady DEF Starts, Ready, Products
<1>6. CASE st.op = "text_embed"
  <2>1. resolve(st) = TextEmbed(st.with)
    BY <1>6 DEF resolve
  <2> DEFINE prog == resolve(st).does["script"]
  <2>2. /\ resolve(st).produces = {"out"} /\ resolve(st).mode \in {"inherit", "capture"}
        /\ resolve(st).run = <<Do("spawn", "script")>>
        /\ resolve(st).does = [script |-> prog]
        /\ Publishes(st) => resolve(st).mode = "capture"
    BY <1>6, <2>1 DEF TextEmbed, Wraps, Operator, Publishes, Publishers
  <2>6. prog = <<Do("read", "b"), Do("read", "a"), Do("write", "out")>>
    BY <2>1 DEF TextEmbed, Wraps, Operator, Write, Publish
  <2> HIDE DEF prog
  <2>3. ReadsThen("write", st, prog)
    BY <2>2, <2>6, CatalogItems DEF Inputs, Do, ReadsThen
  <2>4. Ready(st, prog)
    BY <1>6, <2>3, EndsInProduct DEF Publishes, Publishers
  <2>5. QED
    BY <2>2, <2>4, WrapsAreReady DEF Starts, Ready, Products
<1>7. CASE st.op = "uv"
  <2>1. resolve(st) = Uv(st.with)
    BY <1>7 DEF resolve
  <2> DEFINE prog == resolve(st).does["script"]
  <2>2. /\ resolve(st).produces = {"out"} /\ resolve(st).mode \in {"inherit", "capture"}
        /\ resolve(st).run = <<Do("spawn", "script")>>
        /\ resolve(st).does = [script |-> prog]
        /\ Publishes(st) => resolve(st).mode = "capture"
    BY <1>7, <2>1 DEF Uv, Wraps, Operator, Publishes, Publishers
  <2>6. prog = <<Do("read", "b"), Do("read", "a"), Do("write", "out")>>
    BY <2>1 DEF Uv, Wraps, Operator, Write, Publish
  <2> HIDE DEF prog
  <2>3. ReadsThen("write", st, prog)
    BY <2>2, <2>6, CatalogItems DEF Inputs, Do, ReadsThen
  <2>4. Ready(st, prog)
    BY <1>7, <2>3, EndsInProduct DEF Publishes, Publishers
  <2>5. QED
    BY <2>2, <2>4, WrapsAreReady DEF Starts, Ready, Products
<1>8. CASE st.op = "datapackage_describe"
  <2>1. resolve(st) = DatapackageDescribe(st.with)
    BY <1>8 DEF resolve
  <2>2. /\ resolve(st).produces = {"out"} /\ resolve(st).mode = "capture"
        /\ resolve(st).does = [version |-> << >>, profile |-> <<Do("read", "a")>>]
    BY <2>1 DEF DatapackageDescribe, Operator
  <2>3. /\ Do("read", "a") \in Items /\ Do("read", "a").do = "read"
        /\ \A b : MayDo(st, b, Do("read", "a"))
    BY CatalogItems DEF Do, Inputs, MayDo
  <2>9. \A n \in DOMAIN resolve(st).does :
          n \in {"version", "profile"} /\ resolve(st).does[n] \in {<< >>, <<Do("read", "a")>>}
    BY <2>2
  <2>10. \A prog \in {<< >>, <<Do("read", "a")>>} :
           /\ prog \in Seq(Items)
           /\ \A b : Proper(st, b, prog)
           /\ \A j \in DOMAIN prog : prog[j].do # "move"
    <3>1. LET prog == << >> IN
          prog \in Seq(Items) /\ (\A b : Proper(st, b, prog)) /\ \A j \in DOMAIN prog : prog[j].do # "move"
      BY DEF Proper
    <3>2. LET prog == <<Do("read", "a")>> IN
          prog \in Seq(Items) /\ DOMAIN prog = {1} /\ prog[1] = Do("read", "a")
      BY <2>3
    <3>3. \A b : Proper(st, b, <<Do("read", "a")>>)
      BY <2>3, <3>2 DEF Proper
    <3>4. QED
      BY <2>3, <3>1, <3>2, <3>3
  <2>4. \A n \in DOMAIN resolve(st).does :
          LET prog == resolve(st).does[n] IN
          /\ prog \in Seq(Items) /\ n \in Calls /\ n # "script"
          /\ \A b : Proper(st, b, prog)
          /\ \A j \in DOMAIN prog : prog[j].do # "move"
    BY <2>9, <2>10 DEF Calls
  <2>5. {"version", "profile"} \subseteq DOMAIN resolve(st).does
    BY <2>2
  <2>6. ReadsThen("write", st, resolve(st).run)
    BY <2>1, <2>2, <2>5, CatalogItems DEF DatapackageDescribe, Operator, Write, Inputs, Do, ReadsThen, Calls
  <2>7. Ready(st, resolve(st).run)
    BY <1>8, <2>6, EndsInProduct DEF Publishes, Publishers
  <2>8. QED
    BY <2>2, <2>4, <2>7 DEF Starts, Products
<1>9. CASE st.op = "finetype_validate"
  <2>1. resolve(st) = FinetypeValidate(st.with)
    BY <1>9 DEF resolve
  <2> DEFINE prog == resolve(st).run
  <2>2. /\ resolve(st).produces = {} /\ resolve(st).mode = "none" /\ resolve(st).does = << >>
        /\ prog \in Seq(Items) /\ DOMAIN prog = 1..2
        /\ \A j \in 1..2 : prog[j].do = "read" /\ prog[j].file \in Inputs
    BY <2>1, CatalogItems DEF FinetypeValidate, InProcess, Operator, Inputs, Do
  <2>3. Ready(st, prog)
    BY <2>2 DEF Ready, Proper, MayDo, Owed, Declared
  <2>4. QED
    BY <1>9, <2>2, <2>3 DEF Starts
<1>10. CASE st.op = "umap_project"
  <2>1. resolve(st) = UmapProject(st.with)
    BY <1>10 DEF resolve
  <2> DEFINE prog == resolve(st).does["script"]
  <2>2. /\ resolve(st).mode = "capture"
        /\ resolve(st).run = <<Do("spawn", "script")>>
        /\ resolve(st).does = [script |-> prog]
        /\ resolve(st).produces = {"out"} \cup IF st.with.fit THEN {"out2"} ELSE {}
    BY <2>1 DEF UmapProject, Wraps, Operator
  <2>3. CASE ~st.with.fit
    <3>4. prog = <<Do("read", "a"), Do("write", "out")>> /\ resolve(st).produces = {"out"}
      BY <2>1, <2>3 DEF UmapProject, Wraps, Operator, Write
    <3> HIDE DEF prog
    <3>1. ReadsThen("write", st, prog)
      BY <3>4, CatalogItems DEF Inputs, Do, ReadsThen
    <3>2. Ready(st, prog)
      BY <1>10, <3>1, EndsInProduct DEF Publishes, Publishers
    <3>3. QED
      BY <2>2, <2>3, <3>2, WrapsAreReady DEF Starts, Ready, Products
  <2>4. CASE st.with.fit
    <3>7. /\ prog = <<Do("read", "a"), Do("fit", "out2"), Do("write", "out")>>
          /\ resolve(st).produces = {"out", "out2"}
      BY <2>1, <2>4 DEF UmapProject, Wraps, Operator, Write
    <3> HIDE DEF prog
    <3>1. /\ resolve(st).produces = {"out", "out2"} /\ prog \in Seq(Items) /\ DOMAIN prog = 1..3
          /\ prog[1].do = "read" /\ prog[1].file = "a"
          /\ prog[2].do = "fit" /\ prog[2].file = "out2"
          /\ prog[3].do = "write" /\ prog[3].file = "out"
      BY <3>7, CatalogItems DEF Inputs, Do
    <3>2. /\ Owed(st) = {"out", "out2"} /\ "out2" \in Targets(st)
          /\ \A b : "out" \in Writable(st, b)
      BY <3>1 DEF Owed, Declared, Targets, Writable
    <3>3. \A b : Proper(st, b, prog)
      BY <1>10, <3>1, <3>2 DEF Proper, MayDo, Inputs, Publishes, Publishers
    <3>4. Pending(prog, "out") /\ Pending(prog, "out2")
      <4>1. ~Disturbs(prog[3], "out2")
        BY <3>1, DestsAreFiles DEF Disturbs, Do, Members
      <4>2. QED
        BY <3>1, <4>1 DEF Pending, Yields
    <3>5. Ready(st, prog)
      BY <3>1, <3>2, <3>3, <3>4 DEF Ready
    <3>6. QED
      BY <2>2, <3>1, <3>5, WrapsAreReady DEF Starts, Ready, Products
  <2>5. QED
    BY <2>3, <2>4
<1>11. CASE st.op = "archive_extract"
  <2>1. resolve(st) = ArchiveExtract(st.with)
    BY <1>11 DEF resolve
  <2> DEFINE prog == resolve(st).run
  <2>2. /\ prog \in Seq(Items) /\ DOMAIN prog = 1..3
        /\ prog[1] = Do("mkdir", "dest") /\ prog[2] = Do("read", "a") /\ prog[3] = Do("expand", "a")
        /\ resolve(st).mode = "none" /\ resolve(st).does = << >>
    BY <2>1, CatalogItems DEF ArchiveExtract, InProcess, Operator, Inputs
  <2>3. /\ resolve(st).produces \subseteq {"dest", Dest.x, Dest.y}
        /\ Owed(st) \subseteq {Dest.x, Dest.y}
    BY <1>11, <2>1, StepIsRead DEF ArchiveExtract, InProcess, Operator, Settings, Dest, Owed, Declared
  <2>4. \A b : Proper(st, b, prog)
    BY <1>11, <2>2 DEF Proper, MayDo, Inputs, Do
  <2>5. \A p \in {Dest.x, Dest.y} : Pending(prog, p)
    BY <2>2 DEF Pending, Yields
  <2>6. \A j \in DOMAIN prog : prog[j].do # "move"
    BY <2>2 DEF Do
  <2>7. QED
    BY <1>11, <2>2, <2>3, <2>4, <2>5, <2>6 DEF Starts, Ready, Products
<1>12. QED
  BY <1>1, <1>2, <1>3, <1>4, <1>5, <1>6, <1>7, <1>8, <1>9, <1>10, <1>11, StepIsRead DEF Catalog

-----------------------------------------------------------------------------
(***************************************************************************)
(* One operation.                                                          *)
(***************************************************************************)
\* What is left after the first operation of a program: what it brings, then
\* the others, each in the order it was in.
LEMMA Spliced ==
    ASSUME NEW b \in Seq(Items), NEW prog \in Seq(Items), prog # << >>
    PROVE  LET rest == b \o Tail(prog) IN
           /\ rest \in Seq(Items) /\ Len(rest) = Len(b) + Len(prog) - 1
           /\ \A k \in 1..Len(b) : rest[k] = b[k]
           /\ \A k \in 2..Len(prog) : rest[Len(b) + k - 1] = prog[k]
           /\ Head(prog) = prog[1] /\ Head(prog) \in Items
<1>1. Len(prog) \in Nat \ {0}
  BY EmptySeq
<1>2. Tail(prog) \in Seq(Items) /\ Len(Tail(prog)) = Len(prog) - 1
  BY HeadTailProperties
<1>3. \A k \in 1..Len(Tail(prog)) : Tail(prog)[k] = prog[k + 1]
  BY HeadTailProperties
<1>4. b \o Tail(prog) \in Seq(Items) /\ Len(b \o Tail(prog)) = Len(b) + Len(prog) - 1
  BY <1>2, ConcatProperties
<1>5. \A k \in 1..Len(b) : (b \o Tail(prog))[k] = b[k]
  BY <1>1, <1>2, ConcatProperties, LenProperties
<1>6. ASSUME NEW k \in 2..Len(prog)
      PROVE  (b \o Tail(prog))[Len(b) + k - 1] = prog[k]
  <2>1. /\ Len(b) \in Nat /\ Len(b) + k - 1 \in 1..(Len(b) + Len(Tail(prog)))
        /\ Len(b) + k - 1 > Len(b) /\ (Len(b) + k - 1) - Len(b) = k - 1
    BY <1>1, <1>2, LenProperties
  <2>2. (b \o Tail(prog))[Len(b) + k - 1] = Tail(prog)[(Len(b) + k - 1) - Len(b)]
    BY <1>2, <2>1, ConcatProperties
  <2>3. QED
    BY <1>1, <1>2, <1>3, <2>1, <2>2
<1>7. QED
  BY <1>4, <1>5, <1>6, HeadTailProperties

\* The members of an archive are told apart.
LEMMA EntriesDiffer ==
    ASSUME NEW s
    PROVE  /\ Entries(s) \in Seq(Members \cup {".."})
           /\ DOMAIN Entries(s) = 1..Len(Entries(s))
           /\ \A j, k \in DOMAIN Entries(s) : j # k => Entries(s)[j] # Entries(s)[k]
<1>1. Entries(s) = <<"x", "y">> \/ Entries(s) = <<"x">> \/ Entries(s) = <<"x", "..">>
  BY DEF Entries
<1> DEFINE Told(e) == /\ e \in Seq(Members \cup {".."}) /\ DOMAIN e = 1..Len(e)
                      /\ \A j, k \in DOMAIN e : j # k => e[j] # e[k]
<1>2. Told(<<"x", "y">>)
  BY DEF Members
<1>3. Told(<<"x">>)
  BY DEF Members
<1>4. Told(<<"x", "..">>)
  BY DEF Members
<1>5. QED
  BY <1>1, <1>2, <1>3, <1>4

\* A member that is selected is extracted to where the step may write.
LEMMA SelectedIsWritable ==
    ASSUME NEW st \in OperatorSteps, st.op = "archive_extract",
           NEW n \in Members, member_selected(n, st.with), NEW b
    PROVE  Dest[n] \in Writable(st, b)
<1>1. resolve(st) = ArchiveExtract(st.with)
  BY DEF resolve
<1>2. Dest[n] \in {Dest.x, Dest.y} /\ Dest[n] # "dest"
  BY DestsAreFiles DEF Members
<1>3. QED
  BY <1>1, <1>2 DEF ArchiveExtract, InProcess, Operator, Declared, Targets, Writable, member_selected

\* A member whose file is owed is selected.
LEMMA OwedIsSelected ==
    ASSUME NEW st \in OperatorSteps, st.op = "archive_extract",
           NEW n \in Members, Dest[n] \in Owed(st)
    PROVE  member_selected(n, st.with)
<1>1. resolve(st) = ArchiveExtract(st.with)
  BY DEF resolve
<1>2. CASE st.with.members = {}
  BY <1>2, StepIsRead DEF member_selected
<1>3. CASE st.with.members # {}
  <2>1. "dest" \notin resolve(st).produces
    BY <1>1, <1>3, StepIsRead, DestsAreFiles DEF ArchiveExtract, InProcess, Operator, Settings
  <2>2. PICK m \in st.with.members : Dest[n] = Dest[m]
    BY <1>1, <1>3, <2>1 DEF ArchiveExtract, InProcess, Operator, Owed, Declared
  <2>3. m \in Members
    BY StepIsRead DEF Settings, Members
  <2>4. m = n
    BY <2>2, <2>3, DestsAreFiles DEF Members
  <2>5. QED
    BY <2>4 DEF member_selected
<1>4. QED
  BY <1>2, <1>3

\* The files a step may write, and those it owes, are files of its own.
LEMMA TargetsAreProducts ==
    ASSUME NEW st \in OperatorSteps
    PROVE  /\ Owed(st) \subseteq Targets(st)
           /\ Targets(st) \subseteq Products \ {"part", "dest"}
           /\ \A b : Writable(st, b) \subseteq Targets(st)
           /\ Products \subseteq Files
BY StartsSound, DestsAreFiles DEF Targets, Products, Files, Owed, Declared, Writable, Starts

\* What an operation brings is in order too.
LEMMA BringsProper ==
    ASSUME step \in OperatorSteps, Untouched, NEW i \in Items, NEW s,
           MayDo(step, began, i), CanDo(i, s)
    PROVE  Brings(i, s) \in Seq(Items) /\ Proper(step, began, Brings(i, s))
<1>1. CASE i.do = "write"
  <2>1. Brings(i, s) = <<Do("finish", i.file)>>
    BY <1>1 DEF Brings
  <2>2. Do("finish", i.file) \in Items /\ MayDo(step, began, Do("finish", i.file))
    BY <1>1 DEF Items, Verbs, Do, MayDo
  <2>3. QED
    BY <2>1, <2>2 DEF Proper
<1>2. CASE i.do = "publish"
  <2>1. Brings(i, s) = <<Do("finish", "part"), Do("move", i.file)>>
    BY <1>2 DEF Brings
  <2>2. Do("finish", "part") \in Items /\ MayDo(step, began, Do("finish", "part"))
    BY DEF Items, Verbs, Do, MayDo, Names, Files
  <2>3. Do("move", i.file) \in Items /\ MayDo(step, began, Do("move", i.file))
    BY <1>2 DEF Items, Verbs, Do, MayDo
  <2>4. QED
    BY <2>1, <2>2, <2>3 DEF Proper
<1>3. CASE i.do = "expand"
  <2>1. Brings(i, s) = [k \in 1..Len(Entries(s)) |-> Do("entry", Entries(s)[k])]
    BY <1>3, EntriesDiffer DEF Brings
  <2>2. \A k \in 1..Len(Entries(s)) : Entries(s)[k] \in Members \cup {".."}
    BY EntriesDiffer
  <2>3. \A n \in Members \cup {".."} : Do("entry", n) \in Items /\ MayDo(step, began, Do("entry", n))
    BY <1>3 DEF Items, Verbs, Names, Do, MayDo
  <2>4. QED
    BY <2>1, <2>2, <2>3, EntriesDiffer DEF Proper
<1>4. CASE i.do = "entry"
  <2>1. Brings(i, s) = Extract(i.file, step.with)
    BY <1>4 DEF Brings
  <2>2. CASE ~member_selected(i.file, step.with)
    BY <2>1, <2>2 DEF Extract, Proper
  <2>3. CASE member_selected(i.file, step.with)
    <3>1. i.file \in Members /\ step.op = "archive_extract"
      BY <1>4, <2>3 DEF MayDo, CanDo
    <3>2. Dest[i.file] \in Writable(step, began) /\ Dest[i.file] \in Files
      BY <2>3, <3>1, SelectedIsWritable, TargetsAreProducts
    <3>3. Do("publish", Dest[i.file]) \in Items /\ MayDo(step, began, Do("publish", Dest[i.file]))
      BY <3>2 DEF Items, Verbs, Names, Do, MayDo
    <3>4. Brings(i, s) = <<Do("publish", Dest[i.file])>>
      BY <2>1, <2>3 DEF Extract, Publish
    <3>5. QED
      BY <3>3, <3>4 DEF Proper
  <2>4. QED
    BY <2>2, <2>3
<1>5. CASE i.do = "fit"
  <2>1. /\ i.file = "out2" /\ step.op = "umap_project" /\ "out2" \in Targets(step)
        /\ ~Publishes(step)
    BY <1>5 DEF MayDo, Publishes, Publishers
  <2>2. CASE disk["out2"] = Absent
    <3>1. began["out2"] = Absent
      BY <2>1, <2>2 DEF Untouched, Writable, Products
    <3>2. "out2" \in Writable(step, began)
      BY <2>1, <3>1 DEF Writable
    <3>3. Do("write", "out2") \in Items /\ MayDo(step, began, Do("write", "out2"))
      BY <2>1, <3>2, CatalogItems DEF MayDo, Do
    <3>4. Brings(i, s) = <<Do("write", "out2")>>
      BY <1>5, <2>1, <2>2 DEF Brings, Write
    <3>5. QED
      BY <3>3, <3>4 DEF Proper
  <2>3. CASE disk["out2"] # Absent
    BY <1>5, <2>1, <2>3 DEF Brings, Proper
  <2>4. QED
    BY <2>2, <2>3
<1>6. CASE i.do = "spawn"
  <2>1. Brings(i, s) = resolve(step).does[i.file] /\ i.file \in DOMAIN resolve(step).does
    BY <1>6 DEF Brings, MayDo
  <2>2. QED
    BY <2>1, StartsSound DEF Starts
<1>7. CASE i.do \notin {"write", "publish", "expand", "entry", "fit", "spawn"}
  <2>1. Brings(i, s) = << >>
    BY <1>7 DEF Brings
  <2>2. QED
    BY <2>1 DEF Proper
<1>8. QED
  BY <1>1, <1>2, <1>3, <1>4, <1>5, <1>6, <1>7

\* An operation hands a file on only once it is whole.
LEMMA StaysHanded ==
    ASSUME step \in OperatorSteps, NEW prog \in Seq(Items), prog # << >>, NEW s,
           disk \in [Files -> Contents],
           Untouched,
           Proper(step, began, prog), CanDo(Head(prog), s), Handed(prog, s, disk)
    PROVE  LET i == Head(prog) IN
           Handed(Brings(i, s) \o Tail(prog), Reads(i, s), Effect(i, s))
<1> DEFINE i == Head(prog)
           b == Brings(i, s)
           rest == b \o Tail(prog)
<1>1. Len(prog) \in Nat \ {0} /\ DOMAIN prog = 1..Len(prog)
  BY EmptySeq, LenProperties
<1>2. i = prog[1] /\ i \in Items /\ MayDo(step, began, i)
  BY <1>1, HeadTailProperties DEF Proper
<1>3. b \in Seq(Items)
  BY <1>2, BringsProper
<1>4. /\ rest \in Seq(Items) /\ Len(rest) = Len(b) + Len(prog) - 1
      /\ \A k \in 1..Len(b) : rest[k] = b[k]
      /\ \A k \in 2..Len(prog) : rest[Len(b) + k - 1] = prog[k]
  BY <1>3, Spliced
<1>5. Len(b) \in Nat /\ DOMAIN b = 1..Len(b) /\ DOMAIN rest = 1..Len(rest)
  BY <1>3, <1>4, LenProperties
<1>6. ASSUME NEW k \in 1..Len(b), b[k].do = "move"
      PROVE  k = 2 /\ b[1] = Do("finish", "part")
  <2>1. CASE i.do = "publish"
    BY <1>6, <2>1 DEF Brings, Do
  <2>2. CASE i.do = "spawn"
    <3>1. b = resolve(step).does[i.file] /\ i.file \in DOMAIN resolve(step).does
      BY <1>2, <2>2 DEF Brings, MayDo
    <3>2. QED
      BY <1>5, <1>6, <3>1, StartsSound DEF Starts
  <2>3. CASE i.do \notin {"publish", "spawn"}
    BY <1>5, <1>6, <2>3, EntriesDiffer DEF Brings, Do, Extract, Publish, Write
  <2>4. QED
    BY <2>1, <2>2, <2>3
<1> HIDE DEF i, b, rest
<1>7. SUFFICES ASSUME NEW k \in DOMAIN rest, rest[k].do = "move"
               PROVE  IF k = 1 THEN Effect(i, s)["part"] = Whole(Reads(i, s))
                      ELSE rest[k - 1] = Do("finish", "part")
  BY DEF Handed, rest, b, i
<1>8. CASE k <= Len(b)
  BY <1>4, <1>5, <1>6, <1>7, <1>8
<1>9. CASE k > Len(b)
  <2> DEFINE j == k - Len(b) + 1
  <2>1. j \in 2..Len(prog) /\ rest[k] = prog[j] /\ k = Len(b) + j - 1
    BY <1>1, <1>4, <1>5, <1>7, <1>9
  <2>2. prog[j - 1] = Do("finish", "part")
    BY <1>1, <1>7, <2>1 DEF Handed
  <2>3. CASE j = 2
    <3>1. i = Do("finish", "part")
      BY <1>2, <2>2, <2>3
    <3>2. b = << >> /\ Reads(i, s) = s /\ Effect(i, s) = [disk EXCEPT !["part"] = Whole(s)]
      BY <3>1 DEF b, Brings, Reads, Effect, Do
    <3>3. k = 1
      BY <2>1, <2>3, <3>2
    <3>4. QED
      BY <3>2, <3>3 DEF Files
  <2>4. CASE j # 2
    <3>1. (j - 1) \in 2..Len(prog) /\ k - 1 = Len(b) + (j - 1) - 1 /\ k # 1
      BY <1>1, <1>5, <2>1, <2>4
    <3>2. QED
      BY <1>4, <2>2, <3>1
  <2>5. QED
    BY <2>3, <2>4
<1>10. QED
  BY <1>5, <1>7, <1>8, <1>9

\* What is pending after the first operation is pending after it.
LEMMA LaterStaysPending ==
    ASSUME NEW b \in Seq(Items), NEW prog \in Seq(Items), prog # << >>, NEW p,
           NEW k \in 2..Len(prog), Yields(prog[k], p),
           \A j \in DOMAIN prog : j > k => ~Disturbs(prog[j], p)
    PROVE  Pending(b \o Tail(prog), p)
<1> DEFINE rest == b \o Tail(prog)
<1>1. /\ rest \in Seq(Items) /\ Len(rest) = Len(b) + Len(prog) - 1
      /\ \A j \in 2..Len(prog) : rest[Len(b) + j - 1] = prog[j]
  BY Spliced
<1>2. Len(b) \in Nat /\ Len(prog) \in Nat /\ DOMAIN prog = 1..Len(prog) /\ DOMAIN rest = 1..Len(rest)
  BY <1>1, LenProperties
<1> HIDE DEF rest
<1>3. Len(b) + k - 1 \in DOMAIN rest /\ Yields(rest[Len(b) + k - 1], p)
  BY <1>1, <1>2
<1>4. ASSUME NEW j \in DOMAIN rest, j > Len(b) + k - 1
      PROVE  ~Disturbs(rest[j], p)
  <2>1. j - Len(b) + 1 \in 2..Len(prog) /\ j = Len(b) + (j - Len(b) + 1) - 1 /\ j - Len(b) + 1 > k
    BY <1>1, <1>2, <1>4
  <2>2. rest[j] = prog[j - Len(b) + 1]
    BY <1>1, <2>1
  <2>3. QED
    BY <1>2, <2>1, <2>2
<1>5. Pending(rest, p)
  BY <1>3, <1>4 DEF Pending
<1>6. QED
  BY <1>5 DEF rest

\* What an operation brings is pending when what comes after it is quiet.
LEMMA BroughtIsPending ==
    ASSUME NEW b \in Seq(Items), NEW prog \in Seq(Items), prog # << >>, NEW p,
           NEW k \in 1..Len(b), Yields(b[k], p),
           \A j \in 1..Len(b) : j > k => ~Disturbs(b[j], p),
           \A j \in DOMAIN prog : j > 1 => ~Disturbs(prog[j], p)
    PROVE  Pending(b \o Tail(prog), p)
<1> DEFINE rest == b \o Tail(prog)
<1>1. /\ rest \in Seq(Items) /\ Len(rest) = Len(b) + Len(prog) - 1
      /\ \A j \in 1..Len(b) : rest[j] = b[j]
      /\ \A j \in 2..Len(prog) : rest[Len(b) + j - 1] = prog[j]
  BY Spliced
<1>2. Len(b) \in Nat /\ Len(prog) \in Nat \ {0} /\ DOMAIN prog = 1..Len(prog) /\ DOMAIN rest = 1..Len(rest)
  BY <1>1, LenProperties, EmptySeq
<1> HIDE DEF rest
<1>3. k \in DOMAIN rest /\ Yields(rest[k], p)
  BY <1>1, <1>2
<1>4. ASSUME NEW j \in DOMAIN rest, j > k
      PROVE  ~Disturbs(rest[j], p)
  <2>1. CASE j <= Len(b)
    BY <1>1, <1>2, <1>4, <2>1
  <2>2. CASE j > Len(b)
    <3>1. j - Len(b) + 1 \in 2..Len(prog) /\ j = Len(b) + (j - Len(b) + 1) - 1 /\ j - Len(b) + 1 > 1
      BY <1>1, <1>2, <1>4, <2>2
    <3>2. rest[j] = prog[j - Len(b) + 1]
      BY <1>1, <3>1
    <3>3. QED
      BY <1>2, <3>1, <3>2
  <2>3. QED
    BY <1>2, <2>1, <2>2
<1>5. Pending(rest, p)
  BY <1>3, <1>4 DEF Pending
<1>6. QED
  BY <1>5 DEF rest

\* A program is quiet when what its first operation brings and the rest are.
LEMMA StaysQuiet ==
    ASSUME NEW b \in Seq(Items), NEW prog \in Seq(Items), prog # << >>, NEW p,
           \A j \in 1..Len(b) : ~Disturbs(b[j], p),
           \A j \in DOMAIN prog : j > 1 => ~Disturbs(prog[j], p)
    PROVE  \A j \in DOMAIN (b \o Tail(prog)) : ~Disturbs((b \o Tail(prog))[j], p)
<1> DEFINE rest == b \o Tail(prog)
<1>1. /\ rest \in Seq(Items) /\ Len(rest) = Len(b) + Len(prog) - 1
      /\ \A j \in 1..Len(b) : rest[j] = b[j]
      /\ \A j \in 2..Len(prog) : rest[Len(b) + j - 1] = prog[j]
  BY Spliced
<1>2. Len(b) \in Nat /\ Len(prog) \in Nat \ {0} /\ DOMAIN prog = 1..Len(prog) /\ DOMAIN rest = 1..Len(rest)
  BY <1>1, LenProperties, EmptySeq
<1> HIDE DEF rest
<1>3. ASSUME NEW j \in DOMAIN rest
      PROVE  ~Disturbs(rest[j], p)
  <2>1. CASE j <= Len(b)
    BY <1>1, <1>2, <1>3, <2>1
  <2>2. CASE j > Len(b)
    <3>1. j - Len(b) + 1 \in 2..Len(prog) /\ j = Len(b) + (j - Len(b) + 1) - 1 /\ j - Len(b) + 1 > 1
      BY <1>1, <1>2, <1>3, <2>2
    <3>2. rest[j] = prog[j - Len(b) + 1]
      BY <1>1, <3>1
    <3>3. QED
      BY <1>2, <3>1, <3>2
  <2>3. QED
    BY <1>2, <2>1, <2>2
<1>4. QED
  BY <1>3 DEF rest

\* An operation that is about another product leaves what is settled alone.
LEMMA StaysSettled ==
    ASSUME step \in OperatorSteps, NEW prog \in Seq(Items), prog # << >>, NEW s,
           disk \in [Files -> Contents], Untouched,
           Proper(step, began, prog), CanDo(Head(prog), s),
           NEW p \in Owed(step), Settled(step, prog, s, disk, p)
    PROVE  LET i == Head(prog) IN
           Settled(step, Brings(i, s) \o Tail(prog), Reads(i, s), Effect(i, s), p)
<1> DEFINE i == Head(prog)
           b == Brings(i, s)
<1>1. Len(prog) \in Nat \ {0} /\ DOMAIN prog = 1..Len(prog)
  BY EmptySeq, LenProperties
<1>2. i = prog[1] /\ i \in Items /\ MayDo(step, began, i) /\ ~Disturbs(i, p)
  BY <1>1, HeadTailProperties DEF Proper, Settled
<1>3. b \in Seq(Items)
  BY <1>2, BringsProper
<1>4. p \in Products /\ p # "part" /\ p # "dest" /\ p \in Files
  BY TargetsAreProducts
<1>5. Reads(i, s) = s /\ i.do \notin {"expand", "spawn", "fit"} /\ i.file # p
  BY <1>2 DEF Disturbs, Reads
<1>6. Effect(i, s)[p] = disk[p]
  BY <1>4, <1>5 DEF Effect
<1>7. \A j \in 1..Len(b) : ~Disturbs(b[j], p)
  <2>1. CASE i.do = "entry"
    <3>1. i.file \in Members \cup {".."}
      BY <1>2, <2>1 DEF MayDo
    <3>2. i = Do("entry", i.file)
      BY <1>2, <2>1 DEF Do, Items
    <3>3. CASE member_selected(i.file, step.with)
      <4>1. i.file \in Members
        BY <2>1, <3>1, <3>3 DEF CanDo
      <4>2. Dest[i.file] # p
        BY <1>2, <3>2, <4>1 DEF Disturbs
      <4>3. b = <<Do("publish", Dest[i.file])>>
        BY <2>1, <3>3 DEF Brings, Extract, Publish
      <4>4. ~Disturbs(Do("publish", Dest[i.file]), p)
        BY <4>2 DEF Disturbs, Do
      <4>5. QED
        BY <4>3, <4>4
    <3>4. CASE ~member_selected(i.file, step.with)
      BY <2>1, <3>4 DEF Brings, Extract
    <3>5. QED
      BY <3>3, <3>4
  <2>2. CASE i.do = "write"
    <3>1. b = <<Do("finish", i.file)>>
      BY <2>2 DEF Brings
    <3>2. ~Disturbs(Do("finish", i.file), p)
      BY <1>5 DEF Disturbs, Do
    <3>3. QED
      BY <3>1, <3>2
  <2>3. CASE i.do = "publish"
    <3>1. b = <<Do("finish", "part"), Do("move", i.file)>>
      BY <2>3 DEF Brings
    <3>2. ~Disturbs(Do("finish", "part"), p) /\ ~Disturbs(Do("move", i.file), p)
      BY <1>4, <1>5 DEF Disturbs, Do
    <3>3. QED
      BY <3>1, <3>2
  <2>4. CASE i.do \notin {"entry", "write", "publish"}
    BY <1>5, <2>4 DEF Brings
  <2>5. QED
    BY <2>1, <2>2, <2>3, <2>4
<1>8. \A j \in DOMAIN prog : j > 1 => ~Disturbs(prog[j], p)
  BY DEF Settled
<1> HIDE DEF b
<1>9. \A j \in DOMAIN (b \o Tail(prog)) : ~Disturbs((b \o Tail(prog))[j], p)
  BY <1>3, <1>7, <1>8, StaysQuiet
<1>10. QED
  BY <1>5, <1>6, <1>9 DEF Settled, b

\* A product that is pending is pending still, or it is settled now.
LEMMA PendingProceeds ==
    ASSUME step \in OperatorSteps, NEW prog \in Seq(Items), prog # << >>, NEW s,
           disk \in [Files -> Contents], Untouched,
           Proper(step, began, prog), CanDo(Head(prog), s),
           Handed(prog, s, disk),
           NEW p \in Owed(step), Pending(prog, p)
    PROVE  LET i    == Head(prog)
               rest == Brings(i, s) \o Tail(prog)
           IN  Pending(rest, p) \/ Settled(step, rest, Reads(i, s), Effect(i, s), p)
<1> DEFINE i == Head(prog)
           b == Brings(i, s)
<1>1. Len(prog) \in Nat \ {0} /\ DOMAIN prog = 1..Len(prog)
  BY EmptySeq, LenProperties
<1>2. i = prog[1] /\ i \in Items /\ MayDo(step, began, i)
  BY <1>1, HeadTailProperties DEF Proper
<1>3. b \in Seq(Items)
  BY <1>2, BringsProper
<1>4. p \in Products /\ p # "part" /\ p # "dest" /\ p \in Files
  BY TargetsAreProducts
<1>5. PICK k \in DOMAIN prog :
           Yields(prog[k], p) /\ \A j \in DOMAIN prog : j > k => ~Disturbs(prog[j], p)
  BY DEF Pending
<1>6. CASE k # 1
  <2>1. k \in 2..Len(prog)
    BY <1>1, <1>6
  <2>2. Pending(b \o Tail(prog), p)
    BY <1>3, <1>5, <2>1, LaterStaysPending
  <2>3. QED
    BY <2>2
<1>7. CASE k = 1
  <2>1. Yields(i, p) /\ \A j \in DOMAIN prog : j > 1 => ~Disturbs(prog[j], p)
    BY <1>2, <1>5, <1>7
  <2>2. CASE i.do = "write" /\ i.file = p
    <3>1. b = <<Do("finish", p)>>
      BY <2>2 DEF Brings
    <3>2. Yields(Do("finish", p), p)
      BY DEF Yields, Do
    <3>3. QED
      BY <1>3, <2>1, <3>1, <3>2, BroughtIsPending
  <2>3. CASE i.do = "publish" /\ i.file = p
    <3>1. b = <<Do("finish", "part"), Do("move", p)>>
      BY <2>3 DEF Brings
    <3>2. Yields(Do("move", p), p)
      BY DEF Yields, Do
    <3> HIDE DEF b
    <3>3. 2 \in 1..Len(b) /\ b[2] = Do("move", p) /\ \A j \in 1..Len(b) : ~(j > 2)
      BY <3>1
    <3>4. Pending(b \o Tail(prog), p)
      BY <1>3, <2>1, <3>2, <3>3, BroughtIsPending
    <3>5. QED
      BY <3>4 DEF b
  <2>4. CASE i.do \in {"finish", "move"} /\ i.file = p
    <3>1. b = << >> /\ Reads(i, s) = s
      BY <2>4 DEF Brings, Reads
    <3>2. Effect(i, s)[p] = Whole(s)
      BY <1>1, <1>2, <1>4, <2>4 DEF Effect, Handed
    <3>3. \A j \in DOMAIN (b \o Tail(prog)) : ~Disturbs((b \o Tail(prog))[j], p)
      BY <1>3, <2>1, <3>1, StaysQuiet
    <3>4. QED
      BY <3>1, <3>2, <3>3 DEF Settled
  <2>5. CASE i = Do("expand", "a") /\ p \in {Dest.x, Dest.y}
    <3>1. i.do = "expand" /\ Reads(i, s) = s /\ step.op = "archive_extract"
      BY <1>2, <2>5 DEF Do, Reads, MayDo
    <3>2. /\ Len(b) = Len(Entries(s)) /\ DOMAIN Entries(s) = 1..Len(b)
          /\ \A j \in 1..Len(b) : b[j] = Do("entry", Entries(s)[j])
      BY <3>1, EntriesDiffer DEF Brings
    <3>3. ASSUME NEW j \in 1..Len(b), Entries(s)[j] = ".." \/ p # Dest[Entries(s)[j]]
          PROVE  ~Disturbs(b[j], p)
      <4>1. Entries(s)[j] \in Members \cup {".."} /\ Entries(s)[j] # p
        BY <2>5, <3>2, EntriesDiffer, DestsAreFiles DEF Members
      <4>2. ~Disturbs(Do("entry", Entries(s)[j]), p)
        BY <3>3, <4>1 DEF Disturbs, Do, Members
      <4>3. b[j] = Do("entry", Entries(s)[j])
        BY <3>2
      <4>4. QED
        BY <4>2, <4>3
    <3>4. CASE \E j \in 1..Len(b) : Entries(s)[j] # ".." /\ p = Dest[Entries(s)[j]]
      <4>1. PICK j \in 1..Len(b) : Entries(s)[j] # ".." /\ p = Dest[Entries(s)[j]]
        BY <3>4
      <4>2. Entries(s)[j] \in Members
        BY <3>2, <4>1, EntriesDiffer
      <4>3. Yields(b[j], p)
        BY <3>2, <4>1, <4>2 DEF Yields
      <4>4. ASSUME NEW l \in 1..Len(b), l > j
            PROVE  ~Disturbs(b[l], p)
        <5>1. Entries(s)[l] # Entries(s)[j] /\ Entries(s)[l] \in Members \cup {".."}
          BY <3>2, <4>4, EntriesDiffer
        <5>2. Entries(s)[l] = ".." \/ p # Dest[Entries(s)[l]]
          BY <4>1, <4>2, <5>1, DestsAreFiles DEF Members
        <5>3. QED
          BY <3>3, <5>2
      <4>5. QED
        BY <1>3, <2>1, <4>3, <4>4, BroughtIsPending
    <3>5. CASE ~\E j \in 1..Len(b) : Entries(s)[j] # ".." /\ p = Dest[Entries(s)[j]]
      <4>1. \A j \in 1..Len(b) : ~Disturbs(b[j], p)
        BY <3>3, <3>5
      <4>2. \A j \in DOMAIN (b \o Tail(prog)) : ~Disturbs((b \o Tail(prog))[j], p)
        BY <1>3, <2>1, <4>1, StaysQuiet
      <4>3. QED
        BY <3>1, <3>2, <3>5, <4>2 DEF Settled
    <3>6. QED
      BY <3>4, <3>5
  <2>8. CASE i.do = "fit" /\ i.file = p
    <3>1. step.op = "umap_project" /\ p = "out2" /\ Reads(i, s) = s \cup disk[p].of
      BY <1>2, <2>8 DEF MayDo, Reads
    <3>2. Effect(i, s) = disk
      BY <2>8 DEF Effect
    <3>3. CASE disk[p] = Absent
      <4>1. b = <<Do("write", p)>>
        BY <2>8, <3>3 DEF Brings, Write
      <4>2. Yields(Do("write", p), p)
        BY DEF Yields, Do
      <4>3. QED
        BY <1>3, <2>1, <4>1, <4>2, BroughtIsPending
    <3>4. CASE disk[p] # Absent
      <4>1. b = << >> /\ disk[p].is = "whole"
        BY <2>8, <3>4 DEF Brings, CanDo
      <4>2. \A j \in DOMAIN (b \o Tail(prog)) : ~Disturbs((b \o Tail(prog))[j], p)
        BY <1>3, <2>1, <4>1, StaysQuiet
      <4>3. QED
        BY <3>1, <3>2, <4>1, <4>2 DEF Settled
    <3>5. QED
      BY <3>3, <3>4
  <2>9. CASE i = Do("spawn", "script")
    <3>1. i.do = "spawn" /\ i.file = "script"
      BY <2>9 DEF Do
    <3>2. b = resolve(step).does["script"] /\ "script" \in DOMAIN resolve(step).does
      BY <1>2, <3>1 DEF Brings, MayDo
    <3>3. Pending(b, p)
      BY <3>2, StartsSound DEF Starts, Ready
    <3>4. DOMAIN b = 1..Len(b)
      BY <1>3, LenProperties
    <3> HIDE DEF b
    <3>5. Pending(b \o Tail(prog), p)
      BY <1>3, <2>1, <3>3, <3>4, BroughtIsPending DEF Pending
    <3>6. QED
      BY <3>5 DEF b
  <2>6. ASSUME NEW n \in Members, i = Do("entry", n), p = Dest[n]
        PROVE  Pending(b \o Tail(prog), p)
    <3>1. i.do = "entry" /\ i.file = n /\ step.op = "archive_extract"
      BY <1>2, <2>6 DEF Do, MayDo
    <3>2. member_selected(n, step.with)
      BY <2>6, <3>1, OwedIsSelected
    <3>3. b = <<Do("publish", p)>>
      BY <2>6, <3>1, <3>2 DEF Brings, Extract, Publish
    <3>4. Yields(Do("publish", p), p)
      BY DEF Yields, Do
    <3>5. QED
      BY <1>3, <2>1, <3>3, <3>4, BroughtIsPending
  <2>7. QED
    BY <2>1, <2>2, <2>3, <2>4, <2>5, <2>6, <2>8, <2>9 DEF Yields
<1>8. QED
  BY <1>6, <1>7

\* A sound program is sound after each of its operations.
LEMMA StaysSound ==
    ASSUME step \in OperatorSteps, NEW prog \in Seq(Items), prog # << >>, NEW s,
           disk \in [Files -> Contents], Untouched,
           Proper(step, began, prog), CanDo(Head(prog), s),
           Sound(step, prog, s, disk)
    PROVE  LET i == Head(prog) IN
           Sound(step, Brings(i, s) \o Tail(prog), Reads(i, s), Effect(i, s))
<1>1. Handed(prog, s, disk)
  BY DEF Sound
<1>2. \A p \in Owed(step) : Pending(prog, p) \/ Settled(step, prog, s, disk, p)
  BY DEF Sound
<1>3. QED
  BY <1>1, <1>2, StaysHanded, PendingProceeds, StaysSettled DEF Sound

\* What an operation leaves is a folder, and what it has read are versions.
LEMMA EffectTyped ==
    ASSUME WellTyped, NEW i \in Items, MayDo(step, began, i), NEW s \in SUBSET Versions
    PROVE  /\ Effect(i, s) \in [Files -> Contents] /\ Reads(i, s) \in SUBSET Versions
           /\ Effect(i, s)["dest"] \in {Absent, Whole({})}
<1>1. Half \in Contents /\ Absent \in Contents /\ Whole(s) \in Contents /\ Whole({}) \in Contents
  BY DEF Contents
<1>2. \A f \in Files : disk[f] \in Contents
  BY DEF WellTyped
<1>3. \A c \in Contents : c.of \in SUBSET Versions
  BY DEF Contents, Absent, Half, Whole
<1>4. Effect(i, s) \in [Files -> Contents]
  BY <1>1, <1>2 DEF Effect, Files, WellTyped
<1>5. i.do \in {"read", "fetch", "fit"} => i.file \in Files
  BY DEF MayDo, Files, Products
<1>6. "dest" \in Files /\ "part" # "dest" /\ "part" \in Files
  BY DEF Files
<1>7. i.do \in {"write", "finish", "move"} => i.file # "dest"
  BY TargetsAreProducts DEF MayDo, WellTyped
<1>8. Effect(i, s)["dest"] \in {disk["dest"], Whole({})}
  BY <1>6, <1>7 DEF Effect, WellTyped
<1>9. QED
  BY <1>2, <1>3, <1>4, <1>5, <1>8 DEF Reads, WellTyped

\* An operation writes what the step may write, its temporary file and the directory.
LEMMA EffectWithin ==
    ASSUME NEW i, MayDo(step, began, i), NEW s, disk \in [Files -> Contents],
           NEW f \in Files, f \notin Writable(step, began), f \notin {"part", "dest"}
    PROVE  Effect(i, s)[f] = disk[f]
BY DEF Effect, MayDo

\* A publisher's operation leaves no product half written.
LEMMA EffectWhole ==
    ASSUME step \in OperatorSteps, Publishes(step), disk \in [Files -> Contents],
           NEW i, MayDo(step, began, i), NEW s, i.do = "move" => disk["part"] = Whole(s),
           NEW p \in Products, disk[p] # Half
    PROVE  Effect(i, s)[p] # Half
<1>1. Whole(s) # Half /\ Absent # Half /\ Whole({}) # Half
  BY DEF Whole, Half, Absent
<1>2. p \in Files /\ p # "part"
  BY DestsAreFiles DEF Files, Products
<1>3. i.do \notin {"write"} /\ (i.do = "finish" => i.file = "part")
  BY DEF MayDo
<1>4. QED
  BY <1>1, <1>2, <1>3 DEF Effect

\* A program is as sound in a folder that agrees on what it writes.
LEMMA SoundElsewhere ==
    ASSUME NEW st \in OperatorSteps, NEW prog, NEW s, NEW d, NEW e,
           e["part"] = d["part"], \A p \in Products : e[p] = d[p]
    PROVE  /\ Handed(prog, s, d) => Handed(prog, s, e)
           /\ Sound(st, prog, s, d) => Sound(st, prog, s, e)
BY TargetsAreProducts DEF Sound, Handed, Settled

\* A program that has come to its end has answered for what it produces.
LEMMA EndedWell ==
    ASSUME WellTyped, Untouched, PublishedWhole, NEW s, Sound(step, << >>, s, disk),
           NEW p \in Declared(step)
    PROVE  \/ disk[p] = Absent /\ p \in resolve(step).produces
           \/ disk[p] = Whole(s)
           \/ /\ step.op = "umap_project" /\ p = "out2"
              /\ disk[p].is = "whole" /\ disk[p].of \subseteq s
              /\ began[p] \in {Absent, disk[p]}
           \/ /\ step.op = "archive_extract"
              /\ \A i \in DOMAIN Entries(s) : Entries(s)[i] # ".." => p # Dest[Entries(s)[i]]
              /\ \/ disk[p].is = "whole"
                 \/ disk[p] = Absent /\ p \notin resolve(step).produces
<1>1. \A q : ~Pending(<< >>, q)
  BY DEF Pending
<1>2. CASE p = "dest"
  <2>1. "dest" \in resolve(step).produces /\ step.op = "archive_extract"
    BY <1>2, StartsSound, DestsAreFiles DEF Declared, WellTyped, Starts
  <2>2. disk["dest"] = Absent \/ disk["dest"].is = "whole"
    BY DEF WellTyped, Whole
  <2>3. \A i \in DOMAIN Entries(s) : Entries(s)[i] # ".." => "dest" # Dest[Entries(s)[i]]
    BY EntriesDiffer, DestsAreFiles DEF Members
  <2>4. QED
    BY <1>2, <2>1, <2>2, <2>3
<1>3. CASE p # "dest"
  <2>1. p \in Owed(step) /\ p \in Products /\ p \in Files
    BY <1>3, TargetsAreProducts DEF Owed, WellTyped
  <2>2. Settled(step, << >>, s, disk, p)
    BY <1>1, <2>1 DEF Sound
  <2>3. CASE step.op = "archive_extract"
    <3>1. disk[p] # Half /\ disk[p] \in Contents
      BY <2>1, <2>3 DEF PublishedWhole, Publishes, Publishers, WellTyped
    <3>2. disk[p] = Absent \/ disk[p].is = "whole"
      BY <3>1 DEF Contents, Whole
    <3>3. QED
      BY <2>2, <2>3, <3>2 DEF Settled
  <2>4. CASE step.op = "umap_project" /\ p = "out2"
    <3>1. began[p] # Absent => disk[p] = began[p]
      BY <2>1, <2>4 DEF Untouched, Writable
    <3>2. QED
      BY <2>2, <2>4, <3>1 DEF Settled
  <2>5. CASE step.op # "archive_extract" /\ ~(step.op = "umap_project" /\ p = "out2")
    BY <2>2, <2>5 DEF Settled
  <2>6. QED
    BY <2>3, <2>4, <2>5
<1>4. QED
  BY <1>2, <1>3

-----------------------------------------------------------------------------
(***************************************************************************)
(* One program after another: a child's, then what arc has left.           *)
(***************************************************************************)
\* Two programs in order are one in order.
LEMMA ProperTogether ==
    ASSUME NEW st, NEW b, NEW l \in Seq(Items), NEW q \in Seq(Items)
    PROVE  Proper(st, b, l) /\ Proper(st, b, q) => Proper(st, b, l \o q)
<1>1. /\ Len(l) \in Nat /\ Len(q) \in Nat /\ DOMAIN l = 1..Len(l) /\ DOMAIN q = 1..Len(q)
      /\ l \o q \in Seq(Items) /\ Len(l \o q) = Len(l) + Len(q)
  BY LenProperties, ConcatProperties
<1>2. DOMAIN (l \o q) = 1..(Len(l) + Len(q))
  BY <1>1, LenProperties
<1>3. ASSUME NEW k \in 1..(Len(l) + Len(q)) PROVE (l \o q)[k] = IF k <= Len(l) THEN l[k] ELSE q[k - Len(l)]
  BY <1>1, ConcatProperties
<1>4. ASSUME NEW k \in 1..(Len(l) + Len(q)), k > Len(l) PROVE k - Len(l) \in 1..Len(q)
  BY <1>1, <1>4
<1>5. ASSUME NEW k \in 1..(Len(l) + Len(q)), ~(k > Len(l)) PROVE k \in 1..Len(l) /\ k <= Len(l)
  BY <1>1, <1>5
<1>6. QED
  BY <1>1, <1>2, <1>3, <1>4, <1>5 DEF Proper

\* What begins a program whose files are handed on hands on its own.
LEMMA HandedFirst ==
    ASSUME NEW l \in Seq(Items), NEW q \in Seq(Items), NEW s, NEW d, Handed(l \o q, s, d)
    PROVE  Handed(l, s, d)
<1>1. /\ Len(l) \in Nat /\ Len(q) \in Nat /\ DOMAIN l = 1..Len(l)
      /\ l \o q \in Seq(Items) /\ Len(l \o q) = Len(l) + Len(q)
  BY LenProperties, ConcatProperties
<1>2. DOMAIN (l \o q) = 1..(Len(l) + Len(q))
  BY <1>1, LenProperties
<1>3. \A k \in 1..Len(l) : k \in DOMAIN (l \o q) /\ (l \o q)[k] = l[k]
  BY <1>1, <1>2, ConcatProperties
<1>4. \A k \in 1..Len(l) : k # 1 => k - 1 \in 1..Len(l)
  BY <1>1
<1>5. QED
  BY <1>1, <1>3, <1>4 DEF Handed

\* The first operation of two programs is the first one's.
LEMMA FirstOfTwo ==
    ASSUME NEW l \in Seq(Items), NEW q \in Seq(Items), l # << >>, NEW b \in Seq(Items)
    PROVE  /\ l \o q \in Seq(Items) /\ l \o q # << >> /\ Head(l \o q) = Head(l)
           /\ b \o Tail(l \o q) = (b \o Tail(l)) \o q
<1>1. /\ Len(l) \in Nat \ {0} /\ Len(q) \in Nat /\ l \o q \in Seq(Items)
      /\ Len(l \o q) = Len(l) + Len(q)
  BY EmptySeq, LenProperties, ConcatProperties
<1>2. l \o q # << >>
  BY <1>1, EmptySeq
<1>3. (l \o q)[1] = l[1]
  BY <1>1, ConcatProperties
<1>4. Head(l \o q) = Head(l)
  BY <1>1, <1>2, <1>3, HeadTailProperties
<1>5. Tail(l) \in Seq(Items) /\ Len(Tail(l)) = Len(l) - 1
  BY HeadTailProperties
<1>6. Tail(l \o q) \in Seq(Items) /\ Len(Tail(l \o q)) = Len(l) + Len(q) - 1
  BY <1>1, <1>2, HeadTailProperties
<1>7. Tail(l) \o q \in Seq(Items) /\ Len(Tail(l) \o q) = Len(l) + Len(q) - 1
  BY <1>1, <1>5, ConcatProperties
<1>8. ASSUME NEW k \in 1..(Len(l) + Len(q) - 1)
      PROVE  Tail(l \o q)[k] = (Tail(l) \o q)[k]
  <2>1. Tail(l \o q)[k] = (l \o q)[k + 1]
    BY <1>1, <1>2, <1>6, HeadTailProperties
  <2>2. (l \o q)[k + 1] = IF k + 1 <= Len(l) THEN l[k + 1] ELSE q[k + 1 - Len(l)]
    BY <1>1, ConcatProperties
  <2>3. (Tail(l) \o q)[k] = IF k <= Len(l) - 1 THEN Tail(l)[k] ELSE q[k - (Len(l) - 1)]
    BY <1>1, <1>5, ConcatProperties
  <2>4. k <= Len(l) - 1 => Tail(l)[k] = l[k + 1]
    BY <1>1, <1>5, HeadTailProperties
  <2>5. (k + 1 <= Len(l)) = (k <= Len(l) - 1) /\ k + 1 - Len(l) = k - (Len(l) - 1)
    BY <1>1
  <2>6. QED
    BY <2>1, <2>2, <2>3, <2>4, <2>5
<1>9. Tail(l \o q) = Tail(l) \o q
  BY <1>6, <1>7, <1>8, SeqEqual
<1>10. b \o (Tail(l) \o q) = (b \o Tail(l)) \o q
  BY <1>5, ConcatAssociative
<1>11. QED
  BY <1>1, <1>2, <1>4, <1>9, <1>10

-----------------------------------------------------------------------------
(***************************************************************************)
(* The invariants.                                                         *)
(***************************************************************************)
\* The part of the invariant that says who is alive and what each may do.
Shape == WellTyped /\ Alone /\ ProgramsAreProper

\* What a process may do next, and what it leaves.
LEMMA NextOperation ==
    ASSUME WellTyped, Untouched, NEW prog \in Seq(Items), prog # << >>,
           Proper(step, began, prog), NEW s \in SUBSET Versions, CanDo(Head(prog), s)
    PROVE  LET i == Head(prog) IN
           /\ i \in Items /\ MayDo(step, began, i)
           /\ Brings(i, s) \in Seq(Items) /\ Tail(prog) \in Seq(Items)
           /\ Proper(step, began, Brings(i, s)) /\ Proper(step, began, Tail(prog))
           /\ Brings(i, s) \o Tail(prog) \in Seq(Items)
           /\ Proper(step, began, Brings(i, s) \o Tail(prog))
           /\ Effect(i, s) \in [Files -> Contents]
           /\ Effect(i, s)["dest"] \in {Absent, Whole({})}
           /\ Reads(i, s) \in SUBSET Versions
<1> DEFINE i == Head(prog)
           b == Brings(i, s)
<1>1. Len(prog) \in Nat \ {0} /\ DOMAIN prog = 1..Len(prog)
  BY EmptySeq, LenProperties
<1>2. i = prog[1] /\ i \in Items /\ MayDo(step, began, i)
  BY <1>1, HeadTailProperties DEF Proper
<1>3. b \in Seq(Items) /\ Proper(step, began, b)
  BY <1>2, BringsProper DEF WellTyped
<1>4. /\ Effect(i, s) \in [Files -> Contents] /\ Reads(i, s) \in SUBSET Versions
      /\ Effect(i, s)["dest"] \in {Absent, Whole({})}
  BY <1>2, EffectTyped
<1> HIDE DEF b, i
<1>5. /\ Tail(prog) \in Seq(Items) /\ Len(Tail(prog)) = Len(prog) - 1
      /\ \A k \in 1..Len(Tail(prog)) : Tail(prog)[k] = prog[k + 1]
  BY HeadTailProperties
<1>6. DOMAIN Tail(prog) = 1..(Len(prog) - 1)
  BY <1>5, LenProperties
<1>7. Proper(step, began, Tail(prog))
  BY <1>1, <1>5, <1>6 DEF Proper
<1>8. b \o Tail(prog) \in Seq(Items)
  BY <1>3, <1>5, ConcatProperties
<1>9. Proper(step, began, b \o Tail(prog))
  BY <1>3, <1>5, <1>7, ProperTogether
<1>10. QED
  BY <1>2, <1>3, <1>4, <1>5, <1>7, <1>8, <1>9 DEF b, i

\* An empty program is in order.
LEMMA NothingIsProper == << >> \in Seq(Items) /\ \A st, b : Proper(st, b, << >>)
BY DEF Proper

\* A step starts with a folder and nobody alive.
LEMMA InitShape == Init => Shape
<1> SUFFICES ASSUME Init PROVE Shape
  OBVIOUS
<1>1. PICK v \in 1..MaxVersions, b \in {Absent, Input("b", 1)},
           tool \in {Absent, Input("tool", 1), Input("tool", 2)},
           old \in {Absent, Input("a", 0)}, fit \in {Absent, Half, Input("a", 0)} :
        /\ step.op # "umap_project" => fit = old
        /\ disk = [f \in Files |->
                     CASE f = "a" -> Input("a", v) [] f = "b" -> b [] f = "tool" -> tool
                       [] f = "out2" -> fit
                       [] f \in Products \ {"out2"} -> old
                       [] f = "dest" -> IF old = Absent THEN Absent ELSE Whole({})
                       [] f = "part" -> Absent]
  BY DEF Init
<1>2. /\ Absent \in Contents /\ Half \in Contents /\ Whole({}) \in Contents
      /\ \A f \in Inputs, n \in Nat : Input(f, n) \in Contents
  BY DEF Contents, Input, Versions
<1>3. MaxVersions \in Nat /\ v \in Nat
  BY BoundsAreNumbers
<1>4. \A f \in Files : disk[f] \in Contents
  BY <1>1, <1>2, <1>3 DEF Inputs, Files
<1>5. "dest" \in Files /\ "dest" \notin Products
  BY DestsAreFiles DEF Files, Products
<1>6. disk["dest"] \in {Absent, Whole({})}
  BY <1>1, <1>5
<1>7. /\ step \in OperatorSteps /\ pc = "idle" /\ program = << >> /\ seen = {} /\ children = {}
      /\ attempt = 0 /\ outcome = "none" /\ survived = FALSE /\ faults = 0 /\ began = disk
  BY DEF Init
<1>8. disk \in [Files -> Contents]
  BY <1>1, <1>4
<1>9. WellTyped
  BY <1>6, <1>7, <1>8, NothingIsProper DEF WellTyped
<1>10. QED
  BY <1>7, <1>9, NothingIsProper DEF Shape, Alone, ProgramsAreProper

\* An ending leaves the attempt's program behind.
LEMMA Endings ==
    ASSUME NEW result, EndsAs(result)
    PROVE  /\ outcome' = result /\ program' = << >> /\ pc' \in {"idle", "ended"}
           /\ result = "ok" => pc' = "ended" /\ missing' = missing_declared_produces
           /\ step' = step /\ attempt' = attempt /\ began' = began
BY DEF EndsAs

\* Who is alive, and what each may do, at every step.
LEMMA NextShape == Shape /\ Untouched /\ [Next]_vars => Shape'
<1> SUFFICES ASSUME WellTyped, Alone, ProgramsAreProper, Untouched, [Next]_vars
             PROVE  Shape'
  BY DEF Shape
<1> USE NothingIsProper
<1>1. resolve(step).run \in Seq(Items) /\ Proper(step, began, resolve(step).run)
  BY StartsSound DEF WellTyped, Starts, Ready
<1>2. CASE Begin
  <2>1. /\ UNCHANGED <<step, disk, children, began, survived, faults>>
        /\ seen' = {} /\ attempt' = attempt + 1 /\ pc = "idle" /\ outcome' # "ok"
        /\ pc' \in {"runs", "ended"} /\ program' \in {program, resolve(step).run}
    BY <1>2 DEF Begin
  <2>2. WellTyped'
    BY <1>1, <2>1 DEF WellTyped
  <2>3. Alone' /\ ProgramsAreProper'
    BY <1>1, <2>1 DEF Alone, ProgramsAreProper
  <2>4. QED
    BY <2>2, <2>3 DEF Shape
<1>3. CASE Operates
  <2>1. /\ program # << >> /\ CanDo(Head(program), seen) /\ pc = "runs"
        /\ disk' = Effect(Head(program), seen) /\ seen' = Reads(Head(program), seen)
        /\ program' = Brings(Head(program), seen) \o Tail(program)
        /\ UNCHANGED <<step, pc, children, attempt, outcome, missing, began, survived, faults>>
    BY <1>3 DEF Operates
  <2>2. /\ disk' \in [Files -> Contents] /\ seen' \in SUBSET Versions
        /\ disk'["dest"] \in {Absent, Whole({})}
        /\ program' \in Seq(Items) /\ Proper(step, began, program')
    BY <2>1, NextOperation DEF WellTyped, ProgramsAreProper
  <2>3. WellTyped'
    BY <2>1, <2>2 DEF WellTyped
  <2>4. Alone' /\ ProgramsAreProper'
    BY <2>1, <2>2 DEF Alone, ProgramsAreProper
  <2>5. QED
    BY <2>3, <2>4 DEF Shape
<1>4. CASE Spawns
  <2> DEFINE new == [left |-> Brings(Head(program), seen), seen |-> seen, attempt |-> attempt]
  <2>1. /\ program # << >> /\ CanDo(Head(program), seen) /\ pc = "runs" /\ pc' = "waits"
        /\ children' = children \cup {new} /\ program' = Tail(program)
        /\ UNCHANGED <<step, disk, seen, attempt, outcome, missing, began, survived, faults>>
    BY <1>4 DEF Spawns, Spawning
  <2>2. /\ new.left \in Seq(Items) /\ Proper(step, began, new.left)
        /\ Tail(program) \in Seq(Items) /\ Proper(step, began, Tail(program))
    BY <2>1, NextOperation DEF WellTyped, ProgramsAreProper
  <2>3. /\ new \in [left : Seq(Items), seen : SUBSET Versions, attempt : Nat]
        /\ new.attempt = attempt
    BY <2>2 DEF WellTyped
  <2> HIDE DEF new
  <2>4. WellTyped'
    BY <2>1, <2>2, <2>3 DEF WellTyped
  <2>5. Alone'
    BY <2>1, <2>3 DEF Alone
  <2>6. ProgramsAreProper'
    BY <2>1, <2>2 DEF ProgramsAreProper
  <2>7. QED
    BY <2>4, <2>5, <2>6 DEF Shape
<1>5. CASE Fails \/ Succeeds
  <2>1. /\ UNCHANGED <<step, disk, seen, children, attempt, began, survived>>
        /\ faults' \in {faults, faults + 1} /\ pc = "runs"
        /\ program' = << >> /\ pc' \in {"idle", "ended"} /\ (outcome' = "ok" => pc' = "ended")
    <3>1. CASE Fails
      BY <3>1, Endings DEF Fails, End
    <3>2. CASE Succeeds
      BY <3>2, Endings DEF Succeeds, End
    <3>3. QED
      BY <1>5, <3>1, <3>2
  <2>2. WellTyped'
    BY <2>1 DEF WellTyped
  <2>3. Alone' /\ ProgramsAreProper'
    BY <2>1 DEF Alone, ProgramsAreProper
  <2>4. QED
    BY <2>2, <2>3 DEF Shape
<1>6. CASE Deadline
  <2>1. /\ UNCHANGED <<step, disk, began, attempt, seen, faults>>
        /\ program' = << >>
        /\ pc = "waits" /\ pc' \in {"idle", "ended"} /\ outcome' = "failed"
        /\ resolve(step).mode = "inherit"
    BY <1>6, Endings DEF Deadline
  <2>2. /\ children' \subseteq children /\ (survived => survived')
        /\ survived' \in BOOLEAN /\ (~survived' => children' = {})
    BY <1>6 DEF Deadline, WellTyped, Alone
  <2>3. WellTyped'
    BY <2>1, <2>2 DEF WellTyped
  <2>4. Alone' /\ ProgramsAreProper'
    BY <2>1, <2>2 DEF Alone, ProgramsAreProper
  <2>5. QED
    BY <2>3, <2>4 DEF Shape
<1>7. CASE Kill
  BY <1>7 DEF Kill, Fault, WellTyped, Alone, ProgramsAreProper, Shape
<1>8. CASE Change
  <2>1. \A v \in 1..MaxVersions : Input("a", v) \in Contents
    BY BoundsAreNumbers DEF Input, Contents, Versions, Inputs
  <2>2. disk' \in [Files -> Contents] /\ disk'["dest"] = disk["dest"]
    BY <1>8, <2>1 DEF Change, WellTyped, Files
  <2>3. QED
    BY <1>8, <2>2 DEF Change, WellTyped, Alone, ProgramsAreProper, Shape
<1>9. ASSUME NEW c \in children, ChildRuns(c)
      PROVE  Shape'
  <2> DEFINE i == Head(c.left)
             d == [c EXCEPT !.left = Brings(Head(@), c.seen) \o Tail(@), !.seen = Reads(Head(c.left), @)]
  <2>1. /\ c.left \in Seq(Items) /\ c.left # << >> /\ c.seen \in SUBSET Versions
        /\ CanDo(i, c.seen)
    BY <1>9 DEF ChildRuns, WellTyped
  <2>2. /\ Brings(i, c.seen) \o Tail(c.left) \in Seq(Items)
        /\ Proper(step, began, Brings(i, c.seen) \o Tail(c.left))
        /\ Effect(i, c.seen) \in [Files -> Contents] /\ Reads(i, c.seen) \in SUBSET Versions
        /\ Effect(i, c.seen)["dest"] \in {Absent, Whole({})}
    BY <2>1, NextOperation DEF ProgramsAreProper
  <2>3. /\ d \in [left : Seq(Items), seen : SUBSET Versions, attempt : Nat]
        /\ d.left = Brings(i, c.seen) \o Tail(c.left) /\ d.attempt = c.attempt
    BY <2>2 DEF WellTyped
  <2>4. /\ disk' = Effect(i, c.seen) /\ children' = (children \ {c}) \cup {d}
        /\ UNCHANGED <<step, pc, program, seen, attempt, outcome, missing, began, survived, faults>>
    BY <1>9 DEF ChildRuns
  <2> HIDE DEF i, d
  <2>5. WellTyped'
    BY <2>2, <2>3, <2>4 DEF WellTyped
  <2>6. Alone'
    BY <2>3, <2>4 DEF Alone
  <2>7. ProgramsAreProper'
    BY <2>2, <2>3, <2>4 DEF ProgramsAreProper
  <2>8. QED
    BY <2>5, <2>6, <2>7 DEF Shape
<1>10. ASSUME NEW c \in children, ChildExits(c)
       PROVE  Shape'
  <2>1. /\ children' = children \ {c} /\ disk' = disk /\ faults' \in {faults, faults + 1}
        /\ step' = step /\ attempt' = attempt /\ began' = began /\ survived' = survived
        /\ seen' \in {seen, c.seen} /\ program' \in {program, << >>}
        /\ \/ pc' = pc /\ outcome' = outcome
           \/ pc = "waits" /\ c.attempt = attempt /\ pc' = "runs" /\ outcome' = outcome
           \/ /\ pc = "waits" /\ c.attempt = attempt /\ pc' \in {"idle", "ended"}
              /\ outcome' = "failed"
    BY <1>10, Endings DEF ChildExits, ExitsEarly, Exits, Mine, End
  <2>2. c.seen \in SUBSET Versions /\ seen' \in SUBSET Versions
    BY <2>1 DEF WellTyped
  <2>7. /\ program' \in Seq(Items) /\ faults' \in Nat
        /\ pc' \in {"idle", "runs", "waits", "ended"}
        /\ children' \in SUBSET [left : Seq(Items), seen : SUBSET Versions, attempt : Nat]
    <3>1. children' \subseteq children
      BY <2>1
    <3>2. program \in Seq(Items) /\ faults \in Nat
      BY DEF WellTyped
    <3>5. program' \in Seq(Items)
      BY <2>1, <3>2
    <3>6. faults' \in Nat
      BY <2>1, <3>2
    <3>3. pc' \in {"idle", "runs", "waits", "ended"}
      BY <2>1 DEF WellTyped
    <3>4. QED
      BY <3>1, <3>3, <3>5, <3>6 DEF WellTyped
  <2>3. WellTyped'
    BY <2>1, <2>2, <2>7 DEF WellTyped
  <2>4. Alone'
    BY <2>1 DEF Alone
  <2>5. ProgramsAreProper'
    BY <2>1 DEF ProgramsAreProper
  <2>6. QED
    BY <2>3, <2>4, <2>5 DEF Shape
<1>11. CASE UNCHANGED vars
  BY <1>11 DEF vars, WellTyped, Alone, ProgramsAreProper, Shape
<1>12. QED
  BY <1>2, <1>3, <1>4, <1>5, <1>6, <1>7, <1>8, <1>9, <1>10, <1>11 DEF Next

\* Every program that counts owes what its step produces, until it is made.
LEMMA NextSound == Shape /\ Untouched /\ ProgramsAreSound /\ [Next]_vars => ProgramsAreSound'
<1> SUFFICES ASSUME WellTyped, Alone, ProgramsAreProper, Untouched, ProgramsAreSound,
                    [Next]_vars, ~survived'
             PROVE  /\ pc' = "runs" => Sound(step', program', seen', disk')
                    /\ \A c \in children' :
                         /\ Handed(c.left, c.seen, disk')
                         /\ pc' = "waits" => Sound(step', c.left \o program', c.seen, disk')
  BY DEF Shape, ProgramsAreSound
<1>1. step \in OperatorSteps /\ disk \in [Files -> Contents] /\ step' = step /\ ~survived
  BY DEF WellTyped, Next, vars, Begin, Operates, Spawns, Fails, Succeeds, End, EndsAs, Deadline,
         Kill, Change, ChildRuns, ChildExits, Exits
<1>2. /\ pc = "runs" => Sound(step, program, seen, disk)
      /\ \A c \in children :
           /\ Handed(c.left, c.seen, disk)
           /\ pc = "waits" => Sound(step, c.left \o program, c.seen, disk)
  BY <1>1 DEF ProgramsAreSound
<1>3. CASE Begin
  <2>1. \A s, d : Sound(step, resolve(step).run, s, d)
    BY <1>1, StartsSound, ReadyIsSound DEF Starts
  <2>2. /\ children = {} /\ children' = children
        /\ pc' = "runs" => program' = resolve(step).run
    BY <1>1, <1>3 DEF Begin, Alone
  <2>3. QED
    BY <1>1, <2>1, <2>2
<1>4. CASE Operates
  <2>1. /\ program # << >> /\ CanDo(Head(program), seen) /\ pc = "runs" /\ pc' = pc
        /\ disk' = Effect(Head(program), seen) /\ seen' = Reads(Head(program), seen)
        /\ program' = Brings(Head(program), seen) \o Tail(program)
        /\ children' = children /\ children = {}
    BY <1>1, <1>4 DEF Operates, Alone
  <2>2. program \in Seq(Items) /\ Proper(step, began, program)
    BY DEF WellTyped, ProgramsAreProper
  <2>3. Sound(step, program', seen', disk')
    BY <1>1, <1>2, <2>1, <2>2, StaysSound
  <2>4. QED
    BY <1>1, <2>1, <2>3
<1>5. CASE Spawns
  <2> DEFINE i == Head(program)
             new == [left |-> Brings(i, seen), seen |-> seen, attempt |-> attempt]
  <2>1. /\ program # << >> /\ i.do = "spawn" /\ CanDo(i, seen) /\ pc = "runs" /\ pc' = "waits"
        /\ children' = {new} /\ program' = Tail(program) /\ disk' = disk
    BY <1>1, <1>5 DEF Spawns, Spawning, Alone
  <2>2. program \in Seq(Items) /\ Proper(step, began, program) /\ seen \in SUBSET Versions
    BY DEF WellTyped, ProgramsAreProper
  <2>3. Sound(step, Brings(i, seen) \o Tail(program), Reads(i, seen), Effect(i, seen))
    BY <1>1, <1>2, <2>1, <2>2, StaysSound
  <2>4. Reads(i, seen) = seen /\ Effect(i, seen) = disk
    BY <2>1 DEF Reads, Effect
  <2>5. Brings(i, seen) \in Seq(Items) /\ Tail(program) \in Seq(Items)
    BY <2>1, <2>2, NextOperation
  <2>6. new.left = Brings(i, seen) /\ new.seen = seen
    OBVIOUS
  <2> HIDE DEF i, new
  <2>9. Handed(Brings(i, seen) \o Tail(program), seen, disk)
    BY <2>3, <2>4 DEF Sound
  <2>7. Handed(Brings(i, seen), seen, disk)
    BY <2>5, <2>9, HandedFirst
  <2>8. QED
    BY <1>1, <2>1, <2>3, <2>4, <2>6, <2>7
<1>6. CASE Fails \/ Succeeds
  <2>1. children' = children /\ pc = "runs" /\ pc' \in {"idle", "ended"}
    BY <1>6, Endings DEF Fails, Succeeds, End
  <2>2. QED
    BY <1>1, <2>1 DEF Alone
<1>7. CASE Deadline
  <2>1. children' = {} /\ pc' \in {"idle", "ended"}
    BY <1>1, <1>7, Endings DEF Deadline, Alone
  <2>2. QED
    BY <2>1
<1>8. CASE Kill
  BY <1>1, <1>2, <1>8 DEF Kill
<1>9. CASE Change
  <2>1. pc' = pc /\ program' = program /\ seen' = seen /\ children' = children
    BY <1>9 DEF Change
  <2>2. disk'["part"] = disk["part"] /\ \A p \in Products : disk'[p] = disk[p]
    BY <1>1, <1>9, DestsAreFiles DEF Change, Files, Products
  <2>3. \A prog, s : /\ Handed(prog, s, disk) => Handed(prog, s, disk')
                     /\ Sound(step, prog, s, disk) => Sound(step, prog, s, disk')
    BY <1>1, <2>2, SoundElsewhere
  <2>4. QED
    BY <1>1, <1>2, <2>1, <2>3
<1>10. ASSUME NEW c \in children, ChildRuns(c)
       PROVE  /\ pc' # "runs"
              /\ \A e \in children' :
                   /\ Handed(e.left, e.seen, disk')
                   /\ pc' = "waits" => Sound(step', e.left \o program', e.seen, disk')
  <2> DEFINE i == Head(c.left)
             d == [c EXCEPT !.left = Brings(Head(@), c.seen) \o Tail(@), !.seen = Reads(Head(c.left), @)]
  <2>1. /\ c.left \in Seq(Items) /\ c.left # << >> /\ CanDo(i, c.seen) /\ c.seen \in SUBSET Versions
        /\ Proper(step, began, c.left) /\ program \in Seq(Items) /\ Proper(step, began, program)
    BY <1>10 DEF ChildRuns, WellTyped, ProgramsAreProper
  <2>2. /\ d.left = Brings(i, c.seen) \o Tail(c.left) /\ d.seen = Reads(i, c.seen)
    BY DEF WellTyped
  <2>3. /\ disk' = Effect(i, c.seen) /\ children' = {d} /\ pc' = pc /\ program' = program
    BY <1>1, <1>10 DEF ChildRuns, Alone
  <2>4. pc # "runs"
    BY <1>1 DEF Alone
  <2>5. Handed(Brings(i, c.seen) \o Tail(c.left), Reads(i, c.seen), Effect(i, c.seen))
    BY <1>1, <1>2, <2>1, StaysHanded
  <2>6. ASSUME pc = "waits"
        PROVE  Sound(step, (Brings(i, c.seen) \o Tail(c.left)) \o program, Reads(i, c.seen), Effect(i, c.seen))
    <3> DEFINE all == c.left \o program
    <3>1. Sound(step, all, c.seen, disk)
      BY <1>2, <2>6
    <3>2. Brings(i, c.seen) \in Seq(Items)
      BY <2>1, NextOperation
    <3>3. /\ all \in Seq(Items) /\ all # << >> /\ Head(all) = i
          /\ Brings(i, c.seen) \o Tail(all) = (Brings(i, c.seen) \o Tail(c.left)) \o program
      BY <2>1, <3>2, FirstOfTwo
    <3>4. Proper(step, began, all)
      BY <2>1, ProperTogether
    <3> HIDE DEF all, i
    <3>5. Sound(step, Brings(i, c.seen) \o Tail(all), Reads(i, c.seen), Effect(i, c.seen))
      BY <1>1, <2>1, <3>1, <3>3, <3>4, StaysSound
    <3>6. QED
      BY <3>3, <3>5
  <2> HIDE DEF i, d
  <2>7. QED
    BY <1>1, <2>2, <2>3, <2>4, <2>5, <2>6
<1>11. ASSUME NEW c \in children, ChildExits(c)
       PROVE  /\ children' = {}
              /\ pc' = "runs" => Sound(step', program', seen', disk')
  <2>1. children' = {} /\ disk' = disk /\ pc # "runs"
    BY <1>1, <1>11 DEF ChildExits, Exits, Alone
  <2>2. ASSUME pc' = "runs"
        PROVE  Sound(step, program', seen', disk')
    <3>1. pc = "waits" /\ c.left = << >> /\ program' = program /\ seen' = c.seen
      BY <1>11, <2>1, <2>2, Endings DEF ChildExits, ExitsEarly, Exits, Mine, End
    <3>2. Sound(step, << >> \o program, c.seen, disk)
      BY <1>2, <3>1
    <3>3. << >> \o program = program
      BY ConcatEmptySeq DEF WellTyped
    <3>4. QED
      BY <2>1, <3>1, <3>2, <3>3
  <2>3. QED
    BY <1>1, <2>1, <2>2
<1>12. CASE UNCHANGED vars
  BY <1>1, <1>2, <1>12 DEF vars
<1>13. QED
  BY <1>3, <1>4, <1>5, <1>6, <1>7, <1>8, <1>9, <1>10, <1>11, <1>12 DEF Next

\* The folder changes at one place: by an operation of arc or of a child that it
\* may do, or by a person.
LEMMA DiskSteps ==
    ASSUME Shape, ProgramsAreSound, [Next]_vars
    PROVE  \/ disk' = disk
           \/ \A f \in Files \ {"a"} : disk'[f] = disk[f]
           \/ \E i \in Items, s \in SUBSET Versions :
                /\ MayDo(step, began, i) /\ disk' = Effect(i, s)
                /\ ~survived /\ i.do = "move" => disk["part"] = Whole(s)
<1>1. \A prog \in Seq(Items) : prog # << >> =>
         /\ Head(prog) = prog[1] /\ Head(prog) \in Items /\ 1 \in DOMAIN prog
  BY HeadTailProperties, EmptySeq, LenProperties
<1>2. CASE Operates
  <2>1. /\ program \in Seq(Items) /\ Proper(step, began, program) /\ seen \in SUBSET Versions
        /\ program # << >> /\ disk' = Effect(Head(program), seen) /\ pc = "runs"
    BY <1>2 DEF Shape, WellTyped, ProgramsAreProper, Operates
  <2>2. ~survived => Handed(program, seen, disk)
    BY <2>1 DEF ProgramsAreSound, Sound
  <2>3. /\ MayDo(step, began, Head(program))
        /\ ~survived /\ Head(program).do = "move" => disk["part"] = Whole(seen)
    BY <1>1, <2>1, <2>2 DEF Proper, Handed
  <2>4. QED
    BY <1>1, <2>1, <2>3
<1>3. ASSUME NEW c \in children, ChildRuns(c)
      PROVE  \E i \in Items, s \in SUBSET Versions :
                /\ MayDo(step, began, i) /\ disk' = Effect(i, s)
                /\ ~survived /\ i.do = "move" => disk["part"] = Whole(s)
  <2>1. c.left \in Seq(Items) /\ Proper(step, began, c.left) /\ c.seen \in SUBSET Versions
    BY DEF Shape, WellTyped, ProgramsAreProper
  <2>2. c.left # << >> /\ disk' = Effect(Head(c.left), c.seen)
    BY <1>3 DEF ChildRuns
  <2>3. ~survived => Handed(c.left, c.seen, disk)
    BY DEF ProgramsAreSound
  <2>4. /\ MayDo(step, began, Head(c.left))
        /\ ~survived /\ Head(c.left).do = "move" => disk["part"] = Whole(c.seen)
    BY <1>1, <2>1, <2>2, <2>3 DEF Proper, Handed
  <2>5. QED
    BY <1>1, <2>1, <2>2, <2>4
<1>4. CASE Change
  BY <1>4 DEF Change, Shape, WellTyped
<1>5. CASE Begin \/ Spawns \/ Fails \/ Succeeds \/ Deadline \/ Kill \/ UNCHANGED vars
  BY <1>5 DEF Begin, Spawns, Fails, Succeeds, Deadline, Kill, vars
<1>6. CASE \E c \in children : ChildExits(c)
  BY <1>6 DEF ChildExits
<1>7. QED
  BY <1>2, <1>3, <1>4, <1>5, <1>6 DEF Next

\* The step and the folder it began in are the same throughout.
LEMMA StepStays == [Next]_vars => step' = step /\ began' = began
BY DEF Next, vars, Begin, Operates, Spawns, Fails, Succeeds, End, EndsAs, Deadline, Kill, Change,
       ChildRuns, ChildExits, Exits

\* operator.rs:3550, :4110, :5435, :5598: a product published by a rename is never
\* seen half written: the file that is moved has been finished, by the one process
\* that is alive.
LEMMA NextPublished ==
    Shape /\ ProgramsAreSound /\ PublishedWhole /\ [Next]_vars => PublishedWhole'
<1> SUFFICES ASSUME Shape, ProgramsAreSound, PublishedWhole, [Next]_vars,
                    Publishes(step'), NEW p \in Products
             PROVE  disk'[p] # Half
  BY DEF PublishedWhole
<1>1. step' = step
  BY StepStays
<1>2. disk[p] # Half /\ p \in Files /\ p # "a"
  BY <1>1, DestsAreFiles DEF PublishedWhole, Files, Products
<1>3. ~survived
  BY <1>1, StartsSound DEF Shape, Alone, WellTyped, Starts
<1>4. ASSUME NEW i \in Items, NEW s \in SUBSET Versions, MayDo(step, began, i), disk' = Effect(i, s),
             ~survived /\ i.do = "move" => disk["part"] = Whole(s)
      PROVE  disk'[p] # Half
  BY <1>1, <1>2, <1>3, <1>4, EffectWhole DEF Shape, WellTyped
<1>5. QED
  BY <1>2, <1>4, DiskSteps

\* operator.rs:111, umap_project.py:867: what a step may not write is as it was, the
\* fit that was there when it began included.
LEMMA NextUntouched ==
    Shape /\ ProgramsAreSound /\ Untouched /\ [Next]_vars => Untouched'
<1> SUFFICES ASSUME Shape, ProgramsAreSound, Untouched, [Next]_vars,
                    NEW p \in Products, p \notin Writable(step', began')
             PROVE  disk'[p] = began'[p]
  BY DEF Untouched
<1>1. step' = step /\ began' = began
  BY StepStays
<1>2. disk[p] = began[p]
  BY <1>1 DEF Untouched
<1>3. p \in Files /\ p # "a" /\ p \notin {"part", "dest"} /\ p \notin Writable(step, began)
  BY <1>1, DestsAreFiles DEF Files, Products
<1>4. ASSUME NEW i \in Items, NEW s \in SUBSET Versions, MayDo(step, began, i), disk' = Effect(i, s)
      PROVE  disk'[p] = disk[p]
  BY <1>3, <1>4, EffectWithin DEF Shape, WellTyped
<1>5. QED
  BY <1>1, <1>2, <1>3, <1>4, DiskSteps

\* runner.rs:1421: a step that succeeds has made what it declares from what its last
\* attempt read, or reports it missing.
LEMMA NextAnswered ==
    Shape /\ ProgramsAreSound /\ Untouched /\ PublishedWhole /\ SuccessIsAnswered /\ [Next]_vars
      => SuccessIsAnswered'
<1> SUFFICES ASSUME Shape, ProgramsAreSound, Untouched, PublishedWhole, SuccessIsAnswered,
                    [Next]_vars
             PROVE  SuccessIsAnswered'
  OBVIOUS
<1>7. WellTyped /\ Alone
  BY DEF Shape
<1>1. step' = step /\ began' = began
  BY StepStays
<1>2. CASE Succeeds /\ ~survived'
  <2>1. /\ ~survived' => ~survived
        /\ program = << >> /\ pc = "runs" /\ disk' = disk /\ seen' = seen
        /\ missing' = missing_declared_produces
    BY <1>2, Endings DEF Succeeds, End
  <2>2. Sound(step, << >>, seen, disk)
    BY <1>2, <2>1 DEF ProgramsAreSound
  <2>3. \A p \in Declared(step) :
          \/ disk[p] = Absent /\ p \in resolve(step).produces
          \/ disk[p] = Whole(seen)
          \/ KeptFit(p)
          \/ NoMember(p)
    BY <1>7, <2>2, EndedWell DEF KeptFit, NoMember
  <2>4. \A p : (KeptFit(p) => KeptFit(p)') /\ (NoMember(p) => NoMember(p)')
    BY <1>1, <2>1 DEF KeptFit, NoMember
  <2>5. QED
    BY <1>1, <2>1, <2>3, <2>4 DEF SuccessIsAnswered, missing_declared_produces
<1>6. CASE ~(outcome' = "ok" /\ ~survived')
  BY <1>6 DEF SuccessIsAnswered
<1>3. CASE outcome = "ok" /\ ~survived'
  <2>1. pc = "ended" /\ (~survived => children = {})
    BY <1>3, <1>7 DEF Alone
  <2>2. ~survived
    BY <1>3, <2>1 DEF Next, vars, Begin, Operates, Spawns, Fails, Succeeds, End, Deadline, Kill,
                      Change, ChildRuns, ChildExits, Exits, Mine
  <2>3. UNCHANGED vars
    BY <2>1, <2>2 DEF Next, Begin, Operates, Spawns, Fails, Succeeds, Deadline, Kill, Change
  <2>4. \A p : (KeptFit(p) => KeptFit(p)') /\ (NoMember(p) => NoMember(p)')
    BY <2>3 DEF vars, KeptFit, NoMember
  <2>5. QED
    BY <1>3, <2>2, <2>3, <2>4 DEF vars, SuccessIsAnswered
<1>4. CASE outcome # "ok" /\ outcome' = "ok" /\ ~Succeeds
  <2>1. ~(\E c \in children : ChildExits(c))
    BY <1>4, Endings DEF ChildExits, Exits, End
  <2>2. ~Fails /\ ~Deadline
    BY <1>4, Endings DEF Fails, Deadline, End
  <2>3. QED
    BY <1>4, <2>1, <2>2 DEF Next, vars, Begin, Operates, Spawns, Kill, Change, ChildRuns
<1>5. QED
  BY <1>2, <1>3, <1>4, <1>6

-----------------------------------------------------------------------------
\* A folder in which a step begins has nothing half written that is published, and
\* owes nothing.
LEMMA InitIInv == Init => IInv
<1> SUFFICES ASSUME Init PROVE IInv
  OBVIOUS
<1>1. Shape
  BY InitShape
<1>2. pc = "idle" /\ children = {} /\ outcome = "none" /\ began = disk
  BY DEF Init
<1>3. ASSUME Publishes(step), NEW p \in Products
      PROVE  disk[p] # Half
  <2>1. Absent # Half /\ Input("a", 0) # Half
    BY DEF Absent, Half, Input, Whole
  <2>2. step.op # "umap_project"
    BY <1>3 DEF Publishes, Publishers
  <2>3. p \in Files /\ p \notin {"a", "b", "tool"}
    BY DestsAreFiles DEF Files, Products
  <2>4. disk[p] \in {Absent, Input("a", 0)}
    <3>1. PICK v \in 1..MaxVersions, b \in {Absent, Input("b", 1)},
               tool \in {Absent, Input("tool", 1), Input("tool", 2)},
               old \in {Absent, Input("a", 0)}, fit \in {Absent, Half, Input("a", 0)} :
            /\ step.op # "umap_project" => fit = old
            /\ disk = [f \in Files |->
                         CASE f = "a" -> Input("a", v) [] f = "b" -> b [] f = "tool" -> tool
                           [] f = "out2" -> fit
                           [] f \in Products \ {"out2"} -> old
                           [] f = "dest" -> IF old = Absent THEN Absent ELSE Whole({})
                           [] f = "part" -> Absent]
      BY DEF Init
    <3>4. CASE p = "out2"
      BY <2>2, <3>1, <3>4 DEF Files, Products
    <3>5. CASE p # "out2"
      <4>1. p \in Products \ {"out2"} /\ p \in Files /\ p \notin {"a", "b", "tool", "out2", "dest", "part"}
        BY <1>3, <2>3, <3>5, DestsAreFiles DEF Products
      <4>2. disk[p] = old
        BY <3>1, <4>1
      <4>3. QED
        BY <3>1, <4>2
    <3>3. QED
      BY <3>4, <3>5
  <2>5. QED
    BY <2>1, <2>4
<1>4. ProgramsAreSound /\ Untouched /\ PublishedWhole /\ SuccessIsAnswered
  BY <1>2, <1>3 DEF ProgramsAreSound, Untouched, PublishedWhole, SuccessIsAnswered
<1>5. QED
  BY <1>1, <1>4 DEF IInv, Shape

\* The invariant holds at every step.
THEOREM OperatorsInvariant == Spec => []IInv
<1>1. IInv /\ [Next]_vars => IInv'
  BY NextShape, NextSound, NextUntouched, NextPublished, NextAnswered DEF IInv, Shape
<1>2. QED
  BY InitIInv, <1>1, PTL DEF Spec

\* What another process finds of a product that is published by a rename is the old
\* file or the whole new one (operator.rs:3550, :4110, :5435, :5598).
THEOREM PublishedWholeAlways == Spec => []PublishedWhole
<1>1. IInv => PublishedWhole
  BY DEF IInv
<1>2. QED
  BY OperatorsInvariant, <1>1, PTL

\* A step that succeeds has made each product it declares from what its last attempt
\* read, or the product is reported missing; a fit that was there is there still
\* (runner.rs:1421, umap_project.py:867).
THEOREM SuccessIsAnsweredAlways == Spec => []SuccessIsAnswered
<1>1. IInv => SuccessIsAnswered
  BY DEF IInv
<1>2. QED
  BY OperatorsInvariant, <1>1, PTL

\* What a step has written it declares, retries, failures and processes that
\* outlived a deadline included (operator.rs:111).
THEOREM WritesWhatItDeclaresAlways == Spec => []WritesWhatItDeclares
<1>1. IInv => WritesWhatItDeclares
  <2>1. ~MatchesBesideMembers => Targets(step) \subseteq Declared(step)
    BY DEF MatchesBesideMembers, Targets
  <2>2. Writable(step, began) \subseteq Targets(step)
    BY DEF Writable
  <2>3. QED
    BY <2>1, <2>2 DEF IInv, Untouched, WritesWhatItDeclares
<1>2. QED
  BY OperatorsInvariant, <1>1, PTL
=============================================================================
