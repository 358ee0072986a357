------------------------------- MODULE Settings -------------------------------
(***************************************************************************)
(* What a run takes from a manifest that loads: Manifest::validate, the    *)
(* parameters, the engine's version, what a hook runs, the waits between   *)
(* attempts, and the files a pattern stands for (manifest.rs, runner.rs).  *)
(*                                                                         *)
(* A manifest is a record: retry, constraint (the engine_version), pins,   *)
(* steps and hooks.  A step names the arms it sets, of sql, command and    *)
(* op.  Names are sequences of letters, so that " " and case are seen.     *)
(***************************************************************************)
EXTENDS Integers, Sequences, SequencesExt, FiniteSets, TLC

Slots == {"on_init", "on_success", "on_failure", "on_exit"}
None == "none"

(* A float of seconds: "zero", a "number" from 2^n to below 2^(n + 1),     *)
(* "negative", "inf" or "nan".  What is compared with a "nan" is false.    *)
Float(is, n) == [is |-> is, n |-> n]

validate_retry_policy(r) == r # << >> => r[1].attempts >= 1 /\ r[1].backoff.is # "negative"

Blank(name) == ToSet(name) \subseteq {" "}

(* What a precondition gives: a period only when it is a length of time.    *)
ToolKeys == {"name", "path", "env", "version", "contents"}
ToolIsNamed(t) ==
    /\ Cardinality(t \cap {"name", "path", "env"}) = 1
    /\ Cardinality(t \cap {"version", "contents"}) = 1

validate_precondition(p) ==
    CASE p.is = "modified_after" -> {"path", "period"} \subseteq p.gives
      [] p.is = "fresh"          -> "path" \in p.gives
      [] p.is = "command"        -> "command" \in p.gives
      [] p.is = "tool"           -> ToolIsNamed(p.gives)

(* What a tool is looked up by, and known by, as its stamp is kept.        *)
stamp_key(t) ==
    <<IF "name" \in t THEN "name" ELSE IF "path" \in t THEN "path" ELSE "env",
      IF "contents" \in t THEN "contents" ELSE "version">>

ValidStep(s) ==
    /\ ~Blank(s.name)
    /\ \A p \in ToSet(s.preconditions) : validate_precondition(p)
    /\ Cardinality(s.arms) = 1
    /\ "op" \in s.arms => s.with = "takes"
    /\ ~("sql" \in s.arms /\ s.output)
    /\ validate_retry_policy(s.retry)

ValidHook(h, names) ==
    /\ ("sql" \in h.arms) # ("command" \in h.arms)
    /\ ~Blank(h.name) /\ h.name \notin names
    /\ h.preconditions = << >> /\ ~h.declares /\ h.retry = << >> /\ ~h.output

validate(m) ==
    LET names == {m.steps[i].name : i \in DOMAIN m.steps} IN
    /\ m.name # << >> /\ validate_retry_policy(m.retry)
    /\ m.constraint # "not a constraint" /\ m.pins \subseteq {"digest"}
    /\ \A i \in DOMAIN m.steps : ValidStep(m.steps[i])
    /\ Cardinality(names) = Len(m.steps)
    /\ \A slot \in DOMAIN m.hooks : ValidHook(m.hooks[slot], names)

-----------------------------------------------------------------------------
(* resolve_params: each declared parameter, in order, under its upper-case *)
(* name; the command line before a dotenv file before its default.         *)
Upper(name) == [i \in DOMAIN name |-> IF name[i] = "a" THEN "A" ELSE name[i]]

Given(name, default, dotenv, cli) ==
    IF name \in DOMAIN cli THEN cli[name]
    ELSE IF name \in DOMAIN dotenv THEN dotenv[name] ELSE default

resolve_params(params, dotenv, cli) ==
    FoldLeft(LAMBDA acc, p :
        LET v == Given(p.name, p.default, dotenv, cli) IN
        [ok |-> acc.ok /\ v # None, env |-> (Upper(p.name) :> v) @@ acc.env],
      [ok |-> TRUE, env |-> << >>], params)

\* execute_hook, and run_with_params for a step: the arm that is run.
ArmRun(arms, hook) ==
    IF "sql" \in arms THEN "sql"
    ELSE IF "op" \in arms /\ ~hook THEN "op"
    ELSE IF "command" \in arms THEN "command" ELSE None

\* f * 2f64.powi(k): the power is infinite from 2^1024.
Doubled(f, k) ==
    CASE f.is = "zero" -> Float(IF k < 1024 THEN "zero" ELSE "nan", 0)
      [] f.is = "number" ->
           IF k < 1024 /\ f.n + k < 1024 THEN Float("number", f.n + k) ELSE Float("inf", 0)
      [] OTHER -> f

\* Duration::from_secs_f64 panics on what is not from 0 to below 2^64.
Lasts(f) == f.is = "zero" \/ (f.is = "number" /\ f.n < 64)
Panic == Float("panic", 0)

\* Mutant of backoff_duration: doubled for the attempt it comes before, too.
backoff_duration_late(r, attempt) ==
    LET secs == Doubled(r.backoff, attempt)
    IN  IF Lasts(secs) THEN secs ELSE Panic

\* The wait before an attempt that is not the first.
backoff_duration(r, attempt) ==
    LET secs == Doubled(r.backoff, attempt - 1)
    IN  IF Lasts(secs) THEN secs ELSE Panic

(* check_engine_version: found is a version or << >>, ranges are sets.     *)
check_engine_version(found, wanted, supported, oldest, allow) ==
    CASE found = << >> -> "warned"
      [] found # << >> /\ wanted # {} /\ found[1] \notin wanted -> "mismatch"
      [] OTHER -> IF found[1] \in supported THEN "runs"
                  ELSE IF found[1] < oldest THEN "too old"
                  ELSE IF allow THEN "warned" ELSE "untested"

-----------------------------------------------------------------------------
(***************************************************************************)
(* glob_match: a component of a pattern against a name, sign by sign; a    *)
(* "[" without a "]" after at least one sign is itself.  Letters are       *)
(* compared by their place in Letters.                                     *)
(***************************************************************************)
Letters == <<"!", "*", "-", "?", "[", "]", "a", "b">>
Place(l) == CHOOSE i \in DOMAIN Letters : Letters[i] = l

CloseOf(p) ==
    LET ends == {i \in 3..Len(p) : p[i] = "]" /\ \A k \in 2..(i - 1) : p[k] # "]"}
    IN  IF ends = {} THEN 0 ELSE CHOOSE i \in ends : TRUE

\* Whether a letter is one a class's body holds, ranges read first.
RECURSIVE Holds(_, _)
Holds(body, l) ==
    CASE body = << >> -> FALSE
      [] Len(body) >= 3 /\ body[2] = "-" ->
           \/ Place(body[1]) <= Place(l) /\ Place(l) <= Place(body[3])
           \/ Holds(SubSeq(body, 4, Len(body)), l)
      [] OTHER -> body[1] = l \/ Holds(Tail(body), l)

Negated(body) == body[1] \in {"!", "^"}

RECURSIVE glob_match(_, _)
glob_match(p, n) ==
    LET close == CloseOf(p)
        body  == SubSeq(p, 2, close - 1)
        here  == n # << >>
    IN
    CASE p = << >> -> n = << >>
      [] p # << >> /\ p[1] = "*" ->
           \E i \in 1..(Len(n) + 1) : glob_match(Tail(p), SubSeq(n, i, Len(n)))
      [] p # << >> /\ p[1] = "?" -> here /\ glob_match(Tail(p), Tail(n))
      [] p # << >> /\ p[1] = "[" /\ close # 0 ->
           /\ here
           /\ Holds(IF Negated(body) THEN Tail(body) ELSE body, n[1]) # Negated(body)
           /\ glob_match(SubSeq(p, close + 1, Len(p)), Tail(n))
      [] OTHER -> here /\ n[1] = p[1] /\ glob_match(Tail(p), Tail(n))

(***************************************************************************)
(* expand_pattern: tree is a function from paths (sequences of names) to   *)
(* "dir" or "file"; a "**" stands for any number of folders, a component   *)
(* without a sign is a name; a file a pattern reaches twice counts once.   *)
(***************************************************************************)
IsPattern(head) == ToSet(head) \cap {"*", "?", "["} # {}

\* Mutant of Entries: a folder's files only.
Entries_files(tree, dir) ==
    {p \in DOMAIN tree : Len(p) = Len(dir) + 1 /\ IsPrefix(dir, p) /\ tree[p] = "file"}

Entries(tree, dir) == {p \in DOMAIN tree : Len(p) = Len(dir) + 1 /\ IsPrefix(dir, p)}
IsDir(tree, p) == p = << >> \/ (p \in DOMAIN tree /\ tree[p] = "dir")

RECURSIVE expand_pattern(_, _, _)
expand_pattern(tree, at, components) ==
    IF components = << >> THEN {p \in {at} \cap DOMAIN tree : tree[p] = "file"}
    ELSE
    LET head == components[1]
        rest == Tail(components)
    IN
    CASE head = <<"*", "*">> ->
           expand_pattern(tree, at, rest) \cup
           UNION {(IF rest = << >> \/ IsDir(tree, e) THEN expand_pattern(tree, e, rest) ELSE {})
                  \cup (IF IsDir(tree, e) THEN expand_pattern(tree, e, components) ELSE {})
                  : e \in Entries(tree, at)}
      [] head # <<"*", "*">> /\ ~IsPattern(head) ->
           LET child == Append(at, head) IN
           IF rest = << >> \/ IsDir(tree, child) THEN expand_pattern(tree, child, rest) ELSE {}
      [] OTHER ->
           UNION {expand_pattern(tree, e, rest) :
                    e \in {e \in Entries(tree, at) :
                             glob_match(head, Last(e)) /\ (rest = << >> \/ IsDir(tree, e))}}

-----------------------------------------------------------------------------
(* manifest.rs:314: in a manifest that loads, a step's name is its own and *)
(* no hook's; each step and hook runs what it names, all of it, but for an *)
(* op a hook names besides its command; and a parameter reaches the steps  *)
(* as it was given, but for two that differ in case.  No override runs an  *)
(* engine the manifest or the database cannot take.  The run outlives the  *)
(* waits of a policy that loads (runner.rs:86) when its attempts and its   *)
(* backoff keep within WaitsAreTimes; any other is a panic before one of   *)
(* its attempts, though it loaded.                                         *)
WaitsAreTimes(r) ==
    \/ r.attempts = 1
    \/ /\ r.attempts <= 1024
       /\ \/ r.backoff.is = "zero"
          \/ r.backoff.is = "number" /\ r.backoff.n + r.attempts <= 64

SettingsAreHonoured(m, params, dotenv, cli) ==
    LET run == resolve_params(params, dotenv, cli) IN
    /\ validate(m) =>
         /\ \A i, j \in DOMAIN m.steps : m.steps[i].name = m.steps[j].name => i = j
         /\ \A i \in DOMAIN m.steps : {ArmRun(m.steps[i].arms, FALSE)} = m.steps[i].arms
         /\ \A i \in DOMAIN m.steps : \A p \in ToSet(m.steps[i].preconditions) :
              p.is = "tool" => p.gives \cap ToolKeys = ToSet(stamp_key(p.gives))
         /\ \A h \in DOMAIN m.hooks :
              /\ {ArmRun(m.hooks[h].arms, TRUE)} = m.hooks[h].arms \ {"op"}
              /\ \A i \in DOMAIN m.steps : m.steps[i].name # m.hooks[h].name
         /\ \A r \in {m.retry} \cup {m.steps[i].retry : i \in DOMAIN m.steps} :
              r # << >> => (\A k \in 2..r[1].attempts : backoff_duration(r[1], k) # Panic)
                              = WaitsAreTimes(r[1])
    /\ run.ok => \A i \in DOMAIN params :
         \/ run.env[Upper(params[i].name)] =
              Given(params[i].name, params[i].default, dotenv, cli)
         \/ \E j \in DOMAIN params : j # i /\ Upper(params[j].name) = Upper(params[i].name)
    /\ \A found \in 1..3, wanted \in SUBSET (1..3), allow \in BOOLEAN :
         check_engine_version(<<found>>, wanted, {2}, 2, allow) \in {"runs", "warned"} =>
           found >= 2 /\ (wanted = {} \/ found \in wanted) /\ (found = 2 \/ allow)

(***************************************************************************)
(* What a pattern means: a cut of the name into what each sign stands for, *)
(* and the files whose path it matches, folder by folder.                  *)
(***************************************************************************)
RECURSIVE Means(_, _)
Means(components, path) ==
    IF components = << >> THEN path = << >>
    ELSE LET head == components[1]
             rest == Tail(components) IN
         IF head = <<"*", "*">>
         THEN path # << >> /\ (rest = << >> \/ Means(rest, path) \/ Means(components, Tail(path)))
         ELSE path # << >> /\ glob_match(head, path[1]) /\ Means(rest, Tail(path))

(* runner.rs:1557: the files whose bytes a pattern asset's hash takes in   *)
(* are the tree's files the pattern means: a "**" stands for any number of *)
(* folders, and a last one for whatever lies below.                        *)
PatternIsItsFiles(tree, components) ==
    expand_pattern(tree, << >>, components) =
      {p \in DOMAIN tree : tree[p] = "file" /\ Means(components, p)}
=============================================================================
