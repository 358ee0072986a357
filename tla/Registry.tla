------------------------------- MODULE Registry -------------------------------
(***************************************************************************)
(* arc registry: the cached index, the folders of the Protocols fetched    *)
(* by name, and the commands that go from one to the other, several        *)
(* processes over one cache.                                               *)
(*                                                                         *)
(* The transport is a trait; the one a release carries still refuses       *)
(* (transport.rs:423), which is the transport that never answers here.     *)
(***************************************************************************)
EXTENDS Naturals, Sequences, SequencesExt

CONSTANTS Procs, None,
          Bodies,    \* index documents: [reads, version, entries]
          Queries,   \* what a person asks for: [query, version, latest]
          Ttl, MaxTime, MaxFaults

VARIABLES remote,    \* the document the registry serves
          since,     \* ghost: when it began to
          now,
          index, tmp, \* index.yaml, index.yaml.tmp: [body, of] or None
          fetched,   \* index.yaml.fetched: a time, "none" being 0
          folders,   \* the trees under the cache root: path -> entry it is of,
                     \* None for what a person left there
          left,      \* paths beside which a killed fetch left its temporary tree
          meddled,   \* ghost: paths a person has been at since they were filled
          proc,      \* each process: its step and what it holds
          apart,     \* ghost: no two fetches of the index have overlapped
          faults

vars == <<remote, since, now, index, tmp, fetched, folders, left, meddled, proc,
          apart, faults>>

-----------------------------------------------------------------------------
(* RegistryIndex::parse                                                    *)
Key(entry) == <<entry.owner, entry.name>>

parse(body) ==
    /\ body.reads /\ body.version = 1
    /\ \A i, j \in DOMAIN body.entries : i # j => Key(body.entries[i]) # Key(body.entries[j])
    /\ \A i, j \in DOMAIN body.entries :
         body.entries[i].owner # None /\ body.entries[j].owner = None
           => body.entries[i].name # body.entries[j].name

(* A query is its parts between slashes, an empty part being "".           *)
parse_query(query) ==
    IF \E i \in DOMAIN query : query[i] = "" THEN None
    ELSE CASE Len(query) = 1 -> [owner |-> None, name |-> query[1]]
           [] Len(query) = 2 -> [owner |-> query[1], name |-> query[2]]
           [] OTHER -> None

lookup(body, query) ==
    LET q == parse_query(query)
        hits == {i \in DOMAIN body.entries : Key(body.entries[i]) = <<q.owner, q.name>>}
    IN  IF q = None \/ hits = {} THEN None
        ELSE body.entries[CHOOSE i \in hits : \A j \in hits : i <= j]

(* version_spec_from_flags: both flags, or neither, leave the entry's own. *)
Pinned(ask) == ask.version # None /\ ~ask.latest
Latest(ask) == ask.version = None /\ ask.latest

(* A pinned version is taken as it is, none is the entry's own, and the    *)
(* newest is not there to be asked for.                                    *)
resolve(body, ask) ==
    LET entry == lookup(body, ask.query) IN
    IF entry = None \/ Latest(ask) THEN None
    ELSE [name |-> entry.name, owner |-> entry.owner,
          ref |-> IF Pinned(ask) THEN ask.version ELSE entry.version]

Resolved == {resolve(b, ask) : b \in Bodies, ask \in Queries} \ {None}

(* The path below the root; a ref with slashes is several components.      *)
cache_path(r) == (IF r.owner = None THEN << >> ELSE <<r.owner>>) \o <<r.name>> \o r.ref

(* A temporary tree is in the folder its own will be in.                   *)
Staged ==
    left \cup {cache_path(proc[p].want) : p \in {q \in Procs : proc[q].at = "staged"}}

(* Something lies below: a tree of a longer path, or a temporary one.      *)
Below(path) ==
    \/ \E d \in DOMAIN folders : IsStrictPrefix(path, d)
    \/ \E d \in Staged : IsStrictPrefix(path, d)

(* A folder that is there and not empty.                                   *)
Cached(path) == path \in DOMAIN folders \/ Below(path)

-----------------------------------------------------------------------------
\* grace: an index is there and no refresh is asked for.
Holds(step, grace, began, body, want) ==
    [at |-> step, grace |-> grace, began |-> began, body |-> body, want |-> want]
Idle == Holds("idle", FALSE, 0, None, None)
Reads == Holds("read", FALSE, 0, None, None)

Init ==
    /\ remote \in Bodies /\ since = 0 /\ now = 1
    /\ index = None /\ tmp = None /\ fetched = 0
    /\ folders = << >> /\ left = {} /\ meddled = {} /\ proc = [p \in Procs |-> Idle]
    /\ apart = TRUE /\ faults = 0

At(p, step) == proc[p].at = step
Becomes(p, state) == proc' = [proc EXCEPT ![p] = state]
Goes(p, step) ==
    Becomes(p, Holds(step, proc[p].grace, proc[p].began, proc[p].body, proc[p].want))
Fault == faults < MaxFaults /\ faults' = faults + 1
Trees == <<folders, left, meddled>>
Cache == <<index, tmp, fetched, Trees>>
World == <<remote, since, now, apart>>

(* IndexCache::load: what is there, and how old it says it is.             *)
Subtract(a, b) == IF a > b THEN a - b ELSE 0

Load(p) ==
    /\ At(p, "idle")
    /\ \E refresh \in BOOLEAN :
         LET stale == fetched = 0 \/ Subtract(now, fetched) > Ttl
             fetch == refresh \/ stale \/ index = None
         IN  Becomes(p, IF ~fetch THEN Reads
                        ELSE Holds("fetch", index # None /\ ~refresh, now, None, None))
    /\ UNCHANGED <<World, Cache, faults>>

Answer(p) ==
    /\ At(p, "fetch")
    /\ Becomes(p, Holds("write", FALSE, proc[p].began, remote, None))
    /\ apart' = (apart /\ \A q \in Procs : proc[q].at \notin {"write", "rename", "time"})
    /\ UNCHANGED <<remote, since, now, Cache, faults>>

(* Nothing answers: what was there when the command began is read, unless  *)
(* a refresh was asked for.                                                *)
NoAnswer(p) ==
    /\ At(p, "fetch") /\ Fault
    /\ IF proc[p].grace THEN Becomes(p, Reads) ELSE Becomes(p, Idle)
    /\ UNCHANGED <<World, Cache>>

(* write_index_atomic: one temporary name for every process.               *)
WriteTmp(p) ==
    /\ At(p, "write") /\ tmp' = proc[p].body /\ Goes(p, "rename")
    /\ UNCHANGED <<World, index, fetched, Trees, faults>>

RenameIndex(p) ==
    /\ At(p, "rename")
    /\ IF tmp = None THEN Becomes(p, Idle) /\ UNCHANGED <<index, tmp>>
                     ELSE index' = tmp /\ tmp' = None /\ Goes(p, "time")
    /\ UNCHANGED <<World, fetched, Trees, faults>>

Parsed(body) == IF parse(body) THEN Holds("resolve", FALSE, 0, body, None) ELSE Idle

(* The time is the one the command began at.                               *)
\* Mutant of WriteTime: the time the answer was written.
WriteTimeNow(p) ==
    /\ At(p, "time") /\ fetched' = now
    /\ Becomes(p, Parsed(proc[p].body))
    /\ UNCHANGED <<World, index, tmp, Trees, faults>>

WriteTime(p) ==
    /\ At(p, "time") /\ fetched' = proc[p].began
    /\ Becomes(p, Parsed(proc[p].body))
    /\ UNCHANGED <<World, index, tmp, Trees, faults>>

ReadCached(p) ==
    /\ At(p, "read")
    /\ Becomes(p, IF index = None THEN Idle ELSE Parsed(index))
    /\ UNCHANGED <<World, Cache, faults>>

Resolve(p) ==
    /\ At(p, "resolve")
    /\ \E ask \in Queries :
         LET r == resolve(proc[p].body, ask) IN
         Becomes(p, IF r = None THEN Idle ELSE Holds("ensure", FALSE, 0, None, r))
    /\ UNCHANGED <<World, Cache, faults>>

(* ensure_cached: a folder that is not empty is the Protocol.              *)
\* Mutant of Ensure: a folder is kept for each name, whatever its version.
EnsureByName(p) ==
    /\ At(p, "ensure")
    /\ Goes(p, IF Cached(Front(cache_path(proc[p].want))) THEN "serve" ELSE "tree")
    /\ UNCHANGED <<World, Cache, faults>>

Ensure(p) ==
    /\ At(p, "ensure")
    /\ Goes(p, IF Cached(cache_path(proc[p].want)) THEN "serve" ELSE "tree")
    /\ UNCHANGED <<World, Cache, faults>>

(* The transport fills a tree beside the destination, then renames it      *)
(* over; which fails when the destination has been filled meanwhile.       *)
StageTree(p) ==
    /\ At(p, "tree") /\ Goes(p, "staged") /\ UNCHANGED <<World, Cache, faults>>

RenameTree(p) ==
    /\ At(p, "staged")
    /\ LET path == cache_path(proc[p].want) IN
         IF Cached(path) THEN Becomes(p, Idle) /\ UNCHANGED Trees
         ELSE /\ folders' = [d \in DOMAIN folders \cup {path} |->
                               IF d = path THEN proc[p].want ELSE folders[d]]
              /\ meddled' = meddled \ {path} /\ UNCHANGED left
              /\ Goes(p, "serve")
    /\ UNCHANGED <<World, index, tmp, fetched, faults>>

(* An entry that would leave the tree, a link or an error takes the whole  *)
(* of the temporary tree away.                                             *)
NoTree(p) ==
    /\ At(p, "tree") \/ At(p, "staged")
    /\ Fault /\ Becomes(p, Idle) /\ UNCHANGED <<World, Cache>>

(* The folder is shown, or the Protocol in it run: the runner's model.     *)
Serve(p) == At(p, "serve") /\ Becomes(p, Idle) /\ UNCHANGED <<World, Cache, faults>>

(* A temporary tree stays where a kill finds it.                           *)
Killed(p) ==
    /\ ~At(p, "idle") /\ Fault /\ Becomes(p, Idle)
    /\ left' = IF At(p, "staged") THEN left \cup {cache_path(proc[p].want)} ELSE left
    /\ UNCHANGED <<World, index, tmp, fetched, folders, meddled>>

-----------------------------------------------------------------------------
Tick == now < MaxTime /\ now' = now + 1 /\ UNCHANGED <<remote, since, Cache, proc, apart, faults>>

Release ==
    /\ \E b \in Bodies : b # remote /\ remote' = b
    /\ since' = now /\ UNCHANGED <<now, Cache, proc, apart, faults>>

(* A person takes the index or its time away.                              *)
Clear ==
    /\ Fault
    /\ \/ index' = None /\ UNCHANGED fetched
       \/ fetched' = 0 /\ UNCHANGED index
    /\ UNCHANGED <<World, tmp, Trees, proc>>

(* A person takes the trees away, from under a fetch too, whose rename     *)
(* then fails; or leaves one half made, a copy or a deletion cut short.    *)
Meddle ==
    /\ Fault
    /\ \/ /\ folders' = << >> /\ left' = {} /\ meddled' = meddled \cup DOMAIN folders
          /\ proc' = [p \in Procs |-> IF At(p, "staged") THEN Idle ELSE proc[p]]
       \/ \E r \in Resolved :
            LET path == cache_path(r) IN
            /\ folders' = [d \in DOMAIN folders \cup {path} |->
                             IF d = path THEN None ELSE folders[d]]
            /\ meddled' = meddled \cup {path} /\ UNCHANGED <<left, proc>>
    /\ UNCHANGED <<World, index, tmp, fetched>>

Step(p) ==
    \/ Load(p) \/ Answer(p) \/ NoAnswer(p) \/ WriteTmp(p) \/ RenameIndex(p)
    \/ WriteTime(p) \/ ReadCached(p) \/ Resolve(p) \/ Ensure(p) \/ StageTree(p)
    \/ RenameTree(p) \/ NoTree(p) \/ Serve(p) \/ Killed(p)

Next == Tick \/ Release \/ Clear \/ Meddle \/ \E p \in Procs : Step(p)

Spec == Init /\ [][Next]_vars

-----------------------------------------------------------------------------
(* registry/cache.rs:152, "Within TTL with cache present: returns cached": *)
(* the time beside the index is never later than the moment at which the   *)
(* registry last served that index, whatever is killed between the two     *)
(* writes, as long as no two fetches overlap: so no index within its time  *)
(* is older than it says.                                                  *)
TimeIsTheIndexs ==
    apart /\ index # None /\ fetched # 0 => index = remote \/ fetched <= since

(* A folder with another's below it is not empty when the other is fetched *)
(* (run.rs:56; refs with slashes).                                         *)
Alone(path) == \A r \in Resolved : ~IsStrictPrefix(path, cache_path(r))

(* transport.rs:3, "Partial writes leave NO `<dest>/` directory": what is  *)
(* shown or run is the whole tree fetched for that owner, name and ref,    *)
(* whatever version the index has meanwhile and wherever another fetch of  *)
(* it was killed.  Not so of a folder that is not alone, which a killed    *)
(* fetch's temporary tree fills too; nor once a person has been at it, for *)
(* then what was left there is served, half made as it may be.             *)
ServedIsResolved ==
    \A p \in Procs : At(p, "serve") =>
      LET path == cache_path(proc[p].want) IN
        Alone(path) /\ path \notin meddled =>
            path \in DOMAIN folders /\ folders[path] = proc[p].want

(* Both: what the cache says of itself, and what it hands out.              *)
CacheIsAsItSays == TimeIsTheIndexs /\ ServedIsResolved
=============================================================================
