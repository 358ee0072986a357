----------------------------- MODULE FetchCache -----------------------------
(***************************************************************************)
(* http_fetch (src/src/operator.rs) over the shared cache of downloads     *)
(* (src/src/fetch_cache.rs), the sidecar beside each artifact              *)
(* (src/src/ingress_meta.rs) and the `fresh` gate before the step          *)
(* (src/src/precondition.rs).  Folders are run by separate processes that  *)
(* share the cache with no lock; one run at a time works in a folder.      *)
(*                                                                         *)
(* A digest is the body it is of.  An origin goes through its bodies in    *)
(* order and never back, and its validators are honest: an ETag names one  *)
(* body of one URL, a Last-Modified is a time that grows with the body.    *)
(***************************************************************************)
EXTENDS Naturals, Sequences, Functions

CONSTANTS Folders, Urls, Bodies, Pin, Damaged, Absent,  \* as in FetchSpec
          Hops,       \* Hops[u]: what each hop of u's chain offers, a sequence
                      \* of subsets of {"etag", "modified", "digest"}
          Stamp,      \* Stamp[u][v]: the Last-Modified of u's v-th body
          Gated,      \* the folders whose step has a `fresh` precondition
          Cached,     \* the folders that use the cache (no credential, not off)
          Damageable, \* the folders whose artifact a person may damage
          Repointed,  \* the folders whose manifest may be given another URL
          Moves,      \* the edits of a URL: pairs of the old and the new one
          MaxFaults   \* bound: damage, kills, refused requests, edits of a URL

ASSUME FetchAssumption ==
    /\ Absent # Damaged
    /\ \A u \in Urls :
         /\ Bodies[u] \in Seq(Range(Bodies[u])) /\ Bodies[u] # << >>
         /\ IsInjective(Bodies[u])
         /\ {Damaged, Absent} \cap Range(Bodies[u]) = {}
         /\ Hops[u] \in Seq(SUBSET {"etag", "modified", "digest"})
         /\ Len(Hops[u]) \in 1..6
         /\ \A v \in DOMAIN Bodies[u] : Stamp[u][v] \in Nat
         /\ \A v, w \in DOMAIN Bodies[u] : v < w => Stamp[u][v] < Stamp[u][w]
         /\ \A v \in DOMAIN Bodies[u] :
              /\ Absent # Stamp[u][v]
              /\ \A h \in DOMAIN Hops[u] : Absent # <<u, h, v>>
    /\ \A f \in Folders : Pin[f] = Absent \/ \E u \in Urls : Pin[f] \in Range(Bodies[u])
    /\ MaxFaults \in Nat

\* Some hop of u's chain answers with a Last-Modified.
ByTime(u) == \E h \in DOMAIN Hops[u] : "modified" \in Hops[u][h]

(* Where fetch_cache.rs:26 is kept.  Damage is met by a gate, which looks  *)
(* at one URL for good.  A manifest never goes back to a URL it had, and   *)
(* none it comes to name takes an earlier one's record for its own: no     *)
(* times on both sides, and no digest declared of bytes both may serve.  A *)
(* pin is no later body of a URL that declares digests.  Outside each of   *)
(* these a fetch that succeeds may leave other bytes, as the README tells. *)
ASSUME FetchScope ==
    /\ Damageable \subseteq Gated /\ Repointed \cap Gated = {}
    /\ \A u, v, w \in Urls : <<u, v>> \in Moves /\ <<v, w>> \in Moves => <<u, w>> \in Moves
    /\ \A u, v \in Urls :
         <<u, v>> \in Moves =>
           u # v /\ ~(ByTime(u) /\ ByTime(v)) /\ "digest" \notin Hops[v][1]
    /\ \A f \in Folders, u \in Urls :
         "digest" \in Hops[u][1] =>
           \A w \in DOMAIN Bodies[u] : Pin[f] = Bodies[u][w] => w = 1

VARIABLES ver, url,     \* the origins, and the URL each step names
          out, side,    \* the artifact and its .arcmeta in each folder
          objs, loc,    \* the cache: objects by digest, locators by URL
          row,          \* the URL of the step's last success, as the state
                        \* backend has it in the step's config hash
          pc,           \* each run's place in its fetch
          prior, entry, \* the sidecar and the locator it works from
          ident, hop,   \* what the chain has said of the artifact, and where
          bytes,        \* what is in its .part file
          record,       \* the sidecar it is to write, or file
          then,         \* where it goes on after a lookup, an eviction or a
                        \* sidecar
          may, told,    \* ghosts, as in FetchSpec
          faults

origin == <<ver, url>>
folder == <<out, side>>
store  == <<objs, loc>>
locals == <<prior, entry, ident, hop, bytes, record, then>>
ghosts == <<may, told>>
vars   == <<origin, folder, store, row, pc, locals, ghosts, faults>>

F == INSTANCE FetchSpec

Bytes == F!Bytes
Serves(u) == F!Serves(u)

None == Absent  \* an Option without a value

(***************************************************************************)
(* What an origin says.                                                    *)
(***************************************************************************)
ETag(u, h) == <<u, h, ver[u]>>

Identity(u, h) ==
    [etag     |-> IF "etag" \in Hops[u][h] THEN ETag(u, h) ELSE None,
     modified |-> IF "modified" \in Hops[u][h] THEN Stamp[u][ver[u]] ELSE None,
     digest   |-> IF "digest" \in Hops[u][h] THEN Serves(u) ELSE None]

Silent == [etag |-> None, modified |-> None, digest |-> None]

(* A hop answers 304 to the validators of m: by its ETag where one is sent *)
(* that it understands, else by time.                                      *)
Confirms(u, h, m) ==
    \/ "etag" \in Hops[u][h] /\ m.etag = ETag(u, h)
    \/ /\ "modified" \in Hops[u][h] /\ m.modified # None
       /\ m.etag = None \/ "etag" \notin Hops[u][h]
       /\ Stamp[u][ver[u]] <= m.modified

Meta(u, i, digest) == [url |-> u, etag |-> i.etag, modified |-> i.modified,
                       declared |-> i.digest, sha |-> digest]

Adopt(u, m) == [m EXCEPT !.url = u]

(* The sidecar of a pinned artifact that was not transferred.              *)
PinnedMeta(f, m) ==
    IF m # None /\ m.sha = Pin[f] THEN Adopt(url[f], m)
    ELSE Meta(url[f], Silent, Pin[f])

Holds(u) == loc[u] # None

Verified(k) == k # None /\ objs[k] = k

Known(f) == IF prior[f] # None THEN prior[f] ELSE entry[f]

Init ==
    /\ ver = [u \in Urls |-> 1]
    /\ url \in [Folders -> Urls]
    /\ out = [f \in Folders |-> Absent] /\ side = [f \in Folders |-> None]
    /\ objs = [k \in F!Contents |-> Absent] /\ loc = [u \in Urls |-> None]
    /\ row = [f \in Folders |-> None]
    /\ pc = [f \in Folders |-> "idle"]
    /\ prior = [f \in Folders |-> None] /\ entry = [f \in Folders |-> None]
    /\ ident = [f \in Folders |-> Silent] /\ hop = [f \in Folders |-> 1]
    /\ bytes = [f \in Folders |-> Absent]
    /\ record = [f \in Folders |-> None]
    /\ then = [f \in Folders |-> "ask"]
    /\ may = [f \in Folders |-> {}] /\ told = [f \in Folders |-> "nothing"]
    /\ faults = 0

(***************************************************************************)
(* Moves between the places of a fetch.                                    *)
(***************************************************************************)
At(f, place) == pc[f] = place

Go(f, place) == pc' = [pc EXCEPT ![f] = place]

Forget(f) ==
    /\ prior' = [prior EXCEPT ![f] = None] /\ entry' = [entry EXCEPT ![f] = None]
    /\ ident' = [ident EXCEPT ![f] = Silent] /\ hop' = [hop EXCEPT ![f] = 1]
    /\ bytes' = [bytes EXCEPT ![f] = Absent]
    /\ record' = [record EXCEPT ![f] = None]
    /\ then' = [then EXCEPT ![f] = "ask"]

(* The step's outcome, and the row the runner writes for it.               *)
End(f, outcome) ==
    /\ Go(f, "idle") /\ Forget(f)
    /\ may' = [may EXCEPT ![f] = {}]
    /\ told' = [told EXCEPT ![f] = outcome]
    /\ row' = [row EXCEPT ![f] = IF outcome = "ok" THEN url[f] ELSE None]

Succeed(f) == End(f, "ok") /\ UNCHANGED <<origin, folder, store, faults>>

Fail(f) == End(f, "failed") /\ UNCHANGED <<origin, folder, store, faults>>

(* A local step: nothing shared changes, and the run goes on.              *)
Private == UNCHANGED <<origin, folder, store, row, ghosts, faults>>

Begin(f) ==
    /\ At(f, "idle")
    /\ Go(f, IF f \in Gated THEN "gate" ELSE "read")
    /\ may' = [may EXCEPT ![f] = F!Asked(f)]
    /\ told' = [told EXCEPT ![f] = "nothing"]
    /\ UNCHANGED <<origin, folder, store, row, locals, faults>>

(***************************************************************************)
(* The `fresh` gate: the bytes against the sidecar's hash, then a HEAD     *)
(* request to the URL the sidecar names, whose redirects ureq follows.  A  *)
(* probe that gets no answer leaves the step stale.                        *)
(***************************************************************************)
ProbeSaysFresh(m) ==
    LET last == Identity(m.url, Len(Hops[m.url]))
    IN  \/ \E h \in DOMAIN Hops[m.url] : Confirms(m.url, h, m)
        \/ m.etag # None /\ m.etag = last.etag
        \/ m.modified # None /\ m.modified = last.modified

Discard(f) == side' = [side EXCEPT ![f] = None]

Intact(f) == out[f] # Absent /\ side[f] # None /\ side[f].sha = out[f]

GateLocal(f) ==
    /\ At(f, "gate") /\ ~Intact(f)
    /\ IF out[f] # Absent /\ side[f] # None THEN Discard(f) ELSE UNCHANGED side
    /\ Go(f, "read")
    /\ UNCHANGED <<origin, out, store, row, locals, ghosts, faults>>

GateProbe(f) ==
    /\ At(f, "gate") /\ Intact(f)
    /\ \/ ProbeSaysFresh(side[f]) /\ row[f] = url[f] /\ Succeed(f)
       \/ Go(f, "read") /\ Private /\ UNCHANGED locals

(***************************************************************************)
(* HttpFetch::run, up to the request.                                      *)
(***************************************************************************)
(* Its own copy is kept: the cache is seeded from it if it has no entry.   *)
Keep(f, m) ==
    IF f \in Cached /\ ~Holds(url[f])
    THEN /\ record' = [record EXCEPT ![f] = m] /\ Go(f, "store")
         /\ UNCHANGED <<row, ghosts, prior, entry, ident, hop, bytes, then>>
    ELSE End(f, "ok")

Read(f) ==
    LET own == IF out[f] = Absent THEN None ELSE side[f]
    IN  /\ At(f, "read")
        /\ IF Pin[f] # Absent /\ out[f] = Pin[f]
           THEN Keep(f, PinnedMeta(f, own))
           ELSE /\ prior' = [prior EXCEPT ![f] = own]
                /\ then' = [then EXCEPT ![f] = IF Pin[f] # Absent THEN "pinned" ELSE "ask"]
                /\ Go(f, IF f \in Cached /\ (Pin[f] # Absent \/ own = None)
                         THEN "lookup" ELSE "ask")
                /\ UNCHANGED <<row, ghosts, entry, ident, hop, bytes, record>>
        /\ UNCHANGED <<origin, folder, store, faults>>

Lookup(f) ==
    /\ At(f, "lookup")
    /\ entry' = [entry EXCEPT ![f] = loc[url[f]]]
    /\ Go(f, IF loc[url[f]] = None THEN then[f] ELSE "verify")
    /\ Private /\ UNCHANGED <<prior, ident, hop, bytes, record, then>>

Verify(f) ==
    /\ At(f, "verify")
    /\ Go(f, IF Verified(entry[f].sha) THEN then[f] ELSE "unlocate")
    /\ Private /\ UNCHANGED locals

(* evict: the URL's locator, then the object it named, even when another   *)
(* URL names it too.                                                       *)
Unlocate(f) ==
    /\ At(f, "unlocate")
    /\ loc' = [loc EXCEPT ![url[f]] = None]
    /\ Go(f, "unlink")
    /\ UNCHANGED <<origin, folder, objs, row, locals, ghosts, faults>>

Unlink(f) ==
    /\ At(f, "unlink")
    /\ IF then[f] = "failed"
       THEN /\ objs' = [objs EXCEPT ![record[f].sha] = Absent]
            /\ End(f, "failed")
       ELSE /\ objs' = [objs EXCEPT ![entry[f].sha] = Absent]
            /\ entry' = [entry EXCEPT ![f] = None]
            /\ Go(f, then[f])
            /\ UNCHANGED <<row, ghosts, prior, ident, hop, bytes, record, then>>
    /\ UNCHANGED <<origin, folder, loc, faults>>

(* A pinned run takes the URL's entry, or the object by its digest; with   *)
(* neither it goes on as an unpinned one.                                  *)
Pinned(f) ==
    /\ At(f, "pinned")
    /\ IF (entry[f] # None /\ entry[f].sha = Pin[f]) \/ Verified(Pin[f])
       THEN /\ record' = [record EXCEPT ![f] = PinnedMeta(f, entry[f])]
            /\ Go(f, "copy") /\ UNCHANGED <<entry, then>>
       ELSE /\ entry' = [entry EXCEPT ![f] = None]
            /\ then' = [then EXCEPT ![f] = "ask"]
            /\ Go(f, IF prior[f] = None THEN "lookup" ELSE "ask")
            /\ UNCHANGED record
    /\ Private /\ UNCHANGED <<prior, ident, hop, bytes>>

(***************************************************************************)
(* The request, one hop at a time.                                         *)
(***************************************************************************)
KeepOrMaterialise(f) ==
    IF prior[f] # None THEN Keep(f, Adopt(url[f], prior[f]))
    ELSE IF f \in Cached /\ entry[f] # None
    THEN /\ record' = [record EXCEPT ![f] = Adopt(url[f], entry[f])]
         /\ Go(f, "copy")
         /\ UNCHANGED <<row, ghosts, prior, entry, ident, hop, bytes, then>>
    ELSE End(f, "ok")

NotModified(f) ==
    /\ At(f, "ask") /\ Known(f) # None /\ Confirms(url[f], hop[f], Known(f))
    /\ KeepOrMaterialise(f)
    /\ UNCHANGED <<origin, folder, store, faults>>

Declares(f) == Identity(url[f], 1).digest

HoldsDeclared(f) ==
    hop[f] = 1 /\ Declares(f) # None /\ Known(f) # None /\ Known(f).sha = Declares(f)

Declared(f) ==
    /\ At(f, "ask") /\ HoldsDeclared(f)
    /\ side' = IF prior[f] = None THEN side
               ELSE [side EXCEPT ![f] = [prior[f] EXCEPT !.declared = Declares(f)]]
    /\ KeepOrMaterialise(f)
    /\ UNCHANGED <<origin, out, store, faults>>

Answered(f) ==
    At(f, "ask") /\ ~HoldsDeclared(f)
    /\ ~(Known(f) # None /\ Confirms(url[f], hop[f], Known(f)))

(* The first hop's word is kept, or the last one's where it said nothing.  *)
Said(f) == IF hop[f] = 1 THEN Identity(url[f], 1) ELSE ident[f]

Redirected(f) ==
    /\ Answered(f) /\ hop[f] < Len(Hops[url[f]])
    /\ ident' = [ident EXCEPT ![f] = Said(f)]
    /\ hop' = [hop EXCEPT ![f] = @ + 1]
    /\ Private /\ UNCHANGED <<pc, prior, entry, bytes, record, then>>

IdentityOf(f) ==
    IF Said(f) = Silent THEN Identity(url[f], hop[f]) ELSE Said(f)

Downloaded(f) ==
    /\ Answered(f) /\ hop[f] = Len(Hops[url[f]])
    /\ IF Pin[f] \notin {Absent, Serves(url[f])}
       THEN End(f, "failed")
       ELSE /\ bytes' = [bytes EXCEPT ![f] = Serves(url[f])]
            /\ record' = [record EXCEPT ![f] =
                             Meta(url[f], IdentityOf(f), Serves(url[f]))]
            /\ then' = [then EXCEPT ![f] = "store"]
            /\ Go(f, "rename")
            /\ UNCHANGED <<row, ghosts, prior, entry, ident, hop>>
    /\ UNCHANGED <<origin, folder, store, faults>>

(***************************************************************************)
(* The bytes come from the cache, or from the transfer, to the folder.     *)
(***************************************************************************)
\* Mutant of Survives: the copy is not hashed again.
SurvivesUnread(k) == TRUE

Survives(k) == objs[k] = k

Copy(f) ==
    LET k == record[f].sha
    IN  /\ At(f, "copy")
        /\ \/ objs[k] = Absent /\ Fail(f)
           \/ /\ objs[k] # Absent
              /\ IF Survives(k)
                 THEN /\ bytes' = [bytes EXCEPT ![f] = objs[k]]
                      /\ then' = [then EXCEPT ![f] = "done"]
                      /\ Go(f, "rename")
                 ELSE /\ then' = [then EXCEPT ![f] = "failed"]
                      /\ Go(f, "unlocate") /\ UNCHANGED bytes
              /\ Private /\ UNCHANGED <<prior, entry, ident, hop, record>>

Rename(f) ==
    /\ At(f, "rename")
    /\ out' = [out EXCEPT ![f] = bytes[f]]
    /\ Go(f, "sidecar")
    /\ UNCHANGED <<origin, side, store, row, locals, ghosts, faults>>

\* Mutant of Described: the origin is asked for its identity after the transfer.
DescribedLater(f) == [record[f] EXCEPT !.etag = Identity(url[f], 1).etag]

Described(f) == record[f]

(* The sidecar is written in place, and a failure to write it is dropped.  *)
Sidecar(f) ==
    /\ At(f, "sidecar")
    /\ \/ side' = [side EXCEPT ![f] = Described(f)] /\ UNCHANGED faults
       \/ faults < MaxFaults /\ faults' = faults + 1 /\ UNCHANGED side
    /\ IF then[f] = "store" /\ f \in Cached
       THEN Go(f, "store") /\ UNCHANGED <<row, ghosts, locals>>
       ELSE End(f, "ok")
    /\ UNCHANGED <<origin, out, store>>

(***************************************************************************)
(* FetchCache::store: the artifact is hashed, copied in if the object is   *)
(* not there, and the locator rewritten.  Every error is dropped.          *)
(***************************************************************************)
Fits(f) == record[f].sha # None /\ out[f] = record[f].sha

Store(f) ==
    /\ At(f, "store")
    /\ IF ~Fits(f) THEN Succeed(f)
       ELSE /\ Go(f, IF objs[record[f].sha] = Absent THEN "file" ELSE "locate")
            /\ Private /\ UNCHANGED locals

File(f) ==
    /\ At(f, "file")
    /\ objs' = [objs EXCEPT ![record[f].sha] = out[f]]
    /\ Go(f, "locate")
    /\ UNCHANGED <<origin, folder, loc, row, locals, ghosts, faults>>

Locate(f) ==
    /\ At(f, "locate")
    /\ loc' = [loc EXCEPT ![record[f].url] = record[f]]
    /\ End(f, "ok")
    /\ UNCHANGED <<origin, folder, objs, faults>>

(***************************************************************************)
(* What goes wrong, and what others do.                                    *)
(***************************************************************************)
Fault == faults < MaxFaults /\ faults' = faults + 1

(* A kill; one while the sidecar is written leaves it unreadable, or cut   *)
(* off before its hash.                                                    *)
Kill(f) ==
    /\ Fault /\ ~At(f, "idle")
    /\ Go(f, "idle") /\ Forget(f)
    /\ may' = [may EXCEPT ![f] = {}]
    /\ told' = [told EXCEPT ![f] = "failed"]
    /\ \/ UNCHANGED side
       \/ /\ At(f, "sidecar")
          /\ \E m \in {None, [record[f] EXCEPT !.sha = None, !.declared = None]} :
               side' = [side EXCEPT ![f] = m]
    /\ UNCHANGED <<origin, out, store, row>>

(* A request or a write to the cache fails.                                *)
Refused(f) ==
    /\ Fault
    /\ \/ At(f, "ask") /\ End(f, "failed")
       \/ pc[f] \in {"file", "locate"} /\ End(f, "ok")
    /\ UNCHANGED <<origin, folder, store>>

Publish(u) ==
    /\ ver[u] < Len(Bodies[u])
    /\ ver' = [ver EXCEPT ![u] = @ + 1]
    /\ may' = [f \in Folders |->
                 IF may[f] # {} /\ url[f] = u
                 THEN may[f] \cup {Serves(u)'} ELSE may[f]]
    /\ UNCHANGED <<url, folder, store, row, pc, locals, told, faults>>

DamageObject(k) ==
    /\ Fault /\ objs[k] = k
    /\ objs' = [objs EXCEPT ![k] = Damaged]
    /\ UNCHANGED <<origin, folder, loc, row, pc, locals, ghosts>>

Disturb(f) ==
    /\ Fault /\ At(f, "idle") /\ out[f] # Absent
    /\ \E b \in {Absent} \cup (IF f \in Damageable THEN {Damaged} ELSE {}) :
         out' = [out EXCEPT ![f] = b]
    /\ UNCHANGED <<origin, side, store, row, pc, locals, ghosts>>

Repoint(f) ==
    /\ Fault /\ At(f, "idle") /\ f \in Repointed
    /\ \E u \in Urls : <<url[f], u>> \in Moves /\ url' = [url EXCEPT ![f] = u]
    /\ UNCHANGED <<ver, folder, store, row, pc, locals, ghosts>>

Fetch(f) ==
    \/ Begin(f) \/ GateLocal(f) \/ GateProbe(f) \/ Read(f)
    \/ Lookup(f) \/ Verify(f) \/ Unlocate(f) \/ Unlink(f) \/ Pinned(f)
    \/ NotModified(f) \/ Declared(f) \/ Redirected(f) \/ Downloaded(f)
    \/ Copy(f) \/ Rename(f) \/ Sidecar(f) \/ Store(f) \/ File(f) \/ Locate(f)

Others ==
    \/ \E f \in Folders : Kill(f) \/ Refused(f) \/ Disturb(f) \/ Repoint(f)
    \/ \E u \in Urls : Publish(u)
    \/ \E k \in F!Contents : DamageObject(k)

Next == (\E f \in Folders : Fetch(f)) \/ Others

Spec == Init /\ [][Next]_vars

-----------------------------------------------------------------------------
(* Values of the right shape.                                              *)
Places == {"idle", "gate", "read", "lookup", "verify", "unlocate", "unlink",
           "pinned", "ask", "copy", "rename", "sidecar", "store", "file", "locate"}

Metas ==
    [url      : Urls,
     etag     : (Urls \X Nat \X Nat) \cup {None},
     modified : Nat \cup {None},
     declared : F!Contents \cup {None},
     sha      : F!Contents \cup {None}]

Identities ==
    [etag     : (Urls \X Nat \X Nat) \cup {None},
     modified : Nat \cup {None},
     digest   : F!Contents \cup {None}]

MaybeMeta == Metas \cup {None}

TypeOK ==
    /\ ver \in [Urls -> Nat] /\ \A u \in Urls : ver[u] \in DOMAIN Bodies[u]
    /\ url \in [Folders -> Urls] /\ row \in [Folders -> Urls \cup {None}]
    /\ out \in [Folders -> Bytes \cup {Absent}]
    /\ bytes \in [Folders -> Bytes \cup {Absent}]
    /\ objs \in [F!Contents -> Bytes \cup {Absent}]
    /\ \A k \in F!Contents : objs[k] \in {k, Damaged, Absent}
    /\ loc \in [Urls -> MaybeMeta]
    /\ side \in [Folders -> MaybeMeta] /\ prior \in [Folders -> MaybeMeta]
    /\ entry \in [Folders -> MaybeMeta] /\ record \in [Folders -> MaybeMeta]
    /\ pc \in [Folders -> Places]
    /\ then \in [Folders -> {"ask", "pinned", "store", "done", "failed"}]
    /\ hop \in [Folders -> Nat] /\ \A f \in Folders : hop[f] \in DOMAIN Hops[url[f]]
    /\ may \in [Folders -> SUBSET F!Contents]
    /\ told \in [Folders -> {"nothing", "ok", "failed"}]
    /\ ident \in [Folders -> Identities]
    /\ \A f \in Folders : pc[f] = "idle" <=> may[f] = {}
    /\ faults \in 0..MaxFaults

(* fetch_cache.rs:26, "a cached run and an uncached run produce the same   *)
(* result": whatever the cache, the sidecars, the gate and the other runs  *)
(* do, a fetch that succeeds leaves bytes its URL served during that very  *)
(* fetch, or the bytes it pinned.                                          *)
CachedAsUncached == F!Spec

(* operator.rs:3651, "what a Protocol can seed is bounded by what it       *)
(* fetched": no locator is one its origin would confirm with a 304 while   *)
(* it serves other bytes.  Records reach the cache with validators from    *)
(* transfers, from sidecars and from other entries; a pinned run may even  *)
(* file its pin under a URL that never served it.                          *)
ConfirmedMeansServed ==
    \A u \in Urls :
      loc[u] # None /\ (\E h \in DOMAIN Hops[u] : Confirms(u, h, loc[u])) =>
        loc[u].sha = Serves(u)

(* The ETag of a sidecar is never newer than the artifact it fits: it      *)
(* is taken from the first hop, the bytes from the last one, later, and a  *)
(* sidecar that was ahead would be answered 304 over old bytes for ever.   *)
SidecarNotAhead ==
    \A f \in Folders :
      Intact(f) /\ side[f].etag # None =>
        LET u == side[f].etag[1]
        IN  \A v \in DOMAIN Bodies[u] : out[f] = Bodies[u][v] => side[f].etag[3] <= v

(* Neither record of a URL's bytes is ahead of them.                       *)
RecordsAreNotAhead == TypeOK /\ ConfirmedMeansServed /\ SidecarNotAhead
=============================================================================
