-------------------------- MODULE FetchCacheProofs --------------------------
(***************************************************************************)
(* Theorems about module FetchCache, for any folders, origins, pins and    *)
(* number of faults: no record is ahead of its bytes, and a cached fetch   *)
(* is an uncached one, FetchSpec's.                                        *)
(***************************************************************************)
EXTENDS FetchCache, SequenceTheorems, TLAPS

-----------------------------------------------------------------------------
(* The invariant. *)

(* What u, serving its w-th body, could take for a record of that body: an *)
(* ETag, a time, or the digest its first hop declares.                     *)
Vouches(u, w, m) ==
    \/ \E h \in DOMAIN Hops[u] : m.etag = <<u, h, w>>
    \/ ByTime(u) /\ m.modified # None /\ Stamp[u][w] <= m.modified
    \/ "digest" \in Hops[u][1] /\ m.sha = Bodies[u][w]

(* The record's validator is no newer than its bytes.                      *)
NotAhead(m) ==
    m.etag # None =>
      \A v \in DOMAIN Bodies[m.etag[1]] : m.sha = Bodies[m.etag[1]][v] => m.etag[3] <= v

(* A record that may stand under u while it serves its n-th body: u will   *)
(* vouch for it over no body to come, no URL the step may be given instead *)
(* will ever vouch for it, and u vouches for it now only over the bytes it *)
(* is of.                                                                  *)
Settled(n, u, m) == \A w \in DOMAIN Bodies[u] : w > n => ~Vouches(u, w, m)

Portable(u, m) ==
    \A v \in Urls : <<u, v>> \in Moves => \A w \in DOMAIN Bodies[v] : ~Vouches(v, w, m)

Honest(n, u, m) == Vouches(u, n, m) => m.sha \in {None, Bodies[u][n]}

Sound(n, u, m) ==
    Settled(n, u, m) /\ Portable(u, m) /\ Honest(n, u, m) /\ NotAhead(m)

(* Bytes that may stand beside a sidecar: u confirms it only while it      *)
(* serves them.                                                            *)
Beside(n, u, m, b) == m # None => (Vouches(u, n, m) => b = Bodies[u][n])

LocatorsAreSound ==
    \A u \in Urls : loc[u] # None => loc[u].sha # None /\ Sound(ver[u], u, loc[u])

Fresh(f, b) == b = Pin[f] \/ Beside(ver[url[f]], url[f], side[f], b)

\* Before the gate has looked, the artifact may be damaged.
Unchecked(f) == pc[f] \in {"idle", "gate"} /\ out[f] = Damaged

FolderIsSound(f) ==
    /\ f \notin Gated => out[f] # Damaged
    /\ side[f] # None =>
         Sound(ver[url[f]], url[f], side[f]) /\ (f \in Gated => side[f].url = url[f])
    /\ out[f] # Absent /\ ~Unchecked(f) => Fresh(f, out[f])

MayIsServed(f) == may[f] # {} => F!Asked(f) \subseteq may[f]

(* What a run knows is its folder's, or the cache's as it was sound.       *)
Reading == {"lookup", "verify", "unlocate", "unlink", "pinned", "ask", "copy"}

KnowsSound(f) ==
    /\ pc[f] = "gate" => f \in Gated
    /\ pc[f] \in {"idle", "gate", "read"} => prior[f] = None /\ entry[f] = None /\ hop[f] = 1
    /\ pc[f] \in Reading =>
         /\ prior[f] # None => prior[f] = side[f] /\ out[f] # Absent
         /\ entry[f] # None =>
              f \in Cached /\ entry[f].sha # None /\ Sound(ver[url[f]], url[f], entry[f])
    /\ pc[f] \in Reading \ {"ask"} => f \in Cached
    /\ pc[f] \in {"lookup", "verify"} => then[f] \in {"ask", "pinned"}
    /\ pc[f] \in {"unlocate", "unlink"} => then[f] \in {"ask", "pinned", "failed"}

IdentityAt(u, h, v) ==
    [etag     |-> IF "etag" \in Hops[u][h] THEN <<u, h, v>> ELSE None,
     modified |-> IF "modified" \in Hops[u][h] THEN Stamp[u][v] ELSE None,
     digest   |-> IF "digest" \in Hops[u][h] THEN Bodies[u][v] ELSE None]

HeardEarlier(f) ==
    hop[f] # 1 =>
      \E v \in DOMAIN Bodies[url[f]] :
        v <= ver[url[f]] /\ ident[f] = IdentityAt(url[f], 1, v)

(* What a run is to write is sound, and of bytes it may leave.             *)
Writing == {"copy", "rename", "sidecar", "store", "file", "locate"}

WritesSound(f) ==
    /\ pc[f] \in Writing =>
         record[f] \in Metas /\ record[f].url = url[f] /\ Sound(ver[url[f]], url[f], record[f])
    /\ pc[f] \in {"copy", "rename"} =>
         record[f].sha \in may[f] /\ Fresh(f, record[f].sha)
    /\ pc[f] = "rename" => bytes[f] = record[f].sha
    /\ pc[f] \in {"sidecar", "file", "locate"} => record[f].sha = out[f]
    /\ pc[f] \in {"sidecar", "store", "file", "locate"} => out[f] \in may[f]

RunIsSound(f) ==
    FolderIsSound(f) /\ MayIsServed(f) /\ KnowsSound(f) /\ HeardEarlier(f) /\ WritesSound(f)

FetchInv == TypeOK /\ LocatorsAreSound /\ \A f \in Folders : RunIsSound(f)

-----------------------------------------------------------------------------
(* Origins, and the records made from what they say. *)

LEMMA OriginFacts ==
    ASSUME NEW u \in Urls
    PROVE  /\ DOMAIN Bodies[u] = 1..Len(Bodies[u]) /\ Len(Bodies[u]) \in Nat \ {0}
           /\ DOMAIN Hops[u] = 1..Len(Hops[u]) /\ Len(Hops[u]) \in Nat \ {0}
           /\ 1 \in DOMAIN Hops[u] /\ 1 \in DOMAIN Bodies[u]
           /\ \A v \in DOMAIN Bodies[u] :
                /\ Bodies[u][v] \in F!Contents
                /\ Bodies[u][v] \notin {Damaged, Absent}
                /\ Stamp[u][v] \in Nat
           /\ \A v, w \in DOMAIN Bodies[u] : Bodies[u][v] = Bodies[u][w] => v = w
<1>1. DOMAIN Bodies[u] = 1..Len(Bodies[u]) /\ Len(Bodies[u]) \in Nat \ {0}
  <2>1. Bodies[u] \in Seq(Range(Bodies[u])) /\ Bodies[u] # << >>
    BY FetchAssumption
  <2>2. Len(Bodies[u]) \in Nat \ {0}
    BY <2>1, EmptySeq
  <2>3. DOMAIN Bodies[u] = 1..Len(Bodies[u])
    BY <2>1, LenProperties
  <2> QED BY <2>2, <2>3
<1>2. DOMAIN Hops[u] = 1..Len(Hops[u]) /\ Len(Hops[u]) \in Nat \ {0}
  <2>1. Hops[u] \in Seq(SUBSET {"etag", "modified", "digest"}) /\ Len(Hops[u]) \in 1..6
    BY FetchAssumption
  <2> QED BY <2>1, LenProperties
<1>3. ASSUME NEW v \in DOMAIN Bodies[u]
      PROVE  /\ Bodies[u][v] \in Range(Bodies[u])
             /\ Bodies[u][v] \in F!Contents
             /\ Stamp[u][v] \in Nat
  <2>1. Bodies[u][v] \in Range(Bodies[u]) /\ Range(Bodies[u]) = F!Range(Bodies[u])
    BY DEF F!Range, Range
  <2>2. Stamp[u][v] \in Nat
    BY FetchAssumption
  <2> QED BY <2>1, <2>2 DEF F!Contents
<1>4. \A v, w \in DOMAIN Bodies[u] : Bodies[u][v] = Bodies[u][w] => v = w
  <2>1. IsInjective(Bodies[u])
    BY FetchAssumption
  <2> QED BY <2>1 DEF IsInjective
<1>5. ASSUME NEW v \in DOMAIN Bodies[u] PROVE Bodies[u][v] \notin {Damaged, Absent}
  <2>1. {Damaged, Absent} \cap Range(Bodies[u]) = {}
    BY FetchAssumption
  <2> QED BY <1>3, <2>1
<1> QED
  BY <1>1, <1>2, <1>3, <1>4, <1>5

LEMMA ContentFacts ==
    /\ Damaged \notin F!Contents /\ Absent \notin F!Contents
    /\ Absent # Damaged
    /\ \A f \in Folders : Pin[f] # Absent => Pin[f] \in F!Contents
<1>1. ASSUME NEW k \in F!Contents PROVE k \notin {Damaged, Absent}
  <2>1. PICK u \in Urls : k \in Range(Bodies[u])
    BY DEF F!Contents, F!Range, Range
  <2>2. {Damaged, Absent} \cap Range(Bodies[u]) = {}
    BY FetchAssumption
  <2> QED BY <2>1, <2>2
<1>2. ASSUME NEW f \in Folders, Pin[f] # Absent PROVE Pin[f] \in F!Contents
  <2>1. PICK u \in Urls : Pin[f] \in Range(Bodies[u])
    BY <1>2, FetchAssumption
  <2> QED BY <2>1 DEF F!Contents, F!Range, Range
<1> QED
  BY <1>1, <1>2, FetchAssumption

LEMMA AdoptFacts ==
    ASSUME NEW u \in Urls, NEW m \in Metas
    PROVE  /\ Adopt(u, m) \in Metas /\ Adopt(u, m).url = u
           /\ Adopt(u, m).etag = m.etag /\ Adopt(u, m).modified = m.modified
           /\ Adopt(u, m).sha = m.sha
BY DEF Adopt, Metas

(* Two records that differ in their URL or what was declared are sound     *)
(* together.                                                               *)
LEMMA SameValidators ==
    ASSUME NEW n, NEW u, NEW m, NEW k,
           k.etag = m.etag, k.modified = m.modified, k.sha = m.sha, Sound(n, u, m)
    PROVE  Sound(n, u, k)
<1>1. ASSUME NEW v, NEW w PROVE Vouches(v, w, k) <=> Vouches(v, w, m)
  BY DEF Vouches
<1>2. NotAhead(k)
  BY DEF Sound, NotAhead
<1> QED
  BY <1>1, <1>2 DEF Sound, Settled, Portable, Honest

(* A record a kill cut off before its hash is confirmed over no more.      *)
CutOff(m) == [m EXCEPT !.sha = None, !.declared = None]

LEMMA CutIsSound ==
    ASSUME NEW u \in Urls, NEW n \in DOMAIN Bodies[u], NEW m \in Metas, Sound(n, u, m)
    PROVE  /\ CutOff(m) \in Metas /\ CutOff(m).url = m.url
           /\ Sound(n, u, CutOff(m))
           /\ Vouches(u, n, CutOff(m)) => Vouches(u, n, m)
<1> DEFINE k == CutOff(m)
<1>1. k \in Metas /\ k.etag = m.etag /\ k.modified = m.modified /\ k.sha = None /\ k.url = m.url
  BY DEF CutOff, Metas
<1> HIDE DEF k
<1>2. ASSUME NEW v \in Urls, NEW w \in DOMAIN Bodies[v], Vouches(v, w, k)
      PROVE  Vouches(v, w, m)
  BY <1>1, <1>2, OriginFacts DEF Vouches, None
<1>3. NotAhead(k)
  <2>1. ASSUME k.etag # None PROVE k.etag[1] \in Urls
    BY <1>1, <2>1 DEF Metas
  <2> QED BY <1>1, <2>1, OriginFacts DEF NotAhead, None
<1>4. Honest(n, u, k)
  BY <1>1 DEF Honest
<1> QED
  BY <1>1, <1>2, <1>3, <1>4 DEF Sound, Settled, Portable, k

(* A record stays sound while its origin goes on.                          *)
LEMMA SoundLater ==
    ASSUME NEW u \in Urls, NEW n \in DOMAIN Bodies[u], NEW k \in DOMAIN Bodies[u], n <= k,
           NEW m, Sound(n, u, m)
    PROVE  Sound(k, u, m)
<1>1. Settled(k, u, m)
  BY OriginFacts DEF Sound, Settled
<1>2. Honest(k, u, m)
  <2>1. CASE k = n
    BY <2>1 DEF Sound
  <2>2. CASE k > n
    BY <2>2 DEF Sound, Settled, Honest
  <2> QED BY <2>1, <2>2, OriginFacts
<1> QED
  BY <1>1, <1>2 DEF Sound

LEMMA BesideLater ==
    ASSUME NEW u \in Urls, NEW n \in DOMAIN Bodies[u], NEW k \in DOMAIN Bodies[u], n <= k,
           NEW m, m # None => Sound(n, u, m), NEW b, Beside(n, u, m, b)
    PROVE  Beside(k, u, m, b)
<1>1. CASE k = n
  BY <1>1
<1>2. CASE k > n
  BY <1>2 DEF Sound, Settled, Beside
<1> QED BY <1>1, <1>2, OriginFacts

(* Carried to another URL, a record is sound there and beside any bytes.   *)
LEMMA SoundElsewhere ==
    ASSUME NEW u \in Urls, NEW v \in Urls, <<u, v>> \in Moves,
           NEW n, NEW k \in DOMAIN Bodies[v], NEW m, Sound(n, u, m)
    PROVE  Sound(k, v, m) /\ \A b : Beside(k, v, m, b)
<1>1. \A w \in DOMAIN Bodies[v] : ~Vouches(v, w, m)
  BY DEF Sound, Portable
<1>2. Portable(v, m)
  BY FetchScope DEF Sound, Portable
<1> QED
  BY <1>1, <1>2 DEF Sound, Settled, Honest, Beside

(* The record of a transfer: its validators are of a body no later than    *)
(* the one transferred.                                                    *)
LEMMA TransferIsSound ==
    ASSUME NEW u \in Urls, NEW h \in DOMAIN Hops[u], NEW n \in DOMAIN Bodies[u],
           NEW v \in DOMAIN Bodies[u], v <= n,
           NEW m \in Metas, m.etag = IdentityAt(u, h, v).etag,
           m.modified = IdentityAt(u, h, v).modified, m.sha = Bodies[u][n]
    PROVE  Sound(n, u, m)
<1>1. m.etag \in {None, <<u, h, v>>}
  BY DEF IdentityAt
<1>2. m.modified # None => ByTime(u) /\ m.modified = Stamp[u][v]
  BY DEF IdentityAt, ByTime
<1>3. ASSUME NEW x \in Urls, NEW i \in DOMAIN Hops[x], NEW w \in DOMAIN Bodies[x],
             m.etag = <<x, i, w>>
      PROVE  x = u /\ w = v
  BY <1>1, <1>3, FetchAssumption DEF None
<1>4. Settled(n, u, m)
  <2> SUFFICES ASSUME NEW w \in DOMAIN Bodies[u], w > n, Vouches(u, w, m)
               PROVE  FALSE
    BY DEF Settled
  <2>1. CASE \E i \in DOMAIN Hops[u] : m.etag = <<u, i, w>>
    BY <1>3, <2>1, OriginFacts
  <2>2. CASE m.modified # None /\ Stamp[u][w] <= m.modified
    <3>1. v < w
      BY OriginFacts
    <3>2. Stamp[u][v] < Stamp[u][w] /\ Stamp[u][v] \in Nat /\ Stamp[u][w] \in Nat
      BY <3>1, FetchAssumption
    <3> QED BY <1>2, <2>2, <3>2
  <2>3. CASE m.sha = Bodies[u][w]
    <3>1. w = n
      BY <2>3, OriginFacts
    <3> QED BY <3>1, OriginFacts
  <2> QED BY <2>1, <2>2, <2>3 DEF Vouches
<1>5. Portable(u, m)
  <2> SUFFICES ASSUME NEW x \in Urls, <<u, x>> \in Moves, NEW w \in DOMAIN Bodies[x],
                      Vouches(x, w, m)
               PROVE  FALSE
    BY DEF Portable
  <2> QED BY <1>2, <1>3, FetchScope DEF Vouches
<1>6. Honest(n, u, m)
  BY DEF Honest
<1>7. NotAhead(m)
  <2> SUFFICES ASSUME m.etag # None, NEW w \in DOMAIN Bodies[m.etag[1]],
                      m.sha = Bodies[m.etag[1]][w]
               PROVE  m.etag[3] <= w
    BY DEF NotAhead
  <2>1. m.etag[1] = u /\ m.etag[3] = v
    BY <1>1
  <2> QED BY <2>1, OriginFacts
<1> QED
  BY <1>4, <1>5, <1>6, <1>7 DEF Sound

(* The record of a pin that was not transferred has no validators.         *)
LEMMA PinIsSound ==
    ASSUME NEW u \in Urls, NEW n \in DOMAIN Bodies[u], NEW f \in Folders, Pin[f] # Absent
    PROVE  /\ Meta(u, Silent, Pin[f]) \in Metas
           /\ Meta(u, Silent, Pin[f]).url = u /\ Meta(u, Silent, Pin[f]).sha = Pin[f]
           /\ Sound(n, u, Meta(u, Silent, Pin[f]))
<1> DEFINE m == Meta(u, Silent, Pin[f])
<1>1. m \in Metas /\ m.url = u /\ m.sha = Pin[f] /\ m.etag = None /\ m.modified = None
  BY ContentFacts DEF Meta, Silent, Metas
<1> HIDE DEF m
<1>2. ASSUME NEW x \in Urls, NEW w \in DOMAIN Bodies[x], Vouches(x, w, m)
      PROVE  "digest" \in Hops[x][1] /\ m.sha = Bodies[x][w]
  BY <1>1, <1>2, FetchAssumption DEF Vouches, None
<1>3. Settled(n, u, m)
  <2> SUFFICES ASSUME NEW w \in DOMAIN Bodies[u], w > n, Vouches(u, w, m)
               PROVE  FALSE
    BY DEF Settled
  <2>1. "digest" \in Hops[u][1] /\ Pin[f] = Bodies[u][w]
    BY <1>1, <1>2
  <2>2. w = 1
    BY <2>1, FetchScope
  <2> QED BY <2>2, OriginFacts
<1>4. Portable(u, m)
  BY <1>2, FetchScope DEF Portable
<1>5. Honest(n, u, m)
  BY <1>2 DEF Honest
<1>6. NotAhead(m)
  BY <1>1 DEF NotAhead
<1> QED
  BY <1>1, <1>3, <1>4, <1>5, <1>6 DEF Sound, m

-----------------------------------------------------------------------------
(* How the invariant is kept. *)

(* What the run in one folder sees.                                        *)
Sees(f) ==
    <<out[f], side[f], pc[f], prior[f], entry[f], ident[f], hop[f], bytes[f],
      record[f], then[f], may[f], url[f]>>

LEMMA RunIsKept ==
    ASSUME FetchInv, NEW f \in Folders, ver' = ver, Sees(f)' = Sees(f)
    PROVE  RunIsSound(f)'
<1>1. /\ out'[f] = out[f] /\ side'[f] = side[f] /\ pc'[f] = pc[f] /\ prior'[f] = prior[f]
      /\ entry'[f] = entry[f] /\ ident'[f] = ident[f] /\ hop'[f] = hop[f]
      /\ bytes'[f] = bytes[f] /\ record'[f] = record[f] /\ then'[f] = then[f]
      /\ may'[f] = may[f] /\ url'[f] = url[f]
  BY DEF Sees
<1>2. RunIsSound(f)
  BY DEF FetchInv
<1>3. FolderIsSound(f)' /\ MayIsServed(f)' /\ HeardEarlier(f)'
  BY <1>1, <1>2 DEF RunIsSound, FolderIsSound, Unchecked, Fresh, MayIsServed, HeardEarlier,
                    F!Asked, F!Serves
<1>4. KnowsSound(f)'
  BY <1>1, <1>2 DEF RunIsSound, KnowsSound
<1>5. WritesSound(f)'
  BY <1>1, <1>2 DEF RunIsSound, WritesSound, Fresh
<1> QED
  BY <1>3, <1>4, <1>5 DEF RunIsSound

(* A step of one run that leaves the origins and what the others see: the  *)
(* types, the locators and the run itself are left to show.                *)
Apart(f) ==
    /\ ver' = ver
    /\ \A g \in Folders \ {f} : Sees(g)' = Sees(g)

LEMMA OneRunMoves ==
    ASSUME FetchInv, NEW f \in Folders, Apart(f), TypeOK', LocatorsAreSound', RunIsSound(f)'
    PROVE  FetchInv'
BY RunIsKept DEF FetchInv, Apart

(* The run has ended: nothing is asked of it but its folder.               *)
Idle(f) ==
    /\ Go(f, "idle") /\ Forget(f)
    /\ may' = [may EXCEPT ![f] = {}]

LEMMA EndedIsSound ==
    ASSUME FetchInv, NEW f \in Folders, pc[f] # "idle", Idle(f),
           FolderIsSound(f)', url' = url
    PROVE  RunIsSound(f)'
<1>1. /\ pc'[f] = "idle" /\ prior'[f] = None /\ entry'[f] = None /\ hop'[f] = 1
      /\ may'[f] = {}
  BY DEF Idle, Go, Forget, FetchInv, TypeOK
<1> QED
  BY <1>1 DEF RunIsSound, MayIsServed, KnowsSound, HeardEarlier, WritesSound, Reading, Writing

LEMMA IdleTypes ==
    ASSUME FetchInv, NEW f \in Folders, pc[f] # "idle", Idle(f), url' = url, ver' = ver,
           row' \in [Folders -> Urls \cup {None}], out' \in [Folders -> Bytes \cup {Absent}],
           objs' \in [F!Contents -> Bytes \cup {Absent}],
           \A k \in F!Contents : objs'[k] \in {k, Damaged, Absent},
           loc' \in [Urls -> MaybeMeta], side' \in [Folders -> MaybeMeta],
           told' \in [Folders -> {"nothing", "ok", "failed"}], faults' \in 0..MaxFaults
    PROVE  TypeOK'
<1>1. Silent \in Identities
  BY DEF Silent, Identities
<1>2. /\ pc' \in [Folders -> Places] /\ may' \in [Folders -> SUBSET F!Contents]
      /\ \A g \in Folders : pc'[g] = "idle" <=> may'[g] = {}
  BY DEF FetchInv, TypeOK, Idle, Go, Places
<1>3. /\ bytes' \in [Folders -> Bytes \cup {Absent}]
      /\ prior' \in [Folders -> MaybeMeta] /\ entry' \in [Folders -> MaybeMeta]
      /\ record' \in [Folders -> MaybeMeta]
      /\ then' \in [Folders -> {"ask", "pinned", "store", "done", "failed"}]
      /\ ident' \in [Folders -> Identities]
  BY <1>1 DEF FetchInv, TypeOK, Idle, Forget, MaybeMeta
<1>4. hop' \in [Folders -> Nat] /\ \A g \in Folders : hop'[g] \in DOMAIN Hops[url[g]]
  BY OriginFacts DEF FetchInv, TypeOK, Idle, Forget
<1> QED
  BY <1>2, <1>3, <1>4 DEF FetchInv, TypeOK

LEMMA EndKeeps ==
    ASSUME FetchInv, NEW f \in Folders, pc[f] # "idle", Idle(f),
           UNCHANGED <<origin, out>>,
           row' \in [Folders -> Urls \cup {None}],
           objs' \in [F!Contents -> Bytes \cup {Absent}],
           \A k \in F!Contents : objs'[k] \in {k, Damaged, Absent},
           loc' \in [Urls -> MaybeMeta], side' \in [Folders -> MaybeMeta],
           \A g \in Folders \ {f} : side'[g] = side[g],
           told' \in [Folders -> {"nothing", "ok", "failed"}], faults' \in 0..MaxFaults,
           LocatorsAreSound', FolderIsSound(f)'
    PROVE  FetchInv'
<1>1. TypeOK'
  BY IdleTypes DEF origin, FetchInv, TypeOK
<1>2. RunIsSound(f)'
  BY EndedIsSound DEF origin
<1>3. Apart(f)
  BY DEF Apart, Sees, Idle, Go, Forget, origin, FetchInv, TypeOK
<1> QED
  BY <1>1, <1>2, <1>3, OneRunMoves

\* A folder no step touches.
LEMMA FolderRests ==
    ASSUME FetchInv, NEW f \in Folders,
           pc[f] \notin {"idle", "gate"} \/ pc'[f] \in {"idle", "gate"},
           UNCHANGED <<origin, folder>>
    PROVE  FolderIsSound(f)'
BY DEF FetchInv, RunIsSound, FolderIsSound, Unchecked, Fresh, origin, folder, F!Serves

LEMMA LocatorsRest ==
    ASSUME FetchInv, UNCHANGED <<ver, loc>>
    PROVE  LocatorsAreSound'
BY DEF FetchInv, LocatorsAreSound

LEMMA EndTypes ==
    ASSUME FetchInv, NEW f \in Folders, NEW o \in {"ok", "failed"}, End(f, o)
    PROVE  /\ Idle(f)
           /\ row' \in [Folders -> Urls \cup {None}]
           /\ told' \in [Folders -> {"nothing", "ok", "failed"}]
BY DEF End, Idle, FetchInv, TypeOK

LEMMA JustEnds ==
    ASSUME FetchInv, NEW f \in Folders, pc[f] # "idle",
           NEW o \in {"ok", "failed"}, End(f, o), UNCHANGED <<origin, folder, store>>,
           faults' \in 0..MaxFaults
    PROVE  FetchInv'
<1>1. pc'[f] = "idle"
  BY DEF End, Go, FetchInv, TypeOK
<1>2. FolderIsSound(f)' /\ LocatorsAreSound'
  BY <1>1, FolderRests, LocatorsRest DEF origin, store
<1> QED
  BY <1>2, EndTypes, EndKeeps DEF origin, folder, store, FetchInv, TypeOK

(* A run that goes on to a place past the gate, and changes nothing that   *)
(* is shared.                                                              *)
LEMMA GoesOn ==
    ASSUME FetchInv, NEW f \in Folders, pc[f] \notin {"idle", "gate"}, Private,
           NEW place \in Places \ {"idle", "gate"}, Go(f, place), Apart(f),
           prior' \in [Folders -> MaybeMeta], entry' \in [Folders -> MaybeMeta],
           record' \in [Folders -> MaybeMeta],
           bytes' \in [Folders -> Bytes \cup {Absent}],
           then' \in [Folders -> {"ask", "pinned", "store", "done", "failed"}],
           UNCHANGED <<ident, hop>>,
           KnowsSound(f)', WritesSound(f)'
    PROVE  FetchInv'
<1>1. TypeOK'
  BY DEF FetchInv, TypeOK, Private, Go, origin, folder, store, ghosts
<1>2. LocatorsAreSound'
  BY LocatorsRest DEF Private, origin, store
<1>3. FolderIsSound(f)'
  BY FolderRests DEF Private
<1>4. MayIsServed(f)' /\ HeardEarlier(f)'
  BY DEF FetchInv, RunIsSound, MayIsServed, HeardEarlier, Private, ghosts, origin,
         F!Asked, F!Serves
<1> QED
  BY <1>1, <1>2, <1>3, <1>4, OneRunMoves DEF RunIsSound

-----------------------------------------------------------------------------
(* The gate. *)

LEMMA BeginKeeps ==
    ASSUME FetchInv, NEW f \in Folders, Begin(f)
    PROVE  FetchInv'
<1>1. F!Asked(f) \in SUBSET F!Contents /\ F!Asked(f) # {}
  BY OriginFacts, ContentFacts DEF F!Asked, F!Serves, FetchInv, TypeOK
<1>2. /\ pc' \in [Folders -> Places] /\ pc'[f] \in {"gate", "read"} /\ pc'[f] # "idle"
      /\ pc'[f] = "gate" => f \in Gated
  BY DEF Begin, Go, FetchInv, TypeOK, Places
<1>3. may' \in [Folders -> SUBSET F!Contents] /\ may'[f] = F!Asked(f)
  BY <1>1 DEF Begin, FetchInv, TypeOK
<1>4. ASSUME NEW g \in Folders \ {f} PROVE pc'[g] = pc[g] /\ may'[g] = may[g]
  BY DEF Begin, Go, FetchInv, TypeOK
<1>5. TypeOK'
  BY <1>1, <1>2, <1>3, <1>4
     DEF Begin, FetchInv, TypeOK, origin, folder, store, locals
<1>6. LocatorsAreSound'
  BY LocatorsRest DEF Begin, origin, store
<1>7. FolderIsSound(f)'
  BY DEF Begin, At, Go, FetchInv, RunIsSound, TypeOK, FolderIsSound, Unchecked, Fresh,
         origin, folder, F!Serves
<1>8. MayIsServed(f)'
  BY <1>3 DEF MayIsServed, F!Asked, F!Serves, Begin, origin
<1>9. KnowsSound(f)' /\ HeardEarlier(f)' /\ WritesSound(f)'
  BY <1>2 DEF KnowsSound, HeardEarlier, WritesSound, Begin, At, FetchInv, RunIsSound, locals,
              Reading, Writing, origin
<1>10. Apart(f)
  BY <1>4 DEF Apart, Sees, Begin, origin, folder, locals
<1> QED
  BY <1>5, <1>6, <1>7, <1>8, <1>9, <1>10, OneRunMoves DEF RunIsSound

\* Past the gate, and about to read.
LEMMA ToRead ==
    ASSUME FetchInv, NEW f \in Folders, At(f, "gate"), Go(f, "read"),
           UNCHANGED <<origin, out, store, row, locals, ghosts, faults>>,
           side' \in [Folders -> MaybeMeta], \A g \in Folders \ {f} : side'[g] = side[g],
           FolderIsSound(f)'
    PROVE  FetchInv'
<1>1. pc' \in [Folders -> Places] /\ pc'[f] = "read"
  BY DEF Go, FetchInv, TypeOK, Places
<1>2. ASSUME NEW g \in Folders \ {f} PROVE pc'[g] = pc[g]
  BY DEF Go, FetchInv, TypeOK
<1>3. TypeOK'
  BY <1>1, <1>2 DEF FetchInv, TypeOK, At, origin, store, locals, ghosts
<1>4. LocatorsAreSound'
  BY LocatorsRest DEF origin, store
<1>5. MayIsServed(f)' /\ KnowsSound(f)' /\ HeardEarlier(f)' /\ WritesSound(f)'
  BY <1>1 DEF MayIsServed, KnowsSound, HeardEarlier, WritesSound, At, FetchInv, RunIsSound,
              locals, ghosts, Reading, Writing, origin, F!Asked, F!Serves
<1>6. Apart(f)
  BY <1>2 DEF Apart, Sees, origin, ghosts, locals
<1> QED
  BY <1>3, <1>4, <1>5, <1>6, OneRunMoves DEF RunIsSound

\* A damaged artifact fits no sidecar.
LEMMA DamageIsSeen ==
    ASSUME FetchInv, NEW f \in Folders, out[f] = Damaged
    PROVE  ~Intact(f)
<1>1. side[f] # None => side[f].sha \in F!Contents \cup {Absent}
  BY DEF FetchInv, TypeOK, MaybeMeta, Metas, None
<1> QED
  BY <1>1, ContentFacts DEF Intact

LEMMA GateLocalKeeps ==
    ASSUME FetchInv, NEW f \in Folders, GateLocal(f)
    PROVE  FetchInv'
<1>1. /\ side' \in [Folders -> MaybeMeta] /\ \A g \in Folders \ {f} : side'[g] = side[g]
      /\ side'[f] = None \/ (side'[f] = side[f] /\ (out[f] = Absent \/ side[f] = None))
  BY DEF GateLocal, Discard, FetchInv, TypeOK, MaybeMeta
<1>2. FolderIsSound(f)'
  BY <1>1 DEF GateLocal, FetchInv, RunIsSound, FolderIsSound, Fresh, Beside, origin
<1> QED
  BY <1>1, <1>2, ToRead DEF GateLocal

LEMMA GateProbeKeeps ==
    ASSUME FetchInv, NEW f \in Folders, GateProbe(f)
    PROVE  FetchInv'
<1>1. CASE Succeed(f)
  BY <1>1, JustEnds DEF GateProbe, At, Succeed, FetchInv, TypeOK
<1>2. CASE Go(f, "read") /\ Private /\ UNCHANGED locals
  <2>1. FolderIsSound(f)'
    BY <1>2, DamageIsSeen DEF GateProbe, FetchInv, RunIsSound, FolderIsSound, Unchecked,
       Fresh, Private, origin, folder, F!Serves
  <2> QED BY <1>2, <2>1, ToRead DEF GateProbe, Private, folder, FetchInv, TypeOK
<1> QED
  BY <1>1, <1>2 DEF GateProbe

-----------------------------------------------------------------------------
(* Up to the request. *)

LEMMA PinnedMetaFacts ==
    ASSUME FetchInv, NEW f \in Folders, Pin[f] # Absent, NEW m \in MaybeMeta,
           m # None => Sound(ver[url[f]], url[f], m)
    PROVE  /\ PinnedMeta(f, m) \in Metas
           /\ PinnedMeta(f, m).url = url[f] /\ PinnedMeta(f, m).sha = Pin[f]
           /\ Sound(ver[url[f]], url[f], PinnedMeta(f, m))
<1>1. url[f] \in Urls /\ ver[url[f]] \in DOMAIN Bodies[url[f]]
  BY DEF FetchInv, TypeOK
<1>2. CASE m # None /\ m.sha = Pin[f]
  <2>1. m \in Metas
    BY <1>2 DEF MaybeMeta
  <2>2. PinnedMeta(f, m) = Adopt(url[f], m)
    BY <1>2 DEF PinnedMeta
  <2> QED BY <1>1, <1>2, <2>1, <2>2, AdoptFacts, SameValidators
<1>3. CASE ~(m # None /\ m.sha = Pin[f])
  <2>1. PinnedMeta(f, m) = Meta(url[f], Silent, Pin[f])
    BY <1>3 DEF PinnedMeta
  <2> QED BY <1>1, <2>1, PinIsSound
<1> QED
  BY <1>2, <1>3

(* The folder's own copy is kept, under a record that is sound.            *)
LEMMA KeepKeeps ==
    ASSUME FetchInv, NEW f \in Folders, pc[f] \in {"read", "ask"},
           NEW m \in Metas, m.url = url[f], Sound(ver[url[f]], url[f], m),
           Keep(f, m), out[f] \in may[f],
           UNCHANGED <<origin, out, store, faults>>,
           side' \in [Folders -> MaybeMeta], \A g \in Folders \ {f} : side'[g] = side[g],
           FolderIsSound(f)'
    PROVE  FetchInv'
<1>1. LocatorsAreSound'
  BY LocatorsRest DEF origin, store
<1>2. CASE End(f, "ok")
  BY <1>1, <1>2, EndTypes, EndKeeps DEF store, FetchInv, TypeOK
<1>3. CASE /\ record' = [record EXCEPT ![f] = m] /\ Go(f, "store")
           /\ UNCHANGED <<row, ghosts, prior, entry, ident, hop, bytes, then>>
  <2>1. /\ pc' \in [Folders -> Places] /\ pc'[f] = "store"
        /\ record' \in [Folders -> MaybeMeta] /\ record'[f] = m
    BY <1>3 DEF Go, FetchInv, TypeOK, Places, MaybeMeta
  <2>2. ASSUME NEW g \in Folders \ {f} PROVE pc'[g] = pc[g] /\ record'[g] = record[g]
    BY <1>3 DEF Go, FetchInv, TypeOK
  <2>3. TypeOK'
    BY <1>3, <2>1, <2>2 DEF FetchInv, TypeOK, origin, store, ghosts
  <2>4. MayIsServed(f)' /\ KnowsSound(f)' /\ HeardEarlier(f)'
    BY <1>3, <2>1 DEF MayIsServed, KnowsSound, HeardEarlier, FetchInv, RunIsSound, ghosts,
                      Reading, origin, F!Asked, F!Serves
  <2>5. WritesSound(f)'
    BY <1>3, <2>1 DEF WritesSound, ghosts, origin
  <2>6. Apart(f)
    BY <1>3, <2>2 DEF Apart, Sees, origin, ghosts
  <2> QED BY <1>1, <2>3, <2>4, <2>5, <2>6, OneRunMoves DEF RunIsSound
<1> QED
  BY <1>2, <1>3 DEF Keep

LEMMA ReadKeeps ==
    ASSUME FetchInv, NEW f \in Folders, Read(f)
    PROVE  FetchInv'
<1> DEFINE own == IF out[f] = Absent THEN None ELSE side[f]
<1>1. pc[f] = "read" /\ may[f] # {}
  BY DEF Read, At, FetchInv, TypeOK
<1>2. own \in MaybeMeta /\ (own # None => own = side[f] /\ Sound(ver[url[f]], url[f], own))
  BY DEF FetchInv, RunIsSound, FolderIsSound, TypeOK, MaybeMeta
<1>3. CASE Pin[f] # Absent /\ out[f] = Pin[f]
  <2>1. Keep(f, PinnedMeta(f, own)) /\ UNCHANGED <<origin, folder, store, faults>>
    BY <1>3 DEF Read
  <2>2. out[f] \in may[f]
    BY <1>1, <1>3 DEF FetchInv, RunIsSound, MayIsServed, F!Asked
  <2>3. FolderIsSound(f)'
    BY <1>1, <2>1, FolderRests
  <2> HIDE DEF own
  <2> QED BY <1>1, <1>2, <1>3, <2>1, <2>2, <2>3, PinnedMetaFacts, KeepKeeps
          DEF folder, FetchInv, TypeOK
<1>4. CASE ~(Pin[f] # Absent /\ out[f] = Pin[f])
  <2> DEFINE place == IF f \in Cached /\ (Pin[f] # Absent \/ own = None)
                      THEN "lookup" ELSE "ask"
             next  == IF Pin[f] # Absent THEN "pinned" ELSE "ask"
  <2>1. /\ prior' = [prior EXCEPT ![f] = own] /\ then' = [then EXCEPT ![f] = next]
        /\ Go(f, place)
        /\ UNCHANGED <<row, ghosts, entry, ident, hop, bytes, record>>
        /\ UNCHANGED <<origin, folder, store, faults>>
    BY <1>4 DEF Read
  <2>2. /\ place \in {"lookup", "ask"} /\ next \in {"ask", "pinned"}
        /\ place = "lookup" => f \in Cached
    OBVIOUS
  <2>3. own # None => out[f] # Absent
    OBVIOUS
  <2> HIDE DEF own, place, next
  <2>4. Private
    BY <2>1 DEF Private
  <2>5. /\ prior' \in [Folders -> MaybeMeta] /\ prior'[f] = own
        /\ then' \in [Folders -> {"ask", "pinned", "store", "done", "failed"}]
        /\ then'[f] = next /\ pc'[f] = place
    BY <1>2, <2>1, <2>2 DEF Go, FetchInv, TypeOK
  <2>6. Apart(f)
    BY <2>1 DEF Apart, Sees, Go, FetchInv, TypeOK, origin, folder, ghosts
  <2>7. KnowsSound(f)'
    BY <1>1, <1>2, <2>1, <2>2, <2>3, <2>5
       DEF KnowsSound, FetchInv, RunIsSound, folder, origin, Reading
  <2>8. WritesSound(f)'
    BY <2>2, <2>5 DEF WritesSound, Writing
  <2> QED BY <1>1, <2>1, <2>2, <2>4, <2>5, <2>6, <2>7, <2>8, GoesOn
          DEF FetchInv, TypeOK, Places
<1> QED
  BY <1>3, <1>4

LEMMA LookupKeeps ==
    ASSUME FetchInv, NEW f \in Folders, Lookup(f)
    PROVE  FetchInv'
<1> DEFINE place == IF loc[url[f]] = None THEN then[f] ELSE "verify"
<1>1. pc[f] = "lookup" /\ then[f] \in {"ask", "pinned"} /\ f \in Cached
  BY DEF Lookup, At, FetchInv, RunIsSound, KnowsSound, Reading
<1>2. place \in {"ask", "pinned", "verify"}
  BY <1>1
<1>3. /\ entry' = [entry EXCEPT ![f] = loc[url[f]]] /\ Go(f, place)
      /\ Private /\ UNCHANGED <<prior, ident, hop, bytes, record, then>>
  BY DEF Lookup
<1> HIDE DEF place
<1>4. /\ url[f] \in Urls /\ loc[url[f]] \in MaybeMeta
      /\ entry' \in [Folders -> MaybeMeta] /\ entry'[f] = loc[url[f]] /\ pc'[f] = place
  BY <1>3 DEF Go, FetchInv, TypeOK
<1>5. Apart(f)
  BY <1>3 DEF Apart, Sees, Go, FetchInv, TypeOK, Private, origin, folder, ghosts
<1>6. KnowsSound(f)'
  BY <1>1, <1>2, <1>3, <1>4
     DEF KnowsSound, FetchInv, RunIsSound, LocatorsAreSound, Private, folder, origin, Reading
<1>7. WritesSound(f)'
  BY <1>2, <1>4 DEF WritesSound, Writing
<1> QED
  BY <1>1, <1>2, <1>3, <1>4, <1>5, <1>6, <1>7, GoesOn DEF FetchInv, TypeOK, Places

LEMMA VerifyKeeps ==
    ASSUME FetchInv, NEW f \in Folders, Verify(f)
    PROVE  FetchInv'
<1> DEFINE place == IF Verified(entry[f].sha) THEN then[f] ELSE "unlocate"
<1>1. pc[f] = "verify" /\ then[f] \in {"ask", "pinned"} /\ f \in Cached
  BY DEF Verify, At, FetchInv, RunIsSound, KnowsSound, Reading
<1>2. place \in {"ask", "pinned", "unlocate"}
  BY <1>1
<1>3. Go(f, place) /\ Private /\ UNCHANGED locals
  BY DEF Verify
<1> HIDE DEF place
<1>4. pc'[f] = place
  BY <1>3 DEF Go, FetchInv, TypeOK
<1>5. Apart(f)
  BY <1>3 DEF Apart, Sees, Go, FetchInv, TypeOK, Private, origin, folder, ghosts, locals
<1>6. KnowsSound(f)'
  BY <1>1, <1>2, <1>3, <1>4
     DEF KnowsSound, FetchInv, RunIsSound, Private, folder, origin, Reading, locals
<1>7. WritesSound(f)'
  BY <1>2, <1>4 DEF WritesSound, Writing
<1> QED
  BY <1>1, <1>2, <1>3, <1>5, <1>6, <1>7, GoesOn DEF FetchInv, TypeOK, Places, locals

LEMMA UnlocateKeeps ==
    ASSUME FetchInv, NEW f \in Folders, Unlocate(f)
    PROVE  FetchInv'
<1>1. /\ pc[f] = "unlocate" /\ Go(f, "unlink") /\ loc' = [loc EXCEPT ![url[f]] = None]
      /\ UNCHANGED <<origin, folder, objs, row, locals, ghosts, faults>>
  BY DEF Unlocate, At
<1>2. /\ pc' \in [Folders -> Places] /\ pc'[f] = "unlink"
      /\ loc' \in [Urls -> MaybeMeta]
      /\ \A u \in Urls : loc'[u] \in {loc[u], None}
  BY <1>1 DEF Go, FetchInv, TypeOK, Places, MaybeMeta
<1>3. ASSUME NEW g \in Folders \ {f} PROVE pc'[g] = pc[g]
  BY <1>1 DEF Go, FetchInv, TypeOK
<1>4. TypeOK'
  BY <1>1, <1>2, <1>3 DEF FetchInv, TypeOK, origin, folder, locals, ghosts
<1>5. LocatorsAreSound'
  BY <1>1, <1>2 DEF FetchInv, LocatorsAreSound, origin
<1>6. FolderIsSound(f)'
  BY <1>1, FolderRests
<1>7. KnowsSound(f)'
  BY <1>1, <1>2 DEF FetchInv, RunIsSound, KnowsSound, Reading, origin, folder, locals
<1>8. MayIsServed(f)' /\ HeardEarlier(f)' /\ WritesSound(f)'
  BY <1>1, <1>2 DEF FetchInv, RunIsSound, MayIsServed, HeardEarlier, WritesSound, Writing,
                    origin, locals, ghosts, F!Asked, F!Serves
<1>9. Apart(f)
  BY <1>1, <1>3 DEF Apart, Sees, origin, folder, locals, ghosts
<1> QED
  BY <1>4, <1>5, <1>6, <1>7, <1>8, <1>9, OneRunMoves DEF RunIsSound

\* An object removed, or any step of the cache's objects by one run.
LEMMA RemovedTypes ==
    ASSUME FetchInv, NEW k, objs' = [objs EXCEPT ![k] = Absent]
    PROVE  /\ objs' \in [F!Contents -> Bytes \cup {Absent}]
           /\ \A c \in F!Contents : objs'[c] \in {c, Damaged, Absent}
BY DEF FetchInv, TypeOK

LEMMA UnlinkKeeps ==
    ASSUME FetchInv, NEW f \in Folders, Unlink(f)
    PROVE  FetchInv'
<1>1. pc[f] = "unlink" /\ then[f] \in {"ask", "pinned", "failed"} /\ f \in Cached
  BY DEF Unlink, At, FetchInv, RunIsSound, KnowsSound, Reading
<1>2. CASE then[f] = "failed"
  <2>1. /\ objs' = [objs EXCEPT ![record[f].sha] = Absent] /\ End(f, "failed")
        /\ UNCHANGED <<origin, folder, loc, faults>>
    BY <1>2 DEF Unlink
  <2>2. FolderIsSound(f)' /\ LocatorsAreSound'
    BY <1>1, <2>1, FolderRests, LocatorsRest DEF origin
  <2> QED BY <1>1, <2>1, <2>2, RemovedTypes, EndTypes, EndKeeps
          DEF folder, FetchInv, TypeOK
<1>3. CASE then[f] # "failed"
  <2>1. /\ objs' = [objs EXCEPT ![entry[f].sha] = Absent]
        /\ entry' = [entry EXCEPT ![f] = None] /\ Go(f, then[f])
        /\ UNCHANGED <<row, ghosts, prior, ident, hop, bytes, record, then>>
        /\ UNCHANGED <<origin, folder, loc, faults>>
    BY <1>3 DEF Unlink
  <2>2. /\ pc' \in [Folders -> Places] /\ pc'[f] = then[f]
        /\ entry' \in [Folders -> MaybeMeta] /\ entry'[f] = None
    BY <1>1, <1>3, <2>1 DEF Go, FetchInv, TypeOK, Places, MaybeMeta
  <2>3. ASSUME NEW g \in Folders \ {f} PROVE pc'[g] = pc[g] /\ entry'[g] = entry[g]
    BY <2>1 DEF Go, FetchInv, TypeOK
  <2>4. TypeOK'
    BY <1>1, <1>3, <2>1, <2>2, <2>3, RemovedTypes
       DEF FetchInv, TypeOK, origin, folder, ghosts
  <2>5. LocatorsAreSound' /\ FolderIsSound(f)'
    BY <1>1, <2>1, FolderRests, LocatorsRest DEF origin
  <2>6. KnowsSound(f)'
    BY <1>1, <1>3, <2>1, <2>2
       DEF FetchInv, RunIsSound, KnowsSound, Reading, origin, folder
  <2>7. MayIsServed(f)' /\ HeardEarlier(f)' /\ WritesSound(f)'
    BY <1>1, <1>3, <2>1, <2>2
       DEF FetchInv, RunIsSound, MayIsServed, HeardEarlier, WritesSound, Writing,
           origin, ghosts, F!Asked, F!Serves
  <2>8. Apart(f)
    BY <2>1, <2>3 DEF Apart, Sees, origin, folder, ghosts
  <2> QED BY <2>4, <2>5, <2>6, <2>7, <2>8, OneRunMoves DEF RunIsSound
<1> QED
  BY <1>2, <1>3

LEMMA PinnedKeeps ==
    ASSUME FetchInv, NEW f \in Folders, Pinned(f)
    PROVE  FetchInv'
<1>1. /\ pc[f] = "pinned" /\ f \in Cached /\ may[f] # {}
      /\ Private /\ UNCHANGED <<prior, ident, hop, bytes>>
  BY DEF Pinned, At, FetchInv, RunIsSound, KnowsSound, Reading, TypeOK
<1>2. entry[f] \in MaybeMeta
      /\ (entry[f] # None => entry[f].sha # None /\ Sound(ver[url[f]], url[f], entry[f]))
  BY <1>1 DEF FetchInv, RunIsSound, KnowsSound, Reading, TypeOK
<1>3. CASE (entry[f] # None /\ entry[f].sha = Pin[f]) \/ Verified(Pin[f])
  <2> DEFINE m == PinnedMeta(f, entry[f])
  <2>1. record' = [record EXCEPT ![f] = m] /\ Go(f, "copy") /\ UNCHANGED <<entry, then>>
    BY <1>3 DEF Pinned
  <2>2. Pin[f] # Absent
    BY <1>2, <1>3 DEF Verified, None
  <2>3. m \in Metas /\ m.url = url[f] /\ m.sha = Pin[f] /\ Sound(ver[url[f]], url[f], m)
    BY <1>2, <2>2, PinnedMetaFacts
  <2>4. Pin[f] \in may[f]
    BY <1>1, <2>2 DEF FetchInv, RunIsSound, MayIsServed, F!Asked
  <2> HIDE DEF m
  <2>5. pc'[f] = "copy" /\ record'[f] = m /\ record' \in [Folders -> MaybeMeta]
    BY <2>1, <2>3 DEF Go, FetchInv, TypeOK, MaybeMeta
  <2>6. Apart(f)
    BY <1>1, <2>1 DEF Apart, Sees, Go, FetchInv, TypeOK, Private, origin, folder, ghosts
  <2>7. KnowsSound(f)'
    BY <1>1, <2>1, <2>5
       DEF KnowsSound, FetchInv, RunIsSound, Private, folder, origin, Reading
  <2>8. WritesSound(f)'
    BY <1>1, <2>3, <2>4, <2>5 DEF WritesSound, Fresh, Private, origin, ghosts
  <2> QED BY <1>1, <2>1, <2>5, <2>6, <2>7, <2>8, GoesOn DEF FetchInv, TypeOK, Places
<1>4. CASE ~((entry[f] # None /\ entry[f].sha = Pin[f]) \/ Verified(Pin[f]))
  <2> DEFINE place == IF prior[f] = None THEN "lookup" ELSE "ask"
  <2>1. /\ entry' = [entry EXCEPT ![f] = None] /\ then' = [then EXCEPT ![f] = "ask"]
        /\ Go(f, place) /\ UNCHANGED record
    BY <1>4 DEF Pinned
  <2>2. place \in {"lookup", "ask"}
    OBVIOUS
  <2> HIDE DEF place
  <2>3. /\ pc'[f] = place /\ entry' \in [Folders -> MaybeMeta] /\ entry'[f] = None
        /\ then' \in [Folders -> {"ask", "pinned", "store", "done", "failed"}]
        /\ then'[f] = "ask"
    BY <2>1 DEF Go, FetchInv, TypeOK, MaybeMeta
  <2>4. Apart(f)
    BY <1>1, <2>1 DEF Apart, Sees, Go, FetchInv, TypeOK, Private, origin, folder, ghosts
  <2>5. KnowsSound(f)'
    BY <1>1, <2>1, <2>2, <2>3
       DEF KnowsSound, FetchInv, RunIsSound, Private, folder, origin, Reading
  <2>6. WritesSound(f)'
    BY <2>2, <2>3 DEF WritesSound, Writing
  <2> QED BY <1>1, <2>1, <2>2, <2>3, <2>4, <2>5, <2>6, GoesOn DEF FetchInv, TypeOK, Places
<1> QED
  BY <1>3, <1>4

-----------------------------------------------------------------------------
(* The request. *)

LEMMA ConfirmsVouches ==
    ASSUME FetchInv, NEW u \in Urls, NEW h \in DOMAIN Hops[u], NEW m, Confirms(u, h, m)
    PROVE  Vouches(u, ver[u], m)
BY DEF Confirms, ETag, Vouches, ByTime

(* At the request a run knows its folder's sidecar or a sound entry.       *)
LEMMA AtAsk ==
    ASSUME FetchInv, NEW f \in Folders, pc[f] = "ask"
    PROVE  /\ url[f] \in Urls /\ ver[url[f]] \in DOMAIN Bodies[url[f]]
           /\ Serves(url[f]) = Bodies[url[f]][ver[url[f]]]
           /\ may[f] # {} /\ Serves(url[f]) \in may[f]
           /\ Pin[f] # Absent => Pin[f] \in may[f]
           /\ hop[f] \in DOMAIN Hops[url[f]]
           /\ prior[f] # None =>
                /\ prior[f] \in Metas /\ prior[f] = side[f] /\ out[f] # Absent
                /\ Sound(ver[url[f]], url[f], prior[f]) /\ Fresh(f, out[f])
           /\ entry[f] # None =>
                /\ entry[f] \in Metas /\ entry[f].sha # None /\ f \in Cached
                /\ Sound(ver[url[f]], url[f], entry[f])
BY DEF FetchInv, RunIsSound, FolderIsSound, Unchecked, KnowsSound, MayIsServed, Reading,
       TypeOK, MaybeMeta, F!Asked, F!Serves, Serves

\* What the origin confirms of a run's own record, it serves or was pinned.
LEMMA OwnIsServed ==
    ASSUME FetchInv, NEW f \in Folders, pc[f] = "ask", prior[f] # None,
           Vouches(url[f], ver[url[f]], prior[f])
    PROVE  out[f] \in may[f]
<1>1. CASE out[f] = Pin[f]
  BY <1>1, AtAsk
<1>2. CASE out[f] # Pin[f]
  <2>1. out[f] = Serves(url[f])
    BY <1>2, AtAsk DEF Fresh, Beside
  <2> QED BY <2>1, AtAsk
<1> QED
  BY <1>1, <1>2

(* A run told that what it knows is current keeps its copy, or takes the   *)
(* cache's; a sidecar it kept may have been written again.                 *)
LEMMA KeepOrMaterialiseKeeps ==
    ASSUME FetchInv, NEW f \in Folders, pc[f] = "ask", Known(f) # None,
           Vouches(url[f], ver[url[f]], Known(f)), KeepOrMaterialise(f),
           UNCHANGED <<origin, out, store, faults>>,
           side' \in [Folders -> MaybeMeta], \A g \in Folders \ {f} : side'[g] = side[g],
           prior[f] = None => side' = side,
           FolderIsSound(f)'
    PROVE  FetchInv'
<1>1. CASE prior[f] # None
  <2> DEFINE m == Adopt(url[f], prior[f])
  <2>1. m \in Metas /\ m.url = url[f] /\ Sound(ver[url[f]], url[f], m)
    BY <1>1, AtAsk, AdoptFacts, SameValidators
  <2>2. out[f] \in may[f]
    BY <1>1, OwnIsServed DEF Known
  <2>3. Keep(f, m)
    BY <1>1 DEF KeepOrMaterialise
  <2> HIDE DEF m
  <2> QED BY <2>1, <2>2, <2>3, KeepKeeps
<1>2. CASE prior[f] = None
  <2> DEFINE m == Adopt(url[f], entry[f])
  <2>1. entry[f] # None /\ entry[f] = Known(f)
    BY <1>2 DEF Known
  <2>2. m \in Metas /\ m.url = url[f] /\ m.sha = entry[f].sha
        /\ Sound(ver[url[f]], url[f], m)
    BY <2>1, AtAsk, AdoptFacts, SameValidators
  <2>3. m.sha = Serves(url[f])
    BY <2>1, <2>2, AtAsk DEF Sound, Honest
  <2>4. /\ record' = [record EXCEPT ![f] = m] /\ Go(f, "copy")
        /\ UNCHANGED <<row, ghosts, prior, entry, ident, hop, bytes, then>>
    BY <1>2, <2>1, AtAsk DEF KeepOrMaterialise
  <2>5. Private
    BY <1>2, <2>4 DEF Private, folder
  <2> HIDE DEF m
  <2>6. pc'[f] = "copy" /\ record'[f] = m /\ record' \in [Folders -> MaybeMeta]
    BY <2>2, <2>4 DEF Go, FetchInv, TypeOK, MaybeMeta
  <2>7. Apart(f)
    BY <2>4, <2>5 DEF Apart, Sees, Go, FetchInv, TypeOK, Private, origin, folder, ghosts
  <2>8. KnowsSound(f)'
    BY <2>1, <2>4, <2>5, <2>6, AtAsk
       DEF KnowsSound, FetchInv, RunIsSound, Private, folder, origin, Reading
  <2>9. WritesSound(f)'
    BY <2>2, <2>3, <2>4, <2>5, <2>6, AtAsk DEF WritesSound, Fresh, Beside, Private, origin, ghosts
  <2> QED BY <2>4, <2>5, <2>6, <2>7, <2>8, <2>9, GoesOn DEF FetchInv, TypeOK, Places
<1> QED
  BY <1>1, <1>2

LEMMA NotModifiedVouches ==
    ASSUME FetchInv, NEW f \in Folders, NotModified(f)
    PROVE  pc[f] = "ask" /\ Known(f) # None /\ Vouches(url[f], ver[url[f]], Known(f))
BY AtAsk, ConfirmsVouches DEF NotModified, At

LEMMA NotModifiedKeeps ==
    ASSUME FetchInv, NEW f \in Folders, NotModified(f)
    PROVE  FetchInv'
<1>1. KeepOrMaterialise(f) /\ UNCHANGED <<origin, folder, store, faults>>
  BY DEF NotModified
<1>2. pc[f] = "ask" /\ Known(f) # None /\ Vouches(url[f], ver[url[f]], Known(f))
  BY NotModifiedVouches
<1>3. FolderIsSound(f)'
  BY <1>1, <1>2, FolderRests
<1> QED
  BY <1>1, <1>2, <1>3, KeepOrMaterialiseKeeps DEF folder, FetchInv, TypeOK

LEMMA DeclaredVouches ==
    ASSUME FetchInv, NEW f \in Folders, Declared(f)
    PROVE  /\ pc[f] = "ask" /\ Known(f) # None /\ Vouches(url[f], ver[url[f]], Known(f))
           /\ Declares(f) = Serves(url[f])
<1>1. /\ pc[f] = "ask" /\ Known(f) # None /\ Known(f).sha = Declares(f)
      /\ Declares(f) # None
  BY DEF Declared, At, HoldsDeclared
<1>2. Declares(f) = Serves(url[f]) /\ "digest" \in Hops[url[f]][1]
  BY <1>1 DEF Declares, Identity
<1> QED
  BY <1>1, <1>2, AtAsk DEF Vouches

LEMMA DeclaredKeeps ==
    ASSUME FetchInv, NEW f \in Folders, Declared(f)
    PROVE  FetchInv'
<1> DEFINE m == [prior[f] EXCEPT !.declared = Declares(f)]
<1>1. /\ pc[f] = "ask"
      /\ side' = IF prior[f] = None THEN side ELSE [side EXCEPT ![f] = m]
      /\ KeepOrMaterialise(f) /\ UNCHANGED <<origin, out, store, faults>>
  BY DEF Declared, At
<1>2. Known(f) # None /\ Vouches(url[f], ver[url[f]], Known(f))
      /\ Declares(f) = Serves(url[f])
  BY DeclaredVouches
<1>5. Serves(url[f]) \in F!Contents
  BY <1>1, AtAsk, OriginFacts
<1>6. /\ side' \in [Folders -> MaybeMeta] /\ \A g \in Folders \ {f} : side'[g] = side[g]
      /\ FolderIsSound(f)'
  <2>1. CASE prior[f] = None
    BY <1>1, <2>1, FolderRests DEF folder, FetchInv, TypeOK
  <2>2. CASE prior[f] # None
    <3>1. prior[f] \in Metas /\ prior[f] = side[f]
      BY <1>1, <2>2, AtAsk
    <3>2. /\ m \in Metas /\ m.url = prior[f].url /\ m.etag = prior[f].etag
          /\ m.modified = prior[f].modified /\ m.sha = prior[f].sha
      BY <1>2, <1>5, <3>1 DEF Metas
    <3> HIDE DEF m
    <3>3. side'[f] = m /\ side' \in [Folders -> MaybeMeta]
          /\ \A g \in Folders \ {f} : side'[g] = side[g]
      BY <1>1, <2>2, <3>2 DEF FetchInv, TypeOK, MaybeMeta
    <3>4. Sound(ver[url[f]], url[f], m)
      BY <1>1, <2>2, <3>2, AtAsk, SameValidators
    <3>5. ASSUME NEW w PROVE Vouches(url[f], w, m) <=> Vouches(url[f], w, prior[f])
      BY <3>2 DEF Vouches
    <3>6. Fresh(f, out[f])'
      BY <1>1, <2>2, <3>1, <3>3, <3>5, AtAsk DEF Fresh, Beside, origin
    <3>7. (f \in Gated => side'[f].url = url[f]) /\ (f \notin Gated => out[f] # Damaged)
      BY <2>2, <3>1, <3>2, <3>3 DEF FetchInv, RunIsSound, FolderIsSound
    <3> QED BY <1>1, <3>3, <3>4, <3>6, <3>7 DEF FolderIsSound, origin
  <2> QED BY <2>1, <2>2
<1> HIDE DEF m
<1> QED
  BY <1>1, <1>2, <1>6, KeepOrMaterialiseKeeps

LEMMA IdentityFacts ==
    ASSUME FetchInv, NEW u \in Urls, NEW h \in DOMAIN Hops[u]
    PROVE  Identity(u, h) = IdentityAt(u, h, ver[u]) /\ ver[u] \in DOMAIN Bodies[u]
BY DEF Identity, IdentityAt, ETag, Serves, F!Serves, FetchInv, TypeOK

LEMMA IdentityIsTyped ==
    ASSUME NEW u \in Urls, NEW h \in DOMAIN Hops[u], NEW v \in DOMAIN Bodies[u]
    PROVE  IdentityAt(u, h, v) \in Identities
<1>1. h \in Nat /\ v \in Nat /\ Stamp[u][v] \in Nat /\ Bodies[u][v] \in F!Contents
  BY OriginFacts
<1> QED
  BY <1>1 DEF IdentityAt, Identities

(* What the first hop said was said of a body no later than the one the    *)
(* chain's end serves.                                                     *)
LEMMA SaidEarlier ==
    ASSUME FetchInv, NEW f \in Folders
    PROVE  \E v \in DOMAIN Bodies[url[f]] :
             v <= ver[url[f]] /\ Said(f) = IdentityAt(url[f], 1, v)
<1>1. url[f] \in Urls /\ ver[url[f]] \in DOMAIN Bodies[url[f]] /\ ver[url[f]] <= ver[url[f]]
  BY DEF FetchInv, TypeOK
<1>2. CASE hop[f] = 1
  BY <1>1, <1>2, IdentityFacts, OriginFacts DEF Said
<1>3. CASE hop[f] # 1
  BY <1>3 DEF Said, FetchInv, RunIsSound, HeardEarlier
<1> QED
  BY <1>2, <1>3

LEMMA RedirectedKeeps ==
    ASSUME FetchInv, NEW f \in Folders, Redirected(f)
    PROVE  FetchInv'
<1>1. /\ pc[f] = "ask" /\ hop[f] < Len(Hops[url[f]])
      /\ ident' = [ident EXCEPT ![f] = Said(f)] /\ hop' = [hop EXCEPT ![f] = @ + 1]
      /\ Private /\ UNCHANGED <<pc, prior, entry, bytes, record, then>>
  BY DEF Redirected, Answered, At
<1>2. url[f] \in Urls /\ hop[f] \in DOMAIN Hops[url[f]] /\ hop[f] \in Nat
  BY DEF FetchInv, TypeOK
<1>3. PICK v \in DOMAIN Bodies[url[f]] :
        v <= ver[url[f]] /\ Said(f) = IdentityAt(url[f], 1, v)
  BY SaidEarlier
<1>4. Said(f) \in Identities
  BY <1>2, <1>3, IdentityIsTyped, OriginFacts
<1>5. /\ hop' \in [Folders -> Nat] /\ hop'[f] = hop[f] + 1
      /\ hop[f] + 1 \in DOMAIN Hops[url[f]]
      /\ \A g \in Folders \ {f} : hop'[g] = hop[g] /\ ident'[g] = ident[g]
  BY <1>1, <1>2, OriginFacts DEF FetchInv, TypeOK
<1>6. ident' \in [Folders -> Identities] /\ ident'[f] = Said(f)
  BY <1>1, <1>4 DEF FetchInv, TypeOK
<1>7. TypeOK'
  BY <1>1, <1>5, <1>6
     DEF FetchInv, TypeOK, Private, origin, folder, store, ghosts
<1>8. LocatorsAreSound' /\ FolderIsSound(f)'
  BY <1>1, LocatorsRest, FolderRests DEF Private, origin, store
<1>9. HeardEarlier(f)'
  BY <1>1, <1>3, <1>6 DEF HeardEarlier, Private, origin
<1>10. MayIsServed(f)' /\ KnowsSound(f)' /\ WritesSound(f)'
  BY <1>1 DEF FetchInv, RunIsSound, MayIsServed, KnowsSound, WritesSound, Reading, Writing,
              Private, origin, folder, ghosts, F!Asked, F!Serves
<1>11. Apart(f)
  BY <1>1, <1>5 DEF Apart, Sees, Private, origin, folder, ghosts
<1> QED
  BY <1>7, <1>8, <1>9, <1>10, <1>11, OneRunMoves DEF RunIsSound

LEMMA DownloadedKeeps ==
    ASSUME FetchInv, NEW f \in Folders, Downloaded(f)
    PROVE  FetchInv'
<1>1. pc[f] = "ask" /\ hop[f] = Len(Hops[url[f]]) /\ UNCHANGED <<origin, folder, store, faults>>
  BY DEF Downloaded, Answered, At
<1>2. CASE Pin[f] \notin {Absent, Serves(url[f])}
  <2>1. End(f, "failed")
    BY <1>2 DEF Downloaded
  <2> QED BY <1>1, <2>1, JustEnds DEF FetchInv, TypeOK
<1>3. CASE Pin[f] \in {Absent, Serves(url[f])}
  <2> DEFINE u == url[f]
             m == Meta(u, IdentityOf(f), Serves(u))
  <2>1. /\ bytes' = [bytes EXCEPT ![f] = Serves(u)] /\ record' = [record EXCEPT ![f] = m]
        /\ then' = [then EXCEPT ![f] = "store"] /\ Go(f, "rename")
        /\ UNCHANGED <<row, ghosts, prior, entry, ident, hop>>
    BY <1>3 DEF Downloaded
  <2>2. /\ u \in Urls /\ ver[u] \in DOMAIN Bodies[u] /\ Serves(u) = Bodies[u][ver[u]]
        /\ Serves(u) \in may[f] /\ hop[f] \in DOMAIN Hops[u] /\ 1 \in DOMAIN Hops[u]
        /\ Serves(u) \in F!Contents
    BY <1>1, AtAsk, OriginFacts
  <2>3. \E h \in DOMAIN Hops[u], v \in DOMAIN Bodies[u] :
          v <= ver[u] /\ IdentityOf(f) = IdentityAt(u, h, v)
    <3>1. CASE Said(f) = Silent
      BY <2>2, <3>1, IdentityFacts, OriginFacts DEF IdentityOf
    <3>2. CASE Said(f) # Silent
      BY <2>2, <3>2, SaidEarlier DEF IdentityOf
    <3> QED BY <3>1, <3>2
  <2>4. PICK h \in DOMAIN Hops[u], v \in DOMAIN Bodies[u] :
          v <= ver[u] /\ IdentityOf(f) = IdentityAt(u, h, v)
    BY <2>3
  <2>5. IdentityAt(u, h, v) \in Identities
    BY <2>2, IdentityIsTyped
  <2>6. /\ m \in Metas /\ m.url = u /\ m.sha = Serves(u)
        /\ m.etag = IdentityAt(u, h, v).etag /\ m.modified = IdentityAt(u, h, v).modified
    BY <2>2, <2>4, <2>5 DEF Meta, Metas, Identities
  <2> HIDE DEF m
  <2>7. Sound(ver[u], u, m)
    BY <2>2, <2>4, <2>6, TransferIsSound
  <2>8. /\ pc'[f] = "rename" /\ record'[f] = m /\ record' \in [Folders -> MaybeMeta]
        /\ bytes'[f] = Serves(u) /\ bytes' \in [Folders -> Bytes \cup {Absent}]
        /\ then' \in [Folders -> {"ask", "pinned", "store", "done", "failed"}]
    BY <2>1, <2>2, <2>6 DEF Go, FetchInv, TypeOK, MaybeMeta, Bytes, F!Bytes
  <2>9. Private
    BY <1>1, <2>1 DEF Private
  <2>10. Apart(f)
    BY <2>1, <2>9 DEF Apart, Sees, Go, FetchInv, TypeOK, Private, origin, folder, ghosts
  <2>11. KnowsSound(f)'
    BY <2>8 DEF KnowsSound, Reading
  <2>12. WritesSound(f)'
    BY <2>2, <2>6, <2>7, <2>8, <2>9 DEF WritesSound, Fresh, Beside, Private, origin, ghosts
  <2> QED BY <1>1, <2>1, <2>8, <2>9, <2>10, <2>11, <2>12, GoesOn DEF FetchInv, TypeOK, Places
<1> QED
  BY <1>2, <1>3

-----------------------------------------------------------------------------
(* The bytes, to the folder and to the cache. *)

LEMMA CopyKeeps ==
    ASSUME FetchInv, NEW f \in Folders, Copy(f)
    PROVE  FetchInv'
<1> DEFINE k == record[f].sha
<1>1. /\ pc[f] = "copy" /\ record[f] \in Metas /\ record[f].url = url[f]
      /\ Sound(ver[url[f]], url[f], record[f]) /\ k \in may[f] /\ Fresh(f, k)
      /\ k \in F!Contents /\ f \in Cached
  BY DEF Copy, At, FetchInv, RunIsSound, WritesSound, Writing, TypeOK, KnowsSound, Reading
<1>2. CASE Fail(f)
  BY <1>1, <1>2, JustEnds DEF Fail, FetchInv, TypeOK
<1>3. CASE /\ objs[k] # Absent /\ Survives(k)
           /\ bytes' = [bytes EXCEPT ![f] = objs[k]]
           /\ then' = [then EXCEPT ![f] = "done"] /\ Go(f, "rename")
           /\ Private /\ UNCHANGED <<prior, entry, ident, hop, record>>
  <2>1. objs[k] = k
    BY <1>3 DEF Survives
  <2>2. /\ pc'[f] = "rename" /\ bytes'[f] = k /\ bytes' \in [Folders -> Bytes \cup {Absent}]
        /\ then' \in [Folders -> {"ask", "pinned", "store", "done", "failed"}]
    BY <1>1, <1>3, <2>1 DEF Go, FetchInv, TypeOK, Bytes, F!Bytes
  <2>3. Apart(f)
    BY <1>3 DEF Apart, Sees, Go, FetchInv, TypeOK, Private, origin, folder, ghosts
  <2>4. KnowsSound(f)'
    BY <2>2 DEF KnowsSound, Reading
  <2>5. WritesSound(f)'
    BY <1>1, <1>3, <2>2 DEF WritesSound, Fresh, Private, origin, folder, ghosts
  <2> QED BY <1>1, <1>3, <2>2, <2>3, <2>4, <2>5, GoesOn DEF FetchInv, TypeOK, Places
<1>4. CASE /\ then' = [then EXCEPT ![f] = "failed"] /\ Go(f, "unlocate") /\ UNCHANGED bytes
           /\ Private /\ UNCHANGED <<prior, entry, ident, hop, record>>
  <2>1. /\ pc'[f] = "unlocate" /\ then'[f] = "failed"
        /\ then' \in [Folders -> {"ask", "pinned", "store", "done", "failed"}]
    BY <1>4 DEF Go, FetchInv, TypeOK
  <2>2. Apart(f)
    BY <1>4 DEF Apart, Sees, Go, FetchInv, TypeOK, Private, origin, folder, ghosts
  <2>3. KnowsSound(f)'
    BY <1>1, <1>4, <2>1
       DEF KnowsSound, FetchInv, RunIsSound, Private, folder, origin, Reading
  <2>4. WritesSound(f)'
    BY <2>1 DEF WritesSound, Writing
  <2> QED BY <1>1, <1>4, <2>1, <2>2, <2>3, <2>4, GoesOn DEF FetchInv, TypeOK, Places
<1> QED
  BY <1>2, <1>3, <1>4 DEF Copy

LEMMA RenameKeeps ==
    ASSUME FetchInv, NEW f \in Folders, Rename(f)
    PROVE  FetchInv'
<1>1. /\ pc[f] = "rename" /\ out' = [out EXCEPT ![f] = bytes[f]] /\ Go(f, "sidecar")
      /\ UNCHANGED <<origin, side, store, row, locals, ghosts, faults>>
  BY DEF Rename, At
<1>2. /\ record[f] \in Metas /\ record[f].url = url[f]
      /\ Sound(ver[url[f]], url[f], record[f])
      /\ record[f].sha \in may[f] /\ bytes[f] = record[f].sha /\ Fresh(f, record[f].sha)
      /\ record[f].sha \in F!Contents
  BY <1>1 DEF FetchInv, RunIsSound, WritesSound, Writing, TypeOK
<1>3. /\ pc' \in [Folders -> Places] /\ pc'[f] = "sidecar"
      /\ out' \in [Folders -> Bytes \cup {Absent}] /\ out'[f] = record[f].sha
  BY <1>1, <1>2 DEF Go, FetchInv, TypeOK, Places
<1>4. ASSUME NEW g \in Folders \ {f} PROVE pc'[g] = pc[g] /\ out'[g] = out[g]
  BY <1>1 DEF Go, FetchInv, TypeOK
<1>5. TypeOK'
  BY <1>1, <1>3, <1>4 DEF FetchInv, TypeOK, origin, store, locals, ghosts
<1>6. LocatorsAreSound'
  BY <1>1, LocatorsRest DEF origin, store
<1>7. FolderIsSound(f)'
  BY <1>1, <1>2, <1>3, ContentFacts
     DEF FetchInv, RunIsSound, FolderIsSound, Fresh, origin
<1>8. MayIsServed(f)' /\ KnowsSound(f)' /\ HeardEarlier(f)'
  BY <1>1, <1>3 DEF FetchInv, RunIsSound, MayIsServed, KnowsSound, HeardEarlier, Reading,
                    origin, locals, ghosts, F!Asked, F!Serves
<1>9. WritesSound(f)'
  BY <1>1, <1>2, <1>3 DEF WritesSound, Writing, origin, locals, ghosts
<1>10. Apart(f)
  BY <1>1, <1>4 DEF Apart, Sees, origin, locals, ghosts
<1> QED
  BY <1>5, <1>6, <1>7, <1>8, <1>9, <1>10, OneRunMoves DEF RunIsSound

(* The record written, whole or cut off by a kill, beside its bytes.       *)
LEMMA SidecarIsSound ==
    ASSUME FetchInv, NEW f \in Folders, pc[f] = "sidecar", UNCHANGED <<origin, out>>,
           NEW m, \/ m = record[f] \/ m = None \/ m = side[f]
                  \/ m = CutOff(record[f]),
           side' = [side EXCEPT ![f] = m]
    PROVE  /\ side' \in [Folders -> MaybeMeta] /\ FolderIsSound(f)'
           /\ \A g \in Folders \ {f} : side'[g] = side[g]
<1>1. /\ record[f] \in Metas /\ record[f].url = url[f]
      /\ Sound(ver[url[f]], url[f], record[f])
      /\ out[f] = record[f].sha /\ out[f] \in F!Contents
      /\ url[f] \in Urls /\ ver[url[f]] \in DOMAIN Bodies[url[f]]
  BY DEF FetchInv, RunIsSound, WritesSound, Writing, TypeOK
<1>2. CASE m = side[f]
  <2>1. side' = side
    BY <1>2 DEF FetchInv, TypeOK
  <2> QED BY <2>1, FolderRests DEF folder, FetchInv, TypeOK
<1>3. CASE m = None
  BY <1>3 DEF FetchInv, RunIsSound, FolderIsSound, Fresh, Beside, TypeOK, MaybeMeta
<1>4. CASE m = record[f] \/ m = CutOff(record[f])
  <2>1. /\ m \in Metas /\ m.url = url[f] /\ Sound(ver[url[f]], url[f], m)
        /\ Vouches(url[f], ver[url[f]], m) => Vouches(url[f], ver[url[f]], record[f])
    <3>1. CASE m = record[f]
      BY <1>1, <3>1
    <3>2. CASE m = CutOff(record[f])
      BY <1>1, <3>2, CutIsSound
    <3> QED BY <1>4, <3>1, <3>2
  <2>2. Beside(ver[url[f]], url[f], m, out[f])
    BY <1>1, <2>1, ContentFacts DEF Beside, Sound, Honest, None
  <2>3. /\ side' \in [Folders -> MaybeMeta] /\ side'[f] = m
        /\ \A g \in Folders \ {f} : side'[g] = side[g]
    BY <2>1 DEF FetchInv, TypeOK, MaybeMeta
  <2>4. f \notin Gated => out[f] # Damaged
    BY DEF FetchInv, RunIsSound, FolderIsSound
  <2> QED BY <2>1, <2>2, <2>3, <2>4 DEF FolderIsSound, Fresh, origin
<1> QED
  BY <1>2, <1>3, <1>4

LEMMA SidecarKeeps ==
    ASSUME FetchInv, NEW f \in Folders, Sidecar(f)
    PROVE  FetchInv'
<1>1. /\ pc[f] = "sidecar" /\ UNCHANGED <<origin, out, store>>
      /\ side' = [side EXCEPT ![f] = record[f]] \/ side' = side
      /\ faults' \in 0..MaxFaults
  BY FetchAssumption DEF Sidecar, Described, At, FetchInv, TypeOK
<1>2. \E m : (m = record[f] \/ m = side[f]) /\ side' = [side EXCEPT ![f] = m]
  BY <1>1 DEF FetchInv, TypeOK
<1>3. /\ side' \in [Folders -> MaybeMeta] /\ FolderIsSound(f)'
      /\ \A g \in Folders \ {f} : side'[g] = side[g]
  BY <1>1, <1>2, SidecarIsSound
<1>4. LocatorsAreSound'
  BY <1>1, LocatorsRest DEF origin, store
<1>5. CASE End(f, "ok")
  BY <1>1, <1>3, <1>4, <1>5, EndTypes, EndKeeps DEF store, FetchInv, TypeOK
<1>6. CASE f \in Cached /\ Go(f, "store") /\ UNCHANGED <<row, ghosts, locals>>
  <2>1. /\ pc' \in [Folders -> Places] /\ pc'[f] = "store"
        /\ \A g \in Folders \ {f} : pc'[g] = pc[g]
    BY <1>6 DEF Go, FetchInv, TypeOK, Places
  <2>2. TypeOK'
    BY <1>1, <1>3, <1>6, <2>1 DEF FetchInv, TypeOK, origin, store, locals, ghosts
  <2>3. MayIsServed(f)' /\ KnowsSound(f)' /\ HeardEarlier(f)'
    BY <1>1, <1>6, <2>1
       DEF FetchInv, RunIsSound, MayIsServed, KnowsSound, HeardEarlier, Reading,
           origin, locals, ghosts, F!Asked, F!Serves
  <2>4. WritesSound(f)'
    BY <1>1, <1>6, <2>1
       DEF FetchInv, RunIsSound, WritesSound, Writing, origin, locals, ghosts
  <2>5. Apart(f)
    BY <1>1, <1>3, <1>6, <2>1 DEF Apart, Sees, origin, locals, ghosts
  <2> QED BY <1>3, <1>4, <2>2, <2>3, <2>4, <2>5, OneRunMoves DEF RunIsSound
<1> QED
  BY <1>5, <1>6 DEF Sidecar

LEMMA StoreKeeps ==
    ASSUME FetchInv, NEW f \in Folders, Store(f)
    PROVE  FetchInv'
<1>1. pc[f] = "store"
  BY DEF Store, At
<1>2. CASE Succeed(f)
  BY <1>1, <1>2, JustEnds DEF Succeed, FetchInv, TypeOK
<1>3. CASE /\ Fits(f) /\ Private /\ UNCHANGED locals
           /\ Go(f, IF objs[record[f].sha] = Absent THEN "file" ELSE "locate")
  <2>1. pc'[f] \in {"file", "locate"} /\ Go(f, pc'[f])
    BY <1>3 DEF Go, FetchInv, TypeOK
  <2>2. Apart(f)
    BY <1>3 DEF Apart, Sees, Go, FetchInv, TypeOK, Private, origin, folder, ghosts, locals
  <2>3. KnowsSound(f)'
    BY <2>1 DEF KnowsSound, Reading
  <2>4. WritesSound(f)'
    BY <1>1, <1>3, <2>1
       DEF Fits, FetchInv, RunIsSound, WritesSound, Writing, Private, origin, folder,
           locals, ghosts
  <2> QED BY <1>1, <1>3, <2>1, <2>2, <2>3, <2>4, GoesOn DEF FetchInv, TypeOK, Places, locals
<1> QED
  BY <1>2, <1>3 DEF Store

LEMMA FileKeeps ==
    ASSUME FetchInv, NEW f \in Folders, File(f)
    PROVE  FetchInv'
<1>1. /\ pc[f] = "file" /\ objs' = [objs EXCEPT ![record[f].sha] = out[f]]
      /\ Go(f, "locate") /\ UNCHANGED <<origin, folder, loc, row, locals, ghosts, faults>>
  BY DEF File, At
<1>2. record[f].sha = out[f]
  BY <1>1 DEF FetchInv, RunIsSound, WritesSound
<1>3. /\ objs' \in [F!Contents -> Bytes \cup {Absent}]
      /\ \A k \in F!Contents : objs'[k] \in {k, Damaged, Absent}
  BY <1>1, <1>2 DEF FetchInv, TypeOK
<1>4. /\ pc' \in [Folders -> Places] /\ pc'[f] = "locate"
      /\ \A g \in Folders \ {f} : pc'[g] = pc[g]
  BY <1>1 DEF Go, FetchInv, TypeOK, Places
<1>5. TypeOK'
  BY <1>1, <1>3, <1>4 DEF FetchInv, TypeOK, origin, folder, locals, ghosts
<1>6. LocatorsAreSound' /\ FolderIsSound(f)'
  BY <1>1, LocatorsRest, FolderRests DEF origin
<1>7. MayIsServed(f)' /\ KnowsSound(f)' /\ HeardEarlier(f)'
  BY <1>1, <1>4 DEF FetchInv, RunIsSound, MayIsServed, KnowsSound, HeardEarlier, Reading,
                    origin, locals, ghosts, F!Asked, F!Serves
<1>8. WritesSound(f)'
  BY <1>1, <1>4
     DEF FetchInv, RunIsSound, WritesSound, Writing, origin, folder, locals, ghosts
<1>9. Apart(f)
  BY <1>1, <1>4 DEF Apart, Sees, origin, folder, locals, ghosts
<1> QED
  BY <1>5, <1>6, <1>7, <1>8, <1>9, OneRunMoves DEF RunIsSound

LEMMA LocateKeeps ==
    ASSUME FetchInv, NEW f \in Folders, Locate(f)
    PROVE  FetchInv'
<1>1. /\ pc[f] = "locate" /\ loc' = [loc EXCEPT ![record[f].url] = record[f]]
      /\ End(f, "ok") /\ UNCHANGED <<origin, folder, objs, faults>>
  BY DEF Locate, At
<1>2. /\ record[f] \in Metas /\ record[f].url = url[f] /\ url[f] \in Urls
      /\ Sound(ver[url[f]], url[f], record[f]) /\ record[f].sha \in F!Contents
  BY <1>1 DEF FetchInv, RunIsSound, WritesSound, Writing, TypeOK
<1>3. loc' \in [Urls -> MaybeMeta]
  BY <1>1, <1>2 DEF FetchInv, TypeOK, MaybeMeta
<1>4. LocatorsAreSound'
  BY <1>1, <1>2, ContentFacts DEF FetchInv, TypeOK, LocatorsAreSound, origin, None
<1>5. FolderIsSound(f)'
  BY <1>1, FolderRests
<1> QED
  BY <1>1, <1>3, <1>4, <1>5, EndTypes, EndKeeps DEF folder, FetchInv, TypeOK

LEMMA FetchKeeps ==
    ASSUME FetchInv, NEW f \in Folders, Fetch(f)
    PROVE  FetchInv'
BY BeginKeeps, GateLocalKeeps, GateProbeKeeps, ReadKeeps, LookupKeeps, VerifyKeeps,
   UnlocateKeeps, UnlinkKeeps, PinnedKeeps, NotModifiedKeeps, DeclaredKeeps,
   RedirectedKeeps, DownloadedKeeps, CopyKeeps, RenameKeeps, SidecarKeeps, StoreKeeps,
   FileKeeps, LocateKeeps
   DEF Fetch

-----------------------------------------------------------------------------
(* What goes wrong, and what others do. *)

LEMMA FaultTypes ==
    ASSUME FetchInv, Fault
    PROVE  faults' \in 0..MaxFaults
BY FetchAssumption DEF Fault, FetchInv, TypeOK

LEMMA KillKeeps ==
    ASSUME FetchInv, NEW f \in Folders, Kill(f)
    PROVE  FetchInv'
<1>1. /\ Fault /\ pc[f] # "idle" /\ Idle(f)
      /\ told' = [told EXCEPT ![f] = "failed"] /\ UNCHANGED <<origin, out, store, row>>
  BY DEF Kill, At, Idle
<1>2. pc'[f] = "idle"
  BY <1>1 DEF Idle, Go, FetchInv, TypeOK
<1>3. /\ side' \in [Folders -> MaybeMeta] /\ FolderIsSound(f)'
      /\ \A g \in Folders \ {f} : side'[g] = side[g]
  <2>1. CASE UNCHANGED side
    BY <1>1, <1>2, <2>1, FolderRests DEF folder, FetchInv, TypeOK
  <2>2. ASSUME pc[f] = "sidecar", NEW m \in {None, CutOff(record[f])},
               side' = [side EXCEPT ![f] = m]
        PROVE  /\ side' \in [Folders -> MaybeMeta] /\ FolderIsSound(f)'
               /\ \A g \in Folders \ {f} : side'[g] = side[g]
    BY <1>1, <2>2, SidecarIsSound
  <2> QED BY <2>1, <2>2 DEF Kill, At, CutOff
<1>4. LocatorsAreSound'
  BY <1>1, LocatorsRest DEF origin, store
<1> QED
  BY <1>1, <1>3, <1>4, FaultTypes, EndKeeps DEF store, FetchInv, TypeOK

LEMMA RefusedKeeps ==
    ASSUME FetchInv, NEW f \in Folders, Refused(f)
    PROVE  FetchInv'
BY FaultTypes, JustEnds DEF Refused, At

(* An origin goes on: what was sound stays so, and every running fetch of  *)
(* it may leave what it serves now.                                        *)
LEMMA PublishKeeps ==
    ASSUME FetchInv, NEW u \in Urls, Publish(u)
    PROVE  FetchInv'
<1>1. /\ ver[u] < Len(Bodies[u]) /\ ver' = [ver EXCEPT ![u] = @ + 1]
      /\ UNCHANGED <<url, folder, store, row, pc, locals, told, faults>>
      /\ may' = [f \in Folders |->
                   IF may[f] # {} /\ url[f] = u
                   THEN may[f] \cup {Serves(u)'} ELSE may[f]]
  BY DEF Publish
<1>2. ASSUME NEW x \in Urls
      PROVE  /\ ver[x] \in DOMAIN Bodies[x] /\ ver'[x] \in DOMAIN Bodies[x]
             /\ ver[x] <= ver'[x]
  BY <1>1, OriginFacts DEF FetchInv, TypeOK
<1>3. Serves(u)' = Bodies[u][ver'[u]]
  BY DEF Serves, F!Serves
<1>4. Serves(u)' \in F!Contents
  BY <1>2, <1>3, OriginFacts
<1>5. TypeOK'
  <2>1. ver' \in [Urls -> Nat]
    BY <1>1, <1>2, OriginFacts DEF FetchInv, TypeOK
  <2>2. /\ may' \in [Folders -> SUBSET F!Contents]
        /\ \A f \in Folders : may'[f] = {} <=> may[f] = {}
    BY <1>1, <1>4 DEF FetchInv, TypeOK
  <2> QED BY <1>1, <1>2, <2>1, <2>2 DEF FetchInv, TypeOK, folder, store, locals
<1>6. LocatorsAreSound'
  BY <1>1, <1>2, SoundLater DEF FetchInv, LocatorsAreSound, store
<1>7. ASSUME NEW f \in Folders PROVE RunIsSound(f)'
  <2>1. /\ url[f] \in Urls /\ ver[url[f]] \in DOMAIN Bodies[url[f]]
        /\ ver'[url[f]] \in DOMAIN Bodies[url[f]] /\ ver[url[f]] <= ver'[url[f]]
    BY <1>2 DEF FetchInv, TypeOK
  <2>2. ASSUME NEW m, Sound(ver[url[f]], url[f], m) PROVE Sound(ver'[url[f]], url[f], m)
    BY <2>1, <2>2, SoundLater
  <2>3. RunIsSound(f)
    BY DEF FetchInv
  <2>4. ASSUME NEW b, Fresh(f, b) PROVE Fresh(f, b)'
    <3>1. side[f] # None => Sound(ver[url[f]], url[f], side[f])
      BY <2>3 DEF RunIsSound, FolderIsSound
    <3> QED BY <1>1, <2>1, <2>4, <3>1, BesideLater DEF Fresh, folder
  <2>5. FolderIsSound(f)'
    BY <1>1, <2>2, <2>3, <2>4 DEF RunIsSound, FolderIsSound, Unchecked, folder
  <2>6. may[f] \subseteq may'[f] /\ (may'[f] # {} => may[f] # {})
    BY <1>1 DEF FetchInv, TypeOK
  <2>7. MayIsServed(f)'
    <3> SUFFICES ASSUME may'[f] # {} PROVE F!Asked(f)' \subseteq may'[f]
      BY DEF MayIsServed
    <3>1. F!Asked(f) \subseteq may[f]
      BY <2>3, <2>6 DEF RunIsSound, MayIsServed
    <3>2. Bodies[url[f]][ver'[url[f]]] \in may'[f]
      <4>1. CASE url[f] = u
        BY <1>1, <1>3, <2>6, <4>1
      <4>2. CASE url[f] # u
        <5>1. ver'[url[f]] = ver[url[f]]
          BY <1>1, <4>2 DEF FetchInv, TypeOK
        <5> QED BY <2>6, <3>1, <5>1 DEF F!Asked, F!Serves
      <4> QED BY <4>1, <4>2
    <3> QED BY <1>1, <2>6, <3>1, <3>2 DEF F!Asked, F!Serves
  <2>8. KnowsSound(f)'
    BY <1>1, <2>2, <2>3 DEF RunIsSound, KnowsSound, Reading, folder, locals
  <2>9. HeardEarlier(f)'
    <3> SUFFICES ASSUME hop[f] # 1
                 PROVE  \E v \in DOMAIN Bodies[url[f]] :
                          v <= ver'[url[f]] /\ ident[f] = IdentityAt(url[f], 1, v)
      BY <1>1 DEF HeardEarlier, locals
    <3>1. PICK v \in DOMAIN Bodies[url[f]] :
            v <= ver[url[f]] /\ ident[f] = IdentityAt(url[f], 1, v)
      BY <2>3 DEF RunIsSound, HeardEarlier
    <3>2. v <= ver'[url[f]]
      BY <2>1, <3>1, OriginFacts
    <3> QED BY <3>1, <3>2
  <2>10. WritesSound(f)'
    BY <1>1, <2>2, <2>3, <2>4, <2>6 DEF RunIsSound, WritesSound, Writing, folder, locals
  <2> QED BY <2>5, <2>7, <2>8, <2>9, <2>10 DEF RunIsSound
<1> QED
  BY <1>5, <1>6, <1>7 DEF FetchInv

\* Nothing changes but the cache's objects and the number of faults.
LEMMA DamageObjectKeeps ==
    ASSUME FetchInv, NEW k \in F!Contents, DamageObject(k)
    PROVE  FetchInv'
<1>1. /\ UNCHANGED <<origin, folder, loc, row, pc, locals, ghosts>>
      /\ objs' = [objs EXCEPT ![k] = Damaged]
  BY DEF DamageObject
<1>2. /\ objs' \in [F!Contents -> Bytes \cup {Absent}]
      /\ \A c \in F!Contents : objs'[c] \in {c, Damaged, Absent}
  BY <1>1 DEF FetchInv, TypeOK, Bytes, F!Bytes
<1>3. faults' \in 0..MaxFaults
  BY FaultTypes DEF DamageObject
<1>4. TypeOK'
  BY <1>1, <1>2, <1>3 DEF FetchInv, TypeOK, origin, folder, locals, ghosts
<1>5. LocatorsAreSound'
  BY <1>1, LocatorsRest DEF origin
<1>6. \A f \in Folders : RunIsSound(f)'
  BY <1>1, RunIsKept DEF Sees, origin, folder, locals, ghosts
<1> QED
  BY <1>4, <1>5, <1>6 DEF FetchInv

LEMMA DisturbKeeps ==
    ASSUME FetchInv, NEW f \in Folders, Disturb(f)
    PROVE  FetchInv'
<1>1. PICK b \in {Absent} \cup (IF f \in Damageable THEN {Damaged} ELSE {}) :
        out' = [out EXCEPT ![f] = b]
  BY DEF Disturb
<1>2. /\ pc[f] = "idle" /\ UNCHANGED <<origin, side, store, row, pc, locals, ghosts>>
      /\ faults' \in 0..MaxFaults
  BY FaultTypes DEF Disturb, At
<1>3. /\ out' \in [Folders -> Bytes \cup {Absent}] /\ out'[f] = b
      /\ \A g \in Folders \ {f} : out'[g] = out[g]
  BY <1>1 DEF FetchInv, TypeOK, Bytes, F!Bytes
<1>4. TypeOK'
  BY <1>2, <1>3 DEF FetchInv, TypeOK, origin, store, locals, ghosts
<1>5. LocatorsAreSound'
  BY <1>2, LocatorsRest DEF origin, store
<1>6. FolderIsSound(f)'
  BY <1>2, <1>3, FetchScope, ContentFacts
     DEF FetchInv, RunIsSound, FolderIsSound, Unchecked, Fresh, origin
<1>7. MayIsServed(f)' /\ KnowsSound(f)' /\ HeardEarlier(f)' /\ WritesSound(f)'
  BY <1>2 DEF FetchInv, RunIsSound, MayIsServed, KnowsSound, HeardEarlier, WritesSound,
              Reading, Writing, origin, locals, ghosts, F!Asked, F!Serves
<1>8. Apart(f)
  BY <1>2, <1>3 DEF Apart, Sees, origin, locals, ghosts
<1> QED
  BY <1>4, <1>5, <1>6, <1>7, <1>8, OneRunMoves DEF RunIsSound

LEMMA RepointKeeps ==
    ASSUME FetchInv, NEW f \in Folders, Repoint(f)
    PROVE  FetchInv'
<1>1. PICK v \in Urls : <<url[f], v>> \in Moves /\ url' = [url EXCEPT ![f] = v]
  BY DEF Repoint
<1>2. /\ pc[f] = "idle" /\ f \in Repointed
      /\ UNCHANGED <<ver, folder, store, row, pc, locals, ghosts>>
      /\ faults' \in 0..MaxFaults
  BY FaultTypes DEF Repoint, At
<1>3. /\ url' \in [Folders -> Urls] /\ url'[f] = v /\ url[f] \in Urls
      /\ \A g \in Folders \ {f} : url'[g] = url[g]
      /\ ver[v] \in DOMAIN Bodies[v] /\ may[f] = {} /\ hop[f] = 1 /\ f \notin Gated
  BY <1>1, <1>2, FetchScope DEF FetchInv, RunIsSound, KnowsSound, TypeOK
<1>4. TypeOK'
  BY <1>2, <1>3, OriginFacts DEF FetchInv, TypeOK, folder, store, locals, ghosts
<1>5. LocatorsAreSound'
  BY <1>2, LocatorsRest DEF store
<1>6. FolderIsSound(f)'
  <2>1. side[f] # None =>
          Sound(ver[v], v, side[f]) /\ \A b : Beside(ver[v], v, side[f], b)
    BY <1>1, <1>3, SoundElsewhere DEF FetchInv, RunIsSound, FolderIsSound
  <2> QED BY <1>2, <1>3, <2>1
          DEF FetchInv, RunIsSound, FolderIsSound, Fresh, Beside, folder
<1>7. MayIsServed(f)' /\ KnowsSound(f)' /\ HeardEarlier(f)' /\ WritesSound(f)'
  BY <1>2, <1>3 DEF FetchInv, RunIsSound, MayIsServed, KnowsSound, HeardEarlier, WritesSound,
              Reading, Writing, folder, locals, ghosts
<1>8. Apart(f)
  BY <1>2, <1>3 DEF Apart, Sees, folder, locals, ghosts
<1> QED
  BY <1>4, <1>5, <1>6, <1>7, <1>8, OneRunMoves DEF RunIsSound

LEMMA StepKeeps ==
    ASSUME FetchInv, [Next]_vars
    PROVE  FetchInv'
<1>1. ASSUME UNCHANGED vars PROVE FetchInv'
  <2>1. TypeOK'
    BY <1>1 DEF FetchInv, TypeOK, vars, origin, folder, store, locals, ghosts
  <2>2. LocatorsAreSound'
    BY <1>1, LocatorsRest DEF vars, origin, store
  <2>3. \A f \in Folders : RunIsSound(f)'
    BY <1>1, RunIsKept DEF Sees, vars, origin, folder, locals, ghosts
  <2> QED BY <2>1, <2>2, <2>3 DEF FetchInv
<1> QED
  BY <1>1, FetchKeeps, KillKeeps, RefusedKeeps, PublishKeeps, DamageObjectKeeps,
     DisturbKeeps, RepointKeeps
     DEF Next, Others

LEMMA InitIsSound == Init => FetchInv
<1> SUFFICES ASSUME Init PROVE FetchInv
  OBVIOUS
<1>1. TypeOK
  <2>1. \A u \in Urls : ver[u] \in DOMAIN Bodies[u]
    BY OriginFacts DEF Init
  <2>2. \A f \in Folders : hop[f] \in DOMAIN Hops[url[f]]
    BY OriginFacts DEF Init
  <2>3. Silent \in Identities
    BY DEF Silent, Identities
  <2> QED
    BY <2>1, <2>2, <2>3, FetchAssumption
       DEF Init, TypeOK, MaybeMeta, Places, Bytes, F!Bytes
<1>2. LocatorsAreSound
  BY DEF Init, LocatorsAreSound
<1>3. ASSUME NEW f \in Folders PROVE RunIsSound(f)
  BY <1>3, ContentFacts
     DEF Init, RunIsSound, FolderIsSound, MayIsServed, KnowsSound, HeardEarlier,
         WritesSound, Reading, Writing, None
<1> QED
  BY <1>1, <1>2, <1>3 DEF FetchInv

THEOREM FetchIsSound == Spec => []FetchInv
BY InitIsSound, StepKeeps, PTL DEF Spec

-----------------------------------------------------------------------------
(* What it gives. *)

(* No locator is confirmed by an origin that serves other bytes, and no    *)
(* sidecar's validator is newer than the artifact it fits.                 *)
THEOREM RecordsStayBehind == Spec => []RecordsAreNotAhead
<1>1. ASSUME FetchInv PROVE RecordsAreNotAhead
  <2>1. ConfirmedMeansServed
    <3> SUFFICES ASSUME NEW u \in Urls, loc[u] # None,
                        NEW h \in DOMAIN Hops[u], Confirms(u, h, loc[u])
                 PROVE  loc[u].sha = Serves(u)
      BY DEF ConfirmedMeansServed
    <3>1. Vouches(u, ver[u], loc[u])
      BY <1>1, ConfirmsVouches
    <3> QED BY <1>1, <3>1 DEF FetchInv, LocatorsAreSound, Sound, Honest, Serves, F!Serves
  <2>2. SidecarNotAhead
    BY <1>1 DEF FetchInv, RunIsSound, FolderIsSound, Sound, NotAhead, SidecarNotAhead, Intact
  <2> QED BY <1>1, <2>1, <2>2 DEF RecordsAreNotAhead, FetchInv
<1> QED
  BY <1>1, FetchIsSound, PTL

-----------------------------------------------------------------------------
(* A cached fetch is an uncached one. *)

LEMMA SuccessMaps ==
    ASSUME FetchInv, NEW f \in Folders, End(f, "ok"), out[f] \in may[f],
           UNCHANGED <<origin, out>>
    PROVE  F!Succeed(f)
BY DEF End, F!Succeed, origin

LEMMA FailureMaps ==
    ASSUME FetchInv, NEW f \in Folders, End(f, "failed"), pc[f] # "idle",
           UNCHANGED <<origin, out>>
    PROVE  F!Fail(f)
BY DEF End, F!Fail, origin, FetchInv, TypeOK

\* The account sees no step of the cache's, the sidecar's or a run's own.
LEMMA Unseen ==
    ASSUME UNCHANGED <<origin, out, ghosts>>
    PROVE  UNCHANGED F!vars
BY DEF F!vars, origin, ghosts

(* A gate that says the artifact is fresh has asked the step's own URL.    *)
LEMMA FreshIsServed ==
    ASSUME FetchInv, NEW f \in Folders, pc[f] = "gate", Intact(f), ProbeSaysFresh(side[f])
    PROVE  out[f] \in may[f]
<1> DEFINE u == url[f]
           n == Len(Hops[u])
<1>1. /\ u \in Urls /\ side[f] # None /\ side[f].url = u /\ out[f] # Absent
      /\ out[f] # Damaged /\ Fresh(f, out[f]) /\ may[f] # {}
      /\ Serves(u) \in may[f] /\ (Pin[f] # Absent => Pin[f] \in may[f])
      /\ n \in DOMAIN Hops[u] /\ ver[u] \in DOMAIN Bodies[u]
  <2>1. u \in Urls /\ ver[u] \in DOMAIN Bodies[u] /\ may[f] # {}
    BY DEF FetchInv, TypeOK
  <2>2. n \in DOMAIN Hops[u]
    BY <2>1, OriginFacts
  <2>3. out[f] # Damaged /\ out[f] # Absent /\ side[f] # None
    BY DamageIsSeen DEF Intact
  <2>4. side[f].url = u /\ Fresh(f, out[f])
    BY <2>3 DEF FetchInv, RunIsSound, FolderIsSound, Unchecked, KnowsSound
  <2>5. Serves(u) \in may[f] /\ (Pin[f] # Absent => Pin[f] \in may[f])
    BY <2>1 DEF FetchInv, RunIsSound, MayIsServed, F!Asked, Serves, F!Serves
  <2> QED BY <2>1, <2>2, <2>3, <2>4, <2>5
<1>2. Vouches(u, ver[u], side[f])
  <2>1. ASSUME NEW h \in DOMAIN Hops[u], Confirms(u, h, side[f])
        PROVE  Vouches(u, ver[u], side[f])
    BY <1>1, <2>1, ConfirmsVouches
  <2>2. CASE side[f].etag # None /\ side[f].etag = Identity(u, n).etag
    BY <1>1, <2>2 DEF Identity, ETag, Vouches
  <2>3. CASE side[f].modified # None /\ side[f].modified = Identity(u, n).modified
    <3>1. "modified" \in Hops[u][n] /\ side[f].modified = Stamp[u][ver[u]]
      BY <2>3 DEF Identity
    <3>2. Stamp[u][ver[u]] <= Stamp[u][ver[u]]
      BY <1>1, OriginFacts
    <3> QED BY <1>1, <2>3, <3>1, <3>2 DEF Vouches, ByTime
  <2> QED BY <1>1, <2>1, <2>2, <2>3 DEF ProbeSaysFresh
<1> QED
  BY <1>1, <1>2 DEF Fresh, Beside, Serves, F!Serves

LEMMA KeepOrMaterialiseMaps ==
    ASSUME FetchInv, NEW f \in Folders, pc[f] = "ask", Known(f) # None,
           Vouches(url[f], ver[url[f]], Known(f)), KeepOrMaterialise(f),
           UNCHANGED <<origin, out>>
    PROVE  F!Succeed(f) \/ UNCHANGED F!vars
<1>1. CASE prior[f] # None
  BY <1>1, OwnIsServed, SuccessMaps, Unseen DEF KeepOrMaterialise, Keep, Known
<1>2. CASE prior[f] = None
  <2>1. entry[f] # None /\ f \in Cached
    BY <1>2, AtAsk DEF Known
  <2> QED BY <1>2, <2>1, Unseen DEF KeepOrMaterialise
<1> QED
  BY <1>1, <1>2

(* Each step of a fetch is one of the account's, or none.                  *)
LEMMA FetchMaps ==
    ASSUME FetchInv, NEW f \in Folders, Fetch(f)
    PROVE  F!Begin(f) \/ F!Land(f) \/ F!Succeed(f) \/ F!Fail(f) \/ UNCHANGED F!vars
<1>1. CASE Begin(f)
  BY <1>1 DEF Begin, At, F!Begin, FetchInv, TypeOK, origin, folder
<1>2. CASE GateProbe(f)
  BY <1>2, FreshIsServed, SuccessMaps, Unseen
     DEF GateProbe, At, Succeed, Private, folder
<1>3. CASE Read(f)
  <2>1. CASE Pin[f] # Absent /\ out[f] = Pin[f]
    <3>1. out[f] \in may[f]
      BY <1>3, <2>1 DEF Read, At, FetchInv, TypeOK, RunIsSound, MayIsServed, F!Asked
    <3> QED BY <1>3, <2>1, <3>1, SuccessMaps, Unseen DEF Read, Keep, folder
  <2>2. CASE ~(Pin[f] # Absent /\ out[f] = Pin[f])
    BY <1>3, <2>2, Unseen DEF Read, folder
  <2> QED BY <2>1, <2>2
<1>4. CASE Unlink(f)
  BY <1>4, FailureMaps, Unseen DEF Unlink, At, folder
<1>5. CASE NotModified(f)
  BY <1>5, NotModifiedVouches, KeepOrMaterialiseMaps DEF NotModified, folder
<1>6. CASE Declared(f)
  BY <1>6, DeclaredVouches, KeepOrMaterialiseMaps DEF Declared
<1>7. CASE Downloaded(f)
  BY <1>7, FailureMaps, Unseen DEF Downloaded, Answered, At, folder
<1>8. CASE Copy(f)
  BY <1>8, FailureMaps, Unseen DEF Copy, At, Fail, Private, folder
<1>9. CASE Rename(f)
  <2>1. bytes[f] \in may[f]
    BY <1>9 DEF Rename, At, FetchInv, RunIsSound, WritesSound
  <2> QED BY <1>9, <2>1 DEF Rename, F!Land, origin, ghosts
<1>10. CASE Sidecar(f)
  <2>1. out[f] \in may[f]
    BY <1>10 DEF Sidecar, At, FetchInv, RunIsSound, WritesSound
  <2> QED BY <1>10, <2>1, SuccessMaps, Unseen DEF Sidecar
<1>11. CASE Store(f)
  <2>1. out[f] \in may[f]
    BY <1>11 DEF Store, At, FetchInv, RunIsSound, WritesSound
  <2> QED BY <1>11, <2>1, SuccessMaps, Unseen DEF Store, Succeed, Private, folder
<1>12. CASE Locate(f)
  <2>1. out[f] \in may[f]
    BY <1>12 DEF Locate, At, FetchInv, RunIsSound, WritesSound
  <2> QED BY <1>12, <2>1, SuccessMaps DEF Locate, folder
<1>13. CASE \/ GateLocal(f) \/ Lookup(f) \/ Verify(f) \/ Unlocate(f) \/ Pinned(f)
            \/ Redirected(f) \/ File(f)
  BY <1>13, Unseen
     DEF GateLocal, Lookup, Verify, Unlocate, Pinned, Redirected, File, Private, folder
<1> QED
  BY <1>1, <1>2, <1>3, <1>4, <1>5, <1>6, <1>7, <1>8, <1>9, <1>10, <1>11, <1>12, <1>13
     DEF Fetch

LEMMA OthersMap ==
    ASSUME FetchInv, Others
    PROVE  [F!Next]_(F!vars)
<1>1. ASSUME NEW f \in Folders, Kill(f) PROVE F!Fail(f)
  BY <1>1 DEF Kill, At, F!Fail, FetchInv, TypeOK, origin
<1>2. ASSUME NEW f \in Folders, Refused(f) PROVE F!Fail(f) \/ F!Succeed(f)
  <2>1. pc[f] \in {"file", "locate"} => out[f] \in may[f]
    BY DEF FetchInv, RunIsSound, WritesSound
  <2> QED BY <1>2, <2>1, FailureMaps, SuccessMaps DEF Refused, At, folder
<1>3. ASSUME NEW f \in Folders, Disturb(f) PROVE F!Disturb(f)
  BY <1>3 DEF Disturb, At, F!Disturb, FetchInv, TypeOK, origin, ghosts, F!Bytes
<1>4. ASSUME NEW f \in Folders, Repoint(f) PROVE F!Repoint(f)
  BY <1>4 DEF Repoint, At, F!Repoint, FetchInv, TypeOK, folder, ghosts
<1>5. ASSUME NEW u \in Urls, Publish(u) PROVE F!Publish(u)
  BY <1>5 DEF Publish, F!Publish, Serves, F!Serves, folder
<1>6. ASSUME NEW k \in F!Contents, DamageObject(k) PROVE UNCHANGED F!vars
  BY <1>6, Unseen DEF DamageObject, folder
<1> QED
  BY <1>1, <1>2, <1>3, <1>4, <1>5, <1>6 DEF Others, F!Next

(* fetch_cache.rs:26: a cached run and an uncached run produce the same    *)
(* result.  Whatever the cache, the sidecars, the gate and the other runs  *)
(* do, FetchCache implements FetchSpec.                                    *)
THEOREM CachedIsUncached == Spec => CachedAsUncached
<1>1. Init => F!Init
  BY DEF Init, F!Init
<1>2. FetchInv /\ [Next]_vars => [F!Next]_(F!vars)
  <2> SUFFICES ASSUME FetchInv, [Next]_vars PROVE [F!Next]_(F!vars)
    OBVIOUS
  <2>1. ASSUME NEW f \in Folders, Fetch(f) PROVE [F!Next]_(F!vars)
    BY <2>1, FetchMaps DEF F!Next
  <2>2. CASE UNCHANGED vars
    BY <2>2, Unseen DEF vars, folder
  <2> QED BY <2>1, <2>2, OthersMap DEF Next
<1> QED
  BY <1>1, <1>2, FetchIsSound, PTL DEF Spec, CachedAsUncached, F!Spec
=============================================================================
