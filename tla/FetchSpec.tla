----------------------------- MODULE FetchSpec -----------------------------
(***************************************************************************)
(* What a fetch promises, with no cache and no record of earlier fetches:  *)
(* fetch_cache.rs:26 says that "a cached run and an uncached run produce   *)
(* the same result", and this is the uncached run.  A fetch that says it   *)
(* succeeded leaves in its folder bytes the URL served at some moment of   *)
(* that fetch, or the bytes its manifest pinned.                           *)
(***************************************************************************)
EXTENDS Naturals, Sequences, Functions

CONSTANTS Folders,  \* the folders a fetch runs in, one step and one run each
          Urls,
          Bodies,   \* Bodies[u]: what u serves, one body after another
          Pin,      \* Pin[f]: the body the manifest pinned, or Absent
          Damaged,  \* bytes no URL serves
          Absent    \* no file

VARIABLES ver,   \* ver[u]: which of Bodies[u] the origin serves
          url,   \* url[f]: the URL the folder's step names
          out,   \* out[f]: the artifact in the folder
          may,   \* may[f]: what the running fetch may leave; {} when none runs
          told   \* told[f]: what the last fetch said of itself

vars == <<ver, url, out, may, told>>

Contents == UNION {Range(Bodies[u]) : u \in Urls}

Bytes == Contents \cup {Damaged}

Serves(u) == Bodies[u][ver[u]]

(* A pin adds the pinned bytes to what a fetch may leave; that it does not *)
(* take the served ones away is the code's 304 route, against its README.  *)
Asked(f) == {Serves(url[f])} \cup ({Pin[f]} \ {Absent})

Init ==
    /\ ver = [u \in Urls |-> 1]
    /\ url \in [Folders -> Urls]
    /\ out = [f \in Folders |-> Absent]
    /\ may = [f \in Folders |-> {}]
    /\ told = [f \in Folders |-> "nothing"]

Publish(u) ==
    /\ ver[u] < Len(Bodies[u])
    /\ ver' = [ver EXCEPT ![u] = @ + 1]
    /\ may' = [f \in Folders |->
                 IF may[f] # {} /\ url[f] = u
                 THEN may[f] \cup {Serves(u)'} ELSE may[f]]
    /\ UNCHANGED <<url, out, told>>

Begin(f) ==
    /\ may[f] = {}
    /\ may' = [may EXCEPT ![f] = Asked(f)]
    /\ told' = [told EXCEPT ![f] = "nothing"]
    /\ UNCHANGED <<ver, url, out>>

Land(f) ==
    /\ \E b \in may[f] : out' = [out EXCEPT ![f] = b]
    /\ UNCHANGED <<ver, url, may, told>>

Succeed(f) ==
    /\ out[f] \in may[f]
    /\ may' = [may EXCEPT ![f] = {}]
    /\ told' = [told EXCEPT ![f] = "ok"]
    /\ UNCHANGED <<ver, url, out>>

Fail(f) ==
    /\ may[f] # {}
    /\ may' = [may EXCEPT ![f] = {}]
    /\ told' = [told EXCEPT ![f] = "failed"]
    /\ UNCHANGED <<ver, url, out>>

(* Between fetches a person may change the artifact, or the URL.           *)
Disturb(f) ==
    /\ may[f] = {}
    /\ \E b \in Bytes \cup {Absent} : out' = [out EXCEPT ![f] = b]
    /\ UNCHANGED <<ver, url, may, told>>

Repoint(f) ==
    /\ may[f] = {}
    /\ \E u \in Urls : url' = [url EXCEPT ![f] = u]
    /\ UNCHANGED <<ver, out, may, told>>

Next ==
    \/ \E u \in Urls : Publish(u)
    \/ \E f \in Folders :
         Begin(f) \/ Land(f) \/ Succeed(f) \/ Fail(f) \/ Disturb(f) \/ Repoint(f)

Spec == Init /\ [][Next]_vars
=============================================================================
