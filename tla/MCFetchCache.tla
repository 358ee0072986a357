---------------------------- MODULE MCFetchCache ----------------------------
(***************************************************************************)
(* Small instances of FetchCache.  Two folders; `page` answers in one hop  *)
(* with a Last-Modified, `data` redirects to storage and declares hashes.  *)
(***************************************************************************)
EXTENDS FetchCache, TLC

CONSTANTS f, g, page, data, a, b, c

AsBodies == page :> <<a, b>> @@ data :> <<b, c>>

AsStamps == page :> <<1, 3>> @@ data :> <<0, 2>>

PinB == f :> Absent @@ g :> b

\* No two origins answer by Last-Modified.
OneByTime == page :> << {"modified"} >> @@ data :> << {"etag", "digest"}, {"etag"} >>

MovesToPage == {<<data, page>>}
=============================================================================
