---------------------------- MODULE MCRecording ----------------------------
(***************************************************************************)
(* Small instances of Recording: two names share a file name, and the two  *)
(* sessions may come to one path.                                          *)
(***************************************************************************)
EXTENDS Recording, TLC

CONSTANTS s1, s2, load, load2, clean

SlugOf == load :> "load" @@ load2 :> "load" @@ clean :> "clean"

Asked == s1 :> {load, clean} @@ s2 :> {load2}
=============================================================================
