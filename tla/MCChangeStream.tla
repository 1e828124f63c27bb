--------------------------- MODULE MCChangeStream ---------------------------
(* ChangeStream on one key and its directory. *)
EXTENDS ChangeStream, TLC

CONSTANTS k, d, o1, o2

MCDirectory == k :> d
MCTopics == (o1 :> {k, d}) @@ (o2 :> {k})
=============================================================================
