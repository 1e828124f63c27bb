----------------------------- MODULE MCCopyEnv -----------------------------
(***************************************************************************)
(* Two applications, each with an environment of one name: the one whose   *)
(* page is opened holds a blank element, one in use and a draft there, the *)
(* other a single element, in use, whose key is that of the blank one.  A  *)
(* second name is left for the target.                                     *)
(***************************************************************************)
EXTENDS CopyEnv, TLC

CONSTANTS a1, a2, e1, e2, k1, k2, k3, r1

Empty == [raw |-> Blank, used |-> TRUE]
InUse == [raw |-> r1, used |-> TRUE]
Draft == [raw |-> r1, used |-> FALSE]

MCSeed ==
  [p \in {<<a1, e1>>, <<a2, e1>>} |-> [k \in {k1, k2, k3} |->
     CASE p[1] = a1 -> (k1 :> Empty @@ k2 :> InUse @@ k3 :> Draft)[k]
       [] p[1] = a2 -> IF k = k1 THEN InUse ELSE None]]
\* An element appears in the target.
MCOtherWrite == {<<<<a1, e2>>, k2, InUse>>}
MCOtherEnv == {<<a1, e2>>}
=============================================================================
