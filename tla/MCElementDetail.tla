--------------------------- MODULE MCElementDetail ---------------------------
(* The instance for TLC: an element with a published version and one with a draft. *)
EXTENDS ElementDetail

MCSeed ==
  [k \in Key |->
     IF k = "k1" THEN [latest |-> 1, unpublished |-> 0, using |-> 1, life |-> 0,
                       ver |-> [NoVersions EXCEPT ![1] = [raw |-> "bad", published |-> TRUE]]]
     ELSE [latest |-> 1, unpublished |-> 1, using |-> 0, life |-> 0,
           ver |-> [NoVersions EXCEPT ![1] = [raw |-> "a", published |-> FALSE]]]]
=============================================================================
