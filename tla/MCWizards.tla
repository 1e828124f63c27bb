------------------------------ MODULE MCWizards ------------------------------
(* The instance for TLC: two published versions, the newer one in use. *)
EXTENDS Wizards

MCSeed ==
  [latest |-> 2, unpublished |-> 0, using |-> 2, life |-> 0,
   ver |-> [v \in 1..MaxVersion |-> IF v = 1 THEN [raw |-> "a", published |-> TRUE]
                                    ELSE IF v = 2 THEN [raw |-> "b", published |-> TRUE]
                                    ELSE NoVersion]]
=============================================================================
