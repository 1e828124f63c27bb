------------------------------ MODULE MCRaftKV ------------------------------
(* Instances of RaftKV for TLC. *)
EXTENDS RaftKV, TLC

NodeSymmetry == Permutations(Node)
CallerSymmetry == Permutations(Caller)
NodeCallerSymmetry == NodeSymmetry \cup CallerSymmetry
=============================================================================
