----------------------------- MODULE MCConsole -----------------------------
(* The instance for TLC: three items, one of which the search text misses. *)
EXTENDS Console

MCMatch == [q \in Query |-> IF q = 0 THEN Item ELSE Item \ {2}]
MCSeed == [p \in Place |-> IF p = AppPlace THEN {1, 2, 3} ELSE IF p \in EnvPlace THEN {1} ELSE {1, 2}]

\* Agents with and without an id, one named like the group of instances that
\* have no agent; instances of a known, an unknown and no agent.
MCFallbackId == <<"agent-1", "agent-2">>
UpTo(n, S) == UNION {[1..k -> S] : k \in 0..n}
MCTopology ==
  [dbs : {2}, agents : UpTo(2, {"", "a", "unassigned"}), instances : UpTo(2, {"", "a", "agent-1"})]
    \cup [dbs : {0}, agents : {<<>>}, instances : {<<>>}]
=============================================================================
