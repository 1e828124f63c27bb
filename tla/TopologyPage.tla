---------------------------- MODULE TopologyPage ----------------------------
(***************************************************************************)
(* The console's page of the cluster: it loads the databases, agents and   *)
(* instances and draws them as a graph.  The graph is a pure function of   *)
(* what was loaded: many instances of one agent become one node, and every *)
(* node of instances is attached to its agent.  Positions, labels and      *)
(* health are left out.  One record, top, is the page's state.             *)
(***************************************************************************)
EXTENDS Integers, FiniteSets, Sequences

CONSTANTS
  Topology,      \* what the server may answer: databases, agents, instances
  NoId,          \* a missing id
  Unassigned,    \* the name that stands for a missing agent
  FallbackId,    \* names of agents without an id, by position
  Threshold,     \* instances an agent may have before they become one node
  MaxRefresh     \* bound on the loads

\* dbs is the number of databases; an agent is its id, an instance the id of its agent.
NoTopology == [dbs |-> 0, agents |-> <<>>, instances |-> <<>>]

VARIABLE top

-----------------------------------------------------------------------------
(* The graph *)

agentId(t, i) == IF t.agents[i] = NoId THEN FallbackId[i] ELSE t.agents[i]

ownerOf(t, j) == IF t.instances[j] = NoId THEN Unassigned ELSE t.instances[j]

groupInstancesByAgent(t) ==
  [a \in {ownerOf(t, j) : j \in DOMAIN t.instances} |-> {j \in DOMAIN t.instances : ownerOf(t, j) = a}]

\* Mutant: at the threshold a group takes the place of the instances beyond it only.
getInstanceGraphNodesCut(t) ==
  LET group == groupInstancesByAgent(t)
  IN UNION {IF Cardinality(group[a]) > Threshold
            THEN {[agent |-> a, members |-> {j \in group[a] : \E i \in group[a] : i < j}]}
            ELSE {[agent |-> a, members |-> {j}] : j \in group[a]} : a \in DOMAIN group}

\* A node for each instance, or one for all instances of an agent.
getInstanceGraphNodes(t) ==
  LET group == groupInstancesByAgent(t)
  IN UNION {IF Cardinality(group[a]) > Threshold THEN {[agent |-> a, members |-> group[a]]}
            ELSE {[agent |-> a, members |-> {j}] : j \in group[a]} : a \in DOMAIN group}

\* The agent a node is attached to: the last one of that name, or else the first.
attached(t, n) ==
  LET named == {i \in DOMAIN t.agents : agentId(t, i) = n.agent}
  IN IF named = {} THEN 1 ELSE CHOOSE i \in named : \A j \in named : j <= i

buildTopologyGraph(t) ==
  [dbEdges |-> (1..t.dbs) \X DOMAIN t.agents,
   nodes |-> getInstanceGraphNodes(t),
   edges |-> {[agent |-> attached(t, n), node |-> n] :
                n \in {m \in getInstanceGraphNodes(t) : t.agents # <<>>}}]

-----------------------------------------------------------------------------
(* The page *)

Opened == [mounted |-> TRUE, topology |-> NoTopology, failed |-> FALSE, loading |-> TRUE,
           seq |-> 1, loads |-> {1}]

Gone == [Opened EXCEPT !.mounted = FALSE, !.loading = FALSE, !.loads = {}]

topologyLoaded(l, t) ==
  top' = [(IF l = top.seq THEN [top EXCEPT !.topology = t, !.failed = FALSE, !.loading = FALSE]
           ELSE top) EXCEPT !.loads = @ \ {l}]

topologyFailed(l) ==
  top' = [(IF l = top.seq THEN [top EXCEPT !.topology = NoTopology, !.failed = TRUE, !.loading = FALSE]
           ELSE top) EXCEPT !.loads = @ \ {l}]

\* The refresh button.
loadTopology ==
  /\ top.mounted /\ ~top.loading /\ top.seq < MaxRefresh
  /\ top' = [top EXCEPT !.seq = @ + 1, !.loads = @ \cup {top.seq + 1}, !.loading = TRUE]

leave == top.mounted /\ top' = Gone

AnswerStep ==
  \E l \in top.loads : topologyFailed(l) \/ \E t \in Topology : topologyLoaded(l, t)

Next == AnswerStep \/ loadTopology \/ leave
-----------------------------------------------------------------------------
(* The parts of the properties that concern this page *)

PageOK ==
  /\ top.topology \in Topology /\ top.loading \in BOOLEAN /\ top.failed \in BOOLEAN
  /\ top.seq \in 1..(MaxRefresh + 1)

GraphIsFaithful ==
  LET t == top.topology
      g == buildTopologyGraph(t)
  IN /\ \A j \in DOMAIN t.instances : Cardinality({n \in g.nodes : j \in n.members}) = 1
     /\ t.agents # <<>> => \A j \in DOMAIN t.instances :
          \E e \in g.edges :
            /\ j \in e.node.members
            /\ (\E i \in DOMAIN t.agents : agentId(t, i) = ownerOf(t, j)) => agentId(t, e.agent) = ownerOf(t, j)
     /\ \A n \in g.nodes : Cardinality({e \in g.edges : e.node = n}) = IF t.agents = <<>> THEN 0 ELSE 1
     /\ Cardinality(g.dbEdges) = t.dbs * Len(t.agents)

Locked == top.mounted /\ top.loading
=============================================================================
