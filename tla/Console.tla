------------------------------ MODULE Console ------------------------------
(***************************************************************************)
(* An administrator at one of five of the console's pages (applications,   *)
(* environments, elements, instances, topology), other administrators who  *)
(* change what the first three list, and the server.  The router mounts    *)
(* one page at a time, so that the steps of two pages never meet.          *)
(***************************************************************************)
EXTENDS Collections

CONSTANTS
  AppPlace,      \* the collection of applications
  EnvPlace,      \* applications, each a collection of environments
  ElementPlace,  \* environments, each a collection of elements
  EnvItem,       \* names of environments
  MaxAppLoad,    \* bound on the loads of the page of applications
  Instance, App, Text, MaxRequest,                           \* see InstancesPage
  Topology, NoId, Unassigned, FallbackId, Threshold, MaxRefresh  \* see TopologyPage

ASSUME ConsoleAssumption ==
  /\ {AppPlace} \cup EnvPlace \cup ElementPlace \subseteq Place
  /\ EnvPlace # {} /\ ElementPlace # {} /\ EnvItem \subseteq Item /\ MaxAppLoad \in Nat \ {0}

VARIABLES ap, ev, el, ins, top

vars == <<serverVars, ap, ev, el, ins, top>>

A == INSTANCE AppsPage WITH MaxLoad <- MaxAppLoad
V == INSTANCE EnvsPage WITH Item <- EnvItem
E == INSTANCE ElementsPage
I == INSTANCE InstancesPage
T == INSTANCE TopologyPage

ASSUME ClusterAssumption ==
  /\ 0 \in App \cap Text /\ 0 \notin Instance /\ MaxRequest \in Nat
  /\ T!NoTopology \in Topology /\ Threshold \in Nat /\ MaxRefresh \in Nat
  /\ \A t \in Topology :
       /\ t.dbs \in Nat /\ Len(t.agents) \in Nat /\ DOMAIN t.agents = 1..Len(t.agents)
       /\ DOMAIN t.agents \subseteq DOMAIN FallbackId

\* The administrator opens a page: of environments or elements at the first of
\* its (like) locations, of instances with any search parameters.
Init ==
  /\ items = Seed /\ others = 0
  /\ \E page \in {"apps", "envs", "elements", "instances", "topology"} :
       /\ ap = IF page = "apps" THEN A!Opened ELSE A!Gone(A!IdleTask)
       /\ ev = IF page = "envs" THEN V!Opened(CHOOSE p \in EnvPlace : TRUE)
               ELSE V!Gone(V!IdleTask, V!IdleTask)
       /\ el = IF page = "elements" THEN E!Opened(CHOOSE p \in ElementPlace : TRUE)
               ELSE E!Gone(E!IdleTask)
       /\ ins \in IF page = "instances" THEN {I!Opened(a, e, k) : a \in App, e \in Text, k \in Text}
                  ELSE {I!Gone}
       /\ top = IF page = "topology" THEN T!Opened ELSE T!Gone

Next ==
  \/ A!Next /\ UNCHANGED <<ev, el, ins, top>>
  \/ V!Next /\ UNCHANGED <<ap, el, ins, top>>
  \/ E!Next /\ UNCHANGED <<ap, ev, ins, top>>
  \/ I!Next /\ UNCHANGED <<serverVars, ap, ev, el, top>>
  \/ T!Next /\ UNCHANGED <<serverVars, ap, ev, el, ins>>

Spec == Init /\ [][Next]_vars

LoadStep ==
  /\ UNCHANGED serverVars
  /\ \/ A!LoadStep /\ UNCHANGED <<ev, el, ins, top>>
     \/ V!LoadStep /\ UNCHANGED <<ap, el, ins, top>>
     \/ E!LoadStep /\ UNCHANGED <<ap, ev, ins, top>>
     \/ I!AnswerStep /\ UNCHANGED <<ap, ev, el, top>>
     \/ T!AnswerStep /\ UNCHANGED <<ap, ev, el, ins>>

TaskStep ==
  \/ A!TaskStep /\ UNCHANGED <<ev, el, ins, top>>
  \/ V!TaskStep /\ UNCHANGED <<ap, el, ins, top>>
  \/ E!TaskStep /\ UNCHANGED <<ap, ev, ins, top>>

CopyStep == V!CopyStep /\ UNCHANGED <<ap, el, ins, top>>

\* Every request is answered or fails.
FairSpec == Spec /\ WF_vars(LoadStep) /\ WF_vars(TaskStep) /\ WF_vars(CopyStep)
-----------------------------------------------------------------------------
(* Properties *)

\* Every field of the pages and the server keeps its type (the state hooks of
\* AppsPage, EnvsPage, ElementsPage, InstancesPage and AgentsPage).
TypeOK == ServerType /\ A!PageOK /\ V!PageOK /\ E!PageOK /\ I!PageOK /\ T!PageOK

\* Once the last load is answered, what a page shows is the answer to what its
\* controls and location say, in whatever order the answers came (requestSeq,
\* lastLoadKeyRef, canApplyMutationResult).  The rows: for the applications the
\* query, page size and cursor; for the environments the application, unless a
\* copy started elsewhere has just loaded; for the elements the environment and
\* the query, unless "load more" was pressed before the first answer; for the
\* instances the filter last applied.  The detail of an instance, shown or on
\* its way: one of the list (detailRequestSeq).  The keys on offer: those of the
\* fields, unless one was typed or cleared while they were awaited (candidateSeq).
ShownMatchesControls ==
  /\ A!RowsOfRequest /\ V!RowsOfLocation /\ E!RowsOfLocation
  /\ I!RowsOfFilter /\ I!DetailOfRow /\ I!KeysOfFields

\* Once the last load is answered, what this page created or deleted, with the
\* server's acknowledgement and nobody else's change since, is or is not among
\* the rows, whatever page, query or cursor was shown before (the loads after
\* handleCreate and handleDelete).
OwnChangesShown == A!OwnShown /\ V!OwnShown /\ E!OwnShown

\* Paging is sound whatever others insert or delete between the pages.  The
\* elements shown never repeat and stay in order over any number of "load more",
\* and the next page starts after them (handleLoadMore, the append in
\* loadElements); the cursors kept for "previous" lead from the first page of
\* applications to this one and never forward (handleNextPage, resetPaging).
PagingIsSound == E!RowsAscend /\ A!WayBack

\* The graph drawn has every instance in exactly one node, each node attached
\* once, to the agent its instances name whenever that agent is listed, and
\* every database linked to every agent (buildTopologyGraph).
GraphIsFaithful == T!GraphIsFaithful

Locked == A!Locked \/ V!Locked \/ E!Locked \/ I!Locked \/ T!Locked

\* No page stays locked by its flags: they are cleared, or the page is left
\* (the finally blocks of the handlers and loads).
NeverLocked == Locked ~> ~Locked
=============================================================================
