---------------------------- MODULE ElementStore ----------------------------
(***************************************************************************)
(* The element service as the console sees it: what each HTTP request does *)
(* to an element once the server runs it.  A request is one step here;     *)
(* module ElementLifecycle takes the server's handlers apart.              *)
(***************************************************************************)
EXTENDS Naturals, FiniteSets

CONSTANTS
  Key,         \* the elements of the environment
  Raw,         \* contents
  NoRaw,       \* no content
  MaxVersion,  \* bound on version numbers
  MaxOther,    \* bound on other administrators' requests
  OtherOp      \* the requests they make

ASSUME StoreAssumption ==
  /\ NoRaw \notin Raw
  /\ MaxVersion \in Nat \ {0} /\ MaxOther \in Nat
  /\ OtherOp \subseteq {"create", "update", "publish", "rollback", "delete", "compact"}

VARIABLES
  store,   \* the elements
  others   \* requests made by other administrators

storeVars == <<store, others>>

Version == 1..MaxVersion
VersionRecord == [raw : Raw \cup {NoRaw}, published : BOOLEAN]
NoVersion == [raw |-> NoRaw, published |-> FALSE]
NoVersions == [v \in Version |-> NoVersion]

\* life counts the element's deletions, which the server does not record.
Element == [latest : 0..MaxVersion, unpublished : 0..MaxVersion, using : 0..MaxVersion,
            ver : [Version -> VersionRecord], life : Nat]
Absent(n) == [latest |-> 0, unpublished |-> 0, using |-> 0, ver |-> NoVersions, life |-> n]

Exists(e) == e.latest # 0
Stored(e) == {v \in Version : e.ver[v] # NoVersion}

CanCreate(e) == ~Exists(e)
created(e, r) ==
  [e EXCEPT !.latest = 1, !.unpublished = 1, !.ver[1] = [raw |-> r, published |-> FALSE]]

\* An element with a draft is not updated.
CanUpdate(e) == Exists(e) /\ e.unpublished = 0 /\ e.latest < MaxVersion
updated(e, r) ==
  LET v == e.latest + 1
  IN [e EXCEPT !.latest = v, !.unpublished = v, !.ver[v] = [raw |-> r, published |-> FALSE]]

\* Mutant: a draft is published first, whatever was asked for.
publishedDraft(e, v) ==
  LET d == IF e.unpublished # 0 THEN e.unpublished ELSE v
  IN [e EXCEPT !.using = d, !.unpublished = 0, !.ver[d].published = TRUE]

\* Any stored version may be published, and the element has no draft then.
CanPublish(e, v) == v \in Stored(e)
published(e, v) ==
  [e EXCEPT !.using = v, !.unpublished = 0, !.ver[v].published = TRUE]

CanRollback(e, v) == v \in Stored(e) /\ v < e.using
rolledBack(e, v) == [e EXCEPT !.using = v]

deleted(e) == Absent(e.life + 1)

\* Retention may drop any version but the one in use and the draft: with a keep
\* count of 0 the latest too.
CanCompact(e, v) == v \in Stored(e) \ {e.using, e.unpublished}
compacted(e, v) == [e EXCEPT !.ver[v] = NoVersion]

\* What a request of another administrator makes of element e.
OtherResults(e) ==
  {created(e, r) : r \in {x \in Raw : "create" \in OtherOp /\ CanCreate(e)}}
  \cup {updated(e, r) : r \in {x \in Raw : "update" \in OtherOp /\ CanUpdate(e)}}
  \cup {published(e, v) : v \in {x \in Version : "publish" \in OtherOp /\ CanPublish(e, x)}}
  \cup {rolledBack(e, v) : v \in {x \in Version : "rollback" \in OtherOp /\ CanRollback(e, x)}}
  \cup {deleted(x) : x \in {y \in {e} : "delete" \in OtherOp /\ Exists(e)}}
  \cup {compacted(e, v) : v \in {x \in Version : "compact" \in OtherOp /\ CanCompact(e, x)}}

OtherRequest(k) ==
  /\ others < MaxOther
  /\ others' = others + 1
  /\ \E e \in OtherResults(store[k]) : store' = [store EXCEPT ![k] = e]

StoreType == store \in [Key -> Element] /\ others \in 0..MaxOther
=============================================================================
