-------------------------- MODULE ElementLifecycle --------------------------
(***************************************************************************)
(* The life of one configuration element: its metadata, its numbered       *)
(* versions and its operation records, as coord/coordinator_kv_w.go writes *)
(* them and kv/retention_compact.go removes them.                          *)
(*                                                                         *)
(* Every handler is a few reads followed by a few writes of the key-value  *)
(* store, each one a request of its own: nothing locks the element and     *)
(* nothing is rolled back when a later write fails.  A write that must not *)
(* overwrite first checks that its key is absent (RaftKV shows that check  *)
(* and write are two steps).  A request that is refused before it writes   *)
(* leaves no trace and is not shown.                                       *)
(***************************************************************************)
EXTENDS Naturals, FiniteSets, Sequences

CONSTANTS
  Caller,      \* the administrators' requests under way
  Raw,         \* contents of a version; MD5 is taken to tell them apart
  NoRaw,       \* no content
  Op,          \* the operations used
  KeepCount,   \* RetentionConfig.KeepVersionCount
  CanFail,     \* may a write of the store fail?
  MaxVersion,  \* bound on version numbers
  MaxCalls     \* bound on the requests made

AllOps == {"Create", "Update", "Publish", "PublishAny", "Rollback", "Delete", "Compact"}

ASSUME ConstAssumption ==
  /\ NoRaw \notin Raw
  /\ Op \subseteq AllOps
  /\ KeepCount \in Nat /\ MaxVersion \in Nat \ {0} /\ MaxCalls \in Nat
  /\ CanFail \in BOOLEAN

VARIABLES
  md,       \* ElementMetadata
  ver,      \* ver[v]: the Element stored under version v
  ops,      \* the ElementOperation records
  call,     \* the requests
  compact,  \* the compaction under way
  calls,    \* how many requests have been made
  failed,   \* history: a write of a request has failed
  moved     \* history: callers that put an older version in use, or deleted the
            \* element, beside the compaction under way (or with their last request)

vars == <<md, ver, ops, call, compact, calls, failed, moved>>

Version == 1..MaxVersion
RawOrNone == Raw \cup {NoRaw}

Metadata == [latest : 0..MaxVersion, unpublished : 0..MaxVersion, using : 0..MaxVersion,
             fingerprint : RawOrNone]
NoMetadata == [latest |-> 0, unpublished |-> 0, using |-> 0, fingerprint |-> NoRaw]

\* old stands for createdAt: the version is older than the cutoff of the
\* compaction that started last.
Element == [raw : RawOrNone, published : BOOLEAN, old : BOOLEAN]
NoElement == [raw |-> NoRaw, published |-> FALSE, old |-> FALSE]
NoVersions == [v \in Version |-> NoElement]

Operation == [at : Nat, op : {"SET", "PUBLISH"}, last : 0..MaxVersion, current : 0..MaxVersion]

-----------------------------------------------------------------------------
(* Writes of the store *)

SaveMetadata(m, create) == [to |-> "metadata", value |-> m, create |-> create]
SaveVersion(v, e, create) == [to |-> "version", number |-> v, value |-> e, create |-> create]
SaveOperation(op, last, current) ==
  [to |-> "operation", create |-> FALSE,
   value |-> [at |-> calls + 1, op |-> op, last |-> last, current |-> current]]
UnsetElement == [to |-> "element", create |-> FALSE]
UnsetOperations == [to |-> "operations", create |-> FALSE]

\* Mutant: versions are not checked.
ExistsMetadataOnly(w) == w.to = "metadata" /\ md # NoMetadata

\* The key a write must not overwrite exists.
Exists(w) ==
  \/ w.to = "metadata" /\ md # NoMetadata
  \/ w.to = "version" /\ ver[w.number] # NoElement

\* SetKV keeps the createdAt of the version it overwrites.
Stored(w) == [w.value EXCEPT !.old = ver[w.number].old]

\* The effect of a write that the store accepts.
Written(w) ==
  \/ /\ w.to = "metadata"
     /\ md' = w.value
     /\ UNCHANGED <<ver, ops>>
  \/ /\ w.to = "version"
     /\ ver' = [ver EXCEPT ![w.number] = Stored(w)]
     /\ UNCHANGED <<md, ops>>
  \/ /\ w.to = "operation"
     /\ ops' = ops \cup {w.value}
     /\ UNCHANGED <<md, ver>>
  \/ /\ w.to = "element"
     /\ md' = NoMetadata
     /\ ver' = NoVersions
     /\ UNCHANGED ops
  \/ /\ w.to = "operations"
     /\ ops' = {}
     /\ UNCHANGED <<md, ver>>

-----------------------------------------------------------------------------
(* Requests *)

IdleCall == [pc |-> "idle", read |-> NoMetadata, version |-> 0, todo |-> <<>>]
Idle(c) == call[c] = IdleCall
NoCompact == [pc |-> "idle", read |-> NoMetadata, drop |-> {}, dropOps |-> {}]

begin(c, rec) ==
  /\ calls < MaxCalls
  /\ calls' = calls + 1
  /\ Idle(c)
  /\ call' = [call EXCEPT ![c] = rec]
  /\ UNCHANGED <<md, ver, ops, compact, failed>>

\* History: does the request look back, beyond the draft?
note(c, back) ==
  moved' = (IF compact = NoCompact THEN moved \ {c} ELSE moved) \cup (IF back THEN {c} ELSE {})

Writes(todo) == [IdleCall EXCEPT !.pc = "write", !.todo = todo]

CreateElement(c) ==
  /\ "Create" \in Op
  /\ note(c, FALSE)
  /\ \E r \in Raw :
       begin(c, Writes(<<SaveMetadata([NoMetadata EXCEPT !.latest = 1, !.unpublished = 1], TRUE),
                         SaveVersion(1, [NoElement EXCEPT !.raw = r], TRUE),
                         SaveOperation("SET", 0, 1)>>))

\* An element with an unpublished version is not updated.
UpdateElement(c) ==
  /\ "Update" \in Op
  /\ md # NoMetadata
  /\ md.unpublished = 0
  /\ md.latest < MaxVersion
  /\ note(c, FALSE)
  /\ \E r \in Raw :
       LET v == md.latest + 1
       IN begin(c, Writes(<<SaveVersion(v, [NoElement EXCEPT !.raw = r], TRUE),
                            SaveMetadata([md EXCEPT !.latest = v, !.unpublished = v], FALSE),
                            SaveOperation("SET", md.latest, v)>>))

DeleteElement(c) ==
  /\ "Delete" \in Op
  /\ note(c, TRUE)
  /\ begin(c, Writes(<<UnsetElement, UnsetOperations>>))

\* Version 0 asks for the unpublished one; the metadata is read first ...
PublishElementVersion(c) ==
  /\ md # NoMetadata
  /\ \E v \in (IF "Publish" \in Op THEN {md.unpublished} ELSE {})
                \cup (IF "PublishAny" \in Op THEN Version ELSE {}) :
       /\ v # 0
       /\ note(c, v # md.unpublished)
       /\ begin(c, [IdleCall EXCEPT !.pc = "publish", !.read = md, !.version = v])

RollbackElementVersion(c) ==
  /\ "Rollback" \in Op
  /\ md # NoMetadata
  /\ note(c, TRUE)
  /\ \E v \in Version :
       begin(c, [IdleCall EXCEPT !.pc = "rollback", !.read = md, !.version = v])

\* ... then the version, which must exist.
found(c) == ver[call[c].version] # NoElement

proceed(c, todo) ==
  /\ call' = [call EXCEPT ![c] = IF todo = <<>> THEN IdleCall ELSE Writes(todo)]
  /\ UNCHANGED <<md, ver, ops, compact, calls, failed, moved>>

\* Mutant: the element keeps its draft.
publishFoundKeepsDraft(c) ==
  LET v == call[c].version
      m == call[c].read
  IN <<SaveMetadata([m EXCEPT !.using = v, !.fingerprint = ver[v].raw], FALSE),
       SaveVersion(v, [ver[v] EXCEPT !.published = TRUE], FALSE),
       SaveOperation("PUBLISH", m.using, v)>>

publishFound(c) ==
  LET v == call[c].version
      m == call[c].read
  IN <<SaveMetadata([m EXCEPT !.using = v, !.unpublished = 0, !.fingerprint = ver[v].raw], FALSE),
       SaveVersion(v, [ver[v] EXCEPT !.published = TRUE], FALSE),
       SaveOperation("PUBLISH", m.using, v)>>

publishRead(c) ==
  /\ call[c].pc = "publish"
  /\ proceed(c, IF found(c) THEN publishFound(c) ELSE <<>>)

\* Mutants: the fingerprint is kept; the operation records the wrong version.
rollbackFoundStale(c) ==
  <<SaveMetadata([call[c].read EXCEPT !.using = call[c].version], FALSE),
    SaveOperation("PUBLISH", call[c].read.using, call[c].version)>>
rollbackFoundAudit(c) ==
  LET v == call[c].version
      m == call[c].read
  IN <<SaveMetadata([m EXCEPT !.using = v, !.fingerprint = ver[v].raw], FALSE),
       SaveOperation("PUBLISH", v, v)>>

rollbackFound(c) ==
  LET v == call[c].version
      m == call[c].read
  IN <<SaveMetadata([m EXCEPT !.using = v, !.fingerprint = ver[v].raw], FALSE),
       SaveOperation("PUBLISH", m.using, v)>>

\* Only a version below the one in use can be rolled back to.
rollbackRead(c) ==
  /\ call[c].pc = "rollback"
  /\ proceed(c, IF found(c) /\ call[c].read.using > call[c].version THEN rollbackFound(c) ELSE <<>>)

-----------------------------------------------------------------------------
(* saveRaw and UnsetKV, for the next write of a request *)

rest(c) ==
  [call EXCEPT ![c] = IF Tail(@.todo) = <<>> THEN IdleCall ELSE Writes(Tail(@.todo))]

\* SetKV without overwrite looks for the key and answers "exists".
checkAbsent(c) ==
  /\ call[c].todo # <<>>
  /\ Head(call[c].todo).create
  /\ call' = [call EXCEPT ![c] = IF Exists(Head(@.todo)) THEN IdleCall
                                 ELSE [@ EXCEPT !.todo[1].create = FALSE]]
  /\ UNCHANGED <<md, ver, ops, compact, calls, failed, moved>>

saveRaw(c) ==
  /\ call[c].todo # <<>>
  /\ ~Head(call[c].todo).create
  /\ Written(Head(call[c].todo))
  /\ call' = rest(c)
  /\ UNCHANGED <<compact, calls, failed, moved>>

\* The write fails, with or without having reached the store: the request
\* returns the error and leaves the rest undone.
saveRawFails(c) ==
  /\ CanFail
  /\ call[c].todo # <<>>
  /\ \/ ~Head(call[c].todo).create /\ Written(Head(call[c].todo))
     \/ UNCHANGED <<md, ver, ops>>
  /\ call' = [call EXCEPT ![c] = IdleCall]
  /\ failed' = TRUE
  /\ UNCHANGED <<compact, calls, moved>>

-----------------------------------------------------------------------------
(* compactElementHistory *)

\* A request that is creating version v has not returned yet.
Creating(v) ==
  \E c \in Caller : \E i \in DOMAIN call[c].todo :
    LET w == call[c].todo[i]
    IN w.to = "operation" /\ w.value.op = "SET" /\ w.value.current = v

\* loadElementMetadataForCompact.  The cutoff lies in the past, by more than a
\* request takes (30 days by default): some of the versions there are, those
\* up to w, are older, and no version yet to come will be.
CompactStart(w) ==
  /\ "Compact" \in Op
  /\ calls < MaxCalls /\ calls' = calls + 1
  /\ compact = NoCompact
  /\ md # NoMetadata
  /\ \A v \in 1..w : ~Creating(v)
  /\ ver' = [v \in Version |-> [ver[v] EXCEPT !.old = ver[v].raw # NoRaw /\ v <= w]]
  /\ compact' = [compact EXCEPT !.pc = "range", !.read = md]
  /\ moved' = {c \in moved : ~Idle(c)}
  /\ UNCHANGED <<md, ops, call, failed>>

\* The stored versions, and how many of them have a larger number.
Stock == {v \in Version : ver[v].raw # NoRaw}
Newer(v) == Cardinality({u \in Stock : u > v})

\* Mutant: the unpublished version is not protected.
retainedVersionSetNoDraft(m) ==
  {m.using} \cup {v \in Stock : ~ver[v].old \/ Newer(v) < KeepCount}

retainedVersionSet(m) ==
  {m.using, m.unpublished} \cup {v \in Stock : ~ver[v].old \/ Newer(v) < KeepCount}

\* loadCompactVersions and loadCompactOperations.  The operations up to some
\* time are older than their cutoff.
CompactRange ==
  /\ compact.pc = "range"
  /\ \E t \in 0..MaxCalls :
       compact' = [compact EXCEPT !.pc = "unset",
                                  !.drop = Stock \ retainedVersionSet(compact.read),
                                  !.dropOps = {o \in ops : o.at <= t}]
  /\ UNCHANGED <<md, ver, ops, call, calls, failed, moved>>

\* Versions are removed one by one; a removal that fails is skipped.
CompactUnset(v) ==
  /\ compact.pc = "unset" /\ v \in compact.drop
  /\ compact' = [compact EXCEPT !.drop = @ \ {v}]
  /\ \/ ver' = [ver EXCEPT ![v] = NoElement]
     \/ CanFail /\ UNCHANGED ver
  /\ UNCHANGED <<md, ops, call, calls, failed, moved>>

\* Then the operations, oldest first.
CompactUnsetOperation(o) ==
  /\ compact.pc = "unset" /\ compact.drop = {}
  /\ o \in compact.dropOps /\ \A p \in compact.dropOps : o.at <= p.at
  /\ compact' = [compact EXCEPT !.dropOps = @ \ {o}]
  /\ \/ ops' = ops \ {o}
     \/ CanFail /\ UNCHANGED ops
  /\ UNCHANGED <<md, ver, call, calls, failed, moved>>

CompactDone ==
  /\ compact.pc = "unset" /\ compact.drop = {} /\ compact.dropOps = {}
  /\ compact' = NoCompact
  /\ UNCHANGED <<md, ver, ops, call, calls, failed, moved>>

-----------------------------------------------------------------------------

Init ==
  /\ md = NoMetadata
  /\ ver = NoVersions
  /\ ops = {}
  /\ call = [c \in Caller |-> IdleCall]
  /\ compact = NoCompact
  /\ calls = 0
  /\ failed = FALSE
  /\ moved = {}

Request(c) ==
  \/ CreateElement(c) \/ UpdateElement(c) \/ DeleteElement(c)
  \/ PublishElementVersion(c) \/ RollbackElementVersion(c)
Step(c) ==
  \/ publishRead(c) \/ rollbackRead(c)
  \/ checkAbsent(c) \/ saveRaw(c) \/ saveRawFails(c)
Compaction ==
  \/ \E w \in 0..MaxVersion : CompactStart(w)
  \/ CompactRange
  \/ \E v \in compact.drop : CompactUnset(v)
  \/ \E o \in compact.dropOps : CompactUnsetOperation(o)
  \/ CompactDone

Next == (\E c \in Caller : Request(c) \/ Step(c)) \/ Compaction

Spec == Init /\ [][Next]_vars

-----------------------------------------------------------------------------
(* Properties *)

Write ==
  [to : {"metadata"}, value : Metadata, create : BOOLEAN]
    \cup [to : {"version"}, number : Version, value : Element, create : BOOLEAN]
    \cup [to : {"operation"}, value : Operation, create : BOOLEAN]
    \cup [to : {"element", "operations"}, create : BOOLEAN]

\* Every variable has its type, the writes a request has yet to make included.
TypeOK ==
  /\ md \in Metadata
  /\ ver \in [Version -> Element]
  /\ \A o \in ops : o \in Operation
  /\ call \in [Caller -> [pc : {"idle", "publish", "rollback", "write"}, read : Metadata,
                          version : 0..MaxVersion, todo : Seq(Write)]]
  /\ compact \in [pc : {"idle", "range", "unset"}, read : Metadata,
                   drop : SUBSET Version, dropOps : SUBSET Operation]
  /\ calls \in 0..MaxCalls /\ failed \in BOOLEAN /\ moved \subseteq Caller

Quiet == compact = NoCompact /\ \A c \in Caller : Idle(c)

\* What the metadata says is in use can be read, with the content its
\* fingerprint was computed from.  Agents serve it to every client.
ServedVersionIntact ==
  md.using # 0 => ver[md.using].raw = md.fingerprint

\* The content of a published version never changes.
PublishedIsImmutable ==
  [][\A v \in Version : ver[v].published /\ ver'[v] # NoElement =>
        ver'[v].published /\ ver'[v].raw = ver[v].raw]_vars

\* Compaction removes neither the version in use nor the one awaiting
\* publication, as the metadata names them when the removal happens and not
\* when compactElementHistory read it: updates and publications of the draft
\* move both on meanwhile.  A roll-back, a publication of another version than
\* the draft and a deletion are the exception: each may put in use, or let be
\* created anew, a version the compaction has already chosen, if it is made
\* before the removals end.  Made before the compaction starts they do no harm.
CompactionSpares ==
  [][moved = {} /\ md' = md =>
       \A v \in {md.using, md.unpublished} \ {0} : ver'[v] = NoElement => ver[v] = NoElement]_vars

\* As long as no write fails half way, the element never gets stuck: the version
\* awaiting publication can be published, and if there is none the number the
\* next update gets is free.  (An update that fails after its version is
\* written takes the number for good: every further update is refused.)
NextStepPossible ==
  Quiet /\ ~failed /\ md # NoMetadata =>
    IF md.unpublished # 0
    THEN ver[md.unpublished].raw # NoRaw /\ ~ver[md.unpublished].published
    ELSE md.latest < MaxVersion => ver[md.latest + 1] = NoElement

\* As long as no write fails half way, the records of what was in use form a
\* chain that ends at what is.
Publications == {o \in ops : o.op = "PUBLISH"}
AuditTrail ==
  Quiet /\ ~failed =>
    \A o \in Publications :
      LET later == {p \in Publications : p.at > o.at}
      IN IF later = {} THEN md.using = o.current
         ELSE \E p \in later : p.last = o.current /\ \A q \in later : p.at <= q.at
=============================================================================
