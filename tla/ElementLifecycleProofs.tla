----------------------- MODULE ElementLifecycleProofs -----------------------
(***************************************************************************)
(* Proofs about the life of an element.  The store locks nothing, so what  *)
(* is proved of the handlers is proved of requests made one after another  *)
(* (Serial); a write of any of them may fail.  The types hold for any      *)
(* number of requests at once.                                             *)
(***************************************************************************)
EXTENDS ElementLifecycle, SequenceTheorems, TLAPS

-----------------------------------------------------------------------------
(* Types *)

Call == [pc : {"idle", "publish", "rollback", "write"}, read : Metadata,
         version : 0..MaxVersion, todo : Seq(Write)]
Compact == [pc : {"idle", "range", "unset"}, read : Metadata,
            drop : SUBSET Version, dropOps : SUBSET Operation]

\* A request that has read the metadata knows which version it is after.
Named(r) == r.pc \in {"publish", "rollback"} => r.version \in Version

Typed == TypeOK /\ \A c \in Caller : Named(call[c])

LEMMA NoneTyped ==
  /\ NoMetadata \in Metadata /\ NoElement \in Element /\ NoVersions \in [Version -> Element]
  /\ 0 \in 0..MaxVersion /\ 1 \in 0..MaxVersion /\ 1 \in Version /\ Version \subseteq 0..MaxVersion
  /\ Version \subseteq Nat
  /\ IdleCall \in Call /\ Named(IdleCall) /\ IdleCall.todo = <<>>
  <1>1. /\ 0 \in 0..MaxVersion /\ 1 \in 0..MaxVersion /\ 1 \in Version /\ Version \subseteq 0..MaxVersion
        /\ Version \subseteq Nat
    BY ConstAssumption DEF Version
  <1>2. NoMetadata \in Metadata /\ NoElement \in Element
    BY <1>1 DEF NoMetadata, Metadata, NoElement, Element, RawOrNone
  <1>3. NoVersions \in [Version -> Element]
    BY <1>2 DEF NoVersions
  <1>4. <<>> \in Seq(Write)
    BY EmptySeq
  <1>5. IdleCall \in Call /\ Named(IdleCall) /\ IdleCall.todo = <<>>
    BY <1>1, <1>2, <1>4 DEF IdleCall, Call, Named
  <1> QED BY <1>1, <1>2, <1>3, <1>5

\* The writes are writes.
LEMMA WriteTyped ==
  ASSUME NEW b \in BOOLEAN
  PROVE  /\ \A m \in Metadata : SaveMetadata(m, b) \in Write
         /\ \A v \in Version, e \in Element : SaveVersion(v, e, b) \in Write
         /\ UnsetElement \in Write /\ UnsetOperations \in Write
  BY DEF SaveMetadata, SaveVersion, UnsetElement, UnsetOperations, Write

LEMMA OperationTyped ==
  ASSUME calls \in Nat, NEW op \in {"SET", "PUBLISH"}, NEW u \in 0..MaxVersion, NEW v \in 0..MaxVersion
  PROVE  SaveOperation(op, u, v) \in Write
  <1>1. calls + 1 \in Nat
    OBVIOUS
  <1>2. [at |-> calls + 1, op |-> op, last |-> u, current |-> v] \in Operation
    BY <1>1 DEF Operation
  <1> QED BY <1>2 DEF SaveOperation, Write

LEMMA WritesTyped ==
  ASSUME NEW t \in Seq(Write)
  PROVE  Writes(t) \in Call /\ Named(Writes(t))
  BY NoneTyped DEF Writes, Call, Named, IdleCall

LEMMA ReadingTyped ==
  ASSUME NEW pc \in {"publish", "rollback"}, NEW m \in Metadata, NEW v \in Version
  PROVE  LET r == [IdleCall EXCEPT !.pc = pc, !.read = m, !.version = v]
         IN r \in Call /\ Named(r)
  BY NoneTyped DEF Call, Named, IdleCall

LEMMA SeqTyped ==
  ASSUME NEW S
  PROVE  /\ \A a, b \in S : <<a, b>> \in Seq(S)
         /\ \A a, b, d \in S : <<a, b, d>> \in Seq(S)
  OBVIOUS

\* An accepted write leaves data of the right type.
LEMMA WrittenTyped ==
  ASSUME TypeOK, NEW w \in Write, Written(w)
  PROVE  /\ md' \in Metadata
         /\ ver' \in [Version -> Element]
         /\ \A o \in ops' : o \in Operation
  <1>1. CASE w.to = "metadata"
    BY <1>1 DEF TypeOK, Write, Written
  <1>2. CASE w.to = "version"
    <2>1. w.number \in Version /\ w.value \in Element
      BY <1>2 DEF Write
    <2>2. Stored(w) \in Element
      BY <2>1 DEF Stored, Element, TypeOK
    <2>3. ver' = [ver EXCEPT ![w.number] = Stored(w)] /\ md' = md /\ ops' = ops
      BY <1>2 DEF Written
    <2> QED BY <2>1, <2>2, <2>3 DEF TypeOK
  <1>3. CASE w.to = "operation"
    BY <1>3 DEF TypeOK, Write, Written
  <1>4. CASE w.to = "element"
    BY <1>4, NoneTyped DEF TypeOK, Written
  <1>5. CASE w.to = "operations"
    BY <1>5 DEF TypeOK, Written
  <1> QED BY <1>1, <1>2, <1>3, <1>4, <1>5 DEF Write

\* A step of a request replaces its call by one of the right type.
LEMMA CallTyped ==
  ASSUME Typed, NEW c \in Caller, NEW r \in Call, Named(r), call' = [call EXCEPT ![c] = r]
  PROVE  call' \in [Caller -> Call] /\ \A d \in Caller : Named(call'[d])
  BY DEF Typed, TypeOK, Call

LEMMA BeginTyped ==
  ASSUME Typed, NEW c \in Caller, NEW r \in Call, Named(r), begin(c, r), moved' \subseteq Caller
  PROVE  Typed'
  <1>1. call' \in [Caller -> Call] /\ \A d \in Caller : Named(call'[d])
    BY CallTyped DEF begin
  <1>2. calls' \in 0..MaxCalls
    BY ConstAssumption DEF begin, Typed, TypeOK
  <1>3. \A d \in Caller : Named(call[d])'
    BY <1>1 DEF Named
  <1>4. TypeOK'
    BY <1>1, <1>2 DEF begin, Typed, TypeOK, Call
  <1> QED BY <1>3, <1>4 DEF Typed

LEMMA ProceedTyped ==
  ASSUME Typed, NEW c \in Caller, NEW t \in Seq(Write), proceed(c, t)
  PROVE  Typed'
  <1> DEFINE r == IF t = <<>> THEN IdleCall ELSE Writes(t)
  <1>0. r \in Call /\ Named(r)
    BY NoneTyped, WritesTyped
  <1>a. call' = [call EXCEPT ![c] = r]
    BY DEF proceed
  <1> HIDE DEF r
  <1>1. call' \in [Caller -> Call] /\ \A d \in Caller : Named(call'[d])
    BY <1>0, <1>a, CallTyped
  <1>3. \A d \in Caller : Named(call[d])'
    BY <1>1 DEF Named
  <1>4. TypeOK'
    BY <1>1 DEF proceed, Typed, TypeOK, Call
  <1> QED BY <1>3, <1>4 DEF Typed

\* Taking a write from the list.
LEMMA TodoTyped ==
  ASSUME Typed, NEW c \in Caller, call[c].todo # <<>>
  PROVE  /\ Head(call[c].todo) \in Write /\ Tail(call[c].todo) \in Seq(Write)
         /\ LET r == IF Tail(call[c].todo) = <<>> THEN IdleCall
                     ELSE Writes(Tail(call[c].todo))
            IN r \in Call /\ Named(r) /\ rest(c) = [call EXCEPT ![c] = r]
         /\ LET r == [call[c] EXCEPT !.todo[1].create = FALSE]
            IN r \in Call /\ Named(r)
  <1>1. call[c] \in Call /\ Named(call[c])
    BY DEF Typed, TypeOK, Call
  <1>2. call[c].todo \in Seq(Write)
    BY <1>1 DEF Call
  <1> DEFINE t == call[c].todo
  <1> HIDE DEF t
  <1>3. Head(t) \in Write /\ Tail(t) \in Seq(Write) /\ 1 \in DOMAIN t /\ t[1] = Head(t)
    BY <1>2, HeadTailProperties DEF t
  <1>4. [t[1] EXCEPT !.create = FALSE] \in Write
    BY <1>3 DEF Write
  <1>5. [t EXCEPT ![1] = [t[1] EXCEPT !.create = FALSE]] \in Seq(Write)
    BY <1>2, <1>3, <1>4, ExceptSeq DEF t
  <1>6. \A u \in Seq(Write) : [call[c] EXCEPT !.todo = u] \in Call /\ Named([call[c] EXCEPT !.todo = u])
    BY <1>1 DEF Call, Named
  <1>7. rest(c) = [call EXCEPT ![c] = IF Tail(t) = <<>> THEN IdleCall ELSE Writes(Tail(t))]
    BY DEF rest, t
  <1>8. [call[c] EXCEPT !.todo[1].create = FALSE]
          = [call[c] EXCEPT !.todo = [t EXCEPT ![1] = [t[1] EXCEPT !.create = FALSE]]]
    BY DEF t
  <1> QED BY <1>3, <1>5, <1>6, <1>7, <1>8, NoneTyped, WritesTyped DEF t

LEMMA TypedInit == Init => Typed
  <1> SUFFICES ASSUME Init PROVE Typed
    OBVIOUS
  <1>1. md \in Metadata /\ ver \in [Version -> Element] /\ \A o \in ops : o \in Operation
    BY NoneTyped DEF Init
  <1>2. call \in [Caller -> Call] /\ \A c \in Caller : Named(call[c])
    BY NoneTyped DEF Init
  <1>3. compact \in Compact
    BY NoneTyped DEF Init, NoCompact, Compact
  <1>4. calls \in 0..MaxCalls
    BY ConstAssumption DEF Init
  <1>5. failed \in BOOLEAN /\ moved \subseteq Caller
    BY DEF Init
  <1> QED BY <1>1, <1>2, <1>3, <1>4, <1>5 DEF Typed, TypeOK, Call, Compact

LEMMA TypedRequest ==
  ASSUME Typed, NEW c \in Caller, Request(c)
  PROVE  Typed'
  <1>0. calls \in Nat /\ md \in Metadata
    BY ConstAssumption DEF Typed, TypeOK
  <1>m. moved' \subseteq Caller
    BY DEF Request, CreateElement, UpdateElement, DeleteElement, PublishElementVersion,
           RollbackElementVersion, note, Typed, TypeOK
  <1>1. CASE CreateElement(c)
    <2>1. PICK r \in Raw :
            begin(c, Writes(<<SaveMetadata([NoMetadata EXCEPT !.latest = 1, !.unpublished = 1], TRUE),
                              SaveVersion(1, [NoElement EXCEPT !.raw = r], TRUE),
                              SaveOperation("SET", 0, 1)>>))
      BY <1>1 DEF CreateElement
    <2>2. [NoMetadata EXCEPT !.latest = 1, !.unpublished = 1] \in Metadata
      BY NoneTyped DEF Metadata
    <2>3. [NoElement EXCEPT !.raw = r] \in Element
      BY NoneTyped DEF Element, RawOrNone
    <2>4. SaveMetadata([NoMetadata EXCEPT !.latest = 1, !.unpublished = 1], TRUE) \in Write
      BY <2>2, WriteTyped
    <2>5. SaveVersion(1, [NoElement EXCEPT !.raw = r], TRUE) \in Write
      BY <2>3, NoneTyped, WriteTyped
    <2>6. SaveOperation("SET", 0, 1) \in Write
      BY <1>0, NoneTyped, OperationTyped
    <2> QED BY <2>1, <2>4, <2>5, <2>6, SeqTyped, WritesTyped, <1>m, BeginTyped
  <1>2. CASE UpdateElement(c)
    <2> DEFINE v == md.latest + 1
    <2>1. PICK r \in Raw :
            begin(c, Writes(<<SaveVersion(v, [NoElement EXCEPT !.raw = r], TRUE),
                              SaveMetadata([md EXCEPT !.latest = v, !.unpublished = v], FALSE),
                              SaveOperation("SET", md.latest, v)>>))
      BY <1>2 DEF UpdateElement
    <2>2. md.latest \in 0..MaxVersion /\ md.latest < MaxVersion
      BY <1>0, <1>2 DEF UpdateElement, Metadata
    <2>3. v \in Version /\ v \in 0..MaxVersion
      BY <2>2, ConstAssumption DEF Version
    <2> HIDE DEF v
    <2>4. [NoElement EXCEPT !.raw = r] \in Element
      BY NoneTyped DEF Element, RawOrNone
    <2>5. [md EXCEPT !.latest = v, !.unpublished = v] \in Metadata
      BY <1>0, <2>3 DEF Metadata
    <2>6. SaveVersion(v, [NoElement EXCEPT !.raw = r], TRUE) \in Write
      BY <2>3, <2>4, WriteTyped
    <2>7. SaveMetadata([md EXCEPT !.latest = v, !.unpublished = v], FALSE) \in Write
      BY <2>5, WriteTyped
    <2>8. SaveOperation("SET", md.latest, v) \in Write
      BY <1>0, <2>2, <2>3, OperationTyped
    <2> QED BY <2>1, <2>6, <2>7, <2>8, SeqTyped, WritesTyped, <1>m, BeginTyped
  <1>3. CASE DeleteElement(c)
    <2>1. UnsetElement \in Write /\ UnsetOperations \in Write
      BY WriteTyped
    <2> QED BY <1>3, <2>1, SeqTyped, WritesTyped, <1>m, BeginTyped DEF DeleteElement
  <1>4. CASE PublishElementVersion(c)
    <2>1. PICK v \in {md.unpublished} \cup Version :
            v # 0 /\ begin(c, [IdleCall EXCEPT !.pc = "publish", !.read = md, !.version = v])
      BY <1>4 DEF PublishElementVersion
    <2>2. v \in Version
      BY <1>0, <2>1, ConstAssumption DEF Metadata, Version
    <2> QED BY <1>0, <2>1, <2>2, ReadingTyped, <1>m, BeginTyped
  <1>5. CASE RollbackElementVersion(c)
    <2>1. PICK v \in Version : begin(c, [IdleCall EXCEPT !.pc = "rollback", !.read = md, !.version = v])
      BY <1>5 DEF RollbackElementVersion
    <2> QED BY <1>0, <2>1, ReadingTyped, <1>m, BeginTyped
  <1> QED BY <1>1, <1>2, <1>3, <1>4, <1>5 DEF Request

\* What a request writes once it has found its version.
LEMMA FoundTyped ==
  ASSUME Typed, NEW c \in Caller, call[c].pc \in {"publish", "rollback"}
  PROVE  publishFound(c) \in Seq(Write) /\ rollbackFound(c) \in Seq(Write)
  <1> DEFINE v == call[c].version
             m == call[c].read
  <1>1. call[c] \in Call /\ Named(call[c])
    BY DEF Typed, TypeOK, Call
  <1>2. v \in Version /\ v \in 0..MaxVersion /\ m \in Metadata
    BY <1>1, NoneTyped DEF Call, Named
  <1>3. ver[v] \in Element /\ calls \in Nat
    BY <1>2, ConstAssumption DEF Typed, TypeOK
  <1>7. publishFound(c) = <<SaveMetadata([m EXCEPT !.using = v, !.unpublished = 0, !.fingerprint = ver[v].raw], FALSE),
                            SaveVersion(v, [ver[v] EXCEPT !.published = TRUE], FALSE),
                            SaveOperation("PUBLISH", m.using, v)>>
    BY DEF publishFound
  <1>8. rollbackFound(c) = <<SaveMetadata([m EXCEPT !.using = v, !.fingerprint = ver[v].raw], FALSE),
                             SaveOperation("PUBLISH", m.using, v)>>
    BY DEF rollbackFound
  <1> HIDE DEF v, m
  <1>4. /\ [m EXCEPT !.using = v, !.unpublished = 0, !.fingerprint = ver[v].raw] \in Metadata
        /\ [m EXCEPT !.using = v, !.fingerprint = ver[v].raw] \in Metadata
        /\ m.using \in 0..MaxVersion
    BY <1>2, <1>3, NoneTyped DEF Metadata, Element
  <1>5. [ver[v] EXCEPT !.published = TRUE] \in Element
    BY <1>3 DEF Element
  <1>6. /\ SaveMetadata([m EXCEPT !.using = v, !.unpublished = 0, !.fingerprint = ver[v].raw], FALSE) \in Write
        /\ SaveMetadata([m EXCEPT !.using = v, !.fingerprint = ver[v].raw], FALSE) \in Write
        /\ SaveVersion(v, [ver[v] EXCEPT !.published = TRUE], FALSE) \in Write
    BY <1>2, <1>4, <1>5, WriteTyped
  <1>9. SaveOperation("PUBLISH", m.using, v) \in Write
    BY <1>2, <1>3, <1>4, OperationTyped
  <1> QED BY <1>6, <1>7, <1>8, <1>9, SeqTyped

LEMMA TypedStep ==
  ASSUME Typed, NEW c \in Caller, Step(c)
  PROVE  Typed'
  <1>0. <<>> \in Seq(Write)
    BY EmptySeq
  <1>1. CASE publishRead(c)
    BY <1>0, <1>1, FoundTyped, ProceedTyped DEF publishRead
  <1>2. CASE rollbackRead(c)
    BY <1>0, <1>2, FoundTyped, ProceedTyped DEF rollbackRead
  <1>3. CASE checkAbsent(c)
    <2> DEFINE r == IF Exists(Head(call[c].todo)) THEN IdleCall
                    ELSE [call[c] EXCEPT !.todo[1].create = FALSE]
    <2>1. r \in Call /\ Named(r) /\ call' = [call EXCEPT ![c] = r]
      BY <1>3, TodoTyped, NoneTyped DEF checkAbsent
    <2> HIDE DEF r
    <2>2. call' \in [Caller -> Call] /\ \A d \in Caller : Named(call'[d])
      BY <2>1, CallTyped
    <2>3. \A d \in Caller : Named(call[d])'
      BY <2>2 DEF Named
    <2>4. TypeOK'
      BY <1>3, <2>2 DEF checkAbsent, Typed, TypeOK, Call
    <2> QED BY <2>3, <2>4 DEF Typed
  <1>4. CASE saveRaw(c)
    <2> DEFINE r == IF Tail(call[c].todo) = <<>> THEN IdleCall ELSE Writes(Tail(call[c].todo))
    <2>1. r \in Call /\ Named(r) /\ call' = [call EXCEPT ![c] = r] /\ Head(call[c].todo) \in Write
      BY <1>4, TodoTyped DEF saveRaw
    <2> HIDE DEF r
    <2>2. call' \in [Caller -> Call] /\ \A d \in Caller : Named(call'[d])
      BY <2>1, CallTyped
    <2>3. \A d \in Caller : Named(call[d])'
      BY <2>2 DEF Named
    <2>4. md' \in Metadata /\ ver' \in [Version -> Element] /\ \A o \in ops' : o \in Operation
      BY <1>4, <2>1, WrittenTyped DEF saveRaw, Typed
    <2>5. TypeOK'
      BY <1>4, <2>2, <2>4 DEF saveRaw, Typed, TypeOK, Call
    <2> QED BY <2>3, <2>5 DEF Typed
  <1>5. CASE saveRawFails(c)
    <2>1. Head(call[c].todo) \in Write
      BY <1>5, TodoTyped DEF saveRawFails
    <2>2. call' \in [Caller -> Call] /\ \A d \in Caller : Named(call'[d])
      BY <1>5, CallTyped, NoneTyped DEF saveRawFails
    <2>3. \A d \in Caller : Named(call[d])'
      BY <2>2 DEF Named
    <2>4. md' \in Metadata /\ ver' \in [Version -> Element] /\ \A o \in ops' : o \in Operation
      <3>1. CASE Written(Head(call[c].todo))
        BY <2>1, <3>1, WrittenTyped DEF Typed
      <3>2. CASE UNCHANGED <<md, ver, ops>>
        BY <3>2 DEF Typed, TypeOK
      <3> QED BY <1>5, <3>1, <3>2 DEF saveRawFails
    <2>5. TypeOK'
      BY <1>5, <2>2, <2>4 DEF saveRawFails, Typed, TypeOK, Call
    <2> QED BY <2>3, <2>5 DEF Typed
  <1> QED BY <1>1, <1>2, <1>3, <1>4, <1>5 DEF Step

LEMMA TypedCompaction ==
  ASSUME Typed, Compaction
  PROVE  Typed'
  <1>0. call' = call /\ md' = md /\ failed' = failed /\ moved' \subseteq Caller
    BY DEF Compaction, CompactStart, CompactRange, CompactUnset, CompactUnsetOperation, CompactDone,
           Typed, TypeOK
  <1>1. ver' \in [Version -> Element]
    <2>1. ASSUME NEW w \in 0..MaxVersion, CompactStart(w)
          PROVE  ver' \in [Version -> Element]
      <3>1. \A v \in Version : [ver[v] EXCEPT !.old = ver[v].raw # NoRaw /\ v <= w] \in Element
        BY ZenonT(40) DEF Typed, TypeOK, Element
      <3> QED BY <2>1, <3>1 DEF CompactStart
    <2>2. ASSUME NEW v \in compact.drop, CompactUnset(v)
          PROVE  ver' \in [Version -> Element]
      BY <2>2, NoneTyped DEF CompactUnset, Typed, TypeOK
    <2>3. ASSUME ver' = ver
          PROVE  ver' \in [Version -> Element]
      BY <2>3 DEF Typed, TypeOK
    <2> QED BY <2>1, <2>2, <2>3 DEF Compaction, CompactRange, CompactUnsetOperation, CompactDone
  <1>2. \A o \in ops' : o \in Operation
    BY DEF Compaction, CompactStart, CompactRange, CompactUnset, CompactUnsetOperation, CompactDone,
           Typed, TypeOK
  <1>3. calls' \in 0..MaxCalls
    <2>1. calls' = calls \/ (calls < MaxCalls /\ calls' = calls + 1)
      BY DEF Compaction, CompactStart, CompactRange, CompactUnset, CompactUnsetOperation, CompactDone
    <2> QED BY <2>1, ConstAssumption DEF Typed, TypeOK
  <1>4. compact' \in Compact
    <2>0. compact \in Compact /\ md \in Metadata /\ ops \subseteq Operation
      BY DEF Typed, TypeOK, Compact
    <2>1. ASSUME NEW w \in 0..MaxVersion, CompactStart(w)
          PROVE  compact' \in Compact
      BY <2>0, <2>1 DEF CompactStart, Compact
    <2>2. CASE CompactRange
      BY <2>0, <2>2, ZenonT(40) DEF CompactRange, Compact, Stock
    <2>3. CASE \E v \in compact.drop : CompactUnset(v)
      BY <2>0, <2>3 DEF CompactUnset, Compact
    <2>4. CASE \E o \in compact.dropOps : CompactUnsetOperation(o)
      BY <2>0, <2>4 DEF CompactUnsetOperation, Compact
    <2>5. CASE CompactDone
      BY <2>5, NoneTyped DEF CompactDone, NoCompact, Compact
    <2> QED BY <2>1, <2>2, <2>3, <2>4, <2>5 DEF Compaction
  <1>5. TypeOK'
    BY <1>0, <1>1, <1>2, <1>3, <1>4 DEF Typed, TypeOK, Compact
  <1> QED BY <1>0, <1>5 DEF Typed, Named

LEMMA TypedNext ==
  ASSUME Typed, [Next]_vars
  PROVE  Typed'
  <1>1. CASE UNCHANGED vars
    <2>1. TypeOK'
      BY <1>1 DEF Typed, TypeOK, vars
    <2>2. \A c \in Caller : Named(call[c])'
      BY <1>1 DEF Typed, Named, vars
    <2> QED BY <2>1, <2>2 DEF Typed
  <1> QED BY <1>1, TypedRequest, TypedStep, TypedCompaction DEF Next

\* Every variable keeps its type, the writes still to be made included,
\* whatever number of requests and whatever compaction interleave.
THEOREM TypeCorrect == Spec => []TypeOK
  <1>1. Typed => TypeOK
    BY DEF Typed
  <1> QED BY <1>1, TypedInit, TypedNext, PTL DEF Spec

-----------------------------------------------------------------------------
(* Requests made one after another, without a compaction *)

\* One request is under way at a time, and nothing else changes the element.
Serial == (\E c : Caller = {c}) /\ "Compact" \notin Op

\* What the writes are made of.
First == [NoMetadata EXCEPT !.latest = 1, !.unpublished = 1]
Fresh(r) == [NoElement EXCEPT !.raw = r]
Record(at, op, last, current) == [at |-> at, op |-> op, last |-> last, current |-> current]
Save(o) == [to |-> "operation", create |-> FALSE, value |-> o]
Drafting(m, v) == [m EXCEPT !.latest = v, !.unpublished = v]
Publishing(m, v, r) == [m EXCEPT !.using = v, !.unpublished = 0, !.fingerprint = r]
Returning(m, v, r) == [m EXCEPT !.using = v, !.fingerprint = r]
Marked(e) == [e EXCEPT !.published = TRUE]
Reading(pc, m, v) == [IdleCall EXCEPT !.pc = pc, !.read = m, !.version = v]

\* The versions up to n are all there are.
Below(f, n) == \A v \in Version : f[v] # NoElement => v <= n

\* The version awaiting publication is there.
Drafted(m, f) == m.unpublished # 0 => f[m.unpublished].raw # NoRaw /\ ~f[m.unpublished].published

\* The publications among the operations S form a chain that ends at u.
Published(S) == {o \in S : o.op = "PUBLISH"}
Later(S, o) == {p \in Published(S) : p.at > o.at}
Chain(S, u) ==
  \A o \in Published(S) :
    IF Later(S, o) = {} THEN u = o.current
    ELSE \E p \in Later(S, o) : p.last = o.current /\ \A q \in Later(S, o) : p.at <= q.at

\* Every operation was recorded by a request up to number n.
Timely(S, n) == \A o \in S : o.at <= n

\* The element between two requests, unless a write has failed.
Whole == ~failed => Below(ver, md.latest) /\ Drafted(md, ver) /\ Chain(ops, md.using)

\* At every moment: a version is there or is not, what is in use is what the
\* fingerprint says, and without metadata there is no version.
Intact ==
  /\ \A v \in Version : ver[v].raw = NoRaw => ver[v] = NoElement
  /\ md.using # 0 => md.fingerprint \in Raw /\ ver[md.using].raw = md.fingerprint
  /\ md = NoMetadata => ver = NoVersions
  /\ md # NoMetadata => md.latest # 0
  /\ compact = NoCompact

Resting(c) == call[c] = IdleCall /\ Timely(ops, calls + 1) /\ Whole

\* A request has read the metadata and not yet the version.
Asking(c) ==
  /\ \E pc \in {"publish", "rollback"}, v \in Version : call[c] = Reading(pc, md, v)
  /\ Timely(ops, calls) /\ Whole /\ md # NoMetadata

\* CreateElement: the metadata, the version.
Creating1(c) ==
  \E r \in Raw, b \in BOOLEAN :
    /\ call[c] = Writes(<<SaveMetadata(First, b), SaveVersion(1, Fresh(r), TRUE),
                          Save(Record(calls, "SET", 0, 1))>>)
    /\ Timely(ops, calls) /\ Whole
    /\ ~b => md = NoMetadata
Creating2(c) ==
  \E r \in Raw, b \in BOOLEAN :
    /\ call[c] = Writes(<<SaveVersion(1, Fresh(r), b), Save(Record(calls, "SET", 0, 1))>>)
    /\ Timely(ops, calls)
    /\ md = First /\ ver = NoVersions /\ (~failed => Chain(ops, 0))

\* UpdateElement: the version, the metadata.
Updating1(c) ==
  \E r \in Raw, b \in BOOLEAN :
    /\ call[c] = Writes(<<SaveVersion(md.latest + 1, Fresh(r), b),
                          SaveMetadata(Drafting(md, md.latest + 1), FALSE),
                          Save(Record(calls, "SET", md.latest, md.latest + 1))>>)
    /\ Timely(ops, calls) /\ Whole /\ md # NoMetadata /\ md.latest + 1 \in Version
    /\ ~b => ver[md.latest + 1] = NoElement
Updating2(c) ==
  /\ call[c] = Writes(<<SaveMetadata(Drafting(md, md.latest + 1), FALSE),
                        Save(Record(calls, "SET", md.latest, md.latest + 1))>>)
  /\ Timely(ops, calls) /\ md # NoMetadata /\ md.latest + 1 \in Version
  /\ ver[md.latest + 1].raw # NoRaw /\ ~ver[md.latest + 1].published
  /\ ~failed => Below(ver, md.latest + 1) /\ Chain(ops, md.using)

\* PublishElementVersion: the metadata, the version.
Publishing1(c) ==
  \E v \in Version :
    /\ call[c] = Writes(<<SaveMetadata(Publishing(md, v, ver[v].raw), FALSE),
                          SaveVersion(v, Marked(ver[v]), FALSE),
                          Save(Record(calls + 1, "PUBLISH", md.using, v))>>)
    /\ Timely(ops, calls) /\ Whole /\ md # NoMetadata /\ ver[v] # NoElement
Publishing2(c) ==
  \E u \in 0..MaxVersion :
    /\ md.using \in Version
    /\ call[c] = Writes(<<SaveVersion(md.using, Marked(ver[md.using]), FALSE),
                          Save(Record(calls + 1, "PUBLISH", u, md.using))>>)
    /\ Timely(ops, calls) /\ md # NoMetadata /\ ver[md.using] # NoElement
    /\ md.unpublished = 0 /\ (~failed => Below(ver, md.latest) /\ Chain(ops, u))

\* RollbackElementVersion: the metadata.
Returning1(c) ==
  \E v \in Version :
    /\ call[c] = Writes(<<SaveMetadata(Returning(md, v, ver[v].raw), FALSE),
                          Save(Record(calls + 1, "PUBLISH", md.using, v))>>)
    /\ Timely(ops, calls) /\ Whole /\ md # NoMetadata /\ ver[v] # NoElement

\* The record of an operation comes last.
RecordingSet(c) ==
  \E u, v \in 0..MaxVersion :
    /\ call[c] = Writes(<<Save(Record(calls, "SET", u, v))>>)
    /\ Timely(ops, calls) /\ Whole
RecordingUse(c) ==
  \E u \in 0..MaxVersion :
    /\ call[c] = Writes(<<Save(Record(calls + 1, "PUBLISH", u, md.using))>>)
    /\ Timely(ops, calls)
    /\ ~failed => Below(ver, md.latest) /\ Drafted(md, ver) /\ Chain(ops, u)

\* DeleteElement.
Deleting1(c) == call[c] = Writes(<<UnsetElement, UnsetOperations>>) /\ Timely(ops, calls)
Deleting2(c) == call[c] = Writes(<<UnsetOperations>>) /\ Timely(ops, calls) /\ md = NoMetadata

Phase(c) ==
  \/ Resting(c) \/ Asking(c) \/ Creating1(c) \/ Creating2(c) \/ Updating1(c) \/ Updating2(c)
  \/ Publishing1(c) \/ Publishing2(c) \/ Returning1(c) \/ RecordingSet(c) \/ RecordingUse(c)
  \/ Deleting1(c) \/ Deleting2(c)

SerialInv == Intact /\ \A c \in Caller : Phase(c)

-----------------------------------------------------------------------------
(* What the parts of a request do *)

LEMMA CallFacts ==
  /\ IdleCall.pc = "idle" /\ IdleCall.todo = <<>>
  /\ \A t : Writes(t).pc = "write" /\ Writes(t).todo = t /\ Writes(t) # IdleCall
  /\ \A t, u : [Writes(t) EXCEPT !.todo = u] = Writes(u)
  /\ \A pc, m, v : /\ Reading(pc, m, v).pc = pc /\ Reading(pc, m, v).read = m
                   /\ Reading(pc, m, v).version = v /\ Reading(pc, m, v).todo = <<>>
                   /\ pc \in {"publish", "rollback"} => Reading(pc, m, v) # IdleCall
  BY DEF IdleCall, Writes, Reading

LEMMA TupleFacts ==
  /\ \A a : /\ <<a>> # <<>> /\ Head(<<a>>) = a /\ Tail(<<a>>) = <<>>
            /\ \A x : [<<a>> EXCEPT ![1] = x] = <<x>>
  /\ \A a, b : /\ <<a, b>> # <<>> /\ Head(<<a, b>>) = a /\ Tail(<<a, b>>) = <<b>>
               /\ \A x : [<<a, b>> EXCEPT ![1] = x] = <<x, b>>
  /\ \A a, b, d : /\ <<a, b, d>> # <<>> /\ Head(<<a, b, d>>) = a /\ Tail(<<a, b, d>>) = <<b, d>>
                  /\ \A x : [<<a, b, d>> EXCEPT ![1] = x] = <<x, b, d>>
  OBVIOUS

\* The store's answer to each write.
LEMMA MetadataWrite ==
  ASSUME NEW m, NEW b \in BOOLEAN
  PROVE  LET w == SaveMetadata(m, b)
         IN /\ w.create = b /\ [w EXCEPT !.create = FALSE] = SaveMetadata(m, FALSE)
            /\ Exists(w) <=> md # NoMetadata
            /\ Written(w) <=> md' = m /\ ver' = ver /\ ops' = ops
  <1> DEFINE w == SaveMetadata(m, b)
  <1>1. w.to = "metadata" /\ w.value = m /\ w.create = b
    BY DEF SaveMetadata
  <1>2. [w EXCEPT !.create = FALSE] = SaveMetadata(m, FALSE)
    <2>1. \A f, x : [SaveMetadata(m, f) EXCEPT !.create = x] = SaveMetadata(m, x)
      BY DEF SaveMetadata
    <2> QED BY <2>1
  <1> HIDE DEF w
  <1>3. Exists(w) <=> md # NoMetadata
    BY <1>1 DEF Exists
  <1>4. Written(w) <=> md' = m /\ ver' = ver /\ ops' = ops
    BY <1>1 DEF Written
  <1> QED BY <1>1, <1>2, <1>3, <1>4 DEF w

LEMMA VersionWrite ==
  ASSUME NEW v, NEW e, NEW b \in BOOLEAN
  PROVE  LET w == SaveVersion(v, e, b)
         IN /\ w.create = b /\ [w EXCEPT !.create = FALSE] = SaveVersion(v, e, FALSE)
            /\ Exists(w) <=> ver[v] # NoElement
            /\ Written(w) <=> /\ ver' = [ver EXCEPT ![v] = [e EXCEPT !.old = ver[v].old]]
                              /\ md' = md /\ ops' = ops
  <1> DEFINE w == SaveVersion(v, e, b)
  <1>1. w.to = "version" /\ w.number = v /\ w.value = e /\ w.create = b
    BY DEF SaveVersion
  <1>2. [w EXCEPT !.create = FALSE] = SaveVersion(v, e, FALSE)
    <2>1. \A f, x : [SaveVersion(v, e, f) EXCEPT !.create = x] = SaveVersion(v, e, x)
      BY DEF SaveVersion
    <2> QED BY <2>1
  <1> HIDE DEF w
  <1>3. Exists(w) <=> ver[v] # NoElement
    BY <1>1 DEF Exists
  <1>4. Written(w) <=> /\ ver' = [ver EXCEPT ![v] = [e EXCEPT !.old = ver[v].old]]
                       /\ md' = md /\ ops' = ops
    BY <1>1 DEF Written, Stored
  <1> QED BY <1>1, <1>2, <1>3, <1>4 DEF w

LEMMA OperationWrite ==
  ASSUME NEW o
  PROVE  ~Save(o).create /\ (Written(Save(o)) <=> md' = md /\ ver' = ver /\ ops' = ops \cup {o})
  BY DEF Save, Written

LEMMA UnsetWrite ==
  /\ ~UnsetElement.create /\ ~UnsetOperations.create
  /\ Written(UnsetElement) <=> md' = NoMetadata /\ ver' = NoVersions /\ ops' = ops
  /\ Written(UnsetOperations) <=> md' = md /\ ver' = ver /\ ops' = {}
  BY DEF UnsetElement, UnsetOperations, Written

\* A published version keeps its content until it is removed.
Immutable ==
  \A v \in Version : ver[v].published /\ ver'[v] # NoElement =>
     ver'[v].published /\ ver'[v].raw = ver[v].raw

Kept(c) == Intact' /\ Phase(c)' /\ Immutable

\* What may come of the write a, with the list asked if its key is absent and
\* the call next once it is made.
Asked(c, a, asked) ==
  /\ a.create /\ call'[c] = (IF Exists(a) THEN IdleCall ELSE Writes(asked))
  /\ UNCHANGED <<md, ver, ops, compact, calls, failed>>
Made(c, a, next) ==
  /\ ~a.create /\ Written(a) /\ call'[c] = next
  /\ UNCHANGED <<compact, calls, failed>>
Missed(c, a) ==
  /\ (~a.create /\ Written(a)) \/ UNCHANGED <<md, ver, ops>>
  /\ call'[c] = IdleCall /\ failed' = TRUE /\ UNCHANGED <<compact, calls>>

LEMMA WriteStep ==
  ASSUME Typed, NEW c \in Caller, NEW t, call[c] = Writes(t), t # <<>>, Request(c) \/ Step(c)
  PROVE  \/ Asked(c, Head(t), [t EXCEPT ![1] = [t[1] EXCEPT !.create = FALSE]])
         \/ Made(c, Head(t), IF Tail(t) = <<>> THEN IdleCall ELSE Writes(Tail(t)))
         \/ Missed(c, Head(t))
  <1>0. \A r : [call EXCEPT ![c] = r][c] = r
    BY DEF Typed, TypeOK
  <1>1. ~Request(c)
    BY CallFacts DEF Request, CreateElement, UpdateElement, DeleteElement, PublishElementVersion,
                     RollbackElementVersion, begin, Idle
  <1>2. ~publishRead(c) /\ ~rollbackRead(c)
    BY CallFacts DEF publishRead, rollbackRead
  <1>3. call[c].todo = t
    BY CallFacts
  <1>4. CASE checkAbsent(c)
    <2>1. [Writes(t) EXCEPT !.todo[1].create = FALSE]
            = [Writes(t) EXCEPT !.todo = [t EXCEPT ![1] = [t[1] EXCEPT !.create = FALSE]]]
      BY CallFacts
    <2>2. [Writes(t) EXCEPT !.todo[1].create = FALSE]
            = Writes([t EXCEPT ![1] = [t[1] EXCEPT !.create = FALSE]])
      BY <2>1, CallFacts, ZenonT(40)
    <2>3. call'[c] = IF Exists(Head(t)) THEN IdleCall ELSE [Writes(t) EXCEPT !.todo[1].create = FALSE]
      BY <1>0, <1>3, <1>4 DEF checkAbsent
    <2> QED BY <1>3, <1>4, <2>2, <2>3 DEF checkAbsent, Asked
  <1>5. CASE saveRaw(c)
    <2>1. call'[c] = IF Tail(t) = <<>> THEN IdleCall ELSE Writes(Tail(t))
      BY <1>0, <1>3, <1>5 DEF saveRaw, rest
    <2> QED BY <1>3, <1>5, <2>1 DEF saveRaw, Made
  <1>6. CASE saveRawFails(c)
    BY <1>0, <1>3, <1>6 DEF saveRawFails, Missed
  <1> QED BY <1>1, <1>2, <1>4, <1>5, <1>6 DEF Step

\* The same for the lists that occur.
LEMMA WriteStep1 ==
  ASSUME Typed, NEW c \in Caller, NEW a, call[c] = Writes(<<a>>), Request(c) \/ Step(c)
  PROVE  Asked(c, a, <<[a EXCEPT !.create = FALSE]>>) \/ Made(c, a, IdleCall) \/ Missed(c, a)
  <1> DEFINE t == <<a>>
  <1>1. t # <<>> /\ Head(t) = a /\ Tail(t) = <<>> /\ t[1] = a
    BY TupleFacts
  <1>2. [t EXCEPT ![1] = [a EXCEPT !.create = FALSE]] = <<[a EXCEPT !.create = FALSE]>>
    BY TupleFacts
  <1>3. call[c] = Writes(t)
    OBVIOUS
  <1> HIDE DEF t
  <1>4. \/ Asked(c, Head(t), [t EXCEPT ![1] = [t[1] EXCEPT !.create = FALSE]])
        \/ Made(c, Head(t), IF Tail(t) = <<>> THEN IdleCall ELSE Writes(Tail(t)))
        \/ Missed(c, Head(t))
    BY <1>1, <1>3, WriteStep
  <1> QED BY <1>1, <1>2, <1>4

LEMMA WriteStep2 ==
  ASSUME Typed, NEW c \in Caller, NEW a, NEW b, call[c] = Writes(<<a, b>>), Request(c) \/ Step(c)
  PROVE  \/ Asked(c, a, <<[a EXCEPT !.create = FALSE], b>>)
         \/ Made(c, a, Writes(<<b>>)) \/ Missed(c, a)
  <1> DEFINE t == <<a, b>>
  <1>1. t # <<>> /\ Head(t) = a /\ Tail(t) = <<b>> /\ Tail(t) # <<>> /\ t[1] = a
    BY TupleFacts
  <1>2. [t EXCEPT ![1] = [a EXCEPT !.create = FALSE]] = <<[a EXCEPT !.create = FALSE], b>>
    <2> DEFINE x == [a EXCEPT !.create = FALSE]
    <2> HIDE DEF x
    <2>1. [<<a, b>> EXCEPT ![1] = x] = <<x, b>>
      BY TupleFacts
    <2> QED BY <2>1 DEF x
  <1>3. call[c] = Writes(t)
    OBVIOUS
  <1> HIDE DEF t
  <1>4. \/ Asked(c, Head(t), [t EXCEPT ![1] = [t[1] EXCEPT !.create = FALSE]])
        \/ Made(c, Head(t), IF Tail(t) = <<>> THEN IdleCall ELSE Writes(Tail(t)))
        \/ Missed(c, Head(t))
    BY <1>1, <1>3, WriteStep
  <1> QED BY <1>1, <1>2, <1>4

LEMMA WriteStep3 ==
  ASSUME Typed, NEW c \in Caller, NEW a, NEW b, NEW d, call[c] = Writes(<<a, b, d>>),
         Request(c) \/ Step(c)
  PROVE  \/ Asked(c, a, <<[a EXCEPT !.create = FALSE], b, d>>)
         \/ Made(c, a, Writes(<<b, d>>)) \/ Missed(c, a)
  <1> DEFINE t == <<a, b, d>>
  <1>1. t # <<>> /\ Head(t) = a /\ Tail(t) = <<b, d>> /\ Tail(t) # <<>> /\ t[1] = a
    BY TupleFacts
  <1>2. [t EXCEPT ![1] = [a EXCEPT !.create = FALSE]] = <<[a EXCEPT !.create = FALSE], b, d>>
    <2> DEFINE x == [a EXCEPT !.create = FALSE]
    <2> HIDE DEF x
    <2>1. [<<a, b, d>> EXCEPT ![1] = x] = <<x, b, d>>
      BY TupleFacts
    <2> QED BY <2>1 DEF x
  <1>3. call[c] = Writes(t)
    OBVIOUS
  <1> HIDE DEF t
  <1>4. \/ Asked(c, Head(t), [t EXCEPT ![1] = [t[1] EXCEPT !.create = FALSE]])
        \/ Made(c, Head(t), IF Tail(t) = <<>> THEN IdleCall ELSE Writes(Tail(t)))
        \/ Missed(c, Head(t))
    BY <1>1, <1>3, WriteStep
  <1> QED BY <1>1, <1>2, <1>4

LEMMA IntactSame ==
  ASSUME Intact, md' = md, ver' = ver, compact' = compact
  PROVE  Intact' /\ Immutable
  BY DEF Intact, Immutable

\* A step keeps the invariant when its write does, and when the phase it
\* leads to is the next one.
LEMMA Combine ==
  ASSUME Typed, Intact, NEW c \in Caller, NEW a, NEW asked, NEW next,
         Asked(c, a, asked) \/ Made(c, a, next) \/ Missed(c, a),
         Timely(ops, calls),
         ~a.create /\ Written(a) /\ compact' = compact =>
            Intact' /\ Immutable /\ Timely(ops', calls + 1),
         Asked(c, a, asked) => Phase(c)',
         Made(c, a, next) => Phase(c)'
  PROVE  Kept(c)
  <1>0. calls \in Nat /\ \A o \in ops : o.at \in Nat
    BY ConstAssumption DEF Typed, TypeOK, Operation
  <1>1. Timely(ops, calls + 1)
    BY <1>0 DEF Timely
  <1>2. CASE Asked(c, a, asked)
    BY <1>2, IntactSame DEF Asked, Kept
  <1>3. CASE Made(c, a, next)
    BY <1>3 DEF Made, Kept
  <1>4. CASE Missed(c, a)
    <2>1. Intact' /\ Immutable /\ Timely(ops', calls + 1)
      BY <1>1, <1>4, IntactSame DEF Missed
    <2>2. Resting(c)'
      BY <1>4, <2>1 DEF Missed, Resting, Whole
    <2> QED BY <2>1, <2>2 DEF Kept, Phase
  <1> QED BY <1>2, <1>3, <1>4

-----------------------------------------------------------------------------
(* The chain of publications *)

LEMMA ChainEmpty == ASSUME NEW u PROVE Chain({}, u)
  BY DEF Chain, Published

\* An operation that is no publication does not matter.
LEMMA ChainSet ==
  ASSUME NEW S, NEW o, o.op # "PUBLISH", NEW u
  PROVE  Chain(S \cup {o}, u) <=> Chain(S, u)
  <1>1. Published(S \cup {o}) = Published(S)
    BY DEF Published
  <1>2. \A p : Later(S \cup {o}, p) = Later(S, p)
    BY <1>1 DEF Later
  <1> QED BY <1>1, <1>2 DEF Chain

\* A later publication that starts where the chain ends makes it longer.
LEMMA ChainUse ==
  ASSUME NEW S, NEW n \in Nat, \A o \in S : o.at \in Nat, Timely(S, n), NEW u, NEW v, Chain(S, u)
  PROVE  Chain(S \cup {Record(n + 1, "PUBLISH", u, v)}, v)
  <1> DEFINE x == Record(n + 1, "PUBLISH", u, v)
             T == S \cup {x}
  <1>1. x.at = n + 1 /\ x.op = "PUBLISH" /\ x.last = u /\ x.current = v
    BY DEF Record
  <1> HIDE DEF x
  <1>2. Published(T) = Published(S) \cup {x}
    BY <1>1 DEF Published
  <1>3. \A o \in Published(S) : o.at \in Nat /\ o.at <= n
    BY DEF Published, Timely
  <1>4. Later(T, x) = {}
    BY <1>1, <1>2, <1>3 DEF Later
  <1>5. \A o \in Published(S) : Later(T, o) = Later(S, o) \cup {x}
    <2> TAKE o \in Published(S)
    <2>1. x.at > o.at
      BY <1>1, <1>3
    <2> QED BY <1>2, <2>1 DEF Later
  <1>6. \A o \in Published(S) : \A q \in Later(S, o) : q.at \in Nat /\ q.at <= n
    BY <1>3 DEF Later
  <1> HIDE DEF T
  <1>7. ASSUME NEW o \in Published(S)
        PROVE  \E p \in Later(T, o) : p.last = o.current /\ \A q \in Later(T, o) : p.at <= q.at
    <2>1. CASE Later(S, o) = {}
      <3>1. u = o.current
        BY <2>1 DEF Chain
      <3>2. Later(T, o) = {x}
        BY <1>5, <2>1
      <3>3. x.at <= x.at
        BY <1>1
      <3> QED BY <1>1, <3>1, <3>2, <3>3
    <2>2. CASE Later(S, o) # {}
      <3>1. PICK p \in Later(S, o) : p.last = o.current /\ \A q \in Later(S, o) : p.at <= q.at
        BY <2>2 DEF Chain
      <3>2. p.at <= x.at
        BY <1>1, <1>6
      <3> QED BY <1>5, <3>1, <3>2
    <2> QED BY <2>1, <2>2
  <1>8. \A o \in Published(S) : Later(T, o) # {}
    BY <1>5
  <1>9. Chain(T, v)
    BY <1>1, <1>2, <1>4, <1>7, <1>8 DEF Chain
  <1> QED BY <1>9 DEF T, x

\* Adding a record that comes next.
LEMMA TimelyNext ==
  ASSUME Typed, NEW n \in {calls, calls + 1}, Timely(ops, calls), NEW op, NEW u, NEW v,
         ops' = ops \cup {Record(n, op, u, v)}
  PROVE  Timely(ops', calls + 1)
  <1>1. calls \in Nat /\ \A o \in ops : o.at \in Nat
    BY ConstAssumption DEF Typed, TypeOK, Operation
  <1>2. Record(n, op, u, v).at = n
    BY DEF Record
  <1>3. n <= calls + 1
    BY <1>1
  <1> QED BY <1>1, <1>2, <1>3 DEF Timely

LEMMA TimelySame ==
  ASSUME Typed, Timely(ops, calls)
  PROVE  Timely(ops, calls + 1)
  <1>1. calls \in Nat /\ \A o \in ops : o.at \in Nat
    BY ConstAssumption DEF Typed, TypeOK, Operation
  <1> QED BY <1>1 DEF Timely

-----------------------------------------------------------------------------
(* Every step from every phase *)

LEMMA ValueFacts ==
  /\ First.latest = 1 /\ First.unpublished = 1 /\ First.using = 0 /\ First # NoMetadata
  /\ NoMetadata.latest = 0 /\ NoMetadata.unpublished = 0 /\ NoMetadata.using = 0
  /\ \A v \in Version : NoVersions[v] = NoElement
  /\ NoElement.raw = NoRaw /\ ~NoElement.published
  /\ \A r \in Raw : \A x : LET e == [Fresh(r) EXCEPT !.old = x]
                       IN e.raw = r /\ ~e.published /\ e # NoElement /\ e.raw # NoRaw
  /\ \A e \in Element : \A x : LET f == [Marked(e) EXCEPT !.old = x]
                           IN f.raw = e.raw /\ f.published
  <1>1. /\ First.latest = 1 /\ First.unpublished = 1 /\ First.using = 0
        /\ NoMetadata.latest = 0 /\ NoMetadata.unpublished = 0 /\ NoMetadata.using = 0
    BY DEF First, NoMetadata
  <1>2. \A v \in Version : NoVersions[v] = NoElement
    BY DEF NoVersions
  <1>3. NoElement.raw = NoRaw /\ ~NoElement.published
    BY DEF NoElement
  <1>4. \A r \in Raw : \A x : LET e == [Fresh(r) EXCEPT !.old = x]
                          IN e.raw = r /\ ~e.published
    BY DEF Fresh, NoElement
  <1>5. \A r \in Raw : r # NoRaw
    BY ConstAssumption
  <1>6. \A e \in Element : \A x : LET f == [Marked(e) EXCEPT !.old = x]
                              IN f.raw = e.raw /\ f.published
    BY DEF Marked, Element
  <1>7. First # NoMetadata
    BY <1>1
  <1>8. \A r \in Raw : \A x : LET e == [Fresh(r) EXCEPT !.old = x]
                          IN e # NoElement /\ e.raw # NoRaw
    <2> SUFFICES ASSUME NEW r \in Raw, NEW x
                 PROVE  LET e == [Fresh(r) EXCEPT !.old = x] IN e # NoElement /\ e.raw # NoRaw
      OBVIOUS
    <2>1. [Fresh(r) EXCEPT !.old = x].raw = r
      BY <1>4
    <2> QED BY <1>3, <1>5, <2>1
  <1> QED BY <1>1, <1>2, <1>3, <1>4, <1>6, <1>7, <1>8

LEMMA StepCreating1 ==
  ASSUME Typed, Typed', Intact, NEW c \in Caller, Creating1(c), Request(c) \/ Step(c)
  PROVE  Kept(c)
  <1>1. PICK r \in Raw, b \in BOOLEAN :
          /\ call[c] = Writes(<<SaveMetadata(First, b), SaveVersion(1, Fresh(r), TRUE),
                                Save(Record(calls, "SET", 0, 1))>>)
          /\ Timely(ops, calls) /\ Whole
          /\ ~b => md = NoMetadata
    BY DEF Creating1
  <1> DEFINE a == SaveMetadata(First, b)
             t == SaveVersion(1, Fresh(r), TRUE)
             z == Save(Record(calls, "SET", 0, 1))
             asked == <<SaveMetadata(First, FALSE), t, z>>
             next == Writes(<<t, z>>)
  <1>2. Asked(c, a, <<[a EXCEPT !.create = FALSE], t, z>>) \/ Made(c, a, next) \/ Missed(c, a)
    <2> HIDE DEF a, t, z
    <2> QED BY <1>1, WriteStep3 DEF a, t, z
  <1>3. /\ a.create = b /\ [a EXCEPT !.create = FALSE] = SaveMetadata(First, FALSE)
        /\ Exists(a) <=> md # NoMetadata
        /\ Written(a) <=> md' = First /\ ver' = ver /\ ops' = ops
    BY MetadataWrite
  <1> HIDE DEF a
  <1>4. ~a.create /\ Written(a) /\ compact' = compact =>
          Intact' /\ Immutable /\ Timely(ops', calls + 1)
    BY <1>1, <1>3, TimelySame, ValueFacts DEF Intact, Immutable
  <1>5. Asked(c, a, asked) => Phase(c)'
    <2>1. ASSUME Asked(c, a, asked), Exists(a) PROVE Resting(c)'
      BY <1>1, <2>1, TimelySame DEF Asked, Resting, Whole
    <2>2. ASSUME Asked(c, a, asked), ~Exists(a) PROVE Creating1(c)'
      BY <1>1, <1>3, <2>2 DEF Asked, Creating1, Whole
    <2> QED BY <2>1, <2>2 DEF Phase
  <1>6. Made(c, a, next) => Phase(c)'
    <2>1. ASSUME Made(c, a, next) PROVE Creating2(c)'
      <3>1. ~b /\ md' = First /\ ver' = NoVersions /\ ops' = ops /\ calls' = calls
        BY <1>1, <1>3, <2>1 DEF Made, Intact
      <3>2. ~failed' => Chain(ops', 0)
        BY <1>1, <1>3, <2>1, <3>1, ValueFacts DEF Made, Whole
      <3>3. call'[c] = Writes(<<SaveVersion(1, Fresh(r), TRUE), Save(Record(calls', "SET", 0, 1))>>)
        BY <2>1, <3>1 DEF Made
      <3> HIDE DEF t, z, next
      <3> QED BY <1>1, <3>1, <3>2, <3>3 DEF Creating2
    <2> QED BY <2>1 DEF Phase
  <1>7. Asked(c, a, asked) \/ Made(c, a, next) \/ Missed(c, a)
    BY <1>2, <1>3
  <1> HIDE DEF asked, next, t, z
  <1> QED BY <1>1, <1>4, <1>5, <1>6, <1>7, Combine

LEMMA StepCreating2 ==
  ASSUME Typed, Typed', Intact, NEW c \in Caller, Creating2(c), Request(c) \/ Step(c)
  PROVE  Kept(c)
  <1>1. PICK r \in Raw, b \in BOOLEAN :
          /\ call[c] = Writes(<<SaveVersion(1, Fresh(r), b), Save(Record(calls, "SET", 0, 1))>>)
          /\ Timely(ops, calls)
          /\ md = First /\ ver = NoVersions /\ (~failed => Chain(ops, 0))
    BY DEF Creating2
  <1> DEFINE a == SaveVersion(1, Fresh(r), b)
             z == Save(Record(calls, "SET", 0, 1))
             e == [Fresh(r) EXCEPT !.old = ver[1].old]
             asked == <<SaveVersion(1, Fresh(r), FALSE), z>>
             next == Writes(<<z>>)
  <1>2. Asked(c, a, <<[a EXCEPT !.create = FALSE], z>>) \/ Made(c, a, next) \/ Missed(c, a)
    <2> HIDE DEF a, z
    <2> QED BY <1>1, WriteStep2 DEF a, z
  <1>3. /\ a.create = b /\ [a EXCEPT !.create = FALSE] = SaveVersion(1, Fresh(r), FALSE)
        /\ Exists(a) <=> ver[1] # NoElement
        /\ Written(a) <=> ver' = [ver EXCEPT ![1] = e] /\ md' = md /\ ops' = ops
    <2> DEFINE n == 1
    <2> HIDE DEF n
    <2>1. LET w == SaveVersion(n, Fresh(r), b)
          IN /\ w.create = b /\ [w EXCEPT !.create = FALSE] = SaveVersion(n, Fresh(r), FALSE)
             /\ Exists(w) <=> ver[n] # NoElement
             /\ Written(w) <=> /\ ver' = [ver EXCEPT ![n] = [Fresh(r) EXCEPT !.old = ver[n].old]]
                               /\ md' = md /\ ops' = ops
      BY VersionWrite
    <2> QED BY <2>1 DEF n
  <1>4. e.raw = r /\ ~e.published /\ e # NoElement /\ e.raw # NoRaw
    BY ValueFacts
  <1>5. 1 \in Version /\ ver[1] = NoElement /\ ver \in [Version -> Element]
    BY <1>1, NoneTyped, ValueFacts DEF Typed, TypeOK
  <1> HIDE DEF a, e
  <1>6. ASSUME Written(a) PROVE ver'[1] = e /\ \A v \in Version : v # 1 => ver'[v] = NoElement
    BY <1>1, <1>3, <1>5, <1>6, ValueFacts
  <1>7. ~a.create /\ Written(a) /\ compact' = compact =>
          Intact' /\ Immutable /\ Timely(ops', calls + 1)
    <2> SUFFICES ASSUME Written(a), compact' = compact
                 PROVE  Intact' /\ Immutable /\ Timely(ops', calls + 1)
      OBVIOUS
    <2>1. Timely(ops', calls + 1)
      BY <1>1, <1>3, TimelySame
    <2>2. Immutable
      BY <1>1, ValueFacts DEF Immutable
    <2>3. Intact'
      BY <1>1, <1>3, <1>4, <1>6, ValueFacts DEF Intact
    <2> QED BY <2>1, <2>2, <2>3
  <1>8. Asked(c, a, asked) => Phase(c)'
    <2>1. ASSUME Asked(c, a, asked) PROVE Creating2(c)'
      BY <1>1, <1>3, <1>5, <2>1 DEF Asked, Creating2
    <2> QED BY <2>1 DEF Phase
  <1>9. Made(c, a, next) => Phase(c)'
    <2>1. ASSUME Made(c, a, next) PROVE RecordingSet(c)'
      <3>1. md' = First /\ ops' = ops /\ calls' = calls /\ (failed' <=> failed) /\ Written(a)
        BY <1>1, <1>3, <2>1 DEF Made
      <3>2. Below(ver', md'.latest)
        <4>1. \A v \in Version : ver'[v] # NoElement => v = 1
          BY <1>6, <3>1
        <4> QED BY <3>1, <4>1, ValueFacts, NoneTyped DEF Below
      <3>3. Drafted(md', ver')
        BY <1>4, <1>6, <3>1, ValueFacts DEF Drafted
      <3>4. ~failed' => Chain(ops', md'.using)
        BY <1>1, <3>1, ValueFacts
      <3>5. call'[c] = Writes(<<Save(Record(calls', "SET", 0, 1))>>)
        BY <2>1, <3>1 DEF Made
      <3> HIDE DEF z, next
      <3> QED BY <1>1, <3>1, <3>2, <3>3, <3>4, <3>5, NoneTyped DEF RecordingSet, Whole
    <2> QED BY <2>1 DEF Phase
  <1>10. Asked(c, a, asked) \/ Made(c, a, next) \/ Missed(c, a)
    BY <1>2, <1>3
  <1> HIDE DEF asked, next, z
  <1> QED BY <1>1, <1>7, <1>8, <1>9, <1>10, Combine

LEMMA StepUpdating1 ==
  ASSUME Typed, Typed', Intact, NEW c \in Caller, Updating1(c), Request(c) \/ Step(c)
  PROVE  Kept(c)
  <1> DEFINE n == md.latest + 1
  <1>1. PICK r \in Raw, b \in BOOLEAN :
          /\ call[c] = Writes(<<SaveVersion(n, Fresh(r), b), SaveMetadata(Drafting(md, n), FALSE),
                                Save(Record(calls, "SET", md.latest, n))>>)
          /\ Timely(ops, calls) /\ Whole /\ md # NoMetadata /\ n \in Version
          /\ ~b => ver[n] = NoElement
    BY DEF Updating1
  <1> DEFINE a == SaveVersion(n, Fresh(r), b)
             t == SaveMetadata(Drafting(md, n), FALSE)
             z == Save(Record(calls, "SET", md.latest, n))
             e == [Fresh(r) EXCEPT !.old = ver[n].old]
             asked == <<SaveVersion(n, Fresh(r), FALSE), t, z>>
             next == Writes(<<t, z>>)
  <1>2. Asked(c, a, <<[a EXCEPT !.create = FALSE], t, z>>) \/ Made(c, a, next) \/ Missed(c, a)
    <2> HIDE DEF a, t, z
    <2> QED BY <1>1, WriteStep3 DEF a, t, z
  <1>3. /\ a.create = b /\ [a EXCEPT !.create = FALSE] = SaveVersion(n, Fresh(r), FALSE)
        /\ Exists(a) <=> ver[n] # NoElement
        /\ Written(a) <=> ver' = [ver EXCEPT ![n] = e] /\ md' = md /\ ops' = ops
    BY VersionWrite
  <1>4. e.raw = r /\ ~e.published /\ e # NoElement /\ e.raw # NoRaw
    BY ValueFacts
  <1>5. ver \in [Version -> Element] /\ md.latest \in Nat
    BY ConstAssumption DEF Typed, TypeOK, Metadata
  <1> HIDE DEF a, e
  <1>6. ASSUME Written(a) PROVE ver'[n] = e /\ \A v \in Version : v # n => ver'[v] = ver[v]
    <2> HIDE DEF n
    <2> QED BY <1>1, <1>3, <1>5, <1>6
  <1>7. ~a.create /\ Written(a) /\ compact' = compact =>
          Intact' /\ Immutable /\ Timely(ops', calls + 1)
    <2> SUFFICES ASSUME ~a.create, Written(a), compact' = compact
                 PROVE  Intact' /\ Immutable /\ Timely(ops', calls + 1)
      OBVIOUS
    <2>0. ver[n] = NoElement
      BY <1>1, <1>3
    <2> HIDE DEF n
    <2>1. Timely(ops', calls + 1)
      BY <1>1, <1>3, TimelySame
    <2>2. Immutable
      BY <1>6, <2>0, ValueFacts DEF Immutable
    <2>3. md'.using # 0 => md'.using # n
      <3>1. md.using # 0 => ver[md.using].raw # NoRaw
        BY ConstAssumption DEF Intact
      <3> QED BY <1>3, <2>0, <3>1, ValueFacts
    <2>4. md.using # 0 => md.using \in Version
      <3>1. md.using \in 0..MaxVersion
        BY DEF Typed, TypeOK, Metadata
      <3> QED BY <3>1, ConstAssumption DEF Version
    <2>5. Intact'
      BY <1>1, <1>3, <1>4, <1>6, <2>3, <2>4 DEF Intact
    <2> QED BY <2>1, <2>2, <2>5
  <1>8. Asked(c, a, asked) => Phase(c)'
    <2>1. ASSUME Asked(c, a, asked), Exists(a) PROVE Resting(c)'
      BY <1>1, <2>1, TimelySame DEF Asked, Resting, Whole
    <2>2. ASSUME Asked(c, a, asked), ~Exists(a) PROVE Updating1(c)'
      BY <1>1, <1>3, <2>2 DEF Asked, Updating1, Whole
    <2> QED BY <2>1, <2>2 DEF Phase
  <1>9. Made(c, a, next) => Phase(c)'
    <2>1. ASSUME Made(c, a, next) PROVE Updating2(c)'
      <3>1. md' = md /\ ops' = ops /\ calls' = calls /\ (failed' <=> failed) /\ Written(a)
        BY <1>1, <1>3, <2>1 DEF Made
      <3>2. ~failed' => Below(ver', n)
        <4>1. ASSUME ~failed, NEW v \in Version, ver'[v] # NoElement, v # n
              PROVE  v <= n
          <5>1. v <= md.latest
            <6> HIDE DEF n
            <6> QED BY <1>1, <1>6, <3>1, <4>1 DEF Whole, Below
          <5> QED BY <1>5, <5>1, NoneTyped
        <4>2. n <= n
          BY <1>5
        <4> QED BY <3>1, <4>1, <4>2 DEF Below
      <3>3. ~failed' => Chain(ops', md'.using)
        BY <1>1, <3>1 DEF Whole
      <3>4. call'[c] = Writes(<<SaveMetadata(Drafting(md', md'.latest + 1), FALSE),
                                Save(Record(calls', "SET", md'.latest, md'.latest + 1))>>)
        BY <2>1, <3>1 DEF Made
      <3>5. ver'[md'.latest + 1].raw # NoRaw /\ ~ver'[md'.latest + 1].published
        BY <1>4, <1>6, <3>1
      <3> HIDE DEF t, z, next
      <3> QED BY <1>1, <3>1, <3>2, <3>3, <3>4, <3>5 DEF Updating2
    <2> QED BY <2>1 DEF Phase
  <1>10. Asked(c, a, asked) \/ Made(c, a, next) \/ Missed(c, a)
    BY <1>2, <1>3
  <1> HIDE DEF asked, next, t, z, n
  <1> QED BY <1>1, <1>7, <1>8, <1>9, <1>10, Combine

LEMMA StepUpdating2 ==
  ASSUME Typed, Typed', Intact, NEW c \in Caller, Updating2(c), Request(c) \/ Step(c)
  PROVE  Kept(c)
  <1> DEFINE n == md.latest + 1
             m == Drafting(md, n)
             a == SaveMetadata(m, FALSE)
             z == Save(Record(calls, "SET", md.latest, n))
             next == Writes(<<z>>)
  <1>1. /\ call[c] = Writes(<<a, z>>)
        /\ Timely(ops, calls) /\ md # NoMetadata /\ n \in Version
        /\ ver[n].raw # NoRaw /\ ~ver[n].published
        /\ ~failed => Below(ver, n) /\ Chain(ops, md.using)
    BY DEF Updating2
  <1>2. Asked(c, a, <<[a EXCEPT !.create = FALSE], z>>) \/ Made(c, a, next) \/ Missed(c, a)
    <2> HIDE DEF a, z
    <2> QED BY <1>1, WriteStep2
  <1>3. ~a.create /\ (Written(a) <=> md' = m /\ ver' = ver /\ ops' = ops)
    BY MetadataWrite
  <1>4. md \in Metadata /\ md.latest \in Nat
    BY ConstAssumption DEF Typed, TypeOK, Metadata
  <1>5. n \in 0..MaxVersion /\ md.latest \in 0..MaxVersion /\ n # 0
    BY <1>1, <1>4, NoneTyped DEF Metadata
  <1>6. /\ m.latest = n /\ m.unpublished = n /\ m.using = md.using
        /\ m.fingerprint = md.fingerprint
    <2> HIDE DEF n
    <2> QED BY <1>4 DEF Drafting, Metadata
  <1>7. m # NoMetadata
    BY <1>5, <1>6, ValueFacts
  <1> HIDE DEF a, m, n
  <1>8. ~a.create /\ Written(a) /\ compact' = compact =>
          Intact' /\ Immutable /\ Timely(ops', calls + 1)
    BY <1>1, <1>3, <1>5, <1>6, <1>7, TimelySame DEF Intact, Immutable
  <1>9. Made(c, a, next) => Phase(c)'
    <2>1. ASSUME Made(c, a, next) PROVE RecordingSet(c)'
      <3>1. md' = m /\ ver' = ver /\ ops' = ops /\ calls' = calls /\ (failed' <=> failed)
        BY <1>3, <2>1 DEF Made
      <3>2. Whole'
        BY <1>1, <1>6, <3>1 DEF Whole, Drafted
      <3>3. call'[c] = Writes(<<Save(Record(calls', "SET", md.latest, n))>>)
        BY <2>1, <3>1 DEF Made
      <3> HIDE DEF z, next
      <3> QED BY <1>1, <1>5, <3>1, <3>2, <3>3 DEF RecordingSet
    <2> QED BY <2>1 DEF Phase
  <1>10. Asked(c, a, <<[a EXCEPT !.create = FALSE], z>>) => Phase(c)'
    BY <1>3 DEF Asked
  <1> HIDE DEF next, z
  <1> QED BY <1>1, <1>2, <1>8, <1>9, <1>10, Combine

LEMMA StepPublishing1 ==
  ASSUME Typed, Typed', Intact, NEW c \in Caller, Publishing1(c), Request(c) \/ Step(c)
  PROVE  Kept(c)
  <1>1. PICK v \in Version :
          /\ call[c] = Writes(<<SaveMetadata(Publishing(md, v, ver[v].raw), FALSE),
                                SaveVersion(v, Marked(ver[v]), FALSE),
                                Save(Record(calls + 1, "PUBLISH", md.using, v))>>)
          /\ Timely(ops, calls) /\ Whole /\ md # NoMetadata /\ ver[v] # NoElement
    BY DEF Publishing1
  <1> DEFINE m == Publishing(md, v, ver[v].raw)
             a == SaveMetadata(m, FALSE)
             t == SaveVersion(v, Marked(ver[v]), FALSE)
             z == Save(Record(calls + 1, "PUBLISH", md.using, v))
             asked == <<[a EXCEPT !.create = FALSE], t, z>>
             next == Writes(<<t, z>>)
  <1>2. Asked(c, a, asked) \/ Made(c, a, next) \/ Missed(c, a)
    <2> HIDE DEF a, t, z
    <2> QED BY <1>1, WriteStep3 DEF a, t, z
  <1>3. ~a.create /\ (Written(a) <=> md' = m /\ ver' = ver /\ ops' = ops)
    BY MetadataWrite
  <1>4. md \in Metadata /\ ver[v] \in Element /\ md.using \in 0..MaxVersion
    BY DEF Typed, TypeOK, Metadata
  <1>5. ver[v].raw \in Raw
    BY <1>1, <1>4 DEF Intact, Element, RawOrNone
  <1>6. /\ m.latest = md.latest /\ m.unpublished = 0 /\ m.using = v
        /\ m.fingerprint = ver[v].raw
    BY <1>4 DEF Publishing, Metadata
  <1>7. v # 0
    BY DEF Version
  <1>8. m # NoMetadata
    BY <1>6, <1>7, ValueFacts
  <1> HIDE DEF a, m
  <1>9. ~a.create /\ Written(a) /\ compact' = compact =>
          Intact' /\ Immutable /\ Timely(ops', calls + 1)
    BY <1>1, <1>3, <1>5, <1>6, <1>8, TimelySame DEF Intact, Immutable
  <1>10. Made(c, a, next) => Phase(c)'
    <2>1. ASSUME Made(c, a, next) PROVE Publishing2(c)'
      <3>1. md' = m /\ ver' = ver /\ ops' = ops /\ calls' = calls /\ (failed' <=> failed)
        BY <1>3, <2>1 DEF Made
      <3>2. ~failed' => Below(ver', md'.latest) /\ Chain(ops', md.using)
        BY <1>1, <1>6, <3>1 DEF Whole
      <3>3. call'[c] = Writes(<<SaveVersion(md'.using, Marked(ver'[md'.using]), FALSE),
                                Save(Record(calls' + 1, "PUBLISH", md.using, md'.using))>>)
        BY <1>6, <2>1, <3>1 DEF Made
      <3> HIDE DEF t, z, next
      <3> QED BY <1>1, <1>4, <1>6, <1>8, <3>1, <3>2, <3>3 DEF Publishing2
    <2> QED BY <2>1 DEF Phase
  <1>11. Asked(c, a, asked) => Phase(c)'
    BY <1>3 DEF Asked
  <1> HIDE DEF asked, next, t, z
  <1> QED BY <1>1, <1>2, <1>9, <1>10, <1>11, Combine

LEMMA StepPublishing2 ==
  ASSUME Typed, Typed', Intact, NEW c \in Caller, Publishing2(c), Request(c) \/ Step(c)
  PROVE  Kept(c)
  <1>1. PICK u \in 0..MaxVersion :
          /\ md.using \in Version
          /\ call[c] = Writes(<<SaveVersion(md.using, Marked(ver[md.using]), FALSE),
                                Save(Record(calls + 1, "PUBLISH", u, md.using))>>)
          /\ Timely(ops, calls) /\ md # NoMetadata /\ ver[md.using] # NoElement
          /\ md.unpublished = 0 /\ (~failed => Below(ver, md.latest) /\ Chain(ops, u))
    BY DEF Publishing2
  <1> DEFINE n == md.using
             a == SaveVersion(n, Marked(ver[n]), FALSE)
             z == Save(Record(calls + 1, "PUBLISH", u, n))
             e == [Marked(ver[n]) EXCEPT !.old = ver[n].old]
             asked == <<[a EXCEPT !.create = FALSE], z>>
             next == Writes(<<z>>)
  <1>2. Asked(c, a, asked) \/ Made(c, a, next) \/ Missed(c, a)
    <2> HIDE DEF a, z
    <2> QED BY <1>1, WriteStep2 DEF a, z
  <1>3. ~a.create /\ (Written(a) <=> ver' = [ver EXCEPT ![n] = e] /\ md' = md /\ ops' = ops)
    BY VersionWrite
  <1>4. ver \in [Version -> Element] /\ ver[n] \in Element
    BY <1>1 DEF Typed, TypeOK
  <1>5. e.raw = ver[n].raw /\ e.published
    BY <1>4, ValueFacts
  <1>6. ver[n].raw # NoRaw
    BY <1>1 DEF Intact
  <1> HIDE DEF a, e
  <1>7. ASSUME Written(a) PROVE ver'[n] = e /\ \A v \in Version : v # n => ver'[v] = ver[v]
    <2> HIDE DEF n
    <2> QED BY <1>1, <1>3, <1>4, <1>7 DEF n
  <1>8. ~a.create /\ Written(a) /\ compact' = compact =>
          Intact' /\ Immutable /\ Timely(ops', calls + 1)
    <2> SUFFICES ASSUME Written(a), compact' = compact
                 PROVE  Intact' /\ Immutable /\ Timely(ops', calls + 1)
      OBVIOUS
    <2>1. Timely(ops', calls + 1)
      BY <1>1, <1>3, TimelySame
    <2>2. Immutable
      BY <1>5, <1>7 DEF Immutable
    <2>3. Intact'
      BY <1>1, <1>3, <1>5, <1>6, <1>7 DEF Intact
    <2> QED BY <2>1, <2>2, <2>3
  <1>9. Made(c, a, next) => Phase(c)'
    <2>1. ASSUME Made(c, a, next) PROVE RecordingUse(c)'
      <3>1. md' = md /\ ops' = ops /\ calls' = calls /\ (failed' <=> failed) /\ Written(a)
        BY <1>3, <2>1 DEF Made
      <3>2. \A v \in Version : ver'[v] # NoElement => ver[v] # NoElement
        BY <1>1, <1>7, <3>1
      <3>3. ~failed' => Below(ver', md'.latest) /\ Chain(ops', u)
        BY <1>1, <3>1, <3>2 DEF Below
      <3>4. Drafted(md', ver')
        BY <1>1, <3>1 DEF Drafted
      <3>5. call'[c] = Writes(<<Save(Record(calls' + 1, "PUBLISH", u, md'.using))>>)
        BY <2>1, <3>1 DEF Made
      <3> HIDE DEF z, next
      <3> QED BY <1>1, <3>1, <3>3, <3>4, <3>5 DEF RecordingUse
    <2> QED BY <2>1 DEF Phase
  <1>10. Asked(c, a, asked) => Phase(c)'
    BY <1>3 DEF Asked
  <1> HIDE DEF asked, next, z
  <1> QED BY <1>1, <1>2, <1>8, <1>9, <1>10, Combine

LEMMA StepReturning1 ==
  ASSUME Typed, Typed', Intact, NEW c \in Caller, Returning1(c), Request(c) \/ Step(c)
  PROVE  Kept(c)
  <1>1. PICK v \in Version :
          /\ call[c] = Writes(<<SaveMetadata(Returning(md, v, ver[v].raw), FALSE),
                                Save(Record(calls + 1, "PUBLISH", md.using, v))>>)
          /\ Timely(ops, calls) /\ Whole /\ md # NoMetadata /\ ver[v] # NoElement
    BY DEF Returning1
  <1> DEFINE m == Returning(md, v, ver[v].raw)
             a == SaveMetadata(m, FALSE)
             z == Save(Record(calls + 1, "PUBLISH", md.using, v))
             asked == <<[a EXCEPT !.create = FALSE], z>>
             next == Writes(<<z>>)
  <1>2. Asked(c, a, asked) \/ Made(c, a, next) \/ Missed(c, a)
    <2> HIDE DEF a, z
    <2> QED BY <1>1, WriteStep2 DEF a, z
  <1>3. ~a.create /\ (Written(a) <=> md' = m /\ ver' = ver /\ ops' = ops)
    BY MetadataWrite
  <1>4. md \in Metadata /\ ver[v] \in Element /\ md.using \in 0..MaxVersion
    BY DEF Typed, TypeOK, Metadata
  <1>5. ver[v].raw \in Raw
    BY <1>1, <1>4 DEF Intact, Element, RawOrNone
  <1>6. /\ m.latest = md.latest /\ m.unpublished = md.unpublished /\ m.using = v
        /\ m.fingerprint = ver[v].raw
    BY <1>4 DEF Returning, Metadata
  <1>7. v # 0
    BY DEF Version
  <1>8. m # NoMetadata
    BY <1>6, <1>7, ValueFacts
  <1> HIDE DEF a, m
  <1>9. ~a.create /\ Written(a) /\ compact' = compact =>
          Intact' /\ Immutable /\ Timely(ops', calls + 1)
    BY <1>1, <1>3, <1>5, <1>6, <1>8, TimelySame DEF Intact, Immutable
  <1>10. Made(c, a, next) => Phase(c)'
    <2>1. ASSUME Made(c, a, next) PROVE RecordingUse(c)'
      <3>1. md' = m /\ ver' = ver /\ ops' = ops /\ calls' = calls /\ (failed' <=> failed)
        BY <1>3, <2>1 DEF Made
      <3>2. ~failed' => Below(ver', md'.latest) /\ Drafted(md', ver') /\ Chain(ops', md.using)
        BY <1>1, <1>6, <3>1 DEF Whole, Drafted
      <3>3. call'[c] = Writes(<<Save(Record(calls' + 1, "PUBLISH", md.using, md'.using))>>)
        BY <1>6, <2>1, <3>1 DEF Made
      <3> HIDE DEF z, next
      <3> QED BY <1>1, <1>4, <3>1, <3>2, <3>3 DEF RecordingUse
    <2> QED BY <2>1 DEF Phase
  <1>11. Asked(c, a, asked) => Phase(c)'
    BY <1>3 DEF Asked
  <1> HIDE DEF asked, next, z
  <1> QED BY <1>1, <1>2, <1>9, <1>10, <1>11, Combine

LEMMA StepRecordingSet ==
  ASSUME Typed, Typed', Intact, NEW c \in Caller, RecordingSet(c), Request(c) \/ Step(c)
  PROVE  Kept(c)
  <1>1. PICK u \in 0..MaxVersion, v \in 0..MaxVersion :
          /\ call[c] = Writes(<<Save(Record(calls, "SET", u, v))>>)
          /\ Timely(ops, calls) /\ Whole
    BY DEF RecordingSet
  <1> DEFINE o == Record(calls, "SET", u, v)
             a == Save(o)
             asked == <<[a EXCEPT !.create = FALSE]>>
  <1>2. Asked(c, a, asked) \/ Made(c, a, IdleCall) \/ Missed(c, a)
    <2> HIDE DEF a
    <2> QED BY <1>1, WriteStep1 DEF a
  <1>3. ~a.create /\ (Written(a) <=> md' = md /\ ver' = ver /\ ops' = ops \cup {o})
    BY OperationWrite
  <1>4. o.op # "PUBLISH"
    BY DEF Record
  <1>5. ASSUME Written(a) PROVE Timely(ops', calls + 1)
    BY <1>1, <1>3, <1>5, TimelyNext
  <1> HIDE DEF a, o
  <1>6. ~a.create /\ Written(a) /\ compact' = compact =>
          Intact' /\ Immutable /\ Timely(ops', calls + 1)
    BY <1>3, <1>5, IntactSame
  <1>7. Made(c, a, IdleCall) => Phase(c)'
    <2>1. ASSUME Made(c, a, IdleCall) PROVE Resting(c)'
      <3>1. Whole'
        BY <1>1, <1>3, <1>4, <2>1, ChainSet DEF Made, Whole
      <3> QED BY <1>5, <2>1, <3>1 DEF Made, Resting
    <2> QED BY <2>1 DEF Phase
  <1>8. Asked(c, a, asked) => Phase(c)'
    BY <1>3 DEF Asked
  <1> HIDE DEF asked
  <1> QED BY <1>1, <1>2, <1>6, <1>7, <1>8, Combine

LEMMA StepRecordingUse ==
  ASSUME Typed, Typed', Intact, NEW c \in Caller, RecordingUse(c), Request(c) \/ Step(c)
  PROVE  Kept(c)
  <1>1. PICK u \in 0..MaxVersion :
          /\ call[c] = Writes(<<Save(Record(calls + 1, "PUBLISH", u, md.using))>>)
          /\ Timely(ops, calls)
          /\ ~failed => Below(ver, md.latest) /\ Drafted(md, ver) /\ Chain(ops, u)
    BY DEF RecordingUse
  <1> DEFINE o == Record(calls + 1, "PUBLISH", u, md.using)
             a == Save(o)
             asked == <<[a EXCEPT !.create = FALSE]>>
  <1>2. Asked(c, a, asked) \/ Made(c, a, IdleCall) \/ Missed(c, a)
    <2> HIDE DEF a
    <2> QED BY <1>1, WriteStep1 DEF a
  <1>3. ~a.create /\ (Written(a) <=> md' = md /\ ver' = ver /\ ops' = ops \cup {o})
    BY OperationWrite
  <1>4. calls \in Nat /\ \A p \in ops : p.at \in Nat
    BY ConstAssumption DEF Typed, TypeOK, Operation
  <1>5. ASSUME Written(a) PROVE Timely(ops', calls + 1)
    BY <1>1, <1>3, <1>5, TimelyNext
  <1>6. ~failed => Chain(ops \cup {o}, md.using)
    BY <1>1, <1>4, ChainUse
  <1> HIDE DEF a, o
  <1>7. ~a.create /\ Written(a) /\ compact' = compact =>
          Intact' /\ Immutable /\ Timely(ops', calls + 1)
    BY <1>3, <1>5, IntactSame
  <1>8. Made(c, a, IdleCall) => Phase(c)'
    <2>1. ASSUME Made(c, a, IdleCall) PROVE Resting(c)'
      <3>1. Whole'
        BY <1>1, <1>3, <1>6, <2>1 DEF Made, Whole
      <3> QED BY <1>5, <2>1, <3>1 DEF Made, Resting
    <2> QED BY <2>1 DEF Phase
  <1>9. Asked(c, a, asked) => Phase(c)'
    BY <1>3 DEF Asked
  <1> HIDE DEF asked
  <1> QED BY <1>1, <1>2, <1>7, <1>8, <1>9, Combine

LEMMA StepDeleting1 ==
  ASSUME Typed, Typed', Intact, NEW c \in Caller, Deleting1(c), Request(c) \/ Step(c)
  PROVE  Kept(c)
  <1> DEFINE a == UnsetElement
             asked == <<[a EXCEPT !.create = FALSE], UnsetOperations>>
             next == Writes(<<UnsetOperations>>)
  <1>1. call[c] = Writes(<<a, UnsetOperations>>) /\ Timely(ops, calls)
    BY DEF Deleting1
  <1>2. Asked(c, a, asked) \/ Made(c, a, next) \/ Missed(c, a)
    <2> HIDE DEF a
    <2> QED BY <1>1, WriteStep2
  <1>3. ~a.create /\ (Written(a) <=> md' = NoMetadata /\ ver' = NoVersions /\ ops' = ops)
    BY UnsetWrite
  <1> HIDE DEF a
  <1>4. ~a.create /\ Written(a) /\ compact' = compact =>
          Intact' /\ Immutable /\ Timely(ops', calls + 1)
    BY <1>1, <1>3, TimelySame, ValueFacts DEF Intact, Immutable
  <1>5. Made(c, a, next) => Phase(c)'
    <2>1. ASSUME Made(c, a, next) PROVE Deleting2(c)'
      BY <1>1, <1>3, <2>1 DEF Made, Deleting2
    <2> QED BY <2>1 DEF Phase
  <1>6. Asked(c, a, asked) => Phase(c)'
    BY <1>3 DEF Asked
  <1> HIDE DEF asked, next
  <1> QED BY <1>1, <1>2, <1>4, <1>5, <1>6, Combine

LEMMA StepDeleting2 ==
  ASSUME Typed, Typed', Intact, NEW c \in Caller, Deleting2(c), Request(c) \/ Step(c)
  PROVE  Kept(c)
  <1> DEFINE a == UnsetOperations
             asked == <<[a EXCEPT !.create = FALSE]>>
  <1>1. call[c] = Writes(<<a>>) /\ Timely(ops, calls) /\ md = NoMetadata
    BY DEF Deleting2
  <1>2. Asked(c, a, asked) \/ Made(c, a, IdleCall) \/ Missed(c, a)
    <2> HIDE DEF a
    <2> QED BY <1>1, WriteStep1
  <1>3. ~a.create /\ (Written(a) <=> md' = md /\ ver' = ver /\ ops' = {})
    BY UnsetWrite
  <1>4. ver = NoVersions
    BY <1>1 DEF Intact
  <1> HIDE DEF a
  <1>5. Timely({}, calls + 1)
    BY DEF Timely
  <1>6. ~a.create /\ Written(a) /\ compact' = compact =>
          Intact' /\ Immutable /\ Timely(ops', calls + 1)
    BY <1>3, <1>5, IntactSame
  <1>7. Made(c, a, IdleCall) => Phase(c)'
    <2>1. ASSUME Made(c, a, IdleCall) PROVE Resting(c)'
      <3>1. md' = NoMetadata /\ ver' = NoVersions /\ ops' = {} /\ calls' = calls
        BY <1>1, <1>3, <1>4, <2>1 DEF Made
      <3>2. Below(ver', md'.latest) /\ Drafted(md', ver')
        BY <3>1, ValueFacts DEF Below, Drafted
      <3>3. Chain(ops', md'.using)
        BY <3>1, ChainEmpty
      <3> QED BY <1>5, <2>1, <3>1, <3>2, <3>3 DEF Made, Resting, Whole
    <2> QED BY <2>1 DEF Phase
  <1>8. Asked(c, a, asked) => Phase(c)'
    BY <1>3 DEF Asked
  <1> HIDE DEF asked
  <1> QED BY <1>1, <1>2, <1>6, <1>7, <1>8, Combine

\* A request that has been found its version, or refused.
LEMMA StepAsking ==
  ASSUME Typed, Typed', Intact, NEW c \in Caller, Asking(c), Request(c) \/ Step(c)
  PROVE  Kept(c)
  <1>1. PICK pc \in {"publish", "rollback"}, v \in Version : call[c] = Reading(pc, md, v)
    BY DEF Asking
  <1>2. Timely(ops, calls) /\ Whole /\ md # NoMetadata
    BY DEF Asking
  <1>3. /\ call[c].pc = pc /\ call[c].read = md /\ call[c].version = v /\ call[c].todo = <<>>
        /\ call[c] # IdleCall
    BY <1>1, CallFacts
  <1>4. ~Request(c)
    BY <1>3 DEF Request, CreateElement, UpdateElement, DeleteElement, PublishElementVersion,
                RollbackElementVersion, begin, Idle
  <1>5. publishRead(c) \/ rollbackRead(c)
    BY <1>3, <1>4 DEF Step, checkAbsent, saveRaw, saveRawFails
  <1>6. \A op, u, w : SaveOperation(op, u, w) = Save(Record(calls + 1, op, u, w))
    BY DEF SaveOperation, Save, Record
  <1>7. \A r : [call EXCEPT ![c] = r][c] = r
    BY DEF Typed, TypeOK
  <1> DEFINE pub == <<SaveMetadata(Publishing(md, v, ver[v].raw), FALSE),
                      SaveVersion(v, Marked(ver[v]), FALSE),
                      Save(Record(calls + 1, "PUBLISH", md.using, v))>>
             ret == <<SaveMetadata(Returning(md, v, ver[v].raw), FALSE),
                      Save(Record(calls + 1, "PUBLISH", md.using, v))>>
  <1>8. publishFound(c) = pub
    BY <1>3, <1>6 DEF publishFound, Publishing, Marked
  <1>9. rollbackFound(c) = ret
    BY <1>3, <1>6 DEF rollbackFound, Returning
  <1>10. pub # <<>> /\ ret # <<>>
    OBVIOUS
  <1>11. /\ UNCHANGED <<md, ver, ops, compact, calls, failed>>
         /\ \/ call'[c] = IdleCall
            \/ ver[v] # NoElement /\ call'[c] = Writes(pub)
            \/ ver[v] # NoElement /\ call'[c] = Writes(ret)
    <2> HIDE DEF pub, ret
    <2>1. CASE publishRead(c)
      BY <1>3, <1>7, <1>8, <1>10, <2>1 DEF publishRead, proceed, found
    <2>2. CASE rollbackRead(c)
      BY <1>3, <1>7, <1>9, <1>10, <2>2 DEF rollbackRead, proceed, found
    <2> QED BY <1>5, <2>1, <2>2
  <1>12. Intact' /\ Immutable
    BY <1>11, IntactSame
  <1>13. CASE call'[c] = IdleCall
    <2>1. Resting(c)'
      BY <1>2, <1>11, <1>13, TimelySame DEF Resting, Whole
    <2> QED BY <1>12, <2>1 DEF Kept, Phase
  <1>14. CASE ver[v] # NoElement /\ call'[c] = Writes(pub)
    <2>1. Publishing1(c)'
      BY <1>2, <1>11, <1>14 DEF Publishing1, Whole
    <2> QED BY <1>12, <2>1 DEF Kept, Phase
  <1>15. CASE ver[v] # NoElement /\ call'[c] = Writes(ret)
    <2>1. Returning1(c)'
      BY <1>2, <1>11, <1>15 DEF Returning1, Whole
    <2> QED BY <1>12, <2>1 DEF Kept, Phase
  <1> QED BY <1>11, <1>13, <1>14, <1>15

\* A request begins.
LEMMA StepResting ==
  ASSUME Typed, Typed', Intact, NEW c \in Caller, Resting(c), Request(c) \/ Step(c)
  PROVE  Kept(c)
  <1>1. call[c] = IdleCall /\ Timely(ops, calls + 1) /\ Whole
    BY DEF Resting
  <1>2. ~Step(c)
    BY <1>1, CallFacts DEF Step, publishRead, rollbackRead, checkAbsent, saveRaw, saveRawFails
  <1>3. Request(c)
    BY <1>2
  <1>4. /\ calls' = calls + 1 /\ UNCHANGED <<md, ver, ops, compact, failed>>
    BY <1>3 DEF Request, CreateElement, UpdateElement, DeleteElement, PublishElementVersion,
                RollbackElementVersion, begin
  <1>5. Intact' /\ Immutable
    BY <1>4, IntactSame
  <1>6. Timely(ops', calls') /\ Whole'
    BY <1>1, <1>4 DEF Whole
  <1>7. \A r : begin(c, r) => call'[c] = r
    BY DEF begin, Typed, TypeOK
  <1>8. \A op, u, w : SaveOperation(op, u, w) = Save(Record(calls', op, u, w))
    BY <1>4 DEF SaveOperation, Save, Record
  <1>9. md \in Metadata
    BY DEF Typed, TypeOK
  <1>10. CASE CreateElement(c)
    <2>1. PICK r \in Raw :
            call'[c] = Writes(<<SaveMetadata(First, TRUE), SaveVersion(1, Fresh(r), TRUE),
                                SaveOperation("SET", 0, 1)>>)
      BY <1>7, <1>10 DEF CreateElement, First, Fresh
    <2>2. Creating1(c)'
      BY <1>6, <1>8, <2>1 DEF Creating1
    <2> QED BY <1>5, <2>2 DEF Kept, Phase
  <1>11. CASE UpdateElement(c)
    <2>1. PICK r \in Raw :
            call'[c] = Writes(<<SaveVersion(md.latest + 1, Fresh(r), TRUE),
                                SaveMetadata(Drafting(md, md.latest + 1), FALSE),
                                SaveOperation("SET", md.latest, md.latest + 1)>>)
      BY <1>7, <1>11 DEF UpdateElement, Drafting, Fresh
    <2>2. md # NoMetadata /\ md.latest + 1 \in Version
      <3>1. md # NoMetadata /\ md.latest < MaxVersion
        BY <1>11 DEF UpdateElement
      <3> QED BY <1>9, <3>1, ConstAssumption DEF Metadata, Version
    <2>3. Updating1(c)'
      BY <1>4, <1>6, <1>8, <2>1, <2>2 DEF Updating1
    <2> QED BY <1>5, <2>3 DEF Kept, Phase
  <1>12. CASE DeleteElement(c)
    <2>1. Deleting1(c)'
      BY <1>6, <1>7, <1>12 DEF DeleteElement, Deleting1
    <2> QED BY <1>5, <2>1 DEF Kept, Phase
  <1>13. CASE PublishElementVersion(c)
    <2>1. PICK v \in {md.unpublished} \cup Version : v # 0 /\ call'[c] = Reading("publish", md, v)
      BY <1>7, <1>13 DEF PublishElementVersion, Reading
    <2>2. v \in Version
      BY <1>9, <2>1, ConstAssumption DEF Metadata, Version
    <2>3. Asking(c)'
      BY <1>4, <1>6, <1>13, <2>1, <2>2 DEF PublishElementVersion, Asking
    <2> QED BY <1>5, <2>3 DEF Kept, Phase
  <1>14. CASE RollbackElementVersion(c)
    <2>1. PICK v \in Version : call'[c] = Reading("rollback", md, v)
      BY <1>7, <1>14 DEF RollbackElementVersion, Reading
    <2>2. Asking(c)'
      BY <1>4, <1>6, <1>14, <2>1 DEF RollbackElementVersion, Asking
    <2> QED BY <1>5, <2>2 DEF Kept, Phase
  <1> QED BY <1>3, <1>10, <1>11, <1>12, <1>13, <1>14 DEF Request

LEMMA StepKept ==
  ASSUME Typed, Typed', SerialInv, NEW c \in Caller, Request(c) \/ Step(c)
  PROVE  Kept(c)
  BY StepResting, StepAsking, StepCreating1, StepCreating2, StepUpdating1, StepUpdating2,
     StepPublishing1, StepPublishing2, StepReturning1, StepRecordingSet, StepRecordingUse,
     StepDeleting1, StepDeleting2
  DEF SerialInv, Phase

-----------------------------------------------------------------------------
(* The theorems *)

LEMMA SerialInit == Init => SerialInv
  <1> SUFFICES ASSUME Init PROVE SerialInv
    OBVIOUS
  <1>1. Intact
    BY ValueFacts DEF Init, Intact
  <1>2. Below(ver, md.latest) /\ Drafted(md, ver)
    BY ValueFacts DEF Init, Below, Drafted
  <1>3. Chain(ops, md.using) /\ Timely(ops, calls + 1)
    BY ChainEmpty DEF Init, Timely
  <1>4. \A c \in Caller : call[c] = IdleCall
    BY DEF Init
  <1> QED BY <1>1, <1>2, <1>3, <1>4 DEF SerialInv, Phase, Resting, Whole

LEMMA SerialNext ==
  ASSUME Serial, Typed, Typed', SerialInv, [Next]_vars
  PROVE  SerialInv' /\ Immutable
  <1>1. CASE \E c \in Caller : Request(c) \/ Step(c)
    <2>1. PICK c \in Caller : Request(c) \/ Step(c)
      BY <1>1
    <2>2. Kept(c)
      BY <2>1, StepKept
    <2>3. \A d \in Caller : d = c
      BY DEF Serial
    <2>4. \A d \in Caller : Phase(d)'
      BY <2>2, <2>3 DEF Kept
    <2> QED BY <2>2, <2>4 DEF Kept, SerialInv
  <1>2. ~Compaction
    BY DEF SerialInv, Intact, Serial, Compaction, CompactStart, CompactRange, CompactUnset,
           CompactUnsetOperation, CompactDone, NoCompact
  <1>3. CASE UNCHANGED vars
    <2>1. Intact' /\ Immutable
      BY <1>3, IntactSame DEF SerialInv, vars
    <2>2. \A c \in Caller : Phase(c)'
      <3> TAKE c \in Caller
      <3>1. Whole => Whole'
        BY <1>3 DEF vars, Whole
      <3>2. Resting(c) => Resting(c)'
        BY <1>3, <3>1 DEF vars, Resting
      <3>3. Asking(c) => Asking(c)'
        BY <1>3, <3>1 DEF vars, Asking
      <3>4. Creating1(c) => Creating1(c)'
        BY <1>3, <3>1 DEF vars, Creating1
      <3>5. Creating2(c) => Creating2(c)'
        BY <1>3 DEF vars, Creating2
      <3>6. Updating1(c) => Updating1(c)'
        BY <1>3, <3>1 DEF vars, Updating1
      <3>7. Updating2(c) => Updating2(c)'
        BY <1>3 DEF vars, Updating2
      <3>8. Publishing1(c) => Publishing1(c)'
        BY <1>3, <3>1 DEF vars, Publishing1
      <3>9. Publishing2(c) => Publishing2(c)'
        BY <1>3 DEF vars, Publishing2
      <3>10. Returning1(c) => Returning1(c)'
        BY <1>3, <3>1 DEF vars, Returning1
      <3>11. RecordingSet(c) => RecordingSet(c)'
        BY <1>3, <3>1 DEF vars, RecordingSet
      <3>12. RecordingUse(c) => RecordingUse(c)'
        BY <1>3 DEF vars, RecordingUse
      <3>13. Deleting1(c) => Deleting1(c)'
        BY <1>3 DEF vars, Deleting1
      <3>14. Deleting2(c) => Deleting2(c)'
        BY <1>3 DEF vars, Deleting2
      <3> QED BY <3>2, <3>3, <3>4, <3>5, <3>6, <3>7, <3>8, <3>9, <3>10, <3>11, <3>12, <3>13, <3>14
              DEF SerialInv, Phase
    <2> QED BY <2>1, <2>2 DEF SerialInv
  <1> QED BY <1>1, <1>2, <1>3 DEF Next

LEMMA SerialHolds == Serial /\ Spec => [](Typed /\ SerialInv)
  <1> SUFFICES ASSUME Serial PROVE Spec => [](Typed /\ SerialInv)
    OBVIOUS
  <1>1. Typed /\ SerialInv /\ [Next]_vars => (Typed /\ SerialInv)'
    BY TypedNext, SerialNext
  <1> QED BY <1>1, TypedInit, SerialInit, PTL DEF Spec

\* Of requests made one after another, whichever of their writes fail, none
\* leaves metadata that names a version in use which cannot be read or whose
\* content is not the one its fingerprint was computed from.
THEOREM ServedIsIntact == Serial /\ Spec => []ServedVersionIntact
  <1>1. SerialInv => ServedVersionIntact
    BY DEF SerialInv, Intact, ServedVersionIntact
  <1> QED BY <1>1, SerialHolds, PTL

\* No request changes the content of a published version or takes back that it
\* was published; only DeleteElement removes it.
THEOREM PublishedStays == Serial /\ Spec => PublishedIsImmutable
  <1> SUFFICES ASSUME Serial PROVE Spec => PublishedIsImmutable
    OBVIOUS
  <1>1. Typed /\ SerialInv /\ [Next]_vars =>
          [\A v \in Version : ver[v].published /\ ver'[v] # NoElement =>
             ver'[v].published /\ ver'[v].raw = ver[v].raw]_vars
    BY TypedNext, SerialNext DEF Immutable
  <1> QED BY <1>1, SerialHolds, PTL DEF Spec, PublishedIsImmutable

\* When nothing is under way, the element is whole.
LEMMA QuietIsWhole == ASSUME Serial, SerialInv, Quiet PROVE Whole
  <1>1. PICK c \in Caller : call[c] = IdleCall
    BY DEF Serial, Quiet, Idle
  <1>2. Resting(c)
    <2>1. \A t : call[c] # Writes(t)
      BY <1>1, CallFacts
    <2>2. ~Asking(c)
      BY <1>1, CallFacts DEF Asking
    <2>3. ~Creating1(c) /\ ~Creating2(c)
      BY <2>1 DEF Creating1, Creating2
    <2>4. ~Updating1(c) /\ ~Updating2(c)
      BY <2>1 DEF Updating1, Updating2
    <2>5. ~Publishing1(c) /\ ~Publishing2(c) /\ ~Returning1(c)
      BY <2>1 DEF Publishing1, Publishing2, Returning1
    <2>6. ~RecordingSet(c) /\ ~RecordingUse(c) /\ ~Deleting1(c) /\ ~Deleting2(c)
      BY <2>1 DEF RecordingSet, RecordingUse, Deleting1, Deleting2
    <2> QED BY <2>2, <2>3, <2>4, <2>5, <2>6 DEF SerialInv, Phase
  <1> QED BY <1>2 DEF Resting

\* As long as no write has failed half way, an element at rest can go on: its
\* draft is there to be published, or the number of its next version is free.
THEOREM NeverStuck == Serial /\ Spec => []NextStepPossible
  <1> SUFFICES ASSUME Serial PROVE Spec => []NextStepPossible
    OBVIOUS
  <1>1. Typed /\ SerialInv => NextStepPossible
    <2> SUFFICES ASSUME Typed, SerialInv, Quiet, ~failed
                 PROVE  IF md.unpublished # 0
                        THEN ver[md.unpublished].raw # NoRaw /\ ~ver[md.unpublished].published
                        ELSE md.latest < MaxVersion => ver[md.latest + 1] = NoElement
      BY DEF NextStepPossible
    <2>1. Below(ver, md.latest) /\ Drafted(md, ver)
      BY QuietIsWhole DEF Whole
    <2>2. md.latest \in Nat
      BY ConstAssumption DEF Typed, TypeOK, Metadata
    <2>3. md.latest < MaxVersion => md.latest + 1 \in Version /\ ~(md.latest + 1 <= md.latest)
      BY <2>2, ConstAssumption DEF Version
    <2> QED BY <2>1, <2>3 DEF Below, Drafted
  <1> QED BY <1>1, SerialHolds, PTL

\* As long as no write has failed half way, the operation records of an element
\* at rest tell which version was in use after which, up to the one that is.
THEOREM TrailIsComplete == Serial /\ Spec => []AuditTrail
  <1> SUFFICES ASSUME Serial PROVE Spec => []AuditTrail
    OBVIOUS
  <1>1. SerialInv => AuditTrail
    <2> SUFFICES ASSUME SerialInv, Quiet, ~failed
                 PROVE  AuditTrail
      BY DEF AuditTrail
    <2>1. Chain(ops, md.using)
      BY QuietIsWhole DEF Whole
    <2>2. Publications = Published(ops)
      BY DEF Publications, Published
    <2>3. \A o : {p \in Publications : p.at > o.at} = Later(ops, o)
      BY <2>2 DEF Later
    <2> QED BY <2>1, <2>2, <2>3 DEF AuditTrail, Chain
  <1> QED BY <1>1, SerialHolds, PTL

-----------------------------------------------------------------------------
(* No version is stored without its content *)

Content(w) == w.to = "version" => w.value.raw # NoRaw
Filled(t) == \A i \in DOMAIN t : Content(t[i])

Whether(f) == \A v \in Version : f[v].raw = NoRaw => f[v] = NoElement
Sound == Whether(ver) /\ \A c \in Caller : Filled(call[c].todo)

LEMMA VersionValues ==
  /\ \A r \in Raw : Fresh(r) \in Element /\ Fresh(r).raw # NoRaw
  /\ \A e \in Element : Marked(e) \in Element /\ Marked(e).raw = e.raw
  <1>1. \A r \in Raw : Fresh(r) \in Element /\ Fresh(r).raw = r
    BY NoneTyped DEF Fresh, Element, RawOrNone
  <1>2. \A e \in Element : Marked(e) \in Element /\ Marked(e).raw = e.raw
    BY DEF Marked, Element
  <1> QED BY <1>1, <1>2, ConstAssumption

LEMMA FilledFacts ==
  /\ Filled(<<>>)
  /\ \A a, b : Content(a) /\ Content(b) => Filled(<<a, b>>)
  /\ \A a, b, d : Content(a) /\ Content(b) /\ Content(d) => Filled(<<a, b, d>>)
  BY DEF Filled

LEMMA ContentFacts ==
  /\ \A m, b : Content(SaveMetadata(m, b))
  /\ \A v, b : \A e \in Element : e.raw # NoRaw => Content(SaveVersion(v, e, b))
  /\ \A op, u, v : Content(SaveOperation(op, u, v))
  /\ Content(UnsetElement) /\ Content(UnsetOperations)
  BY DEF Content, SaveMetadata, SaveVersion, SaveOperation, UnsetElement, UnsetOperations

LEMMA WrittenSound ==
  ASSUME TypeOK, Whether(ver), NEW w \in Write, Content(w), Written(w)
  PROVE  Whether(ver')
  <1>1. CASE w.to = "version"
    <2>1. w.number \in Version /\ w.value \in Element /\ w.value.raw # NoRaw
      BY <1>1 DEF Write, Content
    <2>2. Stored(w).raw = w.value.raw
      BY <2>1 DEF Stored, Element
    <2>3. ver' = [ver EXCEPT ![w.number] = Stored(w)]
      BY <1>1 DEF Written
    <2>4. \A v \in Version : ver'[v] = IF v = w.number THEN Stored(w) ELSE ver[v]
      BY <2>1, <2>3 DEF TypeOK
    <2> QED BY <2>1, <2>2, <2>4 DEF Whether
  <1>2. CASE w.to = "element"
    BY <1>2, ValueFacts DEF Written, Whether
  <1>3. CASE w.to \in {"metadata", "operation", "operations"}
    <2>1. ver' = ver
      BY <1>3 DEF Written
    <2> QED BY <2>1 DEF Whether
  <1> QED BY <1>1, <1>2, <1>3 DEF Write

LEMMA SoundCall ==
  ASSUME Typed, Sound, Whether(ver'), NEW c \in Caller, NEW r, Filled(r.todo),
         call' = [call EXCEPT ![c] = r]
  PROVE  Sound'
  <1>1. \A d \in Caller : call'[d] = IF d = c THEN r ELSE call[d]
    BY DEF Typed, TypeOK
  <1>2. \A d \in Caller : Filled(call'[d].todo)
    BY <1>1 DEF Sound
  <1> QED BY <1>2 DEF Sound

LEMMA SoundRequest ==
  ASSUME Typed, Sound, NEW c \in Caller, Request(c)
  PROVE  Sound'
  <1>0. Whether(ver')
    BY DEF Sound, Request, CreateElement, UpdateElement, DeleteElement, PublishElementVersion,
           RollbackElementVersion, begin
  <1>1. \A t : Filled(t) => Filled(Writes(t).todo)
    BY CallFacts
  <1>2. \A r \in Raw : [NoElement EXCEPT !.raw = r] \in Element /\ [NoElement EXCEPT !.raw = r].raw # NoRaw
    BY VersionValues DEF Fresh
  <1>3. \A pc, v : Filled(Reading(pc, md, v).todo)
    BY CallFacts, FilledFacts
  <1>4. \A r : begin(c, r) /\ Filled(r.todo) => Sound'
    BY <1>0, SoundCall DEF begin
  <1>5. CASE CreateElement(c)
    <2>1. PICK r \in Raw :
            begin(c, Writes(<<SaveMetadata([NoMetadata EXCEPT !.latest = 1, !.unpublished = 1], TRUE),
                              SaveVersion(1, [NoElement EXCEPT !.raw = r], TRUE),
                              SaveOperation("SET", 0, 1)>>))
      BY <1>5 DEF CreateElement
    <2> QED BY <1>1, <1>2, <1>4, <2>1, FilledFacts, ContentFacts
  <1>6. CASE UpdateElement(c)
    <2>1. PICK r \in Raw :
            begin(c, Writes(<<SaveVersion(md.latest + 1, [NoElement EXCEPT !.raw = r], TRUE),
                              SaveMetadata([md EXCEPT !.latest = md.latest + 1, !.unpublished = md.latest + 1], FALSE),
                              SaveOperation("SET", md.latest, md.latest + 1)>>))
      BY <1>6 DEF UpdateElement
    <2> QED BY <1>1, <1>2, <1>4, <2>1, FilledFacts, ContentFacts
  <1>7. CASE DeleteElement(c)
    BY <1>1, <1>4, <1>7, FilledFacts, ContentFacts DEF DeleteElement
  <1>8. CASE PublishElementVersion(c)
    BY <1>3, <1>4, <1>8 DEF PublishElementVersion, Reading
  <1>9. CASE RollbackElementVersion(c)
    BY <1>3, <1>4, <1>9 DEF RollbackElementVersion, Reading
  <1> QED BY <1>5, <1>6, <1>7, <1>8, <1>9 DEF Request

LEMMA SoundStep ==
  ASSUME Typed, Sound, NEW c \in Caller, Step(c)
  PROVE  Sound'
  <1>0. call[c] \in Call /\ Named(call[c]) /\ Filled(call[c].todo) /\ Filled(IdleCall.todo)
    BY CallFacts, FilledFacts DEF Typed, TypeOK, Call, Sound
  <1>1. \A t : Filled(t) /\ proceed(c, t) => Sound'
    <2> SUFFICES ASSUME NEW t, Filled(t), proceed(c, t) PROVE Sound'
      OBVIOUS
    <2> DEFINE r == IF t = <<>> THEN IdleCall ELSE Writes(t)
    <2>1. Filled(r.todo)
      BY <1>0, CallFacts
    <2>2. call' = [call EXCEPT ![c] = r] /\ Whether(ver')
      BY DEF proceed, Sound
    <2> HIDE DEF r
    <2> QED BY <2>1, <2>2, SoundCall
  <1>2. CASE publishRead(c)
    <2>1. CASE found(c)
      <3> DEFINE v == call[c].version
      <3>1. v \in Version
        BY <1>0, <1>2 DEF publishRead, Named
      <3>2. ver[v] \in Element /\ ver[v].raw # NoRaw
        BY <2>1, <3>1 DEF found, Sound, Whether, Typed, TypeOK
      <3>3. [ver[v] EXCEPT !.published = TRUE] \in Element /\ [ver[v] EXCEPT !.published = TRUE].raw # NoRaw
        BY <3>2 DEF Element
      <3>4. Filled(publishFound(c))
        BY <3>3, FilledFacts, ContentFacts DEF publishFound
      <3> QED BY <1>1, <1>2, <2>1, <3>4 DEF publishRead
    <2>2. CASE ~found(c)
      BY <1>1, <1>2, <2>2, FilledFacts DEF publishRead
    <2> QED BY <2>1, <2>2
  <1>3. CASE rollbackRead(c)
    <2>1. Filled(rollbackFound(c))
      BY FilledFacts, ContentFacts DEF rollbackFound
    <2> QED BY <1>1, <1>3, <2>1, FilledFacts DEF rollbackRead
  <1> DEFINE t == call[c].todo
  <1>4. t \in Seq(Write) /\ Filled(t)
    BY <1>0 DEF Call
  <1>5. ASSUME t # <<>>
        PROVE  /\ Head(t) \in Write /\ Content(Head(t)) /\ Filled(Tail(t))
               /\ Filled([t EXCEPT ![1] = [t[1] EXCEPT !.create = FALSE]])
    <2> HIDE DEF t
    <2>1. /\ Len(t) \in Nat \ {0} /\ DOMAIN t = 1..Len(t) /\ 1 \in DOMAIN t
          /\ Head(t) = t[1] /\ t[1] \in Write
      BY <1>4, <1>5
    <2>2. Content(Head(t))
      BY <1>4, <2>1 DEF Filled
    <2>3. \A i \in DOMAIN Tail(t) : i + 1 \in DOMAIN t /\ Tail(t)[i] = t[i + 1]
      BY <1>4, <1>5
    <2>4. Filled(Tail(t))
      BY <1>4, <2>3 DEF Filled
    <2>5. Content([t[1] EXCEPT !.create = FALSE])
      BY <2>1, <2>2 DEF Content, Write
    <2> DEFINE x == [t[1] EXCEPT !.create = FALSE]
    <2> HIDE DEF x
    <2>6. \A i \in DOMAIN [t EXCEPT ![1] = x] : i \in DOMAIN t /\ (i # 1 => [t EXCEPT ![1] = x][i] = t[i])
      BY <2>1
    <2>7. [t EXCEPT ![1] = x][1] = x
      BY <2>1
    <2>8. Filled([t EXCEPT ![1] = x])
      BY <1>4, <2>5, <2>6, <2>7 DEF Filled, x
    <2> QED BY <2>1, <2>2, <2>4, <2>8 DEF x
  <1>6. CASE checkAbsent(c)
    <2> DEFINE r == IF Exists(Head(t)) THEN IdleCall ELSE [call[c] EXCEPT !.todo[1].create = FALSE]
    <2>1. [call[c] EXCEPT !.todo[1].create = FALSE].todo = [t EXCEPT ![1] = [t[1] EXCEPT !.create = FALSE]]
      BY <1>0 DEF Call
    <2>2. t # <<>> /\ call' = [call EXCEPT ![c] = r] /\ Whether(ver')
      BY <1>6 DEF checkAbsent, Sound
    <2>3. Filled(r.todo)
      BY <1>0, <1>5, <2>1, <2>2
    <2> HIDE DEF r
    <2> QED BY <2>2, <2>3, SoundCall
  <1>7. CASE saveRaw(c)
    <2> DEFINE r == IF Tail(t) = <<>> THEN IdleCall ELSE Writes(Tail(t))
    <2>1. t # <<>> /\ call' = [call EXCEPT ![c] = r] /\ Written(Head(t))
      BY <1>7 DEF saveRaw, rest
    <2>2. Filled(r.todo)
      BY <1>0, <1>5, <2>1, CallFacts
    <2> HIDE DEF r
    <2>3. Whether(ver')
      BY <1>5, <2>1, WrittenSound DEF Typed, Sound
    <2> QED BY <2>1, <2>2, <2>3, SoundCall
  <1>8. CASE saveRawFails(c)
    <2>1. t # <<>> /\ call' = [call EXCEPT ![c] = IdleCall] /\ (Written(Head(t)) \/ ver' = ver)
      BY <1>8 DEF saveRawFails
    <2>2. Whether(ver')
      BY <1>5, <2>1, WrittenSound DEF Typed, Sound
    <2> QED BY <1>0, <2>1, <2>2, SoundCall
  <1> QED BY <1>2, <1>3, <1>6, <1>7, <1>8 DEF Step

\* The versions a compaction starts with only get their age.
LEMMA StartSound ==
  ASSUME Typed, Whether(ver), NEW w \in 0..MaxVersion, CompactStart(w)
  PROVE  Whether(ver') /\ \A v \in Version : ver'[v] = NoElement => ver[v] = NoElement
  <1> SUFFICES ASSUME NEW v \in Version
               PROVE  /\ ver'[v].raw = NoRaw => ver'[v] = NoElement
                      /\ ver'[v] = NoElement => ver[v] = NoElement
    BY DEF Whether
  <1>1. ver[v] \in Element
    BY DEF Typed, TypeOK
  <1>2. ver'[v] = [ver[v] EXCEPT !.old = ver[v].raw # NoRaw /\ v <= w]
    BY DEF CompactStart
  <1>3. ver'[v].raw = ver[v].raw
    BY <1>1, <1>2 DEF Element
  <1>4. ASSUME ver[v].raw = NoRaw PROVE ver[v] = NoElement /\ ver'[v] = NoElement
    <2>1. ver[v] = NoElement
      BY <1>4 DEF Whether
    <2>2. ver'[v] = [NoElement EXCEPT !.old = FALSE]
      BY <1>2, <1>4, <2>1
    <2> QED BY <2>1, <2>2 DEF NoElement
  <1> QED BY <1>3, <1>4, ValueFacts

LEMMA SoundCompaction ==
  ASSUME Typed, Sound, Compaction
  PROVE  Sound'
  <1>1. call' = call
    BY DEF Compaction, CompactStart, CompactRange, CompactUnset, CompactUnsetOperation, CompactDone
  <1>2. Whether(ver')
    <2>1. ASSUME NEW w \in 0..MaxVersion, CompactStart(w) PROVE Whether(ver')
      BY <2>1, StartSound DEF Sound
    <2>2. ASSUME NEW v \in compact.drop, CompactUnset(v) PROVE Whether(ver')
      BY <2>2 DEF CompactUnset, Sound, Whether, Typed, TypeOK
    <2>3. ASSUME ver' = ver PROVE Whether(ver')
      BY <2>3 DEF Sound
    <2> QED BY <2>1, <2>2, <2>3 DEF Compaction, CompactRange, CompactUnsetOperation, CompactDone
  <1> QED BY <1>1, <1>2 DEF Sound

LEMMA SoundNext ==
  ASSUME Typed, Sound, [Next]_vars
  PROVE  Sound'
  <1>1. CASE UNCHANGED vars
    BY <1>1 DEF vars, Sound
  <1> QED BY <1>1, SoundRequest, SoundStep, SoundCompaction DEF Next

-----------------------------------------------------------------------------
(* A compaction beside requests made one after another *)

\* One request is under way at a time.
OneByOne == \E c : Caller = {c}

Busy == compact.pc # "idle"

\* The compaction that read r leaves version v alone, f being what is stored.
Spared(r, f, v) == v \in {0, r.using, r.unpublished} \/ (v \in Version /\ ~f[v].old)

\* What the metadata names is spared, and what is to be removed is not.
Guarded ==
  /\ Whether(ver)
  /\ Busy => /\ md # NoMetadata
             /\ Spared(compact.read, ver, md.using) /\ Spared(compact.read, ver, md.unpublished)
  /\ \A v \in compact.drop : ver[v].old /\ v \notin {compact.read.using, compact.read.unpublished}

\* What a request under way may still write into the metadata is spared too.
Stage0(c) == call[c] = IdleCall
StageAsking(c) == md.unpublished \in Version /\ call[c] = Reading("publish", md, md.unpublished)
StageCreating1(c) ==
  \E r \in Raw, b \in BOOLEAN, o \in Operation :
    /\ call[c] = Writes(<<SaveMetadata(First, b), SaveVersion(1, Fresh(r), TRUE), Save(o)>>)
    /\ o.op = "SET" /\ o.current = 1 /\ (~b => md = NoMetadata)
StageCreating2(c) ==
  \E r \in Raw, b \in BOOLEAN, o \in Operation :
    call[c] = Writes(<<SaveVersion(1, Fresh(r), b), Save(o)>>)
StageUpdating1(c) ==
  \E r \in Raw, b \in BOOLEAN, o \in Operation, n \in Version :
    /\ call[c] = Writes(<<SaveVersion(n, Fresh(r), b), SaveMetadata(Drafting(md, n), FALSE), Save(o)>>)
    /\ o.op = "SET" /\ o.current = n
    /\ ~b /\ Busy => ~ver[n].old
StageUpdating2(c) ==
  \E o \in Operation, n \in Version :
    /\ call[c] = Writes(<<SaveMetadata(Drafting(md, n), FALSE), Save(o)>>)
    /\ o.op = "SET" /\ o.current = n
    /\ Busy => ~ver[n].old
StagePublishing1(c) ==
  \E f \in RawOrNone, e \in Element, o \in Operation :
    /\ md.unpublished \in Version /\ e.raw # NoRaw
    /\ call[c] = Writes(<<SaveMetadata(Publishing(md, md.unpublished, f), FALSE),
                          SaveVersion(md.unpublished, Marked(e), FALSE), Save(o)>>)
StagePublishing2(c) ==
  \E v \in Version, e \in Element, o \in Operation :
    /\ call[c] = Writes(<<SaveVersion(v, Marked(e), FALSE), Save(o)>>)
    /\ e.raw # NoRaw
StageRecording(c) == \E o \in Operation : call[c] = Writes(<<Save(o)>>)

Stage(c) ==
  \/ Stage0(c) \/ StageAsking(c) \/ StageCreating1(c) \/ StageCreating2(c) \/ StageUpdating1(c)
  \/ StageUpdating2(c) \/ StagePublishing1(c) \/ StagePublishing2(c) \/ StageRecording(c)

Calm == Guarded /\ \A c \in Caller : Stage(c)

\* So it is unless a request has looked back beside the compaction.
OrderlyInv == Sound /\ (moved = {} => Calm)

\* No request removes a version.
NoLoss == \A v \in Version : ver'[v] = NoElement => ver[v] = NoElement

\* The versions keep their age, and none is written without content.
SameAge ==
  \A v \in Version : ver'[v].old = ver[v].old /\ (ver'[v].raw = NoRaw => ver'[v] = ver[v])

KeptStage(c) == Guarded' /\ Stage(c)' /\ NoLoss

LEMMA GuardedSame ==
  ASSUME Typed, Guarded, compact' = compact, SameAge,
         md' = md \/ (Busy => /\ md' # NoMetadata
                              /\ Spared(compact.read, ver, md'.using)
                              /\ Spared(compact.read, ver, md'.unpublished))
  PROVE  Guarded'
  <1>1. compact.drop \subseteq Version
    BY DEF Typed, TypeOK
  <1>2. \A v : Spared(compact.read, ver, v) => Spared(compact.read, ver', v)
    BY DEF Spared, SameAge
  <1>3. \A v \in compact.drop : ver'[v].old
    BY <1>1 DEF Guarded, SameAge
  <1>4. Busy' <=> Busy
    BY DEF Busy
  <1>5. Busy => /\ md' # NoMetadata
                /\ Spared(compact.read, ver', md'.using)
                /\ Spared(compact.read, ver', md'.unpublished)
    BY <1>2 DEF Guarded
  <1>6. Whether(ver')
    BY DEF Guarded, SameAge, Whether
  <1> HIDE DEF Busy
  <1> QED BY <1>3, <1>4, <1>5, <1>6 DEF Guarded

LEMMA CombineStage ==
  ASSUME Typed, Guarded, NEW c \in Caller, NEW a, NEW asked, NEW next,
         Asked(c, a, asked) \/ Made(c, a, next) \/ Missed(c, a),
         ~a.create /\ Written(a) /\ compact' = compact => Guarded' /\ NoLoss,
         Asked(c, a, asked) => Stage(c)',
         Made(c, a, next) => Stage(c)'
  PROVE  KeptStage(c)
  <1>0. UNCHANGED <<md, ver, ops>> /\ compact' = compact => Guarded' /\ NoLoss
    <2> SUFFICES ASSUME UNCHANGED <<md, ver, ops>>, compact' = compact
                 PROVE  Guarded' /\ NoLoss
      OBVIOUS
    <2>1. SameAge /\ NoLoss
      BY DEF SameAge, NoLoss
    <2> QED BY <2>1, GuardedSame
  <1>1. CASE Asked(c, a, asked)
    BY <1>0, <1>1 DEF Asked, KeptStage
  <1>2. CASE Made(c, a, next)
    BY <1>2 DEF Made, KeptStage
  <1>3. CASE Missed(c, a)
    <2>1. Guarded' /\ NoLoss
      BY <1>0, <1>3 DEF Missed
    <2>2. Stage0(c)'
      BY <1>3 DEF Missed, Stage0
    <2> QED BY <2>1, <2>2 DEF KeptStage, Stage
  <1> QED BY <1>1, <1>2, <1>3

\* A write of a version keeps its age and does not remove it.
LEMMA VersionKept ==
  ASSUME Typed, NEW v \in Version, NEW e \in Element, e.raw # NoRaw,
         ver' = [ver EXCEPT ![v] = [e EXCEPT !.old = ver[v].old]]
  PROVE  SameAge /\ NoLoss
  <1>1. ver \in [Version -> Element]
    BY DEF Typed, TypeOK
  <1> DEFINE x == [e EXCEPT !.old = ver[v].old]
  <1>2. x.old = ver[v].old /\ x.raw = e.raw /\ x.published = e.published
    BY DEF Element
  <1>3. x # NoElement
    BY <1>2, ValueFacts
  <1> HIDE DEF x
  <1>4. ver'[v] = x /\ \A u \in Version : u # v => ver'[u] = ver[u]
    BY <1>1 DEF x
  <1> QED BY <1>2, <1>3, <1>4 DEF SameAge, NoLoss

LEMMA StageStepCreating1 ==
  ASSUME Typed, Guarded, NEW c \in Caller, StageCreating1(c), Request(c) \/ Step(c)
  PROVE  KeptStage(c)
  <1>1. PICK r \in Raw, b \in BOOLEAN, o \in Operation :
          /\ call[c] = Writes(<<SaveMetadata(First, b), SaveVersion(1, Fresh(r), TRUE), Save(o)>>)
          /\ o.op = "SET" /\ o.current = 1 /\ (~b => md = NoMetadata)
    BY DEF StageCreating1
  <1> DEFINE a == SaveMetadata(First, b)
             t == SaveVersion(1, Fresh(r), TRUE)
             asked == <<SaveMetadata(First, FALSE), t, Save(o)>>
             next == Writes(<<t, Save(o)>>)
  <1>2. Asked(c, a, <<[a EXCEPT !.create = FALSE], t, Save(o)>>) \/ Made(c, a, next) \/ Missed(c, a)
    <2> HIDE DEF a, t
    <2> QED BY <1>1, WriteStep3 DEF a, t
  <1>3. /\ a.create = b /\ [a EXCEPT !.create = FALSE] = SaveMetadata(First, FALSE)
        /\ Exists(a) <=> md # NoMetadata
        /\ Written(a) <=> md' = First /\ ver' = ver /\ ops' = ops
    BY MetadataWrite
  <1> HIDE DEF a
  <1>4. ~a.create /\ Written(a) /\ compact' = compact => Guarded' /\ NoLoss
    <2> SUFFICES ASSUME ~a.create, Written(a), compact' = compact
                 PROVE  Guarded' /\ NoLoss
      OBVIOUS
    <2>1. SameAge /\ NoLoss
      BY <1>3 DEF SameAge, NoLoss
    <2>2. ~Busy
      BY <1>1, <1>3 DEF Guarded
    <2> QED BY <2>1, <2>2, GuardedSame
  <1>5. Asked(c, a, asked) => Stage(c)'
    <2>1. ASSUME Asked(c, a, asked), Exists(a) PROVE Stage0(c)'
      BY <2>1 DEF Asked, Stage0
    <2>2. ASSUME Asked(c, a, asked), ~Exists(a) PROVE StageCreating1(c)'
      BY <1>1, <1>3, <2>2 DEF Asked, StageCreating1
    <2> QED BY <2>1, <2>2 DEF Stage
  <1>6. Made(c, a, next) => Stage(c)'
    <2>1. ASSUME Made(c, a, next) PROVE StageCreating2(c)'
      BY <2>1 DEF Made, StageCreating2
    <2> QED BY <2>1 DEF Stage
  <1>7. Asked(c, a, asked) \/ Made(c, a, next) \/ Missed(c, a)
    BY <1>2, <1>3
  <1> HIDE DEF asked, next, t
  <1> QED BY <1>4, <1>5, <1>6, <1>7, CombineStage

LEMMA StageStepCreating2 ==
  ASSUME Typed, Guarded, NEW c \in Caller, StageCreating2(c), Request(c) \/ Step(c)
  PROVE  KeptStage(c)
  <1> DEFINE n == 1
  <1>0. n \in Version
    BY NoneTyped
  <1>1. PICK r \in Raw, b \in BOOLEAN, o \in Operation :
          call[c] = Writes(<<SaveVersion(n, Fresh(r), b), Save(o)>>)
    BY DEF StageCreating2
  <1> DEFINE a == SaveVersion(n, Fresh(r), b)
             asked == <<SaveVersion(n, Fresh(r), FALSE), Save(o)>>
             next == Writes(<<Save(o)>>)
  <1>2. Asked(c, a, <<[a EXCEPT !.create = FALSE], Save(o)>>) \/ Made(c, a, next) \/ Missed(c, a)
    <2> HIDE DEF a, n
    <2> QED BY <1>1, WriteStep2 DEF a
  <1>3. /\ a.create = b /\ [a EXCEPT !.create = FALSE] = SaveVersion(n, Fresh(r), FALSE)
        /\ Written(a) <=> /\ ver' = [ver EXCEPT ![n] = [Fresh(r) EXCEPT !.old = ver[n].old]]
                          /\ md' = md /\ ops' = ops
    <2> HIDE DEF n
    <2> QED BY VersionWrite
  <1> HIDE DEF a
  <1>4. ~a.create /\ Written(a) /\ compact' = compact => Guarded' /\ NoLoss
    <2> HIDE DEF n
    <2> SUFFICES ASSUME ~a.create, Written(a), compact' = compact
                 PROVE  Guarded' /\ NoLoss
      OBVIOUS
    <2>1. SameAge /\ NoLoss
      BY <1>0, <1>3, VersionValues, VersionKept
    <2> QED BY <1>3, <2>1, GuardedSame
  <1>5. Asked(c, a, asked) => Stage(c)'
    <2>1. ASSUME Asked(c, a, asked), Exists(a) PROVE Stage0(c)'
      BY <2>1 DEF Asked, Stage0
    <2>2. ASSUME Asked(c, a, asked), ~Exists(a) PROVE StageCreating2(c)'
      BY <2>2 DEF Asked, StageCreating2
    <2> QED BY <2>1, <2>2 DEF Stage
  <1>6. Made(c, a, next) => Stage(c)'
    <2>1. ASSUME Made(c, a, next) PROVE StageRecording(c)'
      BY <2>1 DEF Made, StageRecording
    <2> QED BY <2>1 DEF Stage
  <1>7. Asked(c, a, asked) \/ Made(c, a, next) \/ Missed(c, a)
    BY <1>2, <1>3
  <1> HIDE DEF asked, next
  <1> QED BY <1>4, <1>5, <1>6, <1>7, CombineStage

LEMMA StageStepUpdating1 ==
  ASSUME Typed, Guarded, NEW c \in Caller, StageUpdating1(c), Request(c) \/ Step(c)
  PROVE  KeptStage(c)
  <1>1. PICK r \in Raw, b \in BOOLEAN, o \in Operation, n \in Version :
          /\ call[c] = Writes(<<SaveVersion(n, Fresh(r), b), SaveMetadata(Drafting(md, n), FALSE), Save(o)>>)
          /\ o.op = "SET" /\ o.current = n
          /\ ~b /\ Busy => ~ver[n].old
    BY DEF StageUpdating1
  <1> DEFINE a == SaveVersion(n, Fresh(r), b)
             t == SaveMetadata(Drafting(md, n), FALSE)
             asked == <<SaveVersion(n, Fresh(r), FALSE), t, Save(o)>>
             next == Writes(<<t, Save(o)>>)
  <1>2. Asked(c, a, <<[a EXCEPT !.create = FALSE], t, Save(o)>>) \/ Made(c, a, next) \/ Missed(c, a)
    <2> HIDE DEF a, t
    <2> QED BY <1>1, WriteStep3 DEF a, t
  <1>3. /\ a.create = b /\ [a EXCEPT !.create = FALSE] = SaveVersion(n, Fresh(r), FALSE)
        /\ Exists(a) <=> ver[n] # NoElement
        /\ Written(a) <=> /\ ver' = [ver EXCEPT ![n] = [Fresh(r) EXCEPT !.old = ver[n].old]]
                          /\ md' = md /\ ops' = ops
    BY VersionWrite
  <1> HIDE DEF a
  <1>4. Written(a) => SameAge /\ NoLoss
    BY <1>3, VersionValues, VersionKept
  <1>5. ~a.create /\ Written(a) /\ compact' = compact => Guarded' /\ NoLoss
    BY <1>3, <1>4, GuardedSame
  <1>6. Asked(c, a, asked) => Stage(c)'
    <2>1. ASSUME Asked(c, a, asked), Exists(a) PROVE Stage0(c)'
      BY <2>1 DEF Asked, Stage0
    <2>2. ASSUME Asked(c, a, asked), ~Exists(a) PROVE StageUpdating1(c)'
      <3>1. ver' = ver /\ md' = md /\ ver[n] = NoElement
        BY <1>3, <2>2 DEF Asked
      <3>2. ~ver'[n].old
        BY <3>1 DEF NoElement
      <3> QED BY <1>1, <2>2, <3>1, <3>2 DEF Asked, StageUpdating1
    <2> QED BY <2>1, <2>2 DEF Stage
  <1>7. Made(c, a, next) => Stage(c)'
    <2>1. ASSUME Made(c, a, next) PROVE StageUpdating2(c)'
      <3>1. md' = md /\ compact' = compact /\ ~b /\ SameAge
        BY <1>3, <1>4, <2>1 DEF Made
      <3>2. Busy' => ~ver'[n].old
        BY <1>1, <3>1 DEF Busy, SameAge
      <3> QED BY <1>1, <2>1, <3>1, <3>2 DEF Made, StageUpdating2
    <2> QED BY <2>1 DEF Stage
  <1>8. Asked(c, a, asked) \/ Made(c, a, next) \/ Missed(c, a)
    BY <1>2, <1>3
  <1> HIDE DEF asked, next, t
  <1> QED BY <1>5, <1>6, <1>7, <1>8, CombineStage

LEMMA StageStepUpdating2 ==
  ASSUME Typed, Guarded, NEW c \in Caller, StageUpdating2(c), Request(c) \/ Step(c)
  PROVE  KeptStage(c)
  <1>1. PICK o \in Operation, n \in Version :
          /\ call[c] = Writes(<<SaveMetadata(Drafting(md, n), FALSE), Save(o)>>)
          /\ o.op = "SET" /\ o.current = n
          /\ Busy => ~ver[n].old
    BY DEF StageUpdating2
  <1> DEFINE m == Drafting(md, n)
             a == SaveMetadata(m, FALSE)
             asked == <<[a EXCEPT !.create = FALSE], Save(o)>>
             next == Writes(<<Save(o)>>)
  <1>2. Asked(c, a, asked) \/ Made(c, a, next) \/ Missed(c, a)
    <2> HIDE DEF a
    <2> QED BY <1>1, WriteStep2 DEF a
  <1>3. ~a.create /\ (Written(a) <=> md' = m /\ ver' = ver /\ ops' = ops)
    BY MetadataWrite
  <1>4. m.latest = n /\ m.unpublished = n /\ m.using = md.using
    BY DEF Drafting, Typed, TypeOK, Metadata
  <1>5. n # 0
    BY DEF Version
  <1>6. m # NoMetadata
    BY <1>4, <1>5, ValueFacts
  <1> HIDE DEF a, m
  <1>7. ~a.create /\ Written(a) /\ compact' = compact => Guarded' /\ NoLoss
    <2> SUFFICES ASSUME Written(a), compact' = compact
                 PROVE  Guarded' /\ NoLoss
      OBVIOUS
    <2>1. SameAge /\ NoLoss
      BY <1>3 DEF SameAge, NoLoss
    <2>2. Busy => Spared(compact.read, ver, n) /\ Spared(compact.read, ver, md.using)
      BY <1>1 DEF Spared, Guarded
    <2> QED BY <1>3, <1>4, <1>6, <2>1, <2>2, GuardedSame
  <1>8. Asked(c, a, asked) => Stage(c)'
    BY <1>3 DEF Asked
  <1>9. Made(c, a, next) => Stage(c)'
    <2>1. ASSUME Made(c, a, next) PROVE StageRecording(c)'
      BY <2>1 DEF Made, StageRecording
    <2> QED BY <2>1 DEF Stage
  <1> HIDE DEF asked, next
  <1> QED BY <1>2, <1>7, <1>8, <1>9, CombineStage

LEMMA StageStepPublishing1 ==
  ASSUME Typed, Guarded, NEW c \in Caller, StagePublishing1(c), Request(c) \/ Step(c)
  PROVE  KeptStage(c)
  <1> DEFINE v == md.unpublished
  <1>1. PICK f \in RawOrNone, e \in Element, o \in Operation :
          /\ v \in Version /\ e.raw # NoRaw
          /\ call[c] = Writes(<<SaveMetadata(Publishing(md, v, f), FALSE),
                                SaveVersion(v, Marked(e), FALSE), Save(o)>>)
    BY DEF StagePublishing1
  <1> DEFINE m == Publishing(md, v, f)
             a == SaveMetadata(m, FALSE)
             t == SaveVersion(v, Marked(e), FALSE)
             asked == <<[a EXCEPT !.create = FALSE], t, Save(o)>>
             next == Writes(<<t, Save(o)>>)
  <1>2. Asked(c, a, asked) \/ Made(c, a, next) \/ Missed(c, a)
    <2> HIDE DEF a, t
    <2> QED BY <1>1, WriteStep3 DEF a, t
  <1>3. ~a.create /\ (Written(a) <=> md' = m /\ ver' = ver /\ ops' = ops)
    BY MetadataWrite
  <1>4. m.using = v /\ m.unpublished = 0
    BY DEF Publishing, Typed, TypeOK, Metadata
  <1>5. v # 0
    BY <1>1 DEF Version
  <1>6. m # NoMetadata
    BY <1>4, <1>5, ValueFacts
  <1> HIDE DEF a, m
  <1>7. ~a.create /\ Written(a) /\ compact' = compact => Guarded' /\ NoLoss
    <2> SUFFICES ASSUME Written(a), compact' = compact
                 PROVE  Guarded' /\ NoLoss
      OBVIOUS
    <2>1. SameAge /\ NoLoss
      BY <1>3 DEF SameAge, NoLoss
    <2>2. Busy => Spared(compact.read, ver, v) /\ Spared(compact.read, ver, 0)
      BY DEF Spared, Guarded
    <2> QED BY <1>3, <1>4, <1>6, <2>1, <2>2, GuardedSame
  <1>8. Asked(c, a, asked) => Stage(c)'
    BY <1>3 DEF Asked
  <1>9. Made(c, a, next) => Stage(c)'
    <2>1. ASSUME Made(c, a, next) PROVE StagePublishing2(c)'
      BY <1>1, <2>1 DEF Made, StagePublishing2
    <2> QED BY <2>1 DEF Stage
  <1> HIDE DEF asked, next, t
  <1> QED BY <1>2, <1>7, <1>8, <1>9, CombineStage

LEMMA StageStepPublishing2 ==
  ASSUME Typed, Guarded, NEW c \in Caller, StagePublishing2(c), Request(c) \/ Step(c)
  PROVE  KeptStage(c)
  <1>1. PICK v \in Version, e \in Element, o \in Operation :
          /\ call[c] = Writes(<<SaveVersion(v, Marked(e), FALSE), Save(o)>>)
          /\ e.raw # NoRaw
    BY DEF StagePublishing2
  <1> DEFINE a == SaveVersion(v, Marked(e), FALSE)
             asked == <<[a EXCEPT !.create = FALSE], Save(o)>>
             next == Writes(<<Save(o)>>)
  <1>2. Asked(c, a, asked) \/ Made(c, a, next) \/ Missed(c, a)
    <2> HIDE DEF a
    <2> QED BY <1>1, WriteStep2 DEF a
  <1>3. /\ ~a.create
        /\ Written(a) <=> /\ ver' = [ver EXCEPT ![v] = [Marked(e) EXCEPT !.old = ver[v].old]]
                          /\ md' = md /\ ops' = ops
    BY VersionWrite
  <1> HIDE DEF a
  <1>4. ~a.create /\ Written(a) /\ compact' = compact => Guarded' /\ NoLoss
    <2> SUFFICES ASSUME Written(a), compact' = compact
                 PROVE  Guarded' /\ NoLoss
      OBVIOUS
    <2>1. SameAge /\ NoLoss
      BY <1>1, <1>3, VersionValues, VersionKept
    <2> QED BY <1>3, <2>1, GuardedSame
  <1>5. Asked(c, a, asked) => Stage(c)'
    BY <1>3 DEF Asked
  <1>6. Made(c, a, next) => Stage(c)'
    <2>1. ASSUME Made(c, a, next) PROVE StageRecording(c)'
      BY <2>1 DEF Made, StageRecording
    <2> QED BY <2>1 DEF Stage
  <1> HIDE DEF asked, next
  <1> QED BY <1>2, <1>4, <1>5, <1>6, CombineStage

LEMMA StageStepRecording ==
  ASSUME Typed, Guarded, NEW c \in Caller, StageRecording(c), Request(c) \/ Step(c)
  PROVE  KeptStage(c)
  <1>1. PICK o \in Operation : call[c] = Writes(<<Save(o)>>)
    BY DEF StageRecording
  <1> DEFINE a == Save(o)
             asked == <<[a EXCEPT !.create = FALSE]>>
  <1>2. Asked(c, a, asked) \/ Made(c, a, IdleCall) \/ Missed(c, a)
    <2> HIDE DEF a
    <2> QED BY <1>1, WriteStep1 DEF a
  <1>3. ~a.create /\ (Written(a) <=> md' = md /\ ver' = ver /\ ops' = ops \cup {o})
    BY OperationWrite
  <1> HIDE DEF a
  <1>4. ~a.create /\ Written(a) /\ compact' = compact => Guarded' /\ NoLoss
    <2> SUFFICES ASSUME Written(a), compact' = compact
                 PROVE  Guarded' /\ NoLoss
      OBVIOUS
    <2>1. SameAge /\ NoLoss
      BY <1>3 DEF SameAge, NoLoss
    <2> QED BY <1>3, <2>1, GuardedSame
  <1>5. Asked(c, a, asked) => Stage(c)'
    BY <1>3 DEF Asked
  <1>6. Made(c, a, IdleCall) => Stage(c)'
    BY DEF Made, Stage0, Stage
  <1> HIDE DEF asked
  <1> QED BY <1>2, <1>4, <1>5, <1>6, CombineStage

LEMMA StageStepAsking ==
  ASSUME Typed, Guarded, NEW c \in Caller, StageAsking(c), Request(c) \/ Step(c)
  PROVE  KeptStage(c)
  <1> DEFINE v == md.unpublished
  <1>1. v \in Version /\ call[c] = Reading("publish", md, v)
    BY DEF StageAsking
  <1>2. /\ call[c].pc = "publish" /\ call[c].read = md /\ call[c].version = v /\ call[c].todo = <<>>
        /\ call[c] # IdleCall
    BY <1>1, CallFacts
  <1>3. ~Request(c)
    BY <1>2 DEF Request, CreateElement, UpdateElement, DeleteElement, PublishElementVersion,
                RollbackElementVersion, begin, Idle
  <1>4. publishRead(c)
    BY <1>2, <1>3 DEF Step, rollbackRead, checkAbsent, saveRaw, saveRawFails
  <1>5. SaveOperation("PUBLISH", md.using, v) = Save(Record(calls + 1, "PUBLISH", md.using, v))
    BY DEF SaveOperation, Save, Record
  <1>6. \A r : [call EXCEPT ![c] = r][c] = r
    BY DEF Typed, TypeOK
  <1>7. ver[v] \in Element /\ ver[v].raw \in RawOrNone
    BY <1>1 DEF Typed, TypeOK, Element
  <1>8. Record(calls + 1, "PUBLISH", md.using, v) \in Operation
    <2>1. calls + 1 \in Nat /\ md.using \in 0..MaxVersion /\ v \in 0..MaxVersion
      BY <1>1, NoneTyped, ConstAssumption DEF Typed, TypeOK, Metadata
    <2> HIDE DEF v
    <2> QED BY <2>1 DEF Record, Operation
  <1> DEFINE pub == <<SaveMetadata(Publishing(md, v, ver[v].raw), FALSE),
                      SaveVersion(v, Marked(ver[v]), FALSE),
                      Save(Record(calls + 1, "PUBLISH", md.using, v))>>
  <1>9. publishFound(c) = pub /\ pub # <<>>
    BY <1>2, <1>5 DEF publishFound, Publishing, Marked
  <1>10. /\ UNCHANGED <<md, ver, ops, compact, calls, failed>>
         /\ call'[c] = IdleCall \/ (ver[v] # NoElement /\ call'[c] = Writes(pub))
    <2> HIDE DEF pub
    <2> QED BY <1>2, <1>4, <1>6, <1>9 DEF publishRead, proceed, found
  <1>11. SameAge /\ NoLoss
    BY <1>10 DEF SameAge, NoLoss
  <1>12. Guarded'
    BY <1>10, <1>11, GuardedSame
  <1>13. CASE call'[c] = IdleCall
    BY <1>11, <1>12, <1>13 DEF KeptStage, Stage, Stage0
  <1>14. CASE ver[v] # NoElement /\ call'[c] = Writes(pub)
    <2>0. ver[v].raw # NoRaw
      BY <1>1, <1>14 DEF Guarded, Whether
    <2>1. StagePublishing1(c)'
      BY <1>1, <1>7, <1>8, <1>10, <1>14, <2>0 DEF StagePublishing1
    <2> QED BY <1>11, <1>12, <2>1 DEF KeptStage, Stage
  <1> QED BY <1>10, <1>13, <1>14

LEMMA StageStep0 ==
  ASSUME Typed, Guarded, NEW c \in Caller, Stage0(c), Request(c) \/ Step(c), moved' = {}
  PROVE  KeptStage(c)
  <1>1. call[c] = IdleCall
    BY DEF Stage0
  <1>2. ~Step(c)
    BY <1>1, CallFacts DEF Step, publishRead, rollbackRead, checkAbsent, saveRaw, saveRawFails
  <1>3. CreateElement(c) \/ UpdateElement(c) \/ PublishElementVersion(c)
    BY <1>2 DEF Request, DeleteElement, RollbackElementVersion, note
  <1>4. UNCHANGED <<md, ver, ops, compact, failed>>
    BY <1>3 DEF CreateElement, UpdateElement, PublishElementVersion, begin
  <1>5. SameAge /\ NoLoss
    BY <1>4 DEF SameAge, NoLoss
  <1>6. Guarded'
    BY <1>4, <1>5, GuardedSame
  <1>7. \A r : begin(c, r) => call'[c] = r
    BY DEF begin, Typed, TypeOK
  <1>8. \A op, u, w : SaveOperation(op, u, w) = Save(Record(calls + 1, op, u, w))
    BY DEF SaveOperation, Save, Record
  <1>9. md \in Metadata /\ md.latest \in 0..MaxVersion /\ calls + 1 \in Nat
    BY ConstAssumption DEF Typed, TypeOK, Metadata
  <1>10. \A u, w \in 0..MaxVersion :
           LET o == Record(calls + 1, "SET", u, w)
           IN o \in Operation /\ o.op = "SET" /\ o.current = w
    BY <1>9 DEF Record, Operation
  <1>11. CASE CreateElement(c)
    <2> DEFINE o == Record(calls + 1, "SET", 0, 1)
    <2>1. PICK r \in Raw :
            call'[c] = Writes(<<SaveMetadata(First, TRUE), SaveVersion(1, Fresh(r), TRUE), Save(o)>>)
      BY <1>7, <1>8, <1>11 DEF CreateElement, First, Fresh
    <2>2. o \in Operation /\ o.op = "SET" /\ o.current = 1
      BY <1>10, NoneTyped
    <2> HIDE DEF o
    <2>3. StageCreating1(c)'
      BY <2>1, <2>2 DEF StageCreating1
    <2> QED BY <1>5, <1>6, <2>3 DEF KeptStage, Stage
  <1>12. CASE UpdateElement(c)
    <2> DEFINE n == md.latest + 1
               o == Record(calls + 1, "SET", md.latest, n)
    <2>1. PICK r \in Raw :
            call'[c] = Writes(<<SaveVersion(n, Fresh(r), TRUE), SaveMetadata(Drafting(md, n), FALSE), Save(o)>>)
      BY <1>7, <1>8, <1>12 DEF UpdateElement, Drafting, Fresh
    <2>2. n \in Version /\ n \in 0..MaxVersion
      <3>1. md.latest < MaxVersion
        BY <1>12 DEF UpdateElement
      <3> QED BY <1>9, <3>1, ConstAssumption DEF Version
    <2> HIDE DEF n
    <2>3. o \in Operation /\ o.op = "SET" /\ o.current = n
      BY <1>9, <1>10, <2>2
    <2> HIDE DEF o
    <2>4. StageUpdating1(c)'
      BY <1>4, <2>1, <2>2, <2>3 DEF StageUpdating1
    <2> QED BY <1>5, <1>6, <2>4 DEF KeptStage, Stage
  <1>13. CASE PublishElementVersion(c)
    <2>1. md.unpublished # 0 /\ call'[c] = Reading("publish", md, md.unpublished)
      BY <1>7, <1>13 DEF PublishElementVersion, Reading, note
    <2>2. md.unpublished \in Version
      BY <1>9, <2>1, ConstAssumption DEF Metadata, Version
    <2>3. StageAsking(c)'
      BY <1>4, <2>1, <2>2 DEF StageAsking
    <2> QED BY <1>5, <1>6, <2>3 DEF KeptStage, Stage
  <1> QED BY <1>3, <1>11, <1>12, <1>13

LEMMA StageKept ==
  ASSUME Typed, Calm, NEW c \in Caller, Request(c) \/ Step(c), moved' = {}
  PROVE  KeptStage(c)
  BY StageStep0, StageStepAsking, StageStepCreating1, StageStepCreating2, StageStepUpdating1,
     StageStepUpdating2, StageStepPublishing1, StageStepPublishing2, StageStepRecording
  DEF Calm, Stage

\* No version becomes older for a request under way.
LEMMA StageCalm ==
  ASSUME call' = call, md' = md, NEW c \in Caller, Stage(c),
         \A n \in Version : (Busy' => Busy) /\ (ver'[n].old => ver[n].old)
  PROVE  Stage(c)'
  <1>1. Stage0(c) => Stage0(c)'
    BY DEF Stage0
  <1>2. StageAsking(c) => StageAsking(c)'
    BY DEF StageAsking
  <1>3. StageCreating1(c) => StageCreating1(c)'
    BY DEF StageCreating1
  <1>4. StageCreating2(c) => StageCreating2(c)'
    BY DEF StageCreating2
  <1>5. StageUpdating1(c) => StageUpdating1(c)'
    BY DEF StageUpdating1
  <1>6. StageUpdating2(c) => StageUpdating2(c)'
    BY DEF StageUpdating2
  <1>7. StagePublishing1(c) => StagePublishing1(c)'
    BY DEF StagePublishing1
  <1>8. StagePublishing2(c) => StagePublishing2(c)'
    BY DEF StagePublishing2
  <1>9. StageRecording(c) => StageRecording(c)'
    BY DEF StageRecording
  <1> QED BY <1>1, <1>2, <1>3, <1>4, <1>5, <1>6, <1>7, <1>8, <1>9 DEF Stage

\* A request that is to record the creation of version n is creating it.
LEMMA CreatingFacts ==
  ASSUME NEW c \in Caller, NEW n, NEW o, o.op = "SET", o.current = n,
         NEW t, call[c] = Writes(t), NEW i \in DOMAIN t, t[i] = Save(o)
  PROVE  Creating(n)
  <1>1. call[c].todo = t
    BY CallFacts
  <1>2. Save(o).to = "operation" /\ Save(o).value = o
    BY DEF Save
  <1> QED BY <1>1, <1>2 DEF Creating

\* The compaction starts: what is being created is not old.
LEMMA StageStart ==
  ASSUME Typed, Whether(ver), \A c \in Caller : Stage(c), NEW w \in 0..MaxVersion, CompactStart(w)
  PROVE  Calm'
  <1>1. /\ call' = call /\ md' = md /\ md # NoMetadata
        /\ compact' = [NoCompact EXCEPT !.pc = "range", !.read = md]
    BY DEF CompactStart
  <1>2. compact'.read = md /\ compact'.drop = {}
    BY <1>1 DEF NoCompact
  <1>3. \A n \in Version : Creating(n) => ~ver'[n].old
    <2> SUFFICES ASSUME NEW n \in Version, Creating(n) PROVE ~ver'[n].old
      OBVIOUS
    <2>1. n \notin 1..w
      BY DEF CompactStart
    <2>2. ~(n <= w)
      BY <2>1, ConstAssumption DEF Version
    <2>3. ver'[n] = [ver[n] EXCEPT !.old = ver[n].raw # NoRaw /\ n <= w]
      BY DEF CompactStart
    <2>4. ver[n] \in Element
      BY DEF Typed, TypeOK
    <2> QED BY <2>2, <2>3, <2>4 DEF Element
  <1>4. Guarded'
    <2>1. Spared(md, ver', md.using) /\ Spared(md, ver', md.unpublished)
      BY DEF Spared
    <2>2. Whether(ver')
      BY StartSound
    <2> QED BY <1>1, <1>2, <2>1, <2>2 DEF Guarded
  <1>5. ASSUME NEW c \in Caller PROVE Stage(c)'
    <2>1. Stage0(c) => Stage0(c)'
      BY <1>1 DEF Stage0
    <2>2. StageAsking(c) => StageAsking(c)'
      BY <1>1 DEF StageAsking
    <2>3. StageCreating1(c) => StageCreating1(c)'
      BY <1>1 DEF StageCreating1
    <2>4. StageCreating2(c) => StageCreating2(c)'
      BY <1>1 DEF StageCreating2
    <2>5. ASSUME StageUpdating1(c) PROVE StageUpdating1(c)'
      <3>1. PICK r \in Raw, b \in BOOLEAN, o \in Operation, n \in Version :
              /\ call[c] = Writes(<<SaveVersion(n, Fresh(r), b), SaveMetadata(Drafting(md, n), FALSE), Save(o)>>)
              /\ o.op = "SET" /\ o.current = n
        BY <2>5 DEF StageUpdating1
      <3> DEFINE t == <<SaveVersion(n, Fresh(r), b), SaveMetadata(Drafting(md, n), FALSE), Save(o)>>
      <3>2. 3 \in DOMAIN t /\ t[3] = Save(o)
        OBVIOUS
      <3> HIDE DEF t
      <3>3. Creating(n)
        BY <3>1, <3>2, CreatingFacts DEF t
      <3>4. ~ver'[n].old
        BY <1>3, <3>3
      <3> QED BY <1>1, <3>1, <3>4 DEF StageUpdating1
    <2>6. ASSUME StageUpdating2(c) PROVE StageUpdating2(c)'
      <3>1. PICK o \in Operation, n \in Version :
              /\ call[c] = Writes(<<SaveMetadata(Drafting(md, n), FALSE), Save(o)>>)
              /\ o.op = "SET" /\ o.current = n
        BY <2>6 DEF StageUpdating2
      <3> DEFINE t == <<SaveMetadata(Drafting(md, n), FALSE), Save(o)>>
      <3>2. 2 \in DOMAIN t /\ t[2] = Save(o)
        OBVIOUS
      <3> HIDE DEF t
      <3>3. Creating(n)
        BY <3>1, <3>2, CreatingFacts DEF t
      <3>4. ~ver'[n].old
        BY <1>3, <3>3
      <3> QED BY <1>1, <3>1, <3>4 DEF StageUpdating2
    <2>7. StagePublishing1(c) => StagePublishing1(c)'
      BY <1>1 DEF StagePublishing1
    <2>8. StagePublishing2(c) => StagePublishing2(c)'
      BY <1>1 DEF StagePublishing2
    <2>9. StageRecording(c) => StageRecording(c)'
      BY <1>1 DEF StageRecording
    <2> QED BY <2>1, <2>2, <2>3, <2>4, <2>5, <2>6, <2>7, <2>8, <2>9 DEF Stage
  <1> QED BY <1>4, <1>5 DEF Calm

\* What the compaction of a step may remove.
SparesStep ==
  \A v \in Version : md' = md /\ ver[v] # NoElement /\ ver'[v] = NoElement =>
     v \notin {md.using, md.unpublished}

LEMMA StageCompaction ==
  ASSUME Typed, Calm, Compaction
  PROVE  Calm' /\ SparesStep
  <1>0. ver \in [Version -> Element] /\ compact.drop \subseteq Version /\ Guarded
    BY DEF Typed, TypeOK, Calm
  <1>1. ASSUME NEW w \in 0..MaxVersion, CompactStart(w)
        PROVE  Calm' /\ SparesStep
    <2>1. Whether(ver)
      BY DEF Calm, Guarded
    <2>2. \A v \in Version : ver'[v] = NoElement => ver[v] = NoElement
      BY <1>1, <2>1, StartSound
    <2> QED BY <1>1, <2>1, <2>2, StageStart DEF SparesStep, Calm
  <1>2. CASE CompactRange
    <2>1. call' = call /\ md' = md /\ ver' = ver /\ compact.pc = "range"
      BY <1>2 DEF CompactRange
    <2>2. /\ compact'.read = compact.read
          /\ compact'.drop = Stock \ retainedVersionSet(compact.read)
      BY <1>2 DEF CompactRange, Typed, TypeOK
    <2>3. \A v \in compact'.drop : ver[v].old /\ v \notin {compact.read.using, compact.read.unpublished}
      BY <2>2 DEF Stock, retainedVersionSet
    <2>4. Busy
      BY <2>1 DEF Busy
    <2>5. Guarded'
      BY <1>0, <2>1, <2>2, <2>3, <2>4 DEF Guarded
    <2>6. \A c \in Caller : Stage(c)'
      BY <2>1, <2>4, StageCalm DEF Calm
    <2> QED BY <2>1, <2>5, <2>6 DEF Calm, SparesStep
  <1>3. ASSUME NEW v \in compact.drop, CompactUnset(v)
        PROVE  Calm' /\ SparesStep
    <2>1. call' = call /\ md' = md /\ compact.pc = "unset"
      BY <1>3 DEF CompactUnset
    <2>2. compact'.pc = compact.pc /\ compact'.read = compact.read /\ compact'.drop = compact.drop \ {v}
      BY <1>3 DEF CompactUnset, Typed, TypeOK
    <2>3. v \in Version
      BY <1>0
    <2>4. /\ \A u \in Version : u # v => ver'[u] = ver[u]
          /\ ver'[v] = NoElement \/ ver'[v] = ver[v]
      BY <1>0, <1>3, <2>3 DEF CompactUnset
    <2>5. \A u \in Version : ver'[u].old => ver[u].old
      BY <2>4 DEF NoElement
    <2>6. \A u : Spared(compact.read, ver, u) => Spared(compact.read, ver', u)
      BY <2>5 DEF Spared
    <2>7. Busy /\ (Busy' <=> Busy)
      BY <2>1, <2>2 DEF Busy
    <2>8. Whether(ver')
      BY <1>0, <2>4 DEF Guarded, Whether
    <2>9. \A u \in compact'.drop : ver'[u].old /\ u \notin {compact.read.using, compact.read.unpublished}
      BY <1>0, <2>2, <2>4 DEF Guarded
    <2>10. Guarded'
      BY <1>0, <2>1, <2>2, <2>6, <2>7, <2>8, <2>9 DEF Guarded
    <2>11. \A c \in Caller : Stage(c)'
      BY <2>1, <2>5, <2>7, StageCalm DEF Calm
    <2>12. v \notin {md.using, md.unpublished}
      <3>1. ~Spared(compact.read, ver, v)
        <4>1. v # 0
          BY <2>3 DEF Version
        <4> QED BY <1>0, <4>1 DEF Spared, Guarded
      <3> QED BY <1>0, <2>7, <3>1 DEF Guarded
    <2> QED BY <2>4, <2>10, <2>11, <2>12 DEF Calm, SparesStep
  <1>4. ASSUME NEW o \in compact.dropOps, CompactUnsetOperation(o)
        PROVE  Calm' /\ SparesStep
    <2>1. call' = call /\ md' = md /\ ver' = ver
      BY <1>4 DEF CompactUnsetOperation
    <2>2. compact'.pc = compact.pc /\ compact'.read = compact.read /\ compact'.drop = compact.drop
      BY <1>4 DEF CompactUnsetOperation, Typed, TypeOK
    <2>3. Guarded'
      BY <1>0, <2>1, <2>2 DEF Guarded, Busy
    <2>4. Busy' <=> Busy
      BY <2>2 DEF Busy
    <2>5. \A c \in Caller : Stage(c)'
      BY <2>1, <2>4, StageCalm DEF Calm
    <2> QED BY <2>1, <2>3, <2>5 DEF Calm, SparesStep
  <1>5. CASE CompactDone
    <2>1. call' = call /\ md' = md /\ ver' = ver /\ compact' = NoCompact
      BY <1>5 DEF CompactDone
    <2>2. compact'.pc = "idle" /\ compact'.drop = {}
      BY <2>1 DEF NoCompact
    <2>3. ~Busy'
      BY <2>2 DEF Busy
    <2>4. Guarded'
      BY <1>0, <2>1, <2>2, <2>3 DEF Guarded
    <2>5. \A c \in Caller : Stage(c)'
      BY <2>1, <2>3, StageCalm DEF Calm
    <2> QED BY <2>1, <2>4, <2>5 DEF Calm, SparesStep
  <1> QED BY <1>1, <1>2, <1>3, <1>4, <1>5 DEF Compaction

LEMMA OrderlyInit == Init => OrderlyInv
  <1> SUFFICES ASSUME Init PROVE OrderlyInv
    OBVIOUS
  <1>1. compact.pc = "idle" /\ compact.drop = {}
    BY DEF Init, NoCompact
  <1>2. Whether(ver)
    BY ValueFacts DEF Init, Whether
  <1>3. Guarded
    BY <1>1, <1>2 DEF Guarded, Busy
  <1>4. \A c \in Caller : Stage0(c) /\ Filled(call[c].todo)
    BY CallFacts, FilledFacts DEF Init, Stage0
  <1> QED BY <1>2, <1>3, <1>4 DEF OrderlyInv, Calm, Sound, Stage

\* A request begins or makes a step.
LEMMA OrderlyRequest ==
  ASSUME OneByOne, Typed, OrderlyInv, NEW c \in Caller, Request(c) \/ Step(c)
  PROVE  /\ moved' = {} => Calm'
         /\ moved = {} => SparesStep
  <1>1. Request(c) => ver' = ver
    BY DEF Request, CreateElement, UpdateElement, DeleteElement, PublishElementVersion,
           RollbackElementVersion, begin
  <1>2. Step(c) => moved' = moved
    BY DEF Step, publishRead, rollbackRead, proceed, checkAbsent, saveRaw, saveRawFails
  <1>3. \A d \in Caller : d = c
    BY DEF OneByOne
  <1>4. ASSUME KeptStage(c) PROVE Calm' /\ SparesStep
    <2>1. \A d \in Caller : Stage(d)'
      BY <1>3, <1>4 DEF KeptStage
    <2> QED BY <1>4, <2>1 DEF KeptStage, NoLoss, Calm, SparesStep
  <1>5. CASE moved = {}
    <2>1. moved' = {} => KeptStage(c)
      BY <1>5, StageKept DEF OrderlyInv
    <2>2. ver' = ver => SparesStep
      BY DEF SparesStep
    <2> QED BY <1>1, <1>2, <1>4, <1>5, <2>1, <2>2
  <1>6. CASE moved # {}
    <2> SUFFICES ASSUME moved' = {} PROVE Calm'
      BY <1>6
    <2>1. Request(c)
      BY <1>2, <1>6
    <2>2. call[c] = IdleCall /\ compact = NoCompact
      BY <1>6, <2>1 DEF Request, CreateElement, UpdateElement, DeleteElement, PublishElementVersion,
             RollbackElementVersion, begin, Idle, note
    <2>3. compact.pc = "idle" /\ compact.drop = {}
      BY <2>2 DEF NoCompact
    <2>4. Guarded
      BY <2>3 DEF Guarded, Busy, OrderlyInv, Sound
    <2>5. KeptStage(c)
      BY <2>1, <2>2, <2>4, StageStep0 DEF Stage0
    <2> QED BY <1>4, <2>5
  <1> QED BY <1>5, <1>6

\* The compaction starts, or goes on.
LEMMA OrderlyCompaction ==
  ASSUME OneByOne, Typed, OrderlyInv, Compaction
  PROVE  /\ moved' = {} => Calm'
         /\ moved = {} => SparesStep
  <1>1. moved = {} => Calm' /\ SparesStep
    BY StageCompaction DEF OrderlyInv
  <1>2. ASSUME moved # {}, moved' = {} PROVE Calm'
    <2>1. PICK w \in 0..MaxVersion : CompactStart(w)
      BY <1>2 DEF Compaction, CompactRange, CompactUnset, CompactUnsetOperation, CompactDone
    <2>2. \A c \in Caller : c \in moved
      BY <1>2 DEF OneByOne, Typed, TypeOK
    <2>3. \A c \in Caller : Stage(c)
      BY <1>2, <2>1, <2>2 DEF CompactStart, Idle, Stage, Stage0
    <2> QED BY <2>1, <2>3, StageStart DEF OrderlyInv, Sound
  <1> QED BY <1>1, <1>2

LEMMA OrderlyNext ==
  ASSUME OneByOne, Typed, OrderlyInv, [Next]_vars
  PROVE  OrderlyInv' /\ (moved = {} => SparesStep)
  <1>0. Sound'
    BY SoundNext DEF OrderlyInv
  <1>1. CASE \E c \in Caller : Request(c) \/ Step(c)
    BY <1>0, <1>1, OrderlyRequest DEF OrderlyInv
  <1>2. CASE UNCHANGED vars
    <2>1. call' = call /\ md' = md /\ ver' = ver /\ compact' = compact /\ moved' = moved
      BY <1>2 DEF vars
    <2>2. Guarded => Guarded'
      BY <2>1 DEF Guarded, Busy
    <2>3. Busy' <=> Busy
      BY <2>1 DEF Busy
    <2>4. Calm => \A c \in Caller : Stage(c)'
      BY <2>1, <2>3, StageCalm DEF Calm
    <2> QED BY <1>0, <2>1, <2>2, <2>4 DEF OrderlyInv, Calm, SparesStep
  <1>3. CASE Compaction
    BY <1>0, <1>3, OrderlyCompaction DEF OrderlyInv
  <1> QED BY <1>1, <1>2, <1>3 DEF Next

LEMMA OrderlyHolds == OneByOne /\ Spec => [](Typed /\ OrderlyInv)
  <1> SUFFICES ASSUME OneByOne PROVE Spec => [](Typed /\ OrderlyInv)
    OBVIOUS
  <1>1. Typed /\ OrderlyInv /\ [Next]_vars => (Typed /\ OrderlyInv)'
    BY TypedNext, OrderlyNext
  <1> QED BY <1>1, TypedInit, OrderlyInit, PTL DEF Spec

\* However a compaction interleaves with the writes of requests made one after
\* another, and whichever writes and removals fail, it removes neither the
\* version in use nor the one awaiting publication, although it read the
\* metadata long before: unless, since it did, a request rolled back, published
\* another version than the draft or deleted the element.
THEOREM CompactionIsSafe == OneByOne /\ Spec => CompactionSpares
  <1> SUFFICES ASSUME OneByOne PROVE Spec => CompactionSpares
    OBVIOUS
  <1>1. ASSUME Typed, OrderlyInv, [Next]_vars, moved = {}, md' = md,
               NEW v \in {md.using, md.unpublished} \ {0}, ver'[v] = NoElement
        PROVE  ver[v] = NoElement
    <2>1. SparesStep
      BY <1>1, OrderlyNext
    <2>2. v \in Version
      BY <1>1, ConstAssumption DEF Typed, TypeOK, Metadata, Version
    <2> QED BY <1>1, <2>1, <2>2 DEF SparesStep
  <1>2. Typed /\ OrderlyInv /\ [Next]_vars =>
          [moved = {} /\ md' = md =>
             \A v \in {md.using, md.unpublished} \ {0} : ver'[v] = NoElement => ver[v] = NoElement]_vars
    BY <1>1
  <1> QED BY <1>2, OrderlyHolds, PTL DEF Spec, CompactionSpares
=============================================================================
