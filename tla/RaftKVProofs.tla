---------------------------- MODULE RaftKVProofs ----------------------------
(***************************************************************************)
(* Proofs about RaftKV, for every set of replicas, keys, values and        *)
(* callers and every bound: type correctness, convergence of the replicas  *)
(* through crashes, replays and snapshots, the command that stops an       *)
(* applier; and for one replica until its restart what acknowledgements,   *)
(* creations and removals of expired keys promise.                         *)
(***************************************************************************)
EXTENDS RaftKV, WellFoundedInduction, TLAPS

-----------------------------------------------------------------------------
(* Type correctness *)

\* A fresh handler record is well typed.
LEMMA NewCallType ==
  ASSUME TypeOK, NEW c \in Caller, NEW n \in Node, NEW req \in Request,
         NEW pc \in {"probe", "write", "sweep", "done"}, NEW todo \in SUBSET Key,
         pc = "probe" /\ req.op # "GetKV" => req \in WriteRequest
  PROVE  NewCall(c, n, req, pc, todo) \in ActiveCall
  BY DEF NewCall, ActiveCall, Returned, Ack

\* registerPending and propose keep the handlers, the proposals and the
\* request counters typed.
LEMMA RegisterType ==
  ASSUME TypeOK, NEW c \in Caller, NEW n \in Node, NEW rec \in ActiveCall,
         NEW cmd \in Command, registerAndPropose(rec, c, n, cmd)
  PROVE  /\ call' \in [Caller -> Call]
         /\ proposed' \subseteq Command
         /\ nextRequestID' \in [Node -> Nat]
  <1>1. nextRequestID' \in [Node -> Nat]
    BY DEF TypeOK, registerAndPropose
  <1>2. proposed' \subseteq Command
    BY DEF TypeOK, registerAndPropose
  <1>3. cmd.id \in Nat
    BY DEF Command
  <1>4. ASSUME NEW a \in {"none", "err"}
        PROVE  [rec EXCEPT !.id = cmd.id, !.ack = a] \in ActiveCall
    BY <1>3 DEF ActiveCall, Ack
  <1>5. call' \in [Caller -> Call]
    BY <1>4 DEF TypeOK, registerAndPropose, Call
  <1>6. QED
    BY <1>1, <1>2, <1>5

\* So does a handler that returns.
LEMMA ReturnsType ==
  ASSUME TypeOK, NEW c \in Caller, NEW rec \in ActiveCall, NEW result \in Ack,
         returns(rec, c, result)
  PROVE  /\ call' \in [Caller -> Call]
         /\ proposed' \subseteq Command
         /\ nextRequestID' \in [Node -> Nat]
  <1>1. [rec EXCEPT !.pc = "done", !.ack = result] \in ActiveCall
    BY DEF ActiveCall
  <1>2. QED
    BY <1>1 DEF TypeOK, returns, Call

\* The commands handlers propose are well typed.
LEMMA CommandType ==
  ASSUME TypeOK, NEW c \in Caller, NEW n \in Node, NEW k \in Key, NEW dir \in BOOLEAN
  PROVE  /\ UnsetCommand(n, c, k, dir) \in Command
         /\ \A v \in Val, ttl \in Nat \cup {Expired} :
              SetCommand(n, c, k, dir, NewEntityWithCreated(v, ttl)) \in Command
  <1>1. nextRequestID[n] + 1 \in Nat
    BY DEF TypeOK
  <1>2. ASSUME NEW v \in Val, NEW ttl \in Nat \cup {Expired}
        PROVE  NewEntityWithCreated(v, ttl) \in Entity
    BY DEF TypeOK, NewEntityWithCreated, Entity, NeverExpired, Expired
  <1>3. UnsetCommand(n, c, k, dir) \in Command
    BY <1>1 DEF UnsetCommand, Command, Cell
  <1>4. ASSUME NEW v \in Val, NEW ttl \in Nat \cup {Expired}
        PROVE  SetCommand(n, c, k, dir, NewEntityWithCreated(v, ttl)) \in Command
    BY <1>1, <1>2 DEF SetCommand, Command, Cell
  <1>5. QED
    BY <1>3, <1>4

\* doSetKV, the body SetKV and Expire share.
LEMMA DoSetKVType ==
  ASSUME TypeOK, NEW c \in Caller, NEW n \in Node, NEW req \in WriteRequest,
         doSetKV(c, n, req)
  PROVE  /\ call' \in [Caller -> Call]
         /\ proposed' \subseteq Command
         /\ nextRequestID' \in [Node -> Nat]
  <1> DEFINE rec == NewCall(c, n, req, "probe", {})
             last == Read(n, req.key, req.dir)
  <1>1. req \in Request /\ req.key \in Key /\ req.dir \in BOOLEAN /\ req.val \in Val
        /\ req.ttl \in Nat \cup {Expired}
    BY DEF WriteRequest, Request
  <1>2. rec \in ActiveCall
    BY <1>1, NewCallType
  <1>3. CASE registerAndPropose(rec, c, n, UnsetCommand(n, c, req.key, FALSE))
    <2>1. UnsetCommand(n, c, req.key, FALSE) \in Command
      BY <1>1, CommandType
    <2>2. QED
      BY <1>2, <1>3, <2>1, RegisterType
  <1>4. CASE returns(rec, c, "exists")
    BY <1>2, <1>4, ReturnsType DEF Ack
  <1>5. CASE proposeSet(rec, c, n, req)
    <2>1. SetCommand(n, c, req.key, req.dir, NewEntityWithCreated(req.val, req.ttl)) \in Command
      BY <1>1, CommandType
    <2>2. [rec EXCEPT !.pc = "write"] \in ActiveCall
      BY <1>2 DEF ActiveCall
    <2>3. QED
      BY <1>5, <2>1, <2>2, RegisterType DEF proposeSet
  <1>6. QED
    BY <1>3, <1>4, <1>5 DEF doSetKV

\* A cell read as an entity is one.
LEMMA KvCell ==
  ASSUME NEW cell \in Cell, cell.kind = "kv"
  PROVE  cell \in Entity /\ cell.val \in Val
  BY DEF Cell, Entity, Empty, Dir

\* One lemma per handler step: together they are Handler(c).
LEMMA StartType ==
  ASSUME TypeOK, NEW c \in Caller, NEW n \in Node,
         SetKV(c, n) \/ UnsetKV(c, n) \/ GetKV(c, n) \/ Range(c, n) \/ Expire(c, n)
  PROVE  TypeOK'
  <1>1. ASSUME call' \in [Caller -> Call], proposed' \subseteq Command,
               nextRequestID' \in [Node -> Nat],
               UNCHANGED <<now, log, store, raftVars, restarts>>
        PROVE  TypeOK'
    BY <1>1 DEF TypeOK, raftVars
  <1>2. CASE SetKV(c, n)
    <2>1. PICK req \in SetRequest : doSetKV(c, n, req)
      BY <1>2 DEF SetKV
    <2>2. req \in WriteRequest
      BY ConstAssumption DEF SetRequest, WriteRequest
    <2>3. QED
      BY <1>1, <1>2, <2>1, <2>2, DoSetKVType DEF SetKV
  <1>3. CASE UnsetKV(c, n)
    <2>1. PICK req \in [op : {"UnsetKV"}, key : Key, dir : DirFlags] :
            registerAndPropose(NewCall(c, n, req, "write", {}), c, n,
                               UnsetCommand(n, c, req.key, req.dir))
      BY <1>3 DEF UnsetKV
    <2>2. req \in Request /\ req.key \in Key /\ req.dir \in BOOLEAN
      BY ConstAssumption DEF Request
    <2>3. NewCall(c, n, req, "write", {}) \in ActiveCall
      BY <2>2, NewCallType
    <2>4. UnsetCommand(n, c, req.key, req.dir) \in Command
      BY <2>2, CommandType
    <2>5. QED
      BY <1>1, <1>3, <2>1, <2>3, <2>4, RegisterType DEF UnsetKV
  <1>4. CASE GetKV(c, n)
    <2> DEFINE rec(k) == NewCall(c, n, [op |-> "GetKV", key |-> k], "probe", {})
    <2>1. PICK k \in Key :
            \/ registerAndPropose(rec(k), c, n, UnsetCommand(n, c, k, FALSE))
            \/ \E result \in Ack : returns(rec(k), c, result)
      BY <1>4 DEF GetKV, ReadResult, Ack
    <2>2. [op |-> "GetKV", key |-> k] \in Request
      BY DEF Request
    <2>3. rec(k) \in ActiveCall
      BY <2>2, NewCallType
    <2>4. UnsetCommand(n, c, k, FALSE) \in Command
      BY CommandType
    <2>5. QED
      BY <1>1, <1>4, <2>1, <2>3, <2>4, RegisterType, ReturnsType DEF GetKV
  <1>5. CASE Range(c, n)
    <2> DEFINE rec(todo) == NewCall(c, n, [op |-> "Range"], "sweep", todo)
    <2>1. \/ returns(rec({}), c, "ok")
          \/ \E k \in Key : \E todo \in SUBSET Key :
               registerAndPropose(rec(todo), c, n, UnsetCommand(n, c, k, FALSE))
      BY <1>5 DEF Range
    <2>2. [op |-> "Range"] \in Request
      BY DEF Request
    <2>3. \A todo \in SUBSET Key : rec(todo) \in ActiveCall
      BY <2>2, NewCallType
    <2>4. \A k \in Key : UnsetCommand(n, c, k, FALSE) \in Command
      BY CommandType
    <2>5. QED
      BY <1>1, <1>5, <2>1, <2>3, <2>4, RegisterType, ReturnsType DEF Range, Ack
  <1>6. CASE Expire(c, n)
    <2>1. PICK k \in Key :
            LET v == Read(n, k, FALSE) IN
            \/ \E result \in {"ok", "err"} :
                 returns(NewCall(c, n, [op |-> "Expire", key |-> k], "done", {}), c, result)
            \/ /\ v.kind = "kv"
               /\ doSetKV(c, n, [op |-> "Expire", key |-> k, dir |-> FALSE, val |-> v.val,
                                 ttl |-> Expired, overwrite |-> TRUE])
      BY <1>6 DEF Expire
    <2> DEFINE v == Read(n, k, FALSE)
    <2>2. CASE \E result \in {"ok", "err"} :
                 returns(NewCall(c, n, [op |-> "Expire", key |-> k], "done", {}), c, result)
      <3>1. [op |-> "Expire", key |-> k] \in Request
        BY DEF Request
      <3>2. NewCall(c, n, [op |-> "Expire", key |-> k], "done", {}) \in ActiveCall
        BY <3>1, NewCallType
      <3>3. QED
        BY <1>1, <1>6, <2>2, <3>2, ReturnsType DEF Expire, Ack
    <2>3. CASE /\ v.kind = "kv"
               /\ doSetKV(c, n, [op |-> "Expire", key |-> k, dir |-> FALSE, val |-> v.val,
                                 ttl |-> Expired, overwrite |-> TRUE])
      <3>1. v \in Cell
        BY DEF TypeOK, Read, Cell
      <3>2. v.val \in Val
        BY <2>3, <3>1, KvCell
      <3>3. [op |-> "Expire", key |-> k, dir |-> FALSE, val |-> v.val,
             ttl |-> Expired, overwrite |-> TRUE] \in WriteRequest
        BY <3>2 DEF WriteRequest
      <3>4. QED
        BY <1>1, <1>6, <2>3, <3>3, DoSetKVType DEF Expire
    <2>4. QED
      BY <2>1, <2>2, <2>3
  <1>7. QED
    BY <1>2, <1>3, <1>4, <1>5, <1>6

LEMMA WakeType ==
  ASSUME TypeOK, NEW c \in Caller,
         AckWrite(c) \/ AckProbe(c) \/ AckSweep(c) \/ ContextDone(c)
  PROVE  TypeOK'
  <1>1. ASSUME call' \in [Caller -> Call], proposed' \subseteq Command,
               nextRequestID' \in [Node -> Nat],
               UNCHANGED <<now, log, store, raftVars, restarts>>
        PROVE  TypeOK'
    BY <1>1 DEF TypeOK, raftVars
  <1>2. call[c].pc # "idle"
    BY DEF AckWrite, AckProbe, AckSweep, ContextDone
  <1>3. call[c] \in ActiveCall
    BY <1>2 DEF TypeOK, Call, IdleCall
  <1>4. call[c].node \in Node /\ call[c].todo \in SUBSET Key /\ call[c].ack \in Ack
    BY <1>3 DEF ActiveCall
  <1>5. CASE AckWrite(c)
    BY <1>1, <1>3, <1>4, <1>5, ReturnsType DEF AckWrite
  <1>6. CASE AckProbe(c)
    <2>1. CASE returns(call[c], c, "notfound")
      BY <1>1, <1>3, <1>6, <2>1, ReturnsType DEF AckProbe, Ack
    <2>2. CASE call[c].req.op # "GetKV" /\ proposeSet(call[c], c, call[c].node, call[c].req)
      <3> DEFINE req == call[c].req
      <3>1. req \in WriteRequest
        BY <1>3, <1>6, <2>2 DEF ActiveCall, AckProbe
      <3>2. req.key \in Key /\ req.dir \in BOOLEAN /\ req.val \in Val
            /\ req.ttl \in Nat \cup {Expired}
        BY <3>1 DEF WriteRequest
      <3>3. SetCommand(call[c].node, c, req.key, req.dir,
                       NewEntityWithCreated(req.val, req.ttl)) \in Command
        BY <1>4, <3>2, CommandType
      <3>4. [call[c] EXCEPT !.pc = "write"] \in ActiveCall
        BY <1>3 DEF ActiveCall
      <3>5. QED
        BY <1>1, <1>4, <1>6, <2>2, <3>3, <3>4, RegisterType DEF proposeSet, AckProbe
    <2>3. QED
      BY <1>6, <2>1, <2>2 DEF AckProbe
  <1>7. CASE AckSweep(c)
    <2>1. CASE returns(call[c], c, "ok")
      BY <1>1, <1>3, <1>7, <2>1, ReturnsType DEF AckSweep, Ack
    <2>2. ASSUME NEW k \in call[c].todo,
                 registerAndPropose([call[c] EXCEPT !.todo = @ \ {k}], c, call[c].node,
                                    UnsetCommand(call[c].node, c, k, FALSE))
          PROVE  TypeOK'
      <3>1. [call[c] EXCEPT !.todo = @ \ {k}] \in ActiveCall
        BY <1>3, <1>4 DEF ActiveCall
      <3>2. UnsetCommand(call[c].node, c, k, FALSE) \in Command
        BY <1>4, CommandType
      <3>3. QED
        BY <1>1, <1>4, <1>7, <2>2, <3>1, <3>2, RegisterType DEF AckSweep
    <2>3. QED
      BY <1>7, <2>1, <2>2 DEF AckSweep
  <1>8. CASE ContextDone(c)
    BY <1>1, <1>3, <1>8, ReturnsType DEF ContextDone, Ack
  <1>9. QED
    BY <1>5, <1>6, <1>7, <1>8

\* What resolvePending leaves in the handlers.
LEMMA ResolveType ==
  ASSUME TypeOK, NEW n \in Node, NEW id, NEW ack \in {"ok", "err"}, resolvePending(n, id, ack)
  PROVE  call' \in [Caller -> Call]
  <1>1. ASSUME NEW c \in Caller, Pending(c, n, id)
        PROVE  [call[c] EXCEPT !.ack = ack] \in ActiveCall
    <2>1. call[c] \in ActiveCall
      BY <1>1 DEF TypeOK, Call, IdleCall, Pending, Waiting
    <2>2. QED
      BY <2>1 DEF ActiveCall, Ack
  <1>2. QED
    BY <1>1 DEF resolvePending, TypeOK, Call

LEMMA EffectType ==
  ASSUME NEW cmd \in Command
  PROVE  Effect(cmd) \in Cell
  BY DEF Effect, Command, Cell

LEMMA ReplicaType ==
  ASSUME TypeOK, NEW n \in Node, Replica(n)
  PROVE  TypeOK'
  <1>1. CASE publishEntries(n)
    <2>1. PICK i \in (published[n] + 1)..Len(log) :
            /\ published' = [published EXCEPT ![n] = i]
            /\ awaited' = [awaited EXCEPT ![n] = HasCommand(published[n] + 1, i)]
      BY <1>1 DEF publishEntries, entriesToApply
    <2>2. i \in Nat /\ i >= published[n] /\ i <= Len(log)
      BY <2>1 DEF TypeOK
    <2>3. HasCommand(published[n] + 1, i) \in BOOLEAN
      BY DEF HasCommand
    <2>4. awaited' \in [Node -> BOOLEAN]
      BY <2>1, <2>3 DEF TypeOK
    <2>5. QED
      BY <1>1, <2>1, <2>2, <2>4 DEF TypeOK, publishEntries
  <1>2. CASE applyMutateLogEntry(n)
    <2> DEFINE cmd == log[applied[n] + 1]
    <2>1. applied[n] + 1 \in 1..Len(log) /\ cmd \in Command
      BY <1>2 DEF TypeOK, applyMutateLogEntry, Entry
    <2>2. call' \in [Caller -> Call]
      BY <1>2, ResolveType DEF applyMutateLogEntry
    <2>3. CASE UNCHANGED <<store, applied>> /\ halted' = [halted EXCEPT ![n] = TRUE]
      BY <1>2, <2>2, <2>3 DEF TypeOK, applyMutateLogEntry
    <2>4. CASE /\ store' = [store EXCEPT ![n][cmd.key] = Effect(cmd)]
               /\ applied' = [applied EXCEPT ![n] = @ + 1]
               /\ UNCHANGED halted
      <3>1. store' \in [Node -> [Key -> Cell]]
        BY <2>1, <2>4, EffectType DEF TypeOK
      <3>2. applied' \in [Node -> Nat] /\ \A m \in Node : applied'[m] <= published[m]
        BY <1>2, <2>4 DEF TypeOK, applyMutateLogEntry
      <3>3. QED
        BY <1>2, <2>2, <2>4, <3>1, <3>2 DEF TypeOK, applyMutateLogEntry
    <2>5. QED
      BY <1>2, <2>3, <2>4 DEF applyMutateLogEntry
  <1>3. CASE maybeTriggerSnapshot(n)
    <2>1. snap' = [snap EXCEPT ![n] = [index |-> published[n], data |-> store[n]]]
      BY <1>3 DEF maybeTriggerSnapshot
    <2>2. [index |-> published[n], data |-> store[n]] \in [index : Nat, data : [Key -> Cell]]
      BY DEF TypeOK
    <2>3. snap' \in [Node -> [index : Nat, data : [Key -> Cell]]]
      BY <2>1, <2>2 DEF TypeOK
    <2>4. \A m \in Node : snap'[m].index <= published[m]
      BY <2>1 DEF TypeOK
    <2>5. hasty' \in BOOLEAN
      BY <1>3 DEF maybeTriggerSnapshot
    <2>6. QED
      BY <1>3, <2>3, <2>4, <2>5 DEF TypeOK, maybeTriggerSnapshot
  <1>4. ASSUME NEW m \in Node, publishSnapshot(n, m)
        PROVE  TypeOK'
    <2>1. snap[m].index \in Nat /\ snap[m].data \in [Key -> Cell] /\ snap[m].index <= Len(log)
          /\ snap[m] \in [index : Nat, data : [Key -> Cell]]
      BY DEF TypeOK
    <2>2. QED
      BY <1>4, <2>1 DEF TypeOK, publishSnapshot, recoverFromSnapshot
  <1>5. CASE Restart(n)
    <2>1. snap[n].index \in Nat /\ snap[n].data \in [Key -> Cell] /\ snap[n].index <= Len(log)
      BY DEF TypeOK
    <2>2. ASSUME NEW c \in Caller, Waiting(c)
          PROVE  [call[c] EXCEPT !.pc = "done", !.ack = "crash"] \in ActiveCall
      <3>1. call[c] \in ActiveCall
        BY <2>2 DEF TypeOK, Call, IdleCall, Waiting
      <3>2. QED
        BY <3>1 DEF ActiveCall, Ack
    <2>3. call' \in [Caller -> Call]
      BY <1>5, <2>2 DEF Restart, TypeOK, Call
    <2>4. /\ store' = [store EXCEPT ![n] = IF snap[n].index > 0 THEN snap[n].data ELSE @]
          /\ published' = [published EXCEPT ![n] = snap[n].index]
          /\ applied' = [applied EXCEPT ![n] = snap[n].index]
          /\ halted' = [halted EXCEPT ![n] = FALSE]
          /\ nextRequestID' = [nextRequestID EXCEPT ![n] = 0]
          /\ restarts' = restarts + 1
          /\ awaited' = [awaited EXCEPT ![n] = FALSE]
          /\ UNCHANGED <<now, log, proposed, snap, hasty>>
      BY <1>5 DEF Restart
    <2>5. store' \in [Node -> [Key -> Cell]]
      BY <2>1, <2>4 DEF TypeOK
    <2>6. published' \in [Node -> Nat] /\ applied' \in [Node -> Nat]
      BY <2>1, <2>4 DEF TypeOK
    <2>7. ASSUME NEW m \in Node
          PROVE  /\ snap[m].index <= published'[m]
                 /\ applied'[m] <= published'[m]
                 /\ published'[m] <= Len(log)
      <3>1. CASE m = n
        BY <2>1, <2>4, <3>1 DEF TypeOK
      <3>2. CASE m # n
        BY <2>4, <3>2 DEF TypeOK
      <3>3. QED
        BY <3>1, <3>2
    <2>8. halted' \in [Node -> BOOLEAN] /\ awaited' \in [Node -> BOOLEAN] /\ nextRequestID' \in [Node -> Nat] /\ restarts' \in Nat
      BY <2>4 DEF TypeOK
    <2>9. QED
      BY <2>3, <2>4, <2>5, <2>6, <2>7, <2>8 DEF TypeOK
  <1>6. CASE passEmpty(n)
    <2>1. applied' = [applied EXCEPT ![n] = @ + 1] /\ applied[n] < published[n]
      BY <1>6 DEF passEmpty
    <2>2. applied' \in [Node -> Nat] /\ \A m \in Node : applied'[m] <= published[m]
      BY <2>1 DEF TypeOK
    <2>3. QED
      BY <1>6, <2>2 DEF TypeOK, passEmpty
  <1>7. QED
    BY <1>1, <1>2, <1>3, <1>4, <1>5, <1>6 DEF Replica

LEMMA TypeInit == Init => TypeOK
  <1> SUFFICES ASSUME Init PROVE TypeOK
    OBVIOUS
  <1>1. hasty \in BOOLEAN
    BY Zenon DEF Init
  <1>2. /\ halted \in [Node -> BOOLEAN] /\ awaited \in [Node -> BOOLEAN]
        /\ call \in [Caller -> Call] /\ nextRequestID \in [Node -> Nat]
    BY DEF Init, Call
  <1>3. /\ store \in [Node -> [Key -> Cell]]
        /\ snap \in [Node -> [index : Nat, data : [Key -> Cell]]]
    BY DEF Init, Cell
  <1>4. /\ log \in Seq(Entry) /\ proposed \subseteq Command /\ now \in Nat /\ restarts \in Nat
        /\ published \in [Node -> Nat] /\ applied \in [Node -> Nat]
        /\ \A n \in Node : /\ snap[n].index <= published[n]
                           /\ applied[n] <= published[n]
                           /\ published[n] <= Len(log)
    BY DEF Init
  <1>5. QED
    BY <1>1, <1>2, <1>3, <1>4 DEF TypeOK

LEMMA TypeStep == TypeOK /\ [Next]_vars => TypeOK'
  <1> SUFFICES ASSUME TypeOK, [Next]_vars PROVE TypeOK'
    OBVIOUS
  <1>1. ASSUME NEW c \in Caller, Handler(c) PROVE TypeOK'
    BY <1>1, StartType, WakeType DEF Handler
  <1>2. ASSUME NEW n \in Node, Replica(n) PROVE TypeOK'
    BY <1>2, ReplicaType
  <1>3. ASSUME NEW cmd \in proposed, Commit(cmd) PROVE TypeOK'
    BY <1>3 DEF TypeOK, Commit, raftVars, Entry
  <1>4. ASSUME NEW cmd \in proposed, Lose(cmd) PROVE TypeOK'
    BY <1>4 DEF TypeOK, Lose, raftVars
  <1>5. CASE Tick
    BY <1>5, ConstAssumption DEF TypeOK, Tick, raftVars
  <1>6. CASE CommitEmpty
    BY <1>6 DEF TypeOK, CommitEmpty, raftVars, Entry
  <1>7. CASE UNCHANGED vars
    BY <1>7 DEF TypeOK, vars
  <1>8. QED
    BY <1>1, <1>2, <1>3, <1>4, <1>5, <1>6, <1>7 DEF Next

\* The handlers, the log and the replicas of raftimpl keep their types, and
\* the snapshot, applied and published indices of a replica keep their order.
THEOREM TypeCorrect == Spec => []TypeOK
  BY TypeInit, TypeStep, PTL DEF Spec

-----------------------------------------------------------------------------
(* What the log says of a key *)

\* A non-empty set of naturals with an upper bound has a largest element.
LEMMA MaxExists ==
  ASSUME NEW W, W \subseteq Nat, NEW b \in Nat, \A w \in W : w <= b, W # {}
  PROVE  \E m \in W : \A w \in W : w <= m
  <1> DEFINE T == {x \in Nat : \E w \in W : x = b - w}
  <1>1. T \subseteq Nat
    OBVIOUS
  <1>2. \A w \in W : w \in Nat /\ b - w \in Nat /\ b - w \in T
    OBVIOUS
  <1>3. T # {}
    BY <1>2
  <1>4. \A x \in T : \E w \in W : x = b - w
    OBVIOUS
  <1> HIDE DEF T
  <1> DEFINE R == OpToRel(<, Nat)
  <1>5. IsWellFoundedOn(R, Nat)
    BY NatLessThanWellFounded
  <1>6. \A x, y \in Nat : <<y, x>> \in R <=> y < x
    BY DEF OpToRel
  <1> HIDE DEF R
  <1>7. PICK x \in T : \A y \in T : ~(<<y, x>> \in R)
    BY <1>1, <1>3, <1>5, WFMin
  <1>8. PICK m \in W : x = b - m
    BY <1>4, <1>7
  <1>9. \A w \in W : ~((b - w) < (b - m))
    BY <1>1, <1>2, <1>6, <1>7, <1>8
  <1>10. QED
    BY <1>2, <1>9

\* LastWrite is the last write.
LEMMA LastWriteIsLast ==
  ASSUME NEW k, NEW i \in Nat, Writes(k, i) # {}
  PROVE  /\ LastWrite(k, i) \in Writes(k, i)
         /\ \A l \in Writes(k, i) : l <= LastWrite(k, i)
  <1>1. Writes(k, i) \subseteq Nat /\ \A w \in Writes(k, i) : w <= i
    BY DEF Writes
  <1>2. \E m \in Writes(k, i) : \A w \in Writes(k, i) : w <= m
    BY <1>1, MaxExists
  <1>3. QED
    BY <1>2 DEF LastWrite

\* A command on k at position i + 1 decides the value of k there.
LEMMA ValueWritten ==
  ASSUME NEW k, NEW i \in Nat, log[i + 1] # Noop, log[i + 1].key = k
  PROVE  ValueAt(k, i + 1) = Effect(log[i + 1])
  <1>1. i + 1 \in Writes(k, i + 1)
    BY DEF Writes
  <1>2. /\ LastWrite(k, i + 1) \in Writes(k, i + 1)
        /\ i + 1 <= LastWrite(k, i + 1)
    BY <1>1, LastWriteIsLast
  <1>3. LastWrite(k, i + 1) = i + 1
    BY <1>2 DEF Writes
  <1>4. QED
    BY <1>1, <1>3 DEF ValueAt

\* A command on another key, or no command, leaves k alone.
LEMMA ValueKept ==
  ASSUME NEW k, NEW i \in Nat, log[i + 1] = Noop \/ log[i + 1].key # k
  PROVE  ValueAt(k, i + 1) = ValueAt(k, i)
  <1>1. Writes(k, i + 1) = Writes(k, i)
    BY DEF Writes
  <1>2. LastWrite(k, i + 1) = LastWrite(k, i)
    BY <1>1 DEF LastWrite
  <1>3. QED
    BY <1>1, <1>2 DEF ValueAt

\* Growing the log changes nothing before its old end.
LEMMA ValueStable ==
  ASSUME log \in Seq(Entry), NEW cmd \in Entry, log' = Append(log, cmd),
         NEW k, NEW i \in 0..Len(log)
  PROVE  ValueAt(k, i)' = ValueAt(k, i)
  <1>1. \A j \in 1..i : log'[j] = log[j]
    OBVIOUS
  <1>2. Writes(k, i)' = Writes(k, i)
    BY <1>1 DEF Writes
  <1>3. LastWrite(k, i)' = LastWrite(k, i)
    BY <1>2 DEF LastWrite
  <1>4. CASE Writes(k, i) = {}
    BY <1>2, <1>4 DEF ValueAt
  <1>5. CASE Writes(k, i) # {}
    <2>1. LastWrite(k, i) \in 1..i
      BY <1>5, LastWriteIsLast DEF Writes
    <2>2. log'[LastWrite(k, i)] = log[LastWrite(k, i)]
      BY <1>1, <2>1
    <2>3. ValueAt(k, i)' = Effect(log'[LastWrite(k, i)])
      BY <1>2, <1>3, <1>5 DEF ValueAt, Effect
    <2>4. QED
      BY <1>5, <2>2, <2>3 DEF ValueAt
  <1>6. QED
    BY <1>4, <1>5

\* A clean log never says a key is a directory.
LEMMA ValueNotDir ==
  ASSUME log \in Seq(Entry), CleanLog, NEW k, NEW i \in 0..Len(log)
  PROVE  ValueAt(k, i).kind # "dir"
  <1>1. ASSUME NEW j \in 1..Len(log), log[j] # Noop PROVE Effect(log[j]).kind # "dir"
    <2>1. log[j] \in Command /\ ~log[j].dir
      BY <1>1 DEF CleanLog, Entry
    <2>2. QED
      BY <2>1 DEF Effect, Command, Entity, Empty
  <1>2. CASE Writes(k, i) = {}
    BY <1>2 DEF ValueAt, Empty
  <1>3. CASE Writes(k, i) # {}
    <2>1. LastWrite(k, i) \in 1..i /\ log[LastWrite(k, i)] # Noop
      BY <1>3, LastWriteIsLast DEF Writes
    <2>2. LastWrite(k, i) \in 1..Len(log) /\ log[LastWrite(k, i)] # Noop
      BY <2>1
    <2>3. QED
      BY <1>1, <1>3, <2>2 DEF ValueAt
  <1>4. QED
    BY <1>2, <1>3

-----------------------------------------------------------------------------
(* Convergence *)

\* NotOlder speaks of the log and its own arguments only, and is monotone.
LEMMA NotOlderWeaken ==
  ASSUME NEW cells, NEW i \in Nat, NEW j \in Nat, j <= i, log \in Seq(Entry), NotOlder(cells, i)
  PROVE  NotOlder(cells, j)
  <1>1. \A h \in i..Len(log) : h \in j..Len(log)
    OBVIOUS
  <1>2. QED
    BY <1>1 DEF NotOlder

\* Entries without a command make no cell older.
LEMMA NotOlderNoops ==
  ASSUME NEW cells, NEW i \in Nat, NEW j \in Nat, i <= j, j <= Len(log), log \in Seq(Entry),
         ~HasCommand(i + 1, j), NotOlder(cells, i)
  PROVE  NotOlder(cells, j)
  <1> SUFFICES ASSUME NEW k \in Key PROVE \E h \in j..Len(log) : cells[k] = ValueAt(k, h)
    BY DEF NotOlder
  <1>1. PICK h \in i..Len(log) : cells[k] = ValueAt(k, h)
    BY DEF NotOlder
  <1>2. CASE h >= j
    BY <1>1, <1>2
  <1>3. CASE h < j
    <2>1. \A l \in (h + 1)..j : log[l] = Noop
      BY <1>1 DEF HasCommand
    <2>2. Writes(k, j) = Writes(k, h)
      BY <1>1, <1>3, <2>1 DEF Writes
    <2>3. ValueAt(k, j) = ValueAt(k, h)
      BY <2>2 DEF ValueAt, LastWrite
    <2>4. QED
      BY <1>1, <2>3
  <1>4. QED
    BY <1>1, <1>2, <1>3

\* What a replica and its snapshot must satisfy, in one formula.
ReplicaNotBehind(n) ==
  /\ ~halted[n]
  /\ NotOlder(store[n], applied[n])
  /\ NotOlder(snap[n].data, snap[n].index)

\* The steps that leave the log alone leave ValueAt alone.
LEMMA SameLog ==
  ASSUME UNCHANGED log
  PROVE  /\ CleanLog' <=> CleanLog
         /\ \A k, i : ValueAt(k, i)' = ValueAt(k, i)
  BY DEF CleanLog, ValueAt, Writes, LastWrite, Effect

LEMMA NotBehindInit == Init => NotBehind
  <1> SUFFICES ASSUME Init, NEW n \in Node PROVE ReplicaNotBehind(n)
    BY DEF NotBehind, ReplicaNotBehind
  <1>1. \A k : ValueAt(k, 0) = Empty
    BY DEF ValueAt, Writes
  <1>2. Len(log) = 0
    BY DEF Init
  <1>3. /\ ~halted[n] /\ applied[n] = 0 /\ snap[n].index = 0
        /\ \A k \in Key : store[n][k] = Empty /\ snap[n].data[k] = Empty
    BY DEF Init
  <1>4. 0 \in 0..Len(log)
    BY <1>2
  <1>5. QED
    BY <1>1, <1>3, <1>4 DEF ReplicaNotBehind, NotOlder

\* Applying one command of a clean log succeeds and keeps the store abreast.
LEMMA ApplyNotBehind ==
  ASSUME TypeOK, NotBehind, CleanLog, ~hasty, NEW n \in Node, applyMutateLogEntry(n)
  PROVE  /\ halted' = halted
         /\ \A m \in Node \ {n} : store'[m] = store[m] /\ applied'[m] = applied[m]
         /\ NotOlder(store'[n], applied'[n])
  <1> DEFINE a == applied[n]
             cmd == log[a + 1]
  <1>1. a \in Nat /\ a + 1 \in 1..Len(log) /\ cmd \in Command /\ cmd # Noop /\ cmd.key \in Key
        /\ a + 1 \in (a + 1)..Len(log)
    <2>1. a \in Nat /\ published[n] \in Nat /\ Len(log) \in Nat
          /\ a < published[n] /\ published[n] <= Len(log)
      BY DEF TypeOK, applyMutateLogEntry
    <2>2. a + 1 \in 1..Len(log)
      BY <2>1
    <2>3. cmd \in Command /\ cmd # Noop
      BY <2>2 DEF TypeOK, applyMutateLogEntry, Entry
    <2>4. QED
      BY <2>1, <2>2, <2>3 DEF Command
  <1>2. cmd.key \notin InvalidKey /\ ~cmd.dir
    BY <1>1 DEF CleanLog
  <1>3. \A k \in Key : \E h \in a..Len(log) : store[n][k] = ValueAt(k, h)
    BY DEF NotBehind, NotOlder
  <1>4. store[n][cmd.key].kind # "dir"
    <2>1. PICK h \in a..Len(log) : store[n][cmd.key] = ValueAt(cmd.key, h)
      BY <1>1, <1>3
    <2>2. h \in 0..Len(log)
      BY <1>1, <2>1
    <2>3. QED
      BY <2>1, <2>2, ValueNotDir DEF TypeOK
  <1>5. ~Fails(cmd, store[n][cmd.key])
    BY <1>2, <1>4 DEF Fails
  <1>6. /\ store' = [store EXCEPT ![n][cmd.key] = Effect(cmd)]
        /\ applied' = [applied EXCEPT ![n] = @ + 1]
        /\ UNCHANGED halted
    BY <1>5 DEF applyMutateLogEntry, ApplyFails
  <1>7. applied'[n] = a + 1
    BY <1>6 DEF TypeOK
  <1>8. ASSUME NEW k \in Key
        PROVE  \E h \in (a + 1)..Len(log) : store'[n][k] = ValueAt(k, h)
    <2>1. CASE k = cmd.key
      <3>1. store'[n][k] = Effect(cmd)
        BY <1>1, <1>6, <2>1 DEF TypeOK
      <3>2. ValueAt(k, a + 1) = Effect(cmd)
        BY <1>1, <2>1, ValueWritten
      <3>3. QED
        BY <1>1, <3>1, <3>2
    <2>2. CASE k # cmd.key
      <3>1. store'[n][k] = store[n][k]
        BY <1>6, <2>2 DEF TypeOK
      <3>2. PICK h \in a..Len(log) : store[n][k] = ValueAt(k, h)
        BY <1>3
      <3>3. CASE h = a
        <4>1. ValueAt(k, a + 1) = ValueAt(k, a)
          BY <1>1, <2>2, ValueKept
        <4>2. QED
          BY <1>1, <3>1, <3>2, <3>3, <4>1
      <3>4. CASE h # a
        <4>1. h \in (a + 1)..Len(log)
          BY <1>1, <3>2, <3>4
        <4>2. QED
          BY <3>1, <3>2, <4>1
      <3>5. QED
        BY <3>3, <3>4
    <2>3. QED
      BY <2>1, <2>2
  <1>9. QED
    BY <1>6, <1>7, <1>8 DEF NotOlder, TypeOK

\* No step of a replica loses a write.
LEMMA ReplicaKeepsNotBehind ==
  ASSUME TypeOK, NotBehind, NEW n \in Node, Replica(n)
  PROVE  NotBehind'
  <1>1. UNCHANGED log
    BY DEF Replica, publishEntries, applyMutateLogEntry, passEmpty, maybeTriggerSnapshot, Restart,
           publishSnapshot
  <1>0. ~hasty' => ~hasty
    BY DEF Replica, publishEntries, applyMutateLogEntry, passEmpty, maybeTriggerSnapshot, Restart,
           publishSnapshot
  <1> SUFFICES ASSUME CleanLog, ~hasty, ~hasty', NEW m \in Node PROVE ReplicaNotBehind(m)'
    BY <1>0, <1>1, SameLog DEF NotBehind, ReplicaNotBehind
  <1>2. \A x \in Node : ReplicaNotBehind(x)
    BY DEF NotBehind, ReplicaNotBehind
  <1>3. \A cells, i : NotOlder(cells, i) <=> \A k \in Key : \E h \in i..Len(log') :
                         cells[k] = ValueAt(k, h)'
    BY <1>1, SameLog DEF NotOlder
  <1>4. ASSUME ~halted'[m], NotOlder(store'[m], applied'[m]),
               NotOlder(snap'[m].data, snap'[m].index)
        PROVE  ReplicaNotBehind(m)'
    <2>1. \A k \in Key : \E h \in applied'[m]..Len(log') : store'[m][k] = ValueAt(k, h)'
      BY <1>3, <1>4
    <2>2. \A k \in Key : \E h \in snap'[m].index..Len(log') : snap'[m].data[k] = ValueAt(k, h)'
      BY <1>3, <1>4
    <2>3. QED
      BY <1>4, <2>1, <2>2 DEF ReplicaNotBehind, NotOlder
  <1>5. CASE publishEntries(n)
    BY <1>2, <1>4, <1>5 DEF publishEntries, ReplicaNotBehind
  <1>6. CASE applyMutateLogEntry(n)
    <2>1. UNCHANGED snap
      BY <1>6 DEF applyMutateLogEntry
    <2>2. CASE m = n
      BY <1>2, <1>4, <1>6, <2>1, <2>2, ApplyNotBehind DEF ReplicaNotBehind
    <2>3. CASE m # n
      BY <1>2, <1>4, <1>6, <2>1, <2>3, ApplyNotBehind DEF ReplicaNotBehind
    <2>4. QED
      BY <2>2, <2>3
  <1>7. CASE maybeTriggerSnapshot(n)
    <2>1. NotOlder(store[n], published[n])
      <3>1. ~Busy(n)
        BY <1>2, <1>7 DEF maybeTriggerSnapshot, ReplicaNotBehind
      <3>2. /\ applied[n] \in Nat /\ published[n] \in Nat /\ log \in Seq(Entry)
            /\ applied[n] <= published[n] /\ published[n] <= Len(log)
        BY DEF TypeOK
      <3>3. ~HasCommand(applied[n] + 1, published[n]) /\ NotOlder(store[n], applied[n])
        BY <1>2, <3>1 DEF Busy, ReplicaNotBehind
      <3>4. QED
        BY <3>2, <3>3, NotOlderNoops
    <2>2. snap' = [snap EXCEPT ![n] = [index |-> published[n], data |-> store[n]]]
          /\ UNCHANGED <<store, applied, halted>>
      BY <1>7 DEF maybeTriggerSnapshot
    <2>3. CASE m = n
      <3>1. snap'[m].index = published[m] /\ snap'[m].data = store[m]
        BY <2>2, <2>3 DEF TypeOK
      <3>2. QED
        BY <1>2, <1>4, <2>1, <2>2, <2>3, <3>1 DEF ReplicaNotBehind
    <2>4. CASE m # n
      <3>1. snap'[m] = snap[m]
        BY <2>2, <2>4 DEF TypeOK
      <3>2. QED
        BY <1>2, <1>4, <2>2, <3>1 DEF ReplicaNotBehind
    <2>5. QED
      BY <2>3, <2>4
  <1>8. ASSUME NEW p \in Node, publishSnapshot(n, p)
        PROVE  ReplicaNotBehind(m)'
    <2>1. /\ snap' = [snap EXCEPT ![n] = snap[p]]
          /\ store' = [store EXCEPT ![n] = snap[p].data]
          /\ applied' = [applied EXCEPT ![n] = snap[p].index]
          /\ halted' = halted
      BY <1>8 DEF publishSnapshot, recoverFromSnapshot
    <2>2. CASE m = n
      <3>1. snap'[m] = snap[p] /\ store'[m] = snap[p].data /\ applied'[m] = snap[p].index
        BY <2>1, <2>2 DEF TypeOK
      <3>2. QED
        BY <1>2, <1>4, <2>1, <3>1 DEF ReplicaNotBehind
    <2>3. CASE m # n
      <3>1. snap'[m] = snap[m] /\ store'[m] = store[m] /\ applied'[m] = applied[m]
        BY <2>1, <2>3 DEF TypeOK
      <3>2. QED
        BY <1>2, <1>4, <2>1, <3>1 DEF ReplicaNotBehind
    <2>4. QED
      BY <2>2, <2>3
  <1>9. CASE Restart(n)
    <2>1. /\ store' = [store EXCEPT ![n] = IF snap[n].index > 0 THEN snap[n].data ELSE @]
          /\ applied' = [applied EXCEPT ![n] = snap[n].index]
          /\ halted' = [halted EXCEPT ![n] = FALSE]
          /\ snap' = snap
      BY <1>9 DEF Restart
    <2>2. CASE m = n
      <3>1. /\ store'[m] = IF snap[m].index > 0 THEN snap[m].data ELSE store[m]
            /\ applied'[m] = snap[m].index
            /\ ~halted'[m]
        BY <2>1, <2>2 DEF TypeOK
      <3>2. CASE snap[m].index > 0
        BY <1>2, <1>4, <2>1, <3>1, <3>2 DEF ReplicaNotBehind
      <3>3. CASE ~(snap[m].index > 0)
        <4>1. snap[m].index = 0 /\ applied[m] \in Nat /\ log \in Seq(Entry)
          BY <3>3 DEF TypeOK
        <4>2. NotOlder(store[m], applied[m]) /\ NotOlder(snap[m].data, snap[m].index)
          BY <1>2 DEF ReplicaNotBehind
        <4>3. NotOlder(store[m], 0)
          BY <4>1, <4>2, NotOlderWeaken
        <4>4. store'[m] = store[m] /\ applied'[m] = 0 /\ snap'[m] = snap[m]
          BY <2>1, <3>1, <3>3, <4>1
        <4>5. QED
          BY <1>4, <3>1, <4>2, <4>3, <4>4
      <3>4. QED
        BY <3>2, <3>3
    <2>3. CASE m # n
      <3>1. store'[m] = store[m] /\ applied'[m] = applied[m] /\ halted'[m] = halted[m]
        BY <2>1, <2>3 DEF TypeOK
      <3>2. QED
        BY <1>2, <1>4, <2>1, <3>1 DEF ReplicaNotBehind
    <2>4. QED
      BY <2>2, <2>3
  <1>10. CASE passEmpty(n)
    <2>1. /\ applied' = [applied EXCEPT ![n] = @ + 1] /\ log[applied[n] + 1] = Noop
          /\ UNCHANGED <<store, halted, snap>>
      BY <1>10 DEF passEmpty
    <2>2. CASE m = n
      <3>1. /\ applied[n] \in Nat /\ applied[n] + 1 <= Len(log) /\ log \in Seq(Entry)
            /\ applied'[n] = applied[n] + 1
        BY <1>10, <2>1 DEF TypeOK, passEmpty
      <3>2. ~HasCommand(applied[n] + 1, applied[n] + 1)
        BY <2>1, <3>1 DEF HasCommand
      <3>3. NotOlder(store[n], applied[n] + 1)
        BY <1>2, <3>1, <3>2, NotOlderNoops DEF ReplicaNotBehind
      <3>4. QED
        BY <1>2, <1>4, <2>1, <2>2, <3>1, <3>3 DEF ReplicaNotBehind
    <2>3. CASE m # n
      <3>1. applied'[m] = applied[m]
        BY <2>1, <2>3 DEF TypeOK
      <3>2. QED
        BY <1>2, <1>4, <2>1, <3>1 DEF ReplicaNotBehind
    <2>4. QED
      BY <2>2, <2>3
  <1>11. QED
    BY <1>5, <1>6, <1>7, <1>8, <1>9, <1>10 DEF Replica

\* Neither does a commit: what is stored stays a value of the longer log.
LEMMA CommitKeepsNotBehind ==
  ASSUME TypeOK, NotBehind, NEW cmd \in Entry, log' = Append(log, cmd),
         UNCHANGED <<store, applied, halted, snap, hasty>>
  PROVE  NotBehind'
  <1>1. log \in Seq(Entry)
    BY DEF TypeOK
  <1> SUFFICES ASSUME CleanLog', ~hasty, NEW n \in Node PROVE ReplicaNotBehind(n)'
    BY DEF NotBehind, ReplicaNotBehind
  <1>2. DOMAIN log \subseteq DOMAIN log' /\ \A i \in DOMAIN log : log'[i] = log[i]
    BY <1>1
  <1>3. CleanLog
    BY <1>2 DEF CleanLog
  <1>4. ReplicaNotBehind(n)
    BY <1>3 DEF NotBehind, ReplicaNotBehind
  <1>5. ASSUME NEW cells, NEW i \in Nat, NotOlder(cells, i), NEW k \in Key
        PROVE  \E h \in i..Len(log') : cells[k] = ValueAt(k, h)'
    <2>1. PICK h \in i..Len(log) : cells[k] = ValueAt(k, h)
      BY <1>5 DEF NotOlder
    <2>2. h \in 0..Len(log) /\ h \in i..Len(log')
      BY <1>1, <2>1
    <2>3. ValueAt(k, h)' = ValueAt(k, h)
      BY <1>1, <2>2, ValueStable
    <2>4. QED
      BY <2>1, <2>2, <2>3
  <1>6. applied[n] \in Nat /\ snap[n].index \in Nat
    BY DEF TypeOK
  <1>7. NotOlder(store[n], applied[n]) /\ NotOlder(snap[n].data, snap[n].index) /\ ~halted[n]
    BY <1>4 DEF ReplicaNotBehind
  <1>8. \A k \in Key : \E h \in applied[n]..Len(log') : store[n][k] = ValueAt(k, h)'
    BY <1>5, <1>6, <1>7
  <1>9. \A k \in Key : \E h \in snap[n].index..Len(log') : snap[n].data[k] = ValueAt(k, h)'
    BY <1>5, <1>6, <1>7
  <1>10. QED
    BY <1>1, <1>7, <1>8, <1>9 DEF ReplicaNotBehind, NotOlder

LEMMA NotBehindStep == TypeOK /\ NotBehind /\ [Next]_vars => NotBehind'
  <1> SUFFICES ASSUME TypeOK, NotBehind, [Next]_vars PROVE NotBehind'
    OBVIOUS
  <1>1. ASSUME UNCHANGED <<log, store, applied, halted, snap, hasty>> PROVE NotBehind'
    BY <1>1, SameLog DEF NotBehind, NotOlder
  <1>2. ASSUME NEW c \in Caller, Handler(c) PROVE NotBehind'
    BY <1>1, <1>2 DEF Handler, AckWrite, AckProbe, AckSweep, ContextDone, SetKV, UnsetKV,
                      GetKV, Range, Expire, raftVars
  <1>3. ASSUME NEW n \in Node, Replica(n) PROVE NotBehind'
    BY <1>3, ReplicaKeepsNotBehind
  <1>4. ASSUME NEW cmd \in proposed, Commit(cmd) PROVE NotBehind'
    BY <1>4, CommitKeepsNotBehind DEF Commit, raftVars, TypeOK, Entry
  <1>5. ASSUME NEW cmd \in proposed, Lose(cmd) PROVE NotBehind'
    BY <1>1, <1>5 DEF Lose, raftVars
  <1>6. CASE Tick
    BY <1>1, <1>6 DEF Tick, raftVars
  <1>7. CASE CommitEmpty
    BY <1>7, CommitKeepsNotBehind DEF CommitEmpty, raftVars, Entry
  <1>8. CASE UNCHANGED vars
    BY <1>1, <1>8 DEF vars
  <1>9. QED
    BY <1>2, <1>3, <1>4, <1>5, <1>6, <1>7, <1>8 DEF Next

\* No crash, replay over the surviving bolt file, own snapshot or received
\* snapshot loses a write, and no applier of a clean log stops, unless the
\* Ready loop took a snapshot without waiting for the applier.
THEOREM NoWriteLost == Spec => []NotBehind
  BY TypeCorrect, NotBehindInit, NotBehindStep, PTL DEF Spec

\* At the end of the log, not being behind is being equal.
LEMMA NotBehindConverged == TypeOK /\ NotBehind => Converged
  <1> SUFFICES ASSUME TypeOK, NotBehind, CleanLog, ~hasty, NEW n \in Node, applied[n] = Len(log)
               PROVE  store[n] = [k \in Key |-> ValueAt(k, Len(log))]
    BY DEF Converged
  <1>1. Len(log) \in Nat
    BY DEF TypeOK
  <1>2. ASSUME NEW k \in Key PROVE store[n][k] = ValueAt(k, Len(log))
    <2>1. PICK h \in applied[n]..Len(log) : store[n][k] = ValueAt(k, h)
      BY DEF NotBehind, NotOlder
    <2>2. h = Len(log)
      BY <1>1, <2>1
    <2>3. QED
      BY <2>1, <2>2
  <1>3. store[n] \in [Key -> Cell]
    BY DEF TypeOK
  <1>4. QED
    BY <1>2, <1>3

\* Replicas that have applied the whole log hold the same contents, the ones
\* the log determines.
THEOREM Convergence == Spec => []Converged
  BY TypeCorrect, NoWriteLost, NotBehindConverged, PTL

-----------------------------------------------------------------------------
(* The first command that fails *)

\* The first i entries can be applied one after the other without an error.
Clean(i) == \A l \in 1..i : log[l] # Noop => ~Fails(log[l], ValueAt(log[l].key, l - 1))

\* What an index stands for, as long as it is clean.
Exact(cells, i) == Clean(i) => \A k \in Key : cells[k] = ValueAt(k, i)

\* Up to the first command that fails every replica and every snapshot holds
\* exactly what the log says, an applier stops there and nowhere before, and
\* whoever is past it owes it to a snapshot, the first of which was taken by a
\* replica that had stopped there.
PoisonReplica(n) ==
  /\ Exact(store[n], applied[n])
  /\ Exact(snap[n].data, snap[n].index)
  /\ halted[n] => applied[n] < Len(log) /\ (Clean(applied[n]) => ~Clean(applied[n] + 1))
  /\ ~Clean(applied[n]) => ~Clean(snap[n].index)
  /\ ~Clean(snap[n].index) => \E r \in Node : halted[r] /\ Clean(applied[r])
PoisonInv == restarts = 0 /\ ~hasty => \A n \in Node : PoisonReplica(n)

LEMMA CleanPrefix ==
  ASSUME NEW i \in Nat, NEW j \in Nat, j <= i, Clean(i)
  PROVE  Clean(j)
  <1>1. \A l \in 1..j : l \in 1..i
    OBVIOUS
  <1>2. QED
    BY <1>1 DEF Clean

\* One entry more is clean if it does not fail on what the log says.
LEMMA CleanNext ==
  ASSUME NEW i \in Nat, Clean(i)
  PROVE  Clean(i + 1) <=> (log[i + 1] # Noop => ~Fails(log[i + 1], ValueAt(log[i + 1].key, i)))
  <1>1. \A l \in 1..(i + 1) : l \in 1..i \/ l = i + 1
    OBVIOUS
  <1>2. i + 1 \in 1..(i + 1) /\ (i + 1) - 1 = i
    OBVIOUS
  <1>3. QED
    BY <1>1, <1>2 DEF Clean

\* Entries without a command change nothing.
LEMMA CleanNoops ==
  ASSUME NEW i \in Nat, NEW j \in Nat, i <= j, ~HasCommand(i + 1, j)
  PROVE  /\ Clean(j) <=> Clean(i)
         /\ \A k : ValueAt(k, j) = ValueAt(k, i)
  <1>1. \A l \in (i + 1)..j : log[l] = Noop
    BY DEF HasCommand
  <1>2. \A l \in 1..j : l \in 1..i \/ l \in (i + 1)..j
    OBVIOUS
  <1>3. \A l \in 1..i : l \in 1..j
    OBVIOUS
  <1>4. \A k : Writes(k, j) = Writes(k, i)
    BY <1>1, <1>2, <1>3 DEF Writes
  <1>5. ASSUME NEW k PROVE ValueAt(k, j) = ValueAt(k, i)
    <2>1. Writes(k, j) = Writes(k, i)
      BY <1>4
    <2>2. QED
      BY <2>1 DEF ValueAt, LastWrite
  <1>6. Clean(j) <=> Clean(i)
    BY <1>1, <1>2, <1>3 DEF Clean
  <1>7. QED
    BY <1>5, <1>6

LEMMA CleanStable ==
  ASSUME log \in Seq(Entry), NEW cmd \in Entry, log' = Append(log, cmd), NEW i \in 0..Len(log)
  PROVE  Clean(i)' <=> Clean(i)
  <1>1. ASSUME NEW l \in 1..i
        PROVE  log'[l] = log[l] /\ \A k : ValueAt(k, l - 1)' = ValueAt(k, l - 1)
    <2>1. l \in 1..Len(log) /\ l - 1 \in 0..Len(log)
      OBVIOUS
    <2>2. log'[l] = log[l]
      BY <2>1
    <2>3. \A k : ValueAt(k, l - 1)' = ValueAt(k, l - 1)
      BY <2>1, ValueStable
    <2>4. QED
      BY <2>2, <2>3
  <1>2. \A cmd2, cell : Fails(cmd2, cell)' = Fails(cmd2, cell)
    BY DEF Fails
  <1>3. QED
    BY <1>1, <1>2 DEF Clean, Fails

LEMMA PoisonInit == Init => PoisonInv
  <1> SUFFICES ASSUME Init, NEW n \in Node PROVE PoisonReplica(n)
    BY DEF PoisonInv
  <1>1. \A k : ValueAt(k, 0) = Empty
    BY DEF ValueAt, Writes
  <1>2. Clean(0)
    BY DEF Clean
  <1>3. /\ ~halted[n] /\ applied[n] = 0 /\ snap[n].index = 0
        /\ \A k \in Key : store[n][k] = Empty /\ snap[n].data[k] = Empty
    BY DEF Init
  <1>4. QED
    BY <1>1, <1>2, <1>3 DEF PoisonReplica, Exact

\* A replica whose cells are exact fails exactly where the log does.
LEMMA ApplyIsExact ==
  ASSUME TypeOK, NEW n \in Node, applyMutateLogEntry(n), PoisonReplica(n)
  PROVE  \/ /\ UNCHANGED <<store, applied>> /\ halted' = [halted EXCEPT ![n] = TRUE]
            /\ applied[n] < Len(log) /\ (Clean(applied[n]) => ~Clean(applied[n] + 1))
         \/ /\ UNCHANGED halted /\ applied' = [applied EXCEPT ![n] = @ + 1]
            /\ \A m \in Node \ {n} : store'[m] = store[m]
            /\ Exact(store'[n], applied[n] + 1)
            /\ ~Clean(applied[n] + 1) => ~Clean(applied[n])
  <1> DEFINE a == applied[n]
             cmd == log[a + 1]
  <1>1. a \in Nat /\ a < Len(log) /\ a + 1 \in 1..Len(log)
    BY DEF TypeOK, applyMutateLogEntry
  <1>2. cmd \in Command /\ cmd # Noop /\ cmd.key \in Key
    <2>1. cmd \in Command /\ cmd # Noop
      BY <1>1 DEF TypeOK, applyMutateLogEntry, Entry
    <2>2. QED
      BY <2>1 DEF Command
  <1>3. Clean(a) => (Clean(a + 1) <=> ~Fails(cmd, store[n][cmd.key]))
    BY <1>1, <1>2, CleanNext DEF PoisonReplica, Exact
  <1>4. CASE Fails(cmd, store[n][cmd.key])
    BY <1>1, <1>3, <1>4 DEF applyMutateLogEntry, ApplyFails
  <1>5. CASE ~Fails(cmd, store[n][cmd.key])
    <2>1. /\ UNCHANGED halted /\ applied' = [applied EXCEPT ![n] = @ + 1]
          /\ store' = [store EXCEPT ![n][cmd.key] = Effect(cmd)]
      BY <1>5 DEF applyMutateLogEntry, ApplyFails
    <2>2. ASSUME Clean(a + 1), NEW k \in Key PROVE store'[n][k] = ValueAt(k, a + 1)
      <3>1. Clean(a)
        BY <1>1, <2>2, CleanPrefix
      <3>2. store[n][k] = ValueAt(k, a)
        BY <3>1 DEF PoisonReplica, Exact
      <3>3. CASE k = cmd.key
        <4>1. store'[n][k] = Effect(cmd)
          BY <2>1, <3>3 DEF TypeOK
        <4>2. ValueAt(k, a + 1) = Effect(cmd)
          BY <1>1, <1>2, <3>3, ValueWritten
        <4>3. QED
          BY <4>1, <4>2
      <3>4. CASE k # cmd.key
        <4>1. store'[n][k] = store[n][k]
          BY <2>1, <3>4 DEF TypeOK
        <4>2. ValueAt(k, a + 1) = ValueAt(k, a)
          BY <1>1, <3>4, ValueKept
        <4>3. QED
          BY <3>2, <4>1, <4>2
      <3>5. QED
        BY <3>3, <3>4
    <2>3. Exact(store'[n], a + 1)
      BY <2>2 DEF Exact
    <2>4. \A m \in Node \ {n} : store'[m] = store[m]
      BY <2>1 DEF TypeOK
    <2>5. QED
      BY <1>3, <1>5, <2>1, <2>3, <2>4
  <1>6. QED
    BY <1>4, <1>5

\* A snapshot that waited for the applier is exact; if it stands for a command
\* that failed, the applier has stopped.
LEMMA SnapshotIsExact ==
  ASSUME TypeOK, NEW n \in Node, maybeTriggerSnapshot(n), ~hasty', \A m \in Node : PoisonReplica(m)
  PROVE  /\ Exact(store[n], published[n])
         /\ ~Clean(applied[n]) => ~Clean(published[n])
         /\ ~Clean(published[n]) => \E r \in Node : halted[r] /\ Clean(applied[r])
  <1>0. /\ applied[n] \in Nat /\ published[n] \in Nat /\ Len(log) \in Nat
        /\ applied[n] <= published[n] /\ published[n] <= Len(log)
    BY DEF TypeOK
  <1>1. ~Clean(applied[n]) => ~Clean(published[n])
    BY <1>0, CleanPrefix
  <1>2. CASE ~Busy(n)
    <2>1. ~HasCommand(applied[n] + 1, published[n])
      BY <1>2 DEF Busy
    <2>2. /\ Clean(published[n]) <=> Clean(applied[n])
          /\ \A k : ValueAt(k, published[n]) = ValueAt(k, applied[n])
      BY <1>0, <2>1, CleanNoops
    <2>3. Exact(store[n], published[n])
      BY <2>2 DEF PoisonReplica, Exact
    <2>4. QED
      BY <1>1, <2>2, <2>3 DEF PoisonReplica
  <1>3. CASE Busy(n)
    <2>1. halted[n]
      BY <1>3 DEF maybeTriggerSnapshot
    <2>2. \E l \in (applied[n] + 1)..published[n] : TRUE
      BY <1>3 DEF Busy, HasCommand
    <2>3. applied[n] + 1 <= published[n]
      BY <1>0, <2>2
    <2>4. Clean(applied[n]) => ~Clean(applied[n] + 1)
      BY <2>1 DEF PoisonReplica
    <2>5. ~Clean(published[n])
      <3>1. SUFFICES ASSUME Clean(published[n]) PROVE FALSE
        OBVIOUS
      <3>2. Clean(applied[n]) /\ Clean(applied[n] + 1)
        BY <1>0, <2>3, <3>1, CleanPrefix
      <3>3. QED
        BY <2>4, <3>2
    <2>6. \E r \in Node : halted[r] /\ Clean(applied[r])
      BY <2>1 DEF PoisonReplica
    <2>7. QED
      BY <1>1, <2>5, <2>6 DEF Exact
  <1>4. QED
    BY <1>2, <1>3

\* The steps of a replica that do not restart it.
LEMMA ReplicaKeepsPoison ==
  ASSUME TypeOK, PoisonInv, NEW n \in Node, Replica(n)
  PROVE  PoisonInv'
  <1>1. UNCHANGED log
    BY DEF Replica, publishEntries, applyMutateLogEntry, passEmpty, maybeTriggerSnapshot, Restart,
           publishSnapshot
  <1>2. ~hasty' => ~hasty
    BY DEF Replica, publishEntries, applyMutateLogEntry, passEmpty, maybeTriggerSnapshot, Restart,
           publishSnapshot
  <1>3. Restart(n) => restarts' # 0
    <2>1. restarts \in Nat /\ (Restart(n) => restarts' = restarts + 1)
      BY DEF Restart, TypeOK
    <2>2. QED
      BY <2>1
  <1>4. ~Restart(n) => restarts' = restarts
    BY DEF Replica, publishEntries, applyMutateLogEntry, passEmpty, maybeTriggerSnapshot,
           publishSnapshot
  <1> SUFFICES ASSUME ~Restart(n), restarts = 0, ~hasty, ~hasty', NEW m \in Node
               PROVE  PoisonReplica(m)'
    BY <1>2, <1>3, <1>4 DEF PoisonInv
  <1>5. \A x \in Node : PoisonReplica(x)
    BY DEF PoisonInv
  <1>6. /\ \A i : Clean(i)' <=> Clean(i)
        /\ \A cells, i : Exact(cells, i) <=> (Clean(i)' => \A k \in Key : cells[k] = ValueAt(k, i)')
    <2>1. \A i : Clean(i)' <=> Clean(i)
      BY <1>1, SameLog DEF Clean, Fails
    <2>2. QED
      BY <1>1, <2>1, SameLog DEF Exact
  <1>7. ASSUME Exact(store'[m], applied'[m]), Exact(snap'[m].data, snap'[m].index),
               halted'[m] => applied'[m] < Len(log) /\ (Clean(applied'[m]) => ~Clean(applied'[m] + 1)),
               ~Clean(applied'[m]) => ~Clean(snap'[m].index),
               ~Clean(snap'[m].index) => \E r \in Node : halted'[r] /\ Clean(applied'[r])
        PROVE  PoisonReplica(m)'
    <2>1. PICK a, s : a = applied'[m] /\ s = snap'[m].index
      OBVIOUS
    <2>2. /\ Clean(a)' => \A k \in Key : store'[m][k] = ValueAt(k, a)'
          /\ Clean(s)' => \A k \in Key : snap'[m].data[k] = ValueAt(k, s)'
      BY <1>6, <1>7, <2>1
    <2>3. /\ halted'[m] => a < Len(log') /\ (Clean(a)' => ~Clean(a + 1)')
          /\ ~Clean(a)' => ~Clean(s)'
          /\ ~Clean(s)' => \E r \in Node : halted'[r] /\ Clean(applied'[r])
      BY <1>1, <1>6, <1>7, <2>1
    <2>4. ASSUME NEW r \in Node, Clean(applied'[r]) PROVE Clean(applied[r])'
      <3>1. PICK i : i = applied'[r]
        OBVIOUS
      <3>2. Clean(i)'
        BY <1>6, <2>4, <3>1
      <3>3. QED
        BY <3>1, <3>2
    <2>5. /\ Exact(store[m], applied[m])' /\ Exact(snap[m].data, snap[m].index)'
      BY <2>1, <2>2 DEF Exact
    <2>6. QED
      BY <2>1, <2>3, <2>4, <2>5 DEF PoisonReplica
  <1>8. CASE publishEntries(n)
    BY <1>5, <1>7, <1>8 DEF publishEntries, PoisonReplica
  <1>9. CASE applyMutateLogEntry(n)
    <2>1. UNCHANGED snap /\ ~halted[n]
      BY <1>9 DEF applyMutateLogEntry
    <2>2. CASE /\ UNCHANGED <<store, applied>> /\ halted' = [halted EXCEPT ![n] = TRUE]
               /\ applied[n] < Len(log) /\ (Clean(applied[n]) => ~Clean(applied[n] + 1))
      <3>1. \A r \in Node : halted'[r] = IF r = n THEN TRUE ELSE halted[r]
        BY <2>2 DEF TypeOK
      <3>2. halted'[m] => applied[m] < Len(log) /\ (Clean(applied[m]) => ~Clean(applied[m] + 1))
        BY <1>5, <2>2, <3>1 DEF PoisonReplica
      <3>3. ~Clean(snap[m].index) => \E r \in Node : halted'[r] /\ Clean(applied[r])
        BY <1>5, <3>1 DEF PoisonReplica
      <3>4. QED
        BY <1>5, <1>7, <2>1, <2>2, <3>2, <3>3 DEF PoisonReplica
    <2>3. CASE /\ UNCHANGED halted /\ applied' = [applied EXCEPT ![n] = @ + 1]
               /\ \A x \in Node \ {n} : store'[x] = store[x]
               /\ Exact(store'[n], applied[n] + 1)
               /\ ~Clean(applied[n] + 1) => ~Clean(applied[n])
      <3>1. \A r \in Node : applied'[r] = IF r = n THEN applied[r] + 1 ELSE applied[r]
        BY <2>3 DEF TypeOK
      <3>2. ~Clean(snap[m].index) => \E r \in Node : halted'[r] /\ Clean(applied'[r])
        BY <1>5, <2>1, <2>3, <3>1 DEF PoisonReplica
      <3>3. CASE m = n
        BY <1>5, <1>7, <2>1, <2>3, <3>1, <3>2, <3>3 DEF PoisonReplica
      <3>4. CASE m # n
        BY <1>5, <1>7, <2>1, <2>3, <3>1, <3>2, <3>4 DEF PoisonReplica
      <3>5. QED
        BY <3>3, <3>4
    <2>4. QED
      BY <1>5, <1>9, <2>2, <2>3, ApplyIsExact
  <1>10. CASE passEmpty(n)
    <2>1. /\ applied' = [applied EXCEPT ![n] = @ + 1] /\ log[applied[n] + 1] = Noop /\ ~halted[n]
          /\ UNCHANGED <<store, halted, snap>>
      BY <1>10 DEF passEmpty
    <2>2. applied[n] \in Nat /\ \A r \in Node : applied'[r] = IF r = n THEN applied[r] + 1 ELSE applied[r]
      BY <2>1 DEF TypeOK
    <2>3. ~HasCommand(applied[n] + 1, applied[n] + 1)
      BY <2>1, <2>2 DEF HasCommand
    <2>4. /\ Clean(applied[n] + 1) <=> Clean(applied[n])
          /\ \A k : ValueAt(k, applied[n] + 1) = ValueAt(k, applied[n])
      BY <2>2, <2>3, CleanNoops
    <2>5. Exact(store[n], applied[n] + 1)
      BY <1>5, <2>4 DEF PoisonReplica, Exact
    <2>6. ~Clean(snap[m].index) => \E r \in Node : halted'[r] /\ Clean(applied'[r])
      BY <1>5, <2>1, <2>2 DEF PoisonReplica
    <2>7. CASE m = n
      BY <1>5, <1>7, <2>1, <2>2, <2>4, <2>5, <2>6, <2>7 DEF PoisonReplica
    <2>8. CASE m # n
      BY <1>5, <1>7, <2>1, <2>2, <2>6, <2>8 DEF PoisonReplica
    <2>9. QED
      BY <2>7, <2>8
  <1>11. CASE maybeTriggerSnapshot(n)
    <2>1. snap' = [snap EXCEPT ![n] = [index |-> published[n], data |-> store[n]]]
          /\ UNCHANGED <<store, applied, halted>>
      BY <1>11 DEF maybeTriggerSnapshot
    <2>2. /\ Exact(store[n], published[n])
          /\ ~Clean(applied[n]) => ~Clean(published[n])
          /\ ~Clean(published[n]) => \E r \in Node : halted[r] /\ Clean(applied[r])
      BY <1>5, <1>11, SnapshotIsExact
    <2>3. CASE m = n
      <3>1. snap'[m].index = published[m] /\ snap'[m].data = store[m]
        BY <2>1, <2>3 DEF TypeOK
      <3>2. QED
        BY <1>5, <1>7, <2>1, <2>2, <2>3, <3>1 DEF PoisonReplica
    <2>4. CASE m # n
      <3>1. snap'[m] = snap[m]
        BY <2>1, <2>4 DEF TypeOK
      <3>2. QED
        BY <1>5, <1>7, <2>1, <3>1 DEF PoisonReplica
    <2>5. QED
      BY <2>3, <2>4
  <1>12. ASSUME NEW p \in Node, publishSnapshot(n, p)
         PROVE  PoisonReplica(m)'
    <2>1. /\ snap' = [snap EXCEPT ![n] = snap[p]] /\ ~halted[n]
          /\ store' = [store EXCEPT ![n] = snap[p].data]
          /\ applied' = [applied EXCEPT ![n] = snap[p].index]
          /\ halted' = halted
      BY <1>12 DEF publishSnapshot, recoverFromSnapshot
    <2>2. \A r \in Node : r # n => applied'[r] = applied[r] /\ snap'[r] = snap[r] /\ store'[r] = store[r]
      BY <2>1 DEF TypeOK
    <2>3. \A x \in Node : ~Clean(snap[x].index) => \E r \in Node : halted'[r] /\ Clean(applied'[r])
      BY <1>5, <2>1, <2>2 DEF PoisonReplica
    <2>4. CASE m = n
      <3>1. snap'[m] = snap[p] /\ store'[m] = snap[p].data /\ applied'[m] = snap[p].index
        BY <2>1, <2>4 DEF TypeOK
      <3>2. QED
        BY <1>5, <1>7, <2>1, <2>3, <2>4, <3>1 DEF PoisonReplica
    <2>5. CASE m # n
      BY <1>5, <1>7, <2>1, <2>2, <2>3, <2>5 DEF PoisonReplica
    <2>6. QED
      BY <2>4, <2>5
  <1>13. QED
    BY <1>8, <1>9, <1>10, <1>11, <1>12 DEF Replica

LEMMA CommitKeepsPoison ==
  ASSUME TypeOK, PoisonInv, NEW cmd \in Entry, log' = Append(log, cmd),
         UNCHANGED <<store, applied, halted, snap, hasty, restarts>>
  PROVE  PoisonInv'
  <1> SUFFICES ASSUME restarts = 0, ~hasty, NEW n \in Node PROVE PoisonReplica(n)'
    BY DEF PoisonInv
  <1>1. \A x \in Node : PoisonReplica(x)
    BY DEF PoisonInv
  <1>2. log \in Seq(Entry) /\ Len(log) \in Nat /\ Len(log') = Len(log) + 1
    BY DEF TypeOK
  <1>3. \A i \in 0..Len(log) : (Clean(i)' <=> Clean(i)) /\ \A k : ValueAt(k, i)' = ValueAt(k, i)
    BY <1>2, CleanStable, ValueStable
  <1>4. \A x \in Node : applied[x] \in 0..Len(log) /\ snap[x].index \in 0..Len(log)
    BY DEF TypeOK
  <1>5. \A x \in Node : Clean(applied[x])' <=> Clean(applied[x])
    BY <1>3, <1>4
  <1>6. Clean(snap[n].index)' <=> Clean(snap[n].index)
    BY <1>3, <1>4
  <1>7. halted[n] => applied[n] < Len(log') /\ (Clean(applied[n])' => ~Clean(applied[n] + 1)')
    <2>1. SUFFICES ASSUME halted[n]
                   PROVE  applied[n] < Len(log') /\ (Clean(applied[n])' => ~Clean(applied[n] + 1)')
      OBVIOUS
    <2>2. applied[n] < Len(log) /\ (Clean(applied[n]) => ~Clean(applied[n] + 1))
      BY <1>1, <2>1 DEF PoisonReplica
    <2>3. applied[n] + 1 \in 0..Len(log) /\ applied[n] < Len(log')
      BY <1>2, <1>4, <2>2
    <2>4. Clean(applied[n] + 1)' <=> Clean(applied[n] + 1)
      BY <1>3, <2>3
    <2>5. QED
      BY <1>5, <2>2, <2>3, <2>4
  <1>8. /\ Clean(applied[n])' => \A k \in Key : store[n][k] = ValueAt(k, applied[n])'
        /\ Clean(snap[n].index)' => \A k \in Key : snap[n].data[k] = ValueAt(k, snap[n].index)'
    <2>1. Exact(store[n], applied[n]) /\ Exact(snap[n].data, snap[n].index)
      BY <1>1 DEF PoisonReplica
    <2>2. \A k : ValueAt(k, applied[n])' = ValueAt(k, applied[n])
      BY <1>3, <1>4
    <2>3. \A k : ValueAt(k, snap[n].index)' = ValueAt(k, snap[n].index)
      BY <1>3, <1>4
    <2>4. QED
      BY <1>5, <1>6, <2>1, <2>2, <2>3 DEF Exact
  <1>9. ~Clean(snap[n].index)' => \E r \in Node : halted[r] /\ Clean(applied[r])'
    BY <1>1, <1>5, <1>6 DEF PoisonReplica
  <1>10. ~Clean(applied[n])' => ~Clean(snap[n].index)'
    BY <1>1, <1>5, <1>6 DEF PoisonReplica
  <1>11. QED
    BY <1>7, <1>8, <1>9, <1>10 DEF PoisonReplica, Exact

LEMMA PoisonStep == TypeOK /\ PoisonInv /\ [Next]_vars => PoisonInv'
  <1> SUFFICES ASSUME TypeOK, PoisonInv, [Next]_vars PROVE PoisonInv'
    OBVIOUS
  <1>1. ASSUME UNCHANGED <<log, store, applied, halted, snap, hasty, restarts>> PROVE PoisonInv'
    <2>1. \A i : Clean(i)' <=> Clean(i)
      BY <1>1, SameLog DEF Clean, Fails
    <2>2. QED
      BY <1>1, <2>1, SameLog DEF PoisonInv, PoisonReplica, Exact
  <1>2. ASSUME NEW c \in Caller, Handler(c) PROVE PoisonInv'
    BY <1>1, <1>2 DEF Handler, AckWrite, AckProbe, AckSweep, ContextDone, SetKV, UnsetKV,
                      GetKV, Range, Expire, raftVars
  <1>3. ASSUME NEW n \in Node, Replica(n) PROVE PoisonInv'
    BY <1>3, ReplicaKeepsPoison
  <1>4. ASSUME NEW cmd \in proposed, Commit(cmd) PROVE PoisonInv'
    BY <1>4, CommitKeepsPoison DEF Commit, raftVars, TypeOK, Entry
  <1>5. ASSUME NEW cmd \in proposed, Lose(cmd) PROVE PoisonInv'
    BY <1>1, <1>5 DEF Lose, raftVars
  <1>6. CASE Tick
    BY <1>1, <1>6 DEF Tick, raftVars
  <1>7. CASE CommitEmpty
    BY <1>7, CommitKeepsPoison DEF CommitEmpty, raftVars, Entry
  <1>8. CASE UNCHANGED vars
    BY <1>1, <1>8 DEF vars
  <1>9. QED
    BY <1>2, <1>3, <1>4, <1>5, <1>6, <1>7, <1>8 DEF Next

LEMMA PoisonInvUniform == TypeOK /\ PoisonInv => PoisonIsUniform
  <1> SUFFICES ASSUME TypeOK, PoisonInv, restarts = 0, ~hasty, NEW n \in Node, NEW m \in Node,
                      halted[n], \A r \in Node : halted[r] => applied[n] <= applied[r],
                      snap[m].index <= applied[n], ~(applied[m] <= applied[n])
               PROVE  FALSE
    BY DEF PoisonIsUniform
  <1>0. \A x \in Node : PoisonReplica(x) /\ applied[x] \in Nat /\ snap[x].index \in Nat
    BY DEF PoisonInv, TypeOK
  <1>1. Clean(applied[n])
    <2>1. SUFFICES ASSUME ~Clean(applied[n]) PROVE FALSE
      OBVIOUS
    <2>2. PICK r \in Node : halted[r] /\ Clean(applied[r])
      BY <1>0, <2>1 DEF PoisonReplica
    <2>3. applied[n] <= applied[r]
      BY <2>2
    <2>4. QED
      BY <1>0, <2>1, <2>2, <2>3, CleanPrefix
  <1>2. ~Clean(applied[n] + 1)
    BY <1>0, <1>1 DEF PoisonReplica
  <1>3. applied[n] + 1 <= applied[m] /\ applied[n] + 1 \in Nat
    BY <1>0
  <1>4. ~Clean(applied[m])
    BY <1>0, <1>2, <1>3, CleanPrefix
  <1>5. ~Clean(snap[m].index)
    BY <1>0, <1>4 DEF PoisonReplica
  <1>6. QED
    BY <1>0, <1>1, <1>5, CleanPrefix

\* Before any restart, and while every snapshot waited for the applier, the
\* first command that stops an applier stops them all.
THEOREM PoisonStopsAll == Spec => []PoisonIsUniform
  BY TypeCorrect, PoisonInit, PoisonStep, PoisonInvUniform, PTL DEF Spec

-----------------------------------------------------------------------------
(* One replica, before its first restart *)

\* Request ids are counted by each replica for itself, from zero after every
\* start, and the id alone selects the handler an outcome is for: what follows
\* holds for a store of one replica, and until it is started again.
Alone == \A n, m \in Node : n = m

Issued == proposed \cup {log[i] : i \in Committed}

\* Request ids tell the commands of a replica apart, and a write is
\* acknowledged when its own command has been applied.
AckInv ==
  /\ \A cmd \in Issued : \A n \in Node : cmd.id <= nextRequestID[n]
  /\ \A c \in Caller :
       /\ call[c].pc = "sweep" => call[c].req.op = "Range"
       /\ call[c].pc = "write" => \A cmd \in Issued : cmd.id = call[c].id => OwnCommand(c, cmd)
       /\ call[c].pc = "write" => \A n \in Node : call[c].id <= nextRequestID[n]
       /\ (call[c].pc = "write" /\ call[c].ack = "ok") \/ Acknowledged(c) =>
            \E i \in Committed : OwnCommand(c, log[i]) /\ \A n \in Node : i <= applied[n]

\* A handler's step either returns ...
Returning(c, new) ==
  /\ new \in ActiveCall /\ new.pc = "done"
  /\ call' = [call EXCEPT ![c] = new]
  /\ UNCHANGED <<nextRequestID, proposed>>
  /\ call[c].pc = "idle" => new.prior = Returned
  /\ call[c].pc # "idle" => new.req = call[c].req /\ new.prior = call[c].prior /\ new.node = call[c].node
  /\ call[c].pc # "done"
  /\ new.ack = "ok" /\ new.req.op \in {"SetKV", "UnsetKV"} =>
       call[c].pc = "write" /\ call[c].ack = "ok"

\* ... or proposes a command: a SET as its last one, or a removal it was asked
\* for or of a key that it has found expired.
Proposing(c, n, new, cmd) ==
  /\ n \in Node /\ new \in ActiveCall /\ cmd \in Command
  /\ call' = [call EXCEPT ![c] = new]
  /\ nextRequestID' = [nextRequestID EXCEPT ![n] = @ + 1]
  /\ proposed' = proposed \cup {cmd} \/ proposed' = proposed
  /\ cmd.id = nextRequestID[n] + 1 /\ cmd.caller = c
  /\ new.id = cmd.id /\ new.ack \in {"none", "err"} /\ new.node = n
  /\ call[c].pc = "idle" => new.prior = Returned
  /\ call[c].pc # "idle" => new.req = call[c].req /\ new.prior = call[c].prior
  /\ \/ /\ call[c].pc \in {"idle", "probe"} /\ new.pc = "write" /\ cmd.op = "SET"
        /\ new.req.op \in {"SetKV", "Expire"}
        /\ cmd.key = new.req.key /\ cmd.dir = new.req.dir /\ cmd.value.updatedAt = now
        /\ call[c].pc = "idle" /\ new.req.op = "SetKV" /\ ~new.req.overwrite =>
             Read(n, new.req.key, new.req.dir) = Empty
     \/ /\ call[c].pc = "idle" /\ new.pc = "write" /\ cmd.op = "UNSET"
        /\ new.req.op = "UnsetKV"
     \/ /\ call[c].pc = "idle" /\ new.pc = "probe" /\ cmd.op = "UNSET"
        /\ new.req.op \in {"SetKV", "GetKV", "Expire"}
        /\ cmd.key = new.req.key
        /\ \/ EntityExpired(Read(n, cmd.key, FALSE))
           \/ new.req.op = "SetKV" /\ new.req.dir /\ EntityExpired(Read(n, cmd.key, TRUE))
     \/ /\ new.pc = "sweep" /\ cmd.op = "UNSET" /\ new.req.op = "Range"
        /\ \A k \in new.todo \cup {cmd.key} :
             \/ call[c].pc = "idle" /\ EntityExpired(Read(n, k, FALSE))
             \/ call[c].pc = "sweep" /\ k \in call[c].todo

\* registerPending and propose, from a record with the new request.
LEMMA RegisterShape ==
  ASSUME TypeOK, NEW c \in Caller, NEW n \in Node, NEW rec \in ActiveCall, NEW cmd \in Command,
         registerAndPropose(rec, c, n, cmd)
  PROVE  \E new \in ActiveCall :
           /\ call' = [call EXCEPT ![c] = new]
           /\ nextRequestID' = [nextRequestID EXCEPT ![n] = @ + 1]
           /\ proposed' = proposed \cup {cmd} \/ proposed' = proposed
           /\ new.id = cmd.id /\ new.ack \in {"none", "err"}
           /\ new.pc = rec.pc /\ new.node = rec.node /\ new.req = rec.req
           /\ new.todo = rec.todo /\ new.prior = rec.prior
  <1>1. cmd.id \in Nat
    BY DEF Command
  <1>2. ASSUME NEW a \in {"none", "err"}
        PROVE  LET new == [rec EXCEPT !.id = cmd.id, !.ack = a] IN
               /\ new \in ActiveCall /\ new.id = cmd.id /\ new.ack = a
               /\ new.pc = rec.pc /\ new.node = rec.node /\ new.req = rec.req
               /\ new.todo = rec.todo /\ new.prior = rec.prior
    BY <1>1 DEF ActiveCall, Ack
  <1>3. /\ nextRequestID' = [nextRequestID EXCEPT ![n] = @ + 1]
        /\ \/ /\ proposed' = proposed \cup {cmd}
              /\ call' = [call EXCEPT ![c] = [rec EXCEPT !.id = cmd.id, !.ack = "none"]]
           \/ /\ proposed' = proposed
              /\ call' = [call EXCEPT ![c] = [rec EXCEPT !.id = cmd.id, !.ack = "err"]]
    BY DEF registerAndPropose
  <1>4. QED
    BY <1>2, <1>3

LEMMA ReturnShape ==
  ASSUME TypeOK, NEW c \in Caller, NEW rec \in ActiveCall, NEW result \in Ack, returns(rec, c, result),
         call[c].pc # "done",
         call[c].pc = "idle" => rec.prior = Returned,
         call[c].pc # "idle" => rec.req = call[c].req /\ rec.prior = call[c].prior /\ rec.node = call[c].node,
         result = "ok" /\ rec.req.op \in {"SetKV", "UnsetKV"} => call[c].pc = "write" /\ call[c].ack = "ok"
  PROVE  \E new : Returning(c, new)
  <1> DEFINE new == [rec EXCEPT !.pc = "done", !.ack = result]
  <1>1. /\ new \in ActiveCall /\ new.pc = "done" /\ new.ack = result
        /\ new.req = rec.req /\ new.prior = rec.prior /\ new.node = rec.node
    BY DEF ActiveCall
  <1>2. call' = [call EXCEPT ![c] = new] /\ UNCHANGED <<nextRequestID, proposed>>
    BY DEF returns
  <1> HIDE DEF new
  <1>3. Returning(c, new)
    BY <1>1, <1>2 DEF Returning
  <1>4. QED
    BY <1>3

LEMMA NewCallShape ==
  ASSUME NEW c, NEW n, NEW req, NEW pc, NEW todo
  PROVE  LET rec == NewCall(c, n, req, pc, todo) IN
         rec.pc = pc /\ rec.node = n /\ rec.req = req /\ rec.todo = todo /\ rec.prior = Returned
  BY DEF NewCall

\* doSetKV, the body SetKV and Expire share.
LEMMA DoSetKVShape ==
  ASSUME TypeOK, NEW c \in Caller, NEW n \in Node, NEW req \in WriteRequest,
         call[c].pc = "idle", doSetKV(c, n, req), req.op = "Expire" => ~req.dir
  PROVE  (\E new : Returning(c, new)) \/ (\E m, new, cmd : Proposing(c, m, new, cmd))
  <1> DEFINE rec == NewCall(c, n, req, "probe", {})
             last == Read(n, req.key, req.dir)
             u == UnsetCommand(n, c, req.key, FALSE)
             s == SetCommand(n, c, req.key, req.dir, NewEntityWithCreated(req.val, req.ttl))
             w == [rec EXCEPT !.pc = "write"]
  <1>1. req \in Request /\ req.key \in Key /\ req.dir \in BOOLEAN /\ req.val \in Val
        /\ req.ttl \in Nat \cup {Expired} /\ req.op \in {"SetKV", "Expire"} /\ req.overwrite \in BOOLEAN
    BY DEF WriteRequest, Request
  <1>2. rec \in ActiveCall
    BY <1>1, NewCallType
  <1>3. rec.pc = "probe" /\ rec.node = n /\ rec.req = req /\ rec.todo = {} /\ rec.prior = Returned
    BY NewCallShape
  <1>4. /\ w \in ActiveCall /\ w.pc = "write" /\ w.node = n /\ w.req = req /\ w.prior = Returned
    <2> HIDE DEF rec
    <2>1. QED
      BY <1>2, <1>3 DEF ActiveCall
  <1>5. /\ u \in Command /\ u.id = nextRequestID[n] + 1 /\ u.caller = c /\ u.op = "UNSET"
        /\ u.key = req.key
        /\ s \in Command /\ s.id = nextRequestID[n] + 1 /\ s.caller = c /\ s.op = "SET"
        /\ s.key = req.key /\ s.dir = req.dir /\ s.value.updatedAt = now
    <2>1. u \in Command
      BY <1>1, CommandType
    <2>2. s \in Command
      BY <1>1, CommandType
    <2>3. u.id = nextRequestID[n] + 1 /\ u.caller = c /\ u.op = "UNSET" /\ u.key = req.key
      BY DEF UnsetCommand
    <2>4. s.id = nextRequestID[n] + 1 /\ s.caller = c /\ s.op = "SET"
          /\ s.key = req.key /\ s.dir = req.dir /\ s.value.updatedAt = now
      BY DEF SetCommand, NewEntityWithCreated
    <2>5. QED
      BY <2>1, <2>2, <2>3, <2>4
  <1>6. \/ EntityExpired(last) /\ registerAndPropose(rec, c, n, u)
        \/ returns(rec, c, "exists")
        \/ /\ last = Empty \/ req.overwrite
           /\ registerAndPropose(w, c, n, s)
    BY DEF doSetKV, proposeSet
  <1> HIDE DEF rec, u, s, w
  <1>7. CASE EntityExpired(last) /\ registerAndPropose(rec, c, n, u)
    <2>1. PICK new \in ActiveCall :
           /\ call' = [call EXCEPT ![c] = new]
           /\ nextRequestID' = [nextRequestID EXCEPT ![n] = @ + 1]
           /\ proposed' = proposed \cup {u} \/ proposed' = proposed
           /\ new.id = u.id /\ new.ack \in {"none", "err"}
           /\ new.pc = rec.pc /\ new.node = rec.node /\ new.req = rec.req
           /\ new.todo = rec.todo /\ new.prior = rec.prior
      BY <1>2, <1>5, <1>7, RegisterShape
    <2>2. EntityExpired(Read(n, req.key, FALSE)) \/ (req.op = "SetKV" /\ req.dir /\ EntityExpired(Read(n, req.key, TRUE)))
      BY <1>1, <1>7
    <2>3. Proposing(c, n, new, u)
      BY <1>1, <1>3, <1>5, <2>1, <2>2 DEF Proposing
    <2>4. QED
      BY <2>3
  <1>8. CASE returns(rec, c, "exists")
    BY <1>2, <1>3, <1>8, ReturnShape DEF Ack
  <1>9. CASE /\ last = Empty \/ req.overwrite
             /\ registerAndPropose(w, c, n, s)
    <2>1. PICK new \in ActiveCall :
           /\ call' = [call EXCEPT ![c] = new]
           /\ nextRequestID' = [nextRequestID EXCEPT ![n] = @ + 1]
           /\ proposed' = proposed \cup {s} \/ proposed' = proposed
           /\ new.id = s.id /\ new.ack \in {"none", "err"}
           /\ new.pc = w.pc /\ new.node = w.node /\ new.req = w.req
           /\ new.todo = w.todo /\ new.prior = w.prior
      BY <1>4, <1>5, <1>9, RegisterShape
    <2>2. Proposing(c, n, new, s)
      BY <1>1, <1>4, <1>5, <1>9, <2>1 DEF Proposing
    <2>3. QED
      BY <2>2
  <1>10. QED
    BY <1>6, <1>7, <1>8, <1>9

\* Every step of a handler has one of the two shapes and touches nothing else.
LEMMA HandlerShape ==
  ASSUME TypeOK, NEW c \in Caller, Handler(c), call[c].pc = "sweep" => call[c].req.op = "Range"
  PROVE  /\ UNCHANGED <<now, log, store, raftVars, restarts>>
         /\ (\E new : Returning(c, new)) \/ (\E n, new, cmd : Proposing(c, n, new, cmd))
  <1>0. UNCHANGED <<now, log, store, raftVars, restarts>>
    BY DEF Handler, AckWrite, AckProbe, AckSweep, ContextDone, SetKV, UnsetKV, GetKV, Range, Expire
  <1>1. ASSUME NEW n \in Node, SetKV(c, n)
        PROVE  (\E new : Returning(c, new)) \/ (\E m, new, cmd : Proposing(c, m, new, cmd))
    <2>1. PICK req \in SetRequest : doSetKV(c, n, req)
      BY <1>1 DEF SetKV
    <2>2. req \in WriteRequest /\ req.op = "SetKV" /\ call[c].pc = "idle"
      BY <1>1, ConstAssumption DEF SetRequest, WriteRequest, SetKV
    <2>3. QED
      BY <2>1, <2>2, DoSetKVShape
  <1>2. ASSUME NEW n \in Node, UnsetKV(c, n)
        PROVE  (\E new : Returning(c, new)) \/ (\E m, new, cmd : Proposing(c, m, new, cmd))
    <2>1. PICK req \in [op : {"UnsetKV"}, key : Key, dir : DirFlags] :
            registerAndPropose(NewCall(c, n, req, "write", {}), c, n,
                               UnsetCommand(n, c, req.key, req.dir))
      BY <1>2 DEF UnsetKV
    <2>2. req \in Request /\ req.key \in Key /\ req.dir \in BOOLEAN /\ req.op = "UnsetKV"
          /\ call[c].pc = "idle"
      BY <1>2, ConstAssumption DEF Request, UnsetKV
    <2> DEFINE rec == NewCall(c, n, req, "write", {})
               u == UnsetCommand(n, c, req.key, req.dir)
    <2>3. rec \in ActiveCall
      BY <2>2, NewCallType
    <2>4. rec.pc = "write" /\ rec.node = n /\ rec.req = req /\ rec.prior = Returned
      BY NewCallShape
    <2>5. u \in Command /\ u.id = nextRequestID[n] + 1 /\ u.caller = c /\ u.op = "UNSET"
      <3>1. u \in Command
        BY <2>2, CommandType
      <3>2. QED
        BY <3>1 DEF UnsetCommand
    <2> HIDE DEF rec, u
    <2>6. registerAndPropose(rec, c, n, u)
      BY <2>1 DEF rec, u
    <2>7. PICK new \in ActiveCall :
           /\ call' = [call EXCEPT ![c] = new]
           /\ nextRequestID' = [nextRequestID EXCEPT ![n] = @ + 1]
           /\ proposed' = proposed \cup {u} \/ proposed' = proposed
           /\ new.id = u.id /\ new.ack \in {"none", "err"}
           /\ new.pc = rec.pc /\ new.node = rec.node /\ new.req = rec.req
           /\ new.todo = rec.todo /\ new.prior = rec.prior
      BY <2>3, <2>5, <2>6, RegisterShape
    <2>8. Proposing(c, n, new, u)
      BY <2>2, <2>4, <2>5, <2>7 DEF Proposing
    <2>9. QED
      BY <2>8
  <1>3. ASSUME NEW n \in Node, GetKV(c, n)
        PROVE  (\E new : Returning(c, new)) \/ (\E m, new, cmd : Proposing(c, m, new, cmd))
    <2> DEFINE req(k) == [op |-> "GetKV", key |-> k]
               rec(k) == NewCall(c, n, req(k), "probe", {})
               u(k) == UnsetCommand(n, c, k, FALSE)
    <2>1. PICK k \in Key :
            \/ EntityExpired(Read(n, k, FALSE)) /\ registerAndPropose(rec(k), c, n, u(k))
            \/ \E result \in Ack : returns(rec(k), c, result)
      BY <1>3 DEF GetKV, ReadResult, Ack
    <2>2. req(k) \in Request /\ req(k).op = "GetKV" /\ req(k).key = k /\ call[c].pc = "idle"
      BY <1>3 DEF Request, GetKV
    <2>3. rec(k) \in ActiveCall
      BY <2>2, NewCallType
    <2>4. rec(k).pc = "probe" /\ rec(k).node = n /\ rec(k).req = req(k) /\ rec(k).prior = Returned
      BY NewCallShape
    <2>5. u(k) \in Command /\ u(k).id = nextRequestID[n] + 1 /\ u(k).caller = c /\ u(k).op = "UNSET"
          /\ u(k).key = k
      <3>1. u(k) \in Command
        BY CommandType
      <3>2. QED
        BY <3>1 DEF UnsetCommand
    <2> HIDE DEF rec, u, req
    <2>6. CASE EntityExpired(Read(n, k, FALSE)) /\ registerAndPropose(rec(k), c, n, u(k))
      <3>1. PICK new \in ActiveCall :
           /\ call' = [call EXCEPT ![c] = new]
           /\ nextRequestID' = [nextRequestID EXCEPT ![n] = @ + 1]
           /\ proposed' = proposed \cup {u(k)} \/ proposed' = proposed
           /\ new.id = u(k).id /\ new.ack \in {"none", "err"}
           /\ new.pc = rec(k).pc /\ new.node = rec(k).node /\ new.req = rec(k).req
           /\ new.todo = rec(k).todo /\ new.prior = rec(k).prior
        BY <2>3, <2>5, <2>6, RegisterShape
      <3>2. Proposing(c, n, new, u(k))
        BY <2>2, <2>4, <2>5, <2>6, <3>1 DEF Proposing
      <3>3. QED
        BY <3>2
    <2>7. CASE \E result \in Ack : returns(rec(k), c, result)
      BY <2>2, <2>3, <2>4, <2>7, ReturnShape
    <2>8. QED
      BY <2>1, <2>6, <2>7
  <1>4. ASSUME NEW n \in Node, Range(c, n)
        PROVE  (\E new : Returning(c, new)) \/ (\E m, new, cmd : Proposing(c, m, new, cmd))
    <2> DEFINE req == [op |-> "Range"]
               rec(todo) == NewCall(c, n, req, "sweep", todo)
               u(k) == UnsetCommand(n, c, k, FALSE)
               keys == {k \in Key : EntityExpired(Read(n, k, FALSE))}
    <2>1. \/ returns(rec({}), c, "ok")
          \/ \E k \in keys : registerAndPropose(rec(keys \ {k}), c, n, u(k))
      BY <1>4 DEF Range
    <2>2. req \in Request /\ req.op = "Range" /\ call[c].pc = "idle"
      BY <1>4 DEF Request, Range
    <2>3. \A todo \in SUBSET Key : rec(todo) \in ActiveCall
      BY <2>2, NewCallType
    <2>4. \A todo : /\ rec(todo).pc = "sweep" /\ rec(todo).node = n /\ rec(todo).req = req
                    /\ rec(todo).todo = todo /\ rec(todo).prior = Returned
      BY NewCallShape
    <2>5. \A k \in Key : u(k) \in Command /\ u(k).id = nextRequestID[n] + 1 /\ u(k).caller = c
                         /\ u(k).op = "UNSET" /\ u(k).key = k
      <3>1. \A k \in Key : u(k) \in Command
        BY CommandType
      <3>2. QED
        BY <3>1 DEF UnsetCommand
    <2>6. keys \subseteq Key /\ \A k \in keys : EntityExpired(Read(n, k, FALSE))
      OBVIOUS
    <2> HIDE DEF rec, u, req, keys
    <2>7. CASE returns(rec({}), c, "ok")
      BY <2>2, <2>3, <2>4, <2>7, ReturnShape DEF Ack
    <2>8. ASSUME NEW k \in keys, registerAndPropose(rec(keys \ {k}), c, n, u(k))
          PROVE  \E m, new, cmd : Proposing(c, m, new, cmd)
      <3> DEFINE r == rec(keys \ {k})
      <3>0. keys \ {k} \in SUBSET Key /\ k \in Key
        BY <2>6
      <3>1. r \in ActiveCall /\ r.pc = "sweep" /\ r.node = n /\ r.req = req
            /\ r.todo = keys \ {k} /\ r.prior = Returned
        BY <2>3, <2>4, <3>0
      <3> HIDE DEF r
      <3>2. registerAndPropose(r, c, n, u(k))
        BY <2>8 DEF r
      <3>3. PICK new \in ActiveCall :
           /\ call' = [call EXCEPT ![c] = new]
           /\ nextRequestID' = [nextRequestID EXCEPT ![n] = @ + 1]
           /\ proposed' = proposed \cup {u(k)} \/ proposed' = proposed
           /\ new.id = u(k).id /\ new.ack \in {"none", "err"}
           /\ new.pc = r.pc /\ new.node = r.node /\ new.req = r.req
           /\ new.todo = r.todo /\ new.prior = r.prior
        BY <2>5, <3>0, <3>1, <3>2, RegisterShape
      <3>4. \A x \in new.todo \cup {u(k).key} : call[c].pc = "idle" /\ EntityExpired(Read(n, x, FALSE))
        BY <2>2, <2>5, <2>6, <3>0, <3>1, <3>3
      <3>5. Proposing(c, n, new, u(k))
        BY <2>2, <2>5, <3>0, <3>1, <3>3, <3>4 DEF Proposing
      <3>6. QED
        BY <3>5
    <2>9. QED
      BY <2>1, <2>7, <2>8
  <1>5. ASSUME NEW n \in Node, Expire(c, n)
        PROVE  (\E new : Returning(c, new)) \/ (\E m, new, cmd : Proposing(c, m, new, cmd))
    <2> DEFINE v(k) == Read(n, k, FALSE)
               plain(k) == [op |-> "Expire", key |-> k]
               rewrite(k) == [op |-> "Expire", key |-> k, dir |-> FALSE, val |-> v(k).val,
                              ttl |-> Expired, overwrite |-> TRUE]
    <2>1. PICK k \in Key :
            \/ \E result \in {"ok", "err"} : returns(NewCall(c, n, plain(k), "done", {}), c, result)
            \/ v(k).kind = "kv" /\ doSetKV(c, n, rewrite(k))
      BY <1>5 DEF Expire
    <2>2. CASE \E result \in {"ok", "err"} : returns(NewCall(c, n, plain(k), "done", {}), c, result)
      <3> DEFINE rec == NewCall(c, n, plain(k), "done", {})
      <3>1. plain(k) \in Request /\ plain(k).op = "Expire" /\ call[c].pc = "idle"
        BY <1>5 DEF Request, Expire
      <3>2. rec \in ActiveCall
        BY <3>1, NewCallType
      <3>3. rec.req = plain(k) /\ rec.prior = Returned
        BY NewCallShape
      <3> HIDE DEF rec, plain
      <3>4. PICK result \in Ack : returns(rec, c, result)
        BY <2>2 DEF rec, Ack
      <3>5. QED
        BY <3>1, <3>2, <3>3, <3>4, ReturnShape
    <2>3. CASE v(k).kind = "kv" /\ doSetKV(c, n, rewrite(k))
      <3>1. v(k) \in Cell
        BY DEF TypeOK, Read, Cell
      <3>2. v(k).val \in Val
        BY <2>3, <3>1, KvCell
      <3>3. rewrite(k) \in WriteRequest /\ ~rewrite(k).dir /\ call[c].pc = "idle"
        BY <1>5, <3>2 DEF WriteRequest, Expire
      <3>4. QED
        BY <2>3, <3>3, DoSetKVShape
    <2>4. QED
      BY <2>1, <2>2, <2>3
  <1>6. ASSUME call[c].pc # "idle"
        PROVE  /\ call[c] \in ActiveCall /\ call[c].node \in Node /\ call[c].todo \in SUBSET Key
               /\ call[c].ack \in Ack
    <2>1. call[c] \in ActiveCall
      BY <1>6 DEF TypeOK, Call, IdleCall
    <2>2. QED
      BY <2>1 DEF ActiveCall
  <1>7. CASE AckWrite(c) \/ ContextDone(c)
    <2>1. PICK result \in Ack : /\ returns(call[c], c, result) /\ call[c].pc = "write"
                                /\ result = "ok" => call[c].ack = "ok"
      BY <1>6, <1>7 DEF AckWrite, ContextDone, Ack
    <2>2. call[c] \in ActiveCall
      BY <1>6, <2>1
    <2>3. QED
      BY <1>0, <2>1, <2>2, ReturnShape
  <1>8. CASE AckProbe(c)
    <2>1. CASE returns(call[c], c, "notfound")
      BY <1>0, <1>6, <1>8, <2>1, ReturnShape DEF AckProbe, Ack
    <2>2. CASE call[c].req.op # "GetKV" /\ proposeSet(call[c], c, call[c].node, call[c].req)
      <3> DEFINE req == call[c].req
                 n == call[c].node
                 w == [call[c] EXCEPT !.pc = "write"]
                 s == SetCommand(n, c, req.key, req.dir, NewEntityWithCreated(req.val, req.ttl))
      <3>1. call[c].pc = "probe" /\ call[c] \in ActiveCall /\ n \in Node
        BY <1>6, <1>8 DEF AckProbe
      <3>2. req \in WriteRequest
        BY <2>2, <3>1 DEF ActiveCall
      <3>3. req.key \in Key /\ req.dir \in BOOLEAN /\ req.val \in Val
            /\ req.ttl \in Nat \cup {Expired} /\ req.op \in {"SetKV", "Expire"}
        BY <3>2 DEF WriteRequest
      <3>4. s \in Command /\ s.id = nextRequestID[n] + 1 /\ s.caller = c /\ s.op = "SET"
            /\ s.key = req.key /\ s.dir = req.dir /\ s.value.updatedAt = now
        <4>1. s \in Command
          BY <3>1, <3>3, CommandType
        <4>2. QED
          BY <4>1 DEF SetCommand, NewEntityWithCreated
      <3>5. w \in ActiveCall /\ w.pc = "write" /\ w.node = n /\ w.req = req /\ w.prior = call[c].prior
        BY <3>1 DEF ActiveCall
      <3>6. registerAndPropose(w, c, n, s)
        BY <2>2 DEF proposeSet
      <3> HIDE DEF w, s
      <3>7. PICK new \in ActiveCall :
           /\ call' = [call EXCEPT ![c] = new]
           /\ nextRequestID' = [nextRequestID EXCEPT ![n] = @ + 1]
           /\ proposed' = proposed \cup {s} \/ proposed' = proposed
           /\ new.id = s.id /\ new.ack \in {"none", "err"}
           /\ new.pc = w.pc /\ new.node = w.node /\ new.req = w.req
           /\ new.todo = w.todo /\ new.prior = w.prior
        BY <3>1, <3>4, <3>5, <3>6, RegisterShape
      <3>8. Proposing(c, n, new, s)
        BY <3>1, <3>3, <3>4, <3>5, <3>7 DEF Proposing
      <3>9. \E m, y, cmd : Proposing(c, m, y, cmd)
        BY <3>8
      <3>10. QED
        BY <1>0, <3>9
    <2>3. QED
      BY <1>8, <2>1, <2>2 DEF AckProbe
  <1>9. CASE AckSweep(c)
    <2>0. call[c].pc = "sweep" /\ call[c] \in ActiveCall /\ call[c].node \in Node /\ call[c].req.op = "Range"
      BY <1>6, <1>9 DEF AckSweep
    <2>1. CASE returns(call[c], c, "ok")
      <3>1. "ok" \in Ack /\ call[c].req.op \notin {"SetKV", "UnsetKV"} /\ call[c].pc \notin {"done", "idle"}
        BY <2>0 DEF Ack
      <3>2. QED
        BY <1>0, <2>0, <2>1, <3>1, ReturnShape
    <2>2. ASSUME NEW k \in call[c].todo,
                 registerAndPropose([call[c] EXCEPT !.todo = @ \ {k}], c, call[c].node,
                                    UnsetCommand(call[c].node, c, k, FALSE))
          PROVE  \E n, new, cmd : Proposing(c, n, new, cmd)
      <3> DEFINE n == call[c].node
                 w == [call[c] EXCEPT !.todo = @ \ {k}]
                 u == UnsetCommand(n, c, k, FALSE)
      <3>1. w \in ActiveCall /\ w.pc = "sweep" /\ w.node = n /\ w.req = call[c].req
            /\ w.prior = call[c].prior /\ w.todo \subseteq call[c].todo /\ k \in Key
        BY <1>6, <2>0 DEF ActiveCall
      <3>2. u \in Command /\ u.id = nextRequestID[n] + 1 /\ u.caller = c /\ u.op = "UNSET" /\ u.key = k
        <4>1. u \in Command
          BY <2>0, <3>1, CommandType
        <4>2. QED
          BY <4>1 DEF UnsetCommand
      <3> HIDE DEF w, u
      <3>3. registerAndPropose(w, c, n, u)
        BY <2>2 DEF w, u
      <3>4. PICK new \in ActiveCall :
           /\ call' = [call EXCEPT ![c] = new]
           /\ nextRequestID' = [nextRequestID EXCEPT ![n] = @ + 1]
           /\ proposed' = proposed \cup {u} \/ proposed' = proposed
           /\ new.id = u.id /\ new.ack \in {"none", "err"}
           /\ new.pc = w.pc /\ new.node = w.node /\ new.req = w.req
           /\ new.todo = w.todo /\ new.prior = w.prior
        BY <2>0, <3>1, <3>2, <3>3, RegisterShape
      <3>5. \A x \in new.todo \cup {u.key} : x \in call[c].todo
        BY <2>2, <3>1, <3>2, <3>4
      <3>6. Proposing(c, n, new, u)
        BY <2>0, <3>1, <3>2, <3>4, <3>5 DEF Proposing
      <3>7. QED
        BY <3>6
    <2>3. QED
      BY <1>0, <1>9, <2>1, <2>2 DEF AckSweep
  <1>10. QED
    BY <1>0, <1>1, <1>2, <1>3, <1>4, <1>5, <1>7, <1>8, <1>9 DEF Handler

\* The committed commands are commands, and stay where they are.
LEMMA CommittedType ==
  ASSUME TypeOK
  PROVE  /\ Committed \subseteq 1..Len(log) /\ Committed \subseteq Nat /\ Len(log) \in Nat
         /\ \A i \in Committed : log[i] \in Command /\ log[i] \in Issued
         /\ Issued \subseteq Command
  <1>1. log \in Seq(Entry) /\ proposed \subseteq Command
    BY DEF TypeOK
  <1>2. Committed \subseteq 1..Len(log) /\ Committed \subseteq Nat /\ Len(log) \in Nat
    BY <1>1 DEF Committed
  <1>3. \A i \in Committed : log[i] \in Command
    BY <1>1 DEF Committed, Entry
  <1>4. QED
    BY <1>1, <1>2, <1>3 DEF Issued

\* A commit adds one entry at the end, and a command that was proposed.
LEMMA CommittedGrows ==
  ASSUME TypeOK, NEW e \in Entry, log' = Append(log, e)
  PROVE  /\ \A i \in Committed : log'[i] = log[i] /\ i \in Committed'
         /\ Len(log') = Len(log) + 1
         /\ Committed' = Committed \cup (IF e = Noop THEN {} ELSE {Len(log) + 1})
         /\ log'[Len(log) + 1] = e
  <1>1. log \in Seq(Entry) /\ Len(log) \in Nat
    BY DEF TypeOK
  <1>2. /\ Len(log') = Len(log) + 1 /\ log'[Len(log) + 1] = e
        /\ \A i \in 1..Len(log) : log'[i] = log[i]
        /\ DOMAIN log' = 1..(Len(log) + 1) /\ DOMAIN log = 1..Len(log)
    BY <1>1
  <1>3. 1..(Len(log) + 1) = (1..Len(log)) \cup {Len(log) + 1}
    BY <1>1
  <1>4. Committed' = {i \in DOMAIN log' : log'[i] # Noop} /\ Committed = {i \in DOMAIN log : log[i] # Noop}
    BY DEF Committed, Noop
  <1>5. QED
    BY <1>2, <1>3, <1>4

\* What each step that is not a handler's does to the commands.
LEMMA IssuedCommit ==
  ASSUME TypeOK, NEW cmd \in proposed, Commit(cmd)
  PROVE  Issued' = Issued /\ cmd \in Command /\ cmd # Noop
  <1>1. cmd \in Command /\ cmd \in Entry
    BY DEF TypeOK, Entry
  <1>2. cmd # Noop
    BY <1>1 DEF Command, Noop
  <1>3. log' = Append(log, cmd) /\ proposed' = proposed \ {cmd}
    BY DEF Commit
  <1>4. /\ \A i \in Committed : log'[i] = log[i]
        /\ Committed' = Committed \cup {Len(log) + 1}
        /\ log'[Len(log) + 1] = cmd
    BY <1>1, <1>2, <1>3, CommittedGrows
  <1>5. {log'[i] : i \in Committed'} = {log[i] : i \in Committed} \cup {cmd}
    BY <1>4
  <1>6. QED
    BY <1>1, <1>2, <1>3, <1>5 DEF Issued

\* A single replica receives no snapshot.
LEMMA NoSnapshotReceived ==
  ASSUME TypeOK, Alone, NEW n \in Node, NEW m \in Node
  PROVE  ~publishSnapshot(n, m)
  <1>1. m = n
    BY DEF Alone
  <1>2. snap[n].index <= published[n] /\ snap[n].index \in Nat /\ published[n] \in Nat
    BY DEF TypeOK
  <1>3. QED
    BY <1>1, <1>2 DEF publishSnapshot

\* The outcome of a command reaches handlers that wait, and changes nothing of
\* them but the outcome.
LEMMA ResolveShape ==
  ASSUME TypeOK, NEW n \in Node, NEW id, NEW ack, resolvePending(n, id, ack), NEW c \in Caller
  PROVE  \/ call'[c] = call[c]
         \/ /\ Pending(c, n, id)
            /\ call'[c].ack = ack
            /\ call'[c].pc = call[c].pc /\ call'[c].id = call[c].id /\ call'[c].node = call[c].node
            /\ call'[c].req = call[c].req /\ call'[c].todo = call[c].todo /\ call'[c].prior = call[c].prior
  <1>1. call'[c] = IF Pending(c, n, id) THEN [call[c] EXCEPT !.ack = ack] ELSE call[c]
    BY DEF resolvePending
  <1>2. CASE Pending(c, n, id)
    <2>1. call[c] \in ActiveCall
      BY <1>2 DEF TypeOK, Call, IdleCall, Pending, Waiting
    <2>2. QED
      BY <1>1, <1>2, <2>1 DEF ActiveCall
  <1>3. QED
    BY <1>1, <1>2

\* One command is applied: the step in full.
LEMMA ApplyShape ==
  ASSUME TypeOK, NEW n \in Node, applyMutateLogEntry(n)
  PROVE  \E cmd \in Command :
           /\ cmd = log[applied[n] + 1] /\ applied[n] + 1 \in Committed /\ applied[n] < published[n]
           /\ UNCHANGED <<now, log, proposed, nextRequestID, restarts>>
           /\ \/ /\ Fails(cmd, store[n][cmd.key]) /\ UNCHANGED <<store, applied>>
                 /\ resolvePending(n, cmd.id, "err")
              \/ /\ ~Fails(cmd, store[n][cmd.key])
                 /\ store' = [store EXCEPT ![n][cmd.key] = Effect(cmd)]
                 /\ applied' = [applied EXCEPT ![n] = @ + 1]
                 /\ resolvePending(n, cmd.id, "ok")
  <1> DEFINE cmd == log[applied[n] + 1]
  <1>1. applied[n] + 1 \in 1..Len(log) /\ applied[n] < published[n] /\ cmd # Noop
    BY DEF TypeOK, applyMutateLogEntry
  <1>2. cmd \in Command /\ applied[n] + 1 \in Committed
    BY <1>1 DEF TypeOK, Entry, Committed
  <1>3. QED
    BY <1>1, <1>2 DEF applyMutateLogEntry, ApplyFails

LEMMA AckInit == Init => AckInv
  <1> SUFFICES ASSUME Init PROVE AckInv
    OBVIOUS
  <1>1. Committed = {} /\ Issued = {}
    BY DEF Init, Committed, Issued
  <1>2. \A c \in Caller : call[c].pc = "idle"
    BY DEF Init, IdleCall
  <1>3. QED
    BY <1>1, <1>2 DEF AckInv, Acknowledged

\* The parts of AckInv.
AckIds == \A cmd \in Issued : \A n \in Node : cmd.id <= nextRequestID[n]
AckCaller(c) ==
  /\ call[c].pc = "sweep" => call[c].req.op = "Range"
  /\ call[c].pc = "write" => \A cmd \in Issued : cmd.id = call[c].id => OwnCommand(c, cmd)
  /\ call[c].pc = "write" => \A n \in Node : call[c].id <= nextRequestID[n]
  /\ (call[c].pc = "write" /\ call[c].ack = "ok") \/ Acknowledged(c) =>
       \E i \in Committed : OwnCommand(c, log[i]) /\ \A n \in Node : i <= applied[n]

LEMMA HandlerKeepsAck ==
  ASSUME TypeOK, Alone, AckInv, NEW c \in Caller, Handler(c)
  PROVE  AckInv'
  <1>0. AckIds /\ \A p \in Caller : AckCaller(p)
    BY DEF AckInv, AckIds, AckCaller
  <1>1. UNCHANGED <<log, applied>> /\ Committed' = Committed
        /\ ((\E new : Returning(c, new)) \/ (\E n, new, cmd : Proposing(c, n, new, cmd)))
    BY <1>0, HandlerShape DEF AckCaller, raftVars, Committed
  <1>2. ASSUME NEW new, Returning(c, new) PROVE AckInv'
    <2>1. /\ Issued' = Issued /\ UNCHANGED nextRequestID
          /\ call'[c] = new /\ \A p \in Caller \ {c} : call'[p] = call[p]
      BY <1>1, <1>2 DEF Returning, Issued, TypeOK
    <2>2. AckIds'
      BY <1>0, <2>1 DEF AckIds
    <2>3. ASSUME NEW p \in Caller, p # c PROVE AckCaller(p)'
      BY <1>0, <1>1, <2>1, <2>3 DEF AckCaller, Acknowledged, OwnCommand
    <2>4. AckCaller(c)'
      <3>1. SUFFICES ASSUME Acknowledged(c)'
                     PROVE  \E i \in Committed' : OwnCommand(c, log[i])' /\ \A n \in Node : i <= applied'[n]
        BY <1>2, <2>1 DEF Returning, AckCaller
      <3>2. call[c].pc = "write" /\ call[c].ack = "ok" /\ new.req = call[c].req
        BY <1>2, <2>1, <3>1 DEF Returning, Acknowledged
      <3>3. PICK i \in Committed : OwnCommand(c, log[i]) /\ \A n \in Node : i <= applied[n]
        BY <1>0, <3>2 DEF AckCaller
      <3>4. OwnCommand(c, log[i])'
        BY <1>1, <2>1, <3>2, <3>3 DEF OwnCommand
      <3>5. QED
        BY <1>1, <3>3, <3>4
    <2>5. QED
      BY <2>2, <2>3, <2>4 DEF AckInv, AckIds, AckCaller
  <1>3. ASSUME NEW n, NEW new, NEW cmd, Proposing(c, n, new, cmd) PROVE AckInv'
    <2>1. /\ Issued' \subseteq Issued \cup {cmd} /\ n \in Node /\ \A m \in Node : m = n
          /\ call'[c] = new /\ \A p \in Caller \ {c} : call'[p] = call[p]
          /\ nextRequestID[n] \in Nat /\ nextRequestID'[n] = nextRequestID[n] + 1
          /\ cmd.id = nextRequestID[n] + 1 /\ new.id = cmd.id
      BY <1>1, <1>3 DEF Proposing, Issued, TypeOK, Alone
    <2>2. \A x \in Issued : x.id \in Nat /\ x.id <= nextRequestID[n]
      BY <1>0, <2>1, CommittedType DEF AckIds, Command
    <2>3. AckIds'
      BY <2>1, <2>2 DEF AckIds
    <2>4. ASSUME NEW p \in Caller, p # c PROVE AckCaller(p)'
      <3>1. call'[p] = call[p] /\ AckCaller(p)
        BY <1>0, <2>1, <2>4
      <3>2. call[p].pc = "write" => call[p].id \in Nat /\ call[p].id <= nextRequestID[n]
        <4>1. call[p].pc = "write" => call[p] \in ActiveCall
          BY DEF TypeOK, Call, IdleCall
        <4>2. QED
          BY <2>1, <3>1, <4>1 DEF AckCaller, ActiveCall
      <3>3. ASSUME call[p].pc = "write", NEW x \in Issued', x.id = call[p].id PROVE OwnCommand(p, x)'
        <4>1. x \in Issued
          BY <2>1, <3>2, <3>3
        <4>2. OwnCommand(p, x)
          BY <3>1, <3>3, <4>1 DEF AckCaller
        <4>3. QED
          BY <3>1, <4>2 DEF OwnCommand
      <3>4. call'[p].pc = "write" => \A m \in Node : call'[p].id <= nextRequestID'[m]
        BY <2>1, <3>1, <3>2
      <3>5. (call[p].pc = "write" /\ call[p].ack = "ok") \/ Acknowledged(p) =>
              \E i \in Committed' : OwnCommand(p, log[i])' /\ \A m \in Node : i <= applied'[m]
        BY <1>1, <3>1 DEF AckCaller, OwnCommand
      <3>6. Acknowledged(p)' <=> Acknowledged(p)
        BY <3>1 DEF Acknowledged
      <3>7. QED
        BY <3>1, <3>3, <3>4, <3>5, <3>6 DEF AckCaller
    <2>5. AckCaller(c)'
      <3>1. new.pc # "done" /\ new.ack # "ok" /\ (new.pc = "sweep" => new.req.op = "Range")
        BY <1>3 DEF Proposing
      <3>2. ASSUME new.pc = "write", NEW x \in Issued', x.id = new.id PROVE OwnCommand(c, x)'
        <4>1. x = cmd
          BY <2>1, <2>2, <3>2
        <4>2. cmd.caller = c /\ cmd.op = (IF new.req.op = "UnsetKV" THEN "UNSET" ELSE "SET")
          BY <1>3, <3>2 DEF Proposing
        <4>3. QED
          BY <2>1, <4>1, <4>2 DEF OwnCommand
      <3>3. \A m \in Node : new.id <= nextRequestID'[m]
        BY <2>1
      <3>4. QED
        BY <2>1, <3>1, <3>2, <3>3 DEF AckCaller, Acknowledged
    <2>6. QED
      BY <2>3, <2>4, <2>5 DEF AckInv, AckIds, AckCaller
  <1>4. QED
    BY <1>1, <1>2, <1>3

LEMMA ApplyKeepsAck ==
  ASSUME TypeOK, Alone, AckInv, NEW n \in Node, applyMutateLogEntry(n)
  PROVE  AckInv'
  <1>0. AckIds /\ \A p \in Caller : AckCaller(p)
    BY DEF AckInv, AckIds, AckCaller
  <1>1. PICK cmd \in Command :
           /\ cmd = log[applied[n] + 1] /\ applied[n] + 1 \in Committed /\ applied[n] < published[n]
           /\ UNCHANGED <<now, log, proposed, nextRequestID, restarts>>
           /\ \/ /\ Fails(cmd, store[n][cmd.key]) /\ UNCHANGED <<store, applied>>
                 /\ resolvePending(n, cmd.id, "err")
              \/ /\ ~Fails(cmd, store[n][cmd.key])
                 /\ store' = [store EXCEPT ![n][cmd.key] = Effect(cmd)]
                 /\ applied' = [applied EXCEPT ![n] = @ + 1]
                 /\ resolvePending(n, cmd.id, "ok")
    BY ApplyShape
  <1>2. Committed' = Committed /\ Issued' = Issued /\ cmd \in Issued
    BY <1>1, CommittedType DEF Committed, Issued
  <1>3. applied[n] \in Nat /\ (applied'[n] = applied[n] \/ applied'[n] = applied[n] + 1) /\ \A m \in Node : m = n
    BY <1>1 DEF TypeOK, Alone
  <1>4. AckIds'
    BY <1>0, <1>1, <1>2 DEF AckIds
  <1>5. ASSUME NEW c \in Caller PROVE AckCaller(c)'
    <2>1. call'[c].pc = call[c].pc /\ call'[c].id = call[c].id /\ call'[c].req = call[c].req
      BY <1>1, ResolveShape
    <2>2. \A x : OwnCommand(c, x)' <=> OwnCommand(c, x)
      BY <2>1 DEF OwnCommand
    <2>3. ASSUME NEW i \in Committed, \A m \in Node : i <= applied[m]
          PROVE  \A m \in Node : i <= applied'[m]
      <3>1. i \in Nat
        BY CommittedType
      <3>2. QED
        BY <1>3, <2>3, <3>1
    <2>4. CASE call'[c] = call[c]
      <3>1. Acknowledged(c)' <=> Acknowledged(c)
        BY <2>4 DEF Acknowledged
      <3>2. (call[c].pc = "write" /\ call[c].ack = "ok") \/ Acknowledged(c) =>
              \E i \in Committed' : OwnCommand(c, log[i])' /\ \A m \in Node : i <= applied'[m]
        BY <1>0, <1>1, <1>2, <2>1, <2>3 DEF AckCaller, OwnCommand
      <3>3. QED
        BY <1>0, <1>1, <1>2, <2>1, <2>2, <2>4, <3>1, <3>2 DEF AckCaller
    <2>5. CASE Pending(c, n, cmd.id)
      <3>1. ~Acknowledged(c)' /\ call[c].id = cmd.id /\ call[c].ack = "none"
        BY <2>1, <2>5 DEF Acknowledged, Pending, Waiting
      <3>2. ASSUME call'[c].pc = "write", call'[c].ack = "ok"
            PROVE  \E i \in Committed' : OwnCommand(c, log[i])' /\ \A m \in Node : i <= applied'[m]
        <4>1. applied' = [applied EXCEPT ![n] = @ + 1]
          BY <1>1, <3>1, <3>2, ResolveShape
        <4>2. applied'[n] = applied[n] + 1
          BY <4>1 DEF TypeOK
        <4>3. OwnCommand(c, cmd)
          BY <1>0, <1>2, <2>1, <3>1, <3>2 DEF AckCaller
        <4>4. \A m \in Node : applied[n] + 1 <= applied'[m]
          BY <1>3, <4>2
        <4>5. QED
          BY <1>1, <1>2, <2>1, <4>3, <4>4 DEF OwnCommand
      <3>3. QED
        BY <1>0, <1>1, <1>2, <2>1, <2>2, <3>1, <3>2 DEF AckCaller
    <2>6. QED
      BY <1>1, <2>4, <2>5, ResolveShape
  <1>6. QED
    BY <1>4, <1>5 DEF AckInv, AckIds, AckCaller

\* The steps that leave the handlers alone.
LEMMA QuietKeepsAck ==
  ASSUME TypeOK, AckInv, UNCHANGED <<call, nextRequestID>>, Issued' \subseteq Issued,
         \A i \in Committed : i \in Committed' /\ log'[i] = log[i],
         \A n \in Node : applied'[n] = applied[n] \/ applied'[n] = applied[n] + 1
  PROVE  AckInv'
  <1>1. AckIds /\ \A p \in Caller : AckCaller(p)
    BY DEF AckInv, AckIds, AckCaller
  <1>2. AckIds'
    BY <1>1 DEF AckIds
  <1>3. ASSUME NEW c \in Caller PROVE AckCaller(c)'
    <2>1. \A x : OwnCommand(c, x)' <=> OwnCommand(c, x)
      BY DEF OwnCommand
    <2>2. Acknowledged(c)' <=> Acknowledged(c)
      BY DEF Acknowledged
    <2>3. (call[c].pc = "write" /\ call[c].ack = "ok") \/ Acknowledged(c) =>
            \E i \in Committed' : OwnCommand(c, log[i])' /\ \A m \in Node : i <= applied'[m]
      <3>1. SUFFICES ASSUME (call[c].pc = "write" /\ call[c].ack = "ok") \/ Acknowledged(c)
                     PROVE  \E i \in Committed' : OwnCommand(c, log[i])' /\ \A m \in Node : i <= applied'[m]
        OBVIOUS
      <3>2. PICK i \in Committed : OwnCommand(c, log[i]) /\ \A m \in Node : i <= applied[m]
        BY <1>1, <3>1 DEF AckCaller
      <3>3. i \in Nat /\ \A m \in Node : applied[m] \in Nat
        BY CommittedType DEF TypeOK
      <3>4. \A m \in Node : i <= applied'[m]
        BY <3>2, <3>3
      <3>5. QED
        BY <3>2, <3>4 DEF OwnCommand
    <2>4. QED
      BY <1>1, <2>1, <2>2, <2>3 DEF AckCaller
  <1>4. QED
    BY <1>2, <1>3 DEF AckInv, AckIds, AckCaller

\* Every step is a handler's, an apply, a quiet one, or a restart.
LEMMA SoloSteps ==
  ASSUME TypeOK, Alone, [Next]_vars, restarts' = 0
  PROVE  /\ restarts = 0
         /\ \/ \E c \in Caller : Handler(c)
            \/ \E n \in Node : applyMutateLogEntry(n)
            \/ \E n \in Node : passEmpty(n)
            \/ \E cmd \in proposed : Commit(cmd)
            \/ \E cmd \in proposed : Lose(cmd)
            \/ CommitEmpty
            \/ Tick
            \/ UNCHANGED <<now, log, proposed, store, applied, nextRequestID, call>>
  <1>1. \A n \in Node : ~Restart(n)
    <2>1. restarts \in Nat
      BY DEF TypeOK
    <2>2. \A n \in Node : Restart(n) => restarts' = restarts + 1
      BY DEF Restart
    <2>3. QED
      BY <2>1, <2>2
  <1>2. \A n, m \in Node : ~publishSnapshot(n, m)
    BY NoSnapshotReceived
  <1>3. \A c \in Caller : Handler(c) => restarts' = restarts
    BY ZenonT(40) DEF Handler, AckWrite, AckProbe, AckSweep, ContextDone, SetKV, UnsetKV, GetKV, Range, Expire
  <1>4. ASSUME NEW n \in Node, Replica(n)
        PROVE  /\ restarts' = restarts
               /\ \/ applyMutateLogEntry(n) \/ passEmpty(n)
                  \/ UNCHANGED <<now, log, proposed, store, applied, nextRequestID, call>>
    BY <1>1, <1>2, <1>4 DEF Replica, publishEntries, applyMutateLogEntry, passEmpty,
                            maybeTriggerSnapshot
  <1>5. QED
    BY <1>3, <1>4 DEF Next, Commit, Lose, CommitEmpty, Tick, vars

LEMMA AckStep ==
  ASSUME TypeOK, Alone, [Next]_vars, restarts' = 0, AckInv
  PROVE  AckInv'
  <1>1. ASSUME NEW n \in Node, passEmpty(n) PROVE AckInv'
    <2>1. UNCHANGED <<log, proposed, call, nextRequestID>> /\ applied' = [applied EXCEPT ![n] = @ + 1]
      BY <1>1 DEF passEmpty
    <2>2. Issued' = Issued /\ Committed' = Committed
      BY <2>1 DEF Issued, Committed
    <2>3. \A m \in Node : applied'[m] = applied[m] \/ applied'[m] = applied[m] + 1
      BY <2>1 DEF TypeOK
    <2>4. QED
      BY <2>1, <2>2, <2>3, QuietKeepsAck
  <1>2. ASSUME NEW cmd \in proposed, Commit(cmd) PROVE AckInv'
    <2>1. Issued' = Issued /\ cmd \in Command
      BY <1>2, IssuedCommit
    <2>2. UNCHANGED <<call, nextRequestID, applied>> /\ log' = Append(log, cmd)
      BY <1>2 DEF Commit, raftVars
    <2>3. \A i \in Committed : i \in Committed' /\ log'[i] = log[i]
      BY <2>1, <2>2, CommittedGrows DEF Entry
    <2>4. QED
      BY <2>1, <2>2, <2>3, QuietKeepsAck
  <1>3. ASSUME NEW cmd \in proposed, Lose(cmd) PROVE AckInv'
    <2>1. UNCHANGED <<call, nextRequestID, applied, log>> /\ proposed' = proposed \ {cmd}
      BY <1>3 DEF Lose, raftVars
    <2>2. Committed' = Committed /\ Issued' \subseteq Issued
      BY <2>1 DEF Committed, Issued
    <2>3. QED
      BY <2>1, <2>2, QuietKeepsAck
  <1>4. CASE CommitEmpty
    <2>1. UNCHANGED <<call, nextRequestID, applied, proposed>> /\ log' = Append(log, Noop)
      BY <1>4 DEF CommitEmpty, raftVars
    <2>2. Committed' = Committed /\ \A i \in Committed : log'[i] = log[i]
      BY <2>1, CommittedGrows DEF Entry
    <2>3. Issued' = Issued
      BY <2>1, <2>2 DEF Issued
    <2>4. QED
      BY <2>1, <2>2, <2>3, QuietKeepsAck
  <1>5. CASE Tick \/ UNCHANGED <<now, log, proposed, store, applied, nextRequestID, call>>
    <2>1. UNCHANGED <<call, nextRequestID, applied, proposed, log>>
      BY <1>5 DEF Tick, raftVars
    <2>2. Committed' = Committed /\ Issued' = Issued
      BY <2>1 DEF Committed, Issued
    <2>3. QED
      BY <2>1, <2>2, QuietKeepsAck
  <1>6. QED
    BY <1>1, <1>2, <1>3, <1>4, <1>5, SoloSteps, HandlerKeepsAck, ApplyKeepsAck

\* On a store of one replica, until it is restarted, a write is acknowledged
\* only when its own command is committed and applied.
THEOREM AcknowledgedIsCommitted ==
  ASSUME Alone
  PROVE  Spec => [](restarts = 0 => AckIsCommitted)
  <1> DEFINE I == restarts = 0 => AckInv
  <1>1. Init => I
    BY AckInit
  <1>2. TypeOK /\ I /\ [Next]_vars => I'
    <2>1. SUFFICES ASSUME TypeOK, I, [Next]_vars, restarts' = 0 PROVE AckInv'
      OBVIOUS
    <2>2. restarts = 0
      BY <2>1, SoloSteps
    <2>3. QED
      BY <2>1, <2>2, AckStep
  <1>3. I => (restarts = 0 => AckIsCommitted)
    BY DEF AckInv, AckIsCommitted
  <1> HIDE DEF I
  <1>4. QED
    BY <1>1, <1>2, <1>3, TypeCorrect, PTL DEF Spec

-----------------------------------------------------------------------------
(* Creations and removals on one replica, before its first restart *)

\* Who was there first has returned, and nobody's command is there before its
\* caller has begun.
PriorInv ==
  /\ \A c \in Caller : call[c].prior \subseteq Returned
  /\ \A cmd \in Issued : call[cmd.caller].pc # "idle"

\* A caller proposes at most one SET, of the key and the kind it was asked
\* for, and stamps it with the time of the proposal.
SetAsAsked(cmd) ==
  cmd.op = "SET" =>
    /\ call[cmd.caller].pc \in {"write", "done"}
    /\ call[cmd.caller].req.op \in {"SetKV", "Expire"}
    /\ cmd.key = call[cmd.caller].req.key /\ cmd.dir = call[cmd.caller].req.dir
    /\ cmd.value.updatedAt <= now
SameSetter(a, b) == a.op = "SET" /\ b.op = "SET" /\ a.caller = b.caller
SetInv ==
  /\ \A cmd \in Issued : SetAsAsked(cmd)
  /\ \A a, b \in proposed : SameSetter(a, b) => a = b
  /\ \A a \in proposed : \A i \in Committed : ~SameSetter(a, log[i])
  /\ \A i, j \in Committed : SameSetter(log[i], log[j]) => i = j

\* None of the commands applied has failed, so an entity gives way to nothing
\* but a removal or another entity.
Kept(n, i) ==
  /\ log[i].key \notin InvalidKey
  /\ log[i].op = "SET" /\ ~log[i].dir =>
       \E l \in Committed :
         /\ i <= l /\ l <= applied[n] /\ log[l].key = log[i].key
         /\ log[l].op = "UNSET" \/ store[n][log[i].key] = log[l].value
KeptInv == \A n \in Node : \A i \in Committed : i <= applied[n] => Kept(n, i)

\* Entry e leaves its key empty at time t.
Frees(e, t) ==
  \/ e.op = "UNSET"
  \/ e.value.ttl # NeverExpired /\ t >= e.value.updatedAt + e.value.ttl

\* From entry i on, up to entry b, the key of i was left empty at time t.
Room(lg, i, t, b) ==
  \E l \in DOMAIN lg : lg[l] # Noop /\ i <= l /\ l <= b /\ lg[l].key = lg[i].key /\ Frees(lg[l], t)

Creates(d) ==
  /\ call[d].pc # "idle"
  /\ call[d].req.op = "SetKV" /\ ~call[d].req.overwrite /\ ~call[d].req.dir

\* A creation goes ahead only where an earlier one has made room for it.
RoomFor(d, i) ==
  /\ call[d].pc \in {"probe", "write"} => Room(log, i, now, Len(log))
  /\ \A cmd \in proposed : cmd.caller = d /\ cmd.op = "SET" =>
       Room(log, i, cmd.value.updatedAt, Len(log))
  /\ \A j \in Committed : log[j].caller = d /\ log[j].op = "SET" =>
       Room(log, i, log[j].value.updatedAt, j - 1)

\* c created the key that d is about to create, and had returned when d began.
Before(c, d, i) ==
  CreatedAt(c, i) /\ Creates(d) /\ c \in call[d].prior /\ log[i].key = call[d].req.key
RoomInv == \A c, d \in Caller : \A i \in Committed : Before(c, d, i) => RoomFor(d, i)

\* The keys r is about to remove although nobody asked it to.
Removes(r, k) ==
  \/ call[r].pc = "sweep" /\ k \in call[r].todo
  \/ \E cmd \in proposed : cmd.caller = r /\ cmd.op = "UNSET" /\ cmd.key = k /\ call[r].req.op # "UnsetKV"

\* Entry i is an entity that was acknowledged when r began.
PriorSet(r, i) ==
  log[i].op = "SET" /\ ~log[i].dir /\ log[i].caller \in call[r].prior /\ Acknowledged(log[i].caller)

\* Entry h is the last one on its key before entry i.
LastBefore(h, i) ==
  /\ h < i /\ log[h].key = log[i].key
  /\ \A l \in Committed : l < i /\ log[l].key = log[i].key => l <= h

\* What is to be removed has made room, and so had what was removed.
RemovalInv ==
  /\ \A r \in Caller : \A i \in Committed :
       Removes(r, log[i].key) /\ PriorSet(r, i) => Room(log, i, now, Len(log))
  /\ \A h, i \in Committed :
       (/\ log[i].op = "UNSET" /\ call[log[i].caller].req.op # "UnsetKV"
        /\ LastBefore(h, i) /\ PriorSet(log[i].caller, h)) => Frees(log[h], now)

\* A step that calls, proposes and commits nothing.
Calm ==
  /\ proposed' \subseteq proposed
  /\ Committed' = Committed /\ \A i \in Committed : log'[i] = log[i]
  /\ now' \in Nat /\ now <= now' /\ Len(log') \in Nat /\ Len(log) <= Len(log')
  /\ \A p \in Caller :
       /\ call'[p].pc = call[p].pc /\ call'[p].req = call[p].req
       /\ call'[p].prior = call[p].prior /\ call'[p].todo = call[p].todo
       /\ call'[p] = call[p] \/ Waiting(p)

\* Steps that leave the handlers alone are calm if they commit nothing.
LEMMA SameCallsCalm ==
  ASSUME UNCHANGED call, now' \in Nat, now <= now', proposed' \subseteq proposed, Committed' = Committed,
         \A i \in Committed : log'[i] = log[i], Len(log') \in Nat, Len(log) <= Len(log')
  PROVE  Calm
  BY DEF Calm

\* On one replica a step is a handler's, a commit or a calm one.
LEMMA SoloKinds ==
  ASSUME TypeOK, Alone, AckInv, [Next]_vars, restarts' = 0
  PROVE  \/ /\ UNCHANGED <<now, log, store, applied>>
            /\ \E c \in Caller : (\E new : Returning(c, new)) \/ (\E n, new, cmd : Proposing(c, n, new, cmd))
         \/ \E cmd \in proposed : Commit(cmd)
         \/ Calm
  <1>0. now \in Nat /\ now <= now /\ Len(log) \in Nat /\ Len(log) <= Len(log)
    BY DEF TypeOK
  <1>1. ASSUME NEW c \in Caller, Handler(c)
        PROVE  /\ UNCHANGED <<now, log, store, applied>>
               /\ (\E new : Returning(c, new)) \/ (\E n, new, cmd : Proposing(c, n, new, cmd))
    BY <1>1, HandlerShape DEF AckInv, raftVars
  <1>2. ASSUME NEW n \in Node, applyMutateLogEntry(n) PROVE Calm
    <2>1. PICK id, ack : resolvePending(n, id, ack) /\ UNCHANGED <<now, log, proposed>>
      BY <1>2, ApplyShape
    <2>2. Committed' = Committed
      BY <2>1 DEF Committed
    <2>3. ASSUME NEW p \in Caller
          PROVE  /\ call'[p].pc = call[p].pc /\ call'[p].req = call[p].req
                 /\ call'[p].prior = call[p].prior /\ call'[p].todo = call[p].todo
                 /\ call'[p] = call[p] \/ Waiting(p)
      BY <2>1, ResolveShape DEF Pending
    <2>4. QED
      BY <1>0, <2>1, <2>2, <2>3 DEF Calm
  <1>3. ASSUME NEW n \in Node, passEmpty(n) PROVE Calm
    BY <1>0, <1>3, SameCallsCalm DEF passEmpty, Committed
  <1>4. ASSUME NEW cmd \in proposed, Lose(cmd) PROVE Calm
    BY <1>0, <1>4, SameCallsCalm DEF Lose, Committed
  <1>5. CASE CommitEmpty
    <2>1. UNCHANGED <<call, now, proposed>> /\ log' = Append(log, Noop)
      BY <1>5 DEF CommitEmpty
    <2>2. Committed' = Committed /\ Len(log') = Len(log) + 1 /\ \A i \in Committed : log'[i] = log[i]
      BY <2>1, CommittedGrows DEF Entry
    <2>3. Len(log') \in Nat /\ Len(log) <= Len(log')
      BY <1>0, <2>2
    <2>4. QED
      BY <1>0, <2>1, <2>2, <2>3, SameCallsCalm
  <1>6. CASE Tick
    <2>1. UNCHANGED <<call, log, proposed>> /\ now' = now + 1
      BY <1>6 DEF Tick
    <2>2. Committed' = Committed /\ now' \in Nat /\ now <= now'
      BY <1>0, <2>1 DEF Committed
    <2>3. QED
      BY <1>0, <2>1, <2>2, SameCallsCalm
  <1>7. CASE UNCHANGED <<now, log, proposed, store, applied, nextRequestID, call>>
    BY <1>0, <1>7, SameCallsCalm DEF Committed
  <1>8. QED
    BY <1>1, <1>2, <1>3, <1>4, <1>5, <1>6, <1>7, SoloSteps

\* Who has returned stays as it is, a request is not changed once it is made,
\* and what was committed stays committed.
Frame ==
  /\ \A p \in Caller :
       /\ call[p].pc = "done" => call'[p] = call[p]
       /\ call[p].pc # "idle" => /\ call'[p].pc # "idle" /\ call'[p].req = call[p].req
                                 /\ call'[p].prior = call[p].prior
       /\ call'[p].prior = call[p].prior \/ call'[p].prior = Returned
  /\ \A i \in Committed : i \in Committed' /\ log'[i] = log[i]
  /\ now' \in Nat /\ now <= now' /\ Len(log') \in Nat /\ Len(log) <= Len(log')

\* Every kind of step keeps the frame.
LEMMA ReturningFrame ==
  ASSUME TypeOK, NEW c \in Caller, NEW new, Returning(c, new), UNCHANGED <<log, now>>
  PROVE  /\ Frame /\ UNCHANGED proposed /\ Committed' = Committed /\ Issued' = Issued
         /\ call'[c] = new /\ \A p \in Caller \ {c} : call'[p] = call[p]
  <1>1. call'[c] = new /\ \A p \in Caller \ {c} : call'[p] = call[p]
    BY DEF Returning, TypeOK
  <1>2. Committed' = Committed /\ UNCHANGED proposed
    BY DEF Committed, Returning
  <1>3. Issued' = Issued
    BY <1>2 DEF Issued
  <1>4. now' \in Nat /\ now <= now' /\ Len(log') \in Nat /\ Len(log) <= Len(log')
    BY DEF TypeOK
  <1>5. ASSUME NEW p \in Caller
        PROVE  /\ call[p].pc = "done" => call'[p] = call[p]
               /\ call[p].pc # "idle" => /\ call'[p].pc # "idle" /\ call'[p].req = call[p].req
                                         /\ call'[p].prior = call[p].prior
               /\ call'[p].prior = call[p].prior \/ call'[p].prior = Returned
    BY <1>1 DEF Returning
  <1>6. QED
    BY <1>1, <1>2, <1>3, <1>4, <1>5 DEF Frame

LEMMA ProposingFrame ==
  ASSUME TypeOK, NEW c \in Caller, NEW n, NEW new, NEW cmd, Proposing(c, n, new, cmd), UNCHANGED <<log, now>>
  PROVE  /\ Frame /\ Committed' = Committed
         /\ Issued' \subseteq Issued \cup {cmd} /\ proposed' \subseteq proposed \cup {cmd}
         /\ call'[c] = new /\ \A p \in Caller \ {c} : call'[p] = call[p]
  <1>1. call'[c] = new /\ \A p \in Caller \ {c} : call'[p] = call[p]
    BY DEF Proposing, TypeOK
  <1>2. Committed' = Committed /\ proposed' \subseteq proposed \cup {cmd}
    BY DEF Committed, Proposing
  <1>3. Issued' \subseteq Issued \cup {cmd}
    BY <1>2 DEF Issued
  <1>4. now' \in Nat /\ now <= now' /\ Len(log') \in Nat /\ Len(log) <= Len(log')
    BY DEF TypeOK
  <1>5. ASSUME NEW p \in Caller
        PROVE  /\ call[p].pc = "done" => call'[p] = call[p]
               /\ call[p].pc # "idle" => /\ call'[p].pc # "idle" /\ call'[p].req = call[p].req
                                         /\ call'[p].prior = call[p].prior
               /\ call'[p].prior = call[p].prior \/ call'[p].prior = Returned
    <2>1. new.pc \in {"write", "probe", "sweep"} /\ call[c].pc \in {"idle", "probe", "sweep"}
      BY DEF Proposing
    <2>2. call[c].pc = "idle" => new.prior = Returned
      BY DEF Proposing
    <2>3. call[c].pc # "idle" => new.req = call[c].req /\ new.prior = call[c].prior
      BY DEF Proposing
    <2>4. QED
      BY <1>1, <2>1, <2>2, <2>3
  <1>6. QED
    BY <1>1, <1>2, <1>3, <1>4, <1>5 DEF Frame

LEMMA CommitFrame ==
  ASSUME TypeOK, NEW cmd \in proposed, Commit(cmd)
  PROVE  /\ Frame /\ UNCHANGED <<call, now, store, applied>> /\ proposed' = proposed \ {cmd}
         /\ Committed' = Committed \cup {Len(log) + 1} /\ log'[Len(log) + 1] = cmd
         /\ Len(log') = Len(log) + 1 /\ Issued' = Issued /\ cmd \in Command /\ cmd \in Issued
  <1>1. UNCHANGED <<call, now, store, applied>> /\ log' = Append(log, cmd) /\ proposed' = proposed \ {cmd}
    BY DEF Commit, raftVars
  <1>2. Issued' = Issued /\ cmd \in Command /\ cmd # Noop /\ cmd \in Issued
    BY IssuedCommit DEF Issued
  <1>3. /\ \A i \in Committed : log'[i] = log[i] /\ i \in Committed'
        /\ Committed' = Committed \cup {Len(log) + 1}
        /\ Len(log') = Len(log) + 1
        /\ log'[Len(log) + 1] = cmd
    BY <1>1, <1>2, CommittedGrows DEF Entry
  <1>4. now' \in Nat /\ now <= now' /\ Len(log') \in Nat /\ Len(log) <= Len(log')
    BY <1>1, <1>3 DEF TypeOK
  <1>5. QED
    BY <1>1, <1>2, <1>3, <1>4 DEF Frame

LEMMA CalmFrame ==
  ASSUME Calm
  PROVE  Frame /\ Issued' \subseteq Issued
  <1>1. Issued' \subseteq Issued
    BY DEF Calm, Issued
  <1>2. QED
    BY <1>1 DEF Calm, Frame, Waiting

\* A request that has not begun knows of no other.
LEMMA CallTyped ==
  ASSUME TypeOK, NEW c \in Caller
  PROVE  /\ call[c].pc = "idle" => call[c].prior = {}
         /\ call[c].pc # "idle" => call[c] \in ActiveCall /\ call[c].node \in Node
         /\ call[c].prior \subseteq Caller
  <1>1. call[c] \in Call
    BY DEF TypeOK
  <1>2. CASE call[c] = IdleCall
    BY <1>2 DEF IdleCall
  <1>3. CASE call[c] \in ActiveCall
    BY <1>3 DEF ActiveCall
  <1>4. QED
    BY <1>1, <1>2, <1>3 DEF Call

\* The frame keeps the prior requests, and a new command has a caller.
LEMMA PriorStep ==
  ASSUME TypeOK, PriorInv, Frame,
         \A cmd \in Issued' : cmd \in Issued \/ call'[cmd.caller].pc # "idle"
  PROVE  PriorInv'
  <1>1. ASSUME NEW c \in Caller, NEW p \in call'[c].prior PROVE p \in Returned'
    <2>1. p \in Returned
      BY <1>1 DEF Frame, PriorInv
    <2>2. QED
      BY <2>1 DEF Returned, Frame
  <1>2. ASSUME NEW cmd \in Issued' PROVE call'[cmd.caller].pc # "idle"
    <2>1. CASE cmd \in Issued
      <3>1. cmd.caller \in Caller
        BY <2>1, CommittedType DEF Command
      <3>2. QED
        BY <2>1, <3>1 DEF PriorInv, Frame
    <2>2. QED
      BY <1>2, <2>1
  <1>3. QED
    BY <1>1, <1>2 DEF PriorInv

\* Who has returned, or waits to, keeps what SetAsAsked says of it.
LEMMA AskedStays ==
  ASSUME TypeOK, Frame, NEW cmd \in Command, SetAsAsked(cmd),
         call'[cmd.caller].pc \in {call[cmd.caller].pc, "done"}
  PROVE  SetAsAsked(cmd)'
  <1>1. SUFFICES ASSUME cmd.op = "SET" PROVE SetAsAsked(cmd)'
    BY DEF SetAsAsked
  <1>2. cmd.caller \in Caller /\ cmd.value \in Entity
    BY <1>1 DEF Command
  <1>3. /\ call[cmd.caller].pc \in {"write", "done"}
        /\ call[cmd.caller].req.op \in {"SetKV", "Expire"}
        /\ cmd.key = call[cmd.caller].req.key /\ cmd.dir = call[cmd.caller].req.dir
        /\ cmd.value.updatedAt <= now
    BY <1>1 DEF SetAsAsked
  <1>4. call'[cmd.caller].req = call[cmd.caller].req
    BY <1>2, <1>3 DEF Frame
  <1>5. cmd.value.updatedAt \in Nat /\ now \in Nat /\ now <= now'
    BY <1>2 DEF Entity, TypeOK, Frame
  <1>6. cmd.value.updatedAt <= now'
    <2>1. ASSUME NEW a \in Nat, NEW b \in Nat, NEW d, d \in Nat, a <= b, b <= d PROVE a <= d
      BY <2>1
    <2>2. QED
      BY <1>3, <1>5, <2>1 DEF Frame
  <1>7. QED
    BY <1>3, <1>4, <1>6 DEF SetAsAsked

\* A caller is past its SET, or proposes its first one.
LEMMA SetInvReturning ==
  ASSUME TypeOK, SetInv, PriorInv, NEW c \in Caller, NEW new, Returning(c, new), UNCHANGED <<log, now>>
  PROVE  SetInv'
  <1>1. /\ Frame /\ UNCHANGED proposed /\ Committed' = Committed /\ Issued' = Issued
        /\ call'[c] = new /\ \A p \in Caller \ {c} : call'[p] = call[p]
    BY ReturningFrame
  <1>2. new.pc = "done"
    BY DEF Returning
  <1>3. ASSUME NEW cmd \in Issued PROVE SetAsAsked(cmd)'
    <2>1. cmd \in Command /\ SetAsAsked(cmd) /\ cmd.caller \in Caller
      BY CommittedType DEF SetInv, Command
    <2>2. QED
      BY <1>1, <1>2, <2>1, AskedStays
  <1>4. QED
    BY <1>1, <1>3 DEF SetInv, SameSetter

LEMMA SetInvProposing ==
  ASSUME TypeOK, SetInv, PriorInv, NEW c \in Caller, NEW n, NEW new, NEW cmd, Proposing(c, n, new, cmd),
         UNCHANGED <<log, now>>
  PROVE  SetInv'
  <1>1. /\ Frame /\ Committed' = Committed
        /\ Issued' \subseteq Issued \cup {cmd} /\ proposed' \subseteq proposed \cup {cmd}
        /\ call'[c] = new /\ \A p \in Caller \ {c} : call'[p] = call[p]
    BY ProposingFrame
  <1>2. /\ cmd.caller = c /\ call[c].pc \in {"idle", "probe", "sweep"}
        /\ cmd.op = "SET" => /\ new.pc = "write" /\ new.req.op \in {"SetKV", "Expire"}
                             /\ cmd.key = new.req.key /\ cmd.dir = new.req.dir /\ cmd.value.updatedAt = now
    BY DEF Proposing
  <1>3. ASSUME NEW x \in Issued, x.op = "SET" PROVE x.caller # c
    BY <1>2, <1>3 DEF SetInv, SetAsAsked
  <1>4. ASSUME NEW x \in Issued PROVE SetAsAsked(x)'
    <2>1. CASE x.op = "SET"
      <3>1. x \in Command /\ SetAsAsked(x) /\ x.caller \in Caller /\ x.caller # c
        BY <1>3, <2>1, CommittedType DEF SetInv, Command
      <3>2. QED
        BY <1>1, <3>1, AskedStays
    <2>2. QED
      BY <2>1 DEF SetAsAsked
  <1>5. SetAsAsked(cmd)'
    <2>1. now' = now /\ now <= now
      BY DEF TypeOK
    <2>2. QED
      BY <1>1, <1>2, <2>1 DEF SetAsAsked
  <1>6. proposed \subseteq Issued /\ \A i \in Committed : log[i] \in Issued
    BY DEF Issued
  <1>7. \A a, b \in proposed' : SameSetter(a, b) => a = b
    BY <1>1, <1>2, <1>3, <1>6 DEF SetInv, SameSetter
  <1>8. \A a \in proposed' : \A i \in Committed : ~SameSetter(a, log[i])
    BY <1>1, <1>2, <1>3, <1>6 DEF SetInv, SameSetter
  <1>9. QED
    BY <1>1, <1>4, <1>5, <1>7, <1>8 DEF SetInv, SameSetter

LEMMA SetInvCommit ==
  ASSUME TypeOK, SetInv, NEW cmd \in proposed, Commit(cmd)
  PROVE  SetInv'
  <1>1. /\ Frame /\ UNCHANGED <<call, now, store, applied>> /\ proposed' = proposed \ {cmd}
        /\ Committed' = Committed \cup {Len(log) + 1} /\ log'[Len(log) + 1] = cmd
        /\ Len(log') = Len(log) + 1 /\ Issued' = Issued /\ cmd \in Command /\ cmd \in Issued
    BY CommitFrame
  <1>2. \A i \in Committed : log'[i] = log[i]
    BY <1>1 DEF Frame
  <1>3. \A x \in Issued' : SetAsAsked(x)'
    BY <1>1 DEF SetInv, SetAsAsked
  <1>4. \A a \in proposed' : \A i \in Committed' : ~SameSetter(a, log'[i])
    BY <1>1, <1>2 DEF SetInv, SameSetter
  <1>5. \A i, j \in Committed' : SameSetter(log'[i], log'[j]) => i = j
    BY <1>1, <1>2 DEF SetInv, SameSetter
  <1>6. QED
    BY <1>1, <1>3, <1>4, <1>5 DEF SetInv, SameSetter

LEMMA SetInvCalm ==
  ASSUME TypeOK, SetInv, Calm
  PROVE  SetInv'
  <1>1. Frame /\ Issued' \subseteq Issued
    BY CalmFrame
  <1>2. ASSUME NEW x \in Issued' PROVE SetAsAsked(x)'
    <2>1. x \in Command /\ SetAsAsked(x) /\ x.caller \in Caller
      BY <1>1, <1>2, CommittedType DEF SetInv, Command
    <2>2. call'[x.caller].pc = call[x.caller].pc
      BY <2>1 DEF Calm
    <2>3. QED
      BY <1>1, <2>1, <2>2, AskedStays
  <1>3. /\ proposed' \subseteq proposed /\ Committed' = Committed /\ \A i \in Committed : log'[i] = log[i]
    BY DEF Calm
  <1>4. QED
    BY <1>2, <1>3 DEF SetInv, SameSetter

\* An acknowledged SET has been applied, and its caller proposes no other.
LEMMA AckedSet ==
  ASSUME TypeOK, AckInv, SetInv, NEW c \in Caller, Acknowledged(c), call[c].req.op = "SetKV"
  PROVE  /\ \A i \in Committed : log[i].op = "SET" /\ log[i].caller = c => \A n \in Node : i <= applied[n]
         /\ \A cmd \in proposed : cmd.op = "SET" => cmd.caller # c
  <1>1. PICK j \in Committed : OwnCommand(c, log[j]) /\ \A n \in Node : j <= applied[n]
    BY DEF AckInv
  <1>2. log[j].op = "SET" /\ log[j].caller = c
    BY <1>1 DEF OwnCommand
  <1>3. QED
    BY <1>1, <1>2 DEF SetInv, SameSetter

\* The same, for a SET known from the log.
LEMMA AckedEntry ==
  ASSUME TypeOK, AckInv, SetInv, NEW i \in Committed, log[i].op = "SET", Acknowledged(log[i].caller)
  PROVE  \A n \in Node : i <= applied[n]
  <1>1. log[i] \in Command /\ log[i] \in Issued /\ log[i].caller \in Caller
    BY CommittedType DEF Command
  <1>2. call[log[i].caller].req.op = "SetKV"
    BY <1>1 DEF SetInv, SetAsAsked, Acknowledged
  <1>3. QED
    BY <1>1, <1>2, AckedSet

\* Steps that apply no command.
LEMMA KeptQuiet ==
  ASSUME TypeOK, KeptInv, UNCHANGED store,
         \A i \in Committed : i \in Committed' /\ log'[i] = log[i],
         \A n \in Node : applied'[n] \in Nat /\ applied[n] <= applied'[n],
         \A n \in Node : \A i \in Committed' : i <= applied'[n] => i \in Committed /\ i <= applied[n]
  PROVE  KeptInv'
  <1> SUFFICES ASSUME NEW n \in Node, NEW i \in Committed, i <= applied[n] PROVE Kept(n, i)'
    BY DEF KeptInv
  <1>1. Kept(n, i) /\ log'[i] = log[i]
    BY DEF KeptInv
  <1>2. SUFFICES ASSUME log[i].op = "SET", ~log[i].dir
                 PROVE  \E l \in Committed' :
                          /\ i <= l /\ l <= applied'[n] /\ log'[l].key = log'[i].key
                          /\ log'[l].op = "UNSET" \/ store'[n][log'[i].key] = log'[l].value
    BY <1>1 DEF Kept
  <1>3. PICK l \in Committed :
          /\ i <= l /\ l <= applied[n] /\ log[l].key = log[i].key
          /\ log[l].op = "UNSET" \/ store[n][log[i].key] = log[l].value
    BY <1>1, <1>2 DEF Kept
  <1>4. l \in Nat /\ applied[n] \in Nat
    BY CommittedType DEF TypeOK
  <1>5. l <= applied'[n]
    BY <1>3, <1>4
  <1>6. QED
    BY <1>1, <1>3, <1>5

\* One command is applied: only an entity command gets past an entity.
LEMMA KeptApply ==
  ASSUME TypeOK, Alone, KeptInv, NEW n \in Node, applyMutateLogEntry(n)
  PROVE  KeptInv'
  <1>1. PICK cmd \in Command :
           /\ cmd = log[applied[n] + 1] /\ applied[n] + 1 \in Committed /\ applied[n] < published[n]
           /\ UNCHANGED <<now, log, proposed, nextRequestID, restarts>>
           /\ \/ /\ Fails(cmd, store[n][cmd.key]) /\ UNCHANGED <<store, applied>>
                 /\ resolvePending(n, cmd.id, "err")
              \/ /\ ~Fails(cmd, store[n][cmd.key])
                 /\ store' = [store EXCEPT ![n][cmd.key] = Effect(cmd)]
                 /\ applied' = [applied EXCEPT ![n] = @ + 1]
                 /\ resolvePending(n, cmd.id, "ok")
    BY ApplyShape
  <1>2. Committed' = Committed /\ applied[n] \in Nat /\ \A i \in Committed : i \in Nat
    BY <1>1, CommittedType DEF Committed, TypeOK
  <1>3. CASE UNCHANGED <<store, applied>>
    BY <1>1, <1>2, <1>3 DEF KeptInv, Kept
  <1>4. CASE /\ ~Fails(cmd, store[n][cmd.key])
             /\ store' = [store EXCEPT ![n][cmd.key] = Effect(cmd)]
             /\ applied' = [applied EXCEPT ![n] = @ + 1]
    <2> DEFINE j == applied[n] + 1
    <2>1. /\ cmd.key \in Key /\ cmd.dir \in BOOLEAN /\ cmd.op \in {"SET", "UNSET"}
          /\ cmd.key \notin InvalidKey /\ store[n][cmd.key].kind # (IF cmd.dir THEN "kv" ELSE "dir")
      BY <1>4 DEF Command, Fails
    <2>2. /\ applied'[n] = j /\ store'[n][cmd.key] = Effect(cmd)
          /\ \A k \in Key \ {cmd.key} : store'[n][k] = store[n][k]
      BY <1>4, <2>1 DEF TypeOK
    <2>3. ~cmd.dir => cmd.op = "UNSET" \/ store'[n][cmd.key] = cmd.value
      BY <2>1, <2>2 DEF Effect
    <2>4. SUFFICES ASSUME NEW i \in Committed, i <= j PROVE Kept(n, i)'
      BY <1>2, <2>2 DEF KeptInv, Alone
    <2>5. log' = log /\ log[j] = cmd /\ j \in Committed /\ j \in Nat
      BY <1>1, <1>2
    <2>6. CASE i = j
      BY <1>2, <2>1, <2>2, <2>3, <2>5, <2>6 DEF Kept
    <2>7. CASE i # j
      <3>1. i <= applied[n] /\ i \in Nat
        BY <1>2, <2>4, <2>7
      <3>2. Kept(n, i)
        BY <3>1 DEF KeptInv
      <3>3. SUFFICES ASSUME log[i].op = "SET", ~log[i].dir
                     PROVE  \E l \in Committed :
                              /\ i <= l /\ l <= j /\ log[l].key = log[i].key
                              /\ log[l].op = "UNSET" \/ store'[n][log[i].key] = log[l].value
        BY <1>2, <2>2, <2>5, <3>2 DEF Kept
      <3>4. PICK l \in Committed :
              /\ i <= l /\ l <= applied[n] /\ log[l].key = log[i].key
              /\ log[l].op = "UNSET" \/ store[n][log[i].key] = log[l].value
        BY <3>2, <3>3 DEF Kept
      <3>5. l \in Nat /\ l <= j /\ i <= j
        BY <1>2, <3>1, <3>4
      <3>6. log[l] \in Command /\ log[i] \in Command /\ log[i].key \in Key
        BY CommittedType DEF Command
      <3>7. CASE log[l].op = "UNSET" \/ log[i].key # cmd.key
        BY <2>2, <3>4, <3>5, <3>6, <3>7
      <3>8. CASE log[l].op # "UNSET" /\ log[i].key = cmd.key
        <4>1. store[n][cmd.key] = log[l].value /\ log[l].value \in Entity
          BY <3>4, <3>6, <3>8 DEF Command
        <4>2. ~cmd.dir
          BY <2>1, <4>1 DEF Entity
        <4>3. QED
          BY <2>3, <2>5, <3>5, <3>8, <4>2
      <3>9. QED
        BY <3>7, <3>8
    <2>8. QED
      BY <2>6, <2>7
  <1>5. QED
    BY <1>1, <1>3, <1>4

\* On one replica no entity gets lost, whatever the step.
LEMMA KeptStep ==
  ASSUME TypeOK, Alone, AckInv, KeptInv, [Next]_vars, restarts' = 0
  PROVE  KeptInv'
  <1>0. /\ \A n \in Node : applied[n] \in Nat /\ applied[n] <= Len(log)
        /\ Committed \subseteq 1..Len(log) /\ Len(log) \in Nat
    BY CommittedType DEF TypeOK
  <1>1. ASSUME UNCHANGED <<log, store, applied>> PROVE KeptInv'
    <2>1. Committed' = Committed
      BY <1>1 DEF Committed
    <2>2. QED
      BY <1>1, <2>1 DEF KeptInv, Kept
  <1>2. ASSUME NEW e \in Entry, log' = Append(log, e), UNCHANGED <<store, applied>> PROVE KeptInv'
    <2>1. /\ \A i \in Committed : log'[i] = log[i] /\ i \in Committed'
          /\ Committed' \subseteq Committed \cup {Len(log) + 1}
      BY <1>2, CommittedGrows
    <2>2. \A n \in Node : ~(Len(log) + 1 <= applied[n])
      BY <1>0
    <2>3. \A n \in Node : \A i \in Committed' : i <= applied'[n] => i \in Committed /\ i <= applied[n]
      BY <1>2, <2>1, <2>2
    <2>4. \A n \in Node : applied'[n] \in Nat /\ applied[n] <= applied'[n]
      BY <1>0, <1>2
    <2>5. QED
      BY <1>2, <2>1, <2>3, <2>4, KeptQuiet
  <1>3. ASSUME NEW n \in Node, passEmpty(n) PROVE KeptInv'
    <2>1. /\ UNCHANGED <<log, store>> /\ applied' = [applied EXCEPT ![n] = @ + 1]
          /\ log[applied[n] + 1] = Noop
      BY <1>3 DEF passEmpty
    <2>2. Committed' = Committed /\ applied[n] + 1 \notin Committed
      BY <2>1 DEF Committed
    <2>3. \A m \in Node : applied'[m] = IF m = n THEN applied[n] + 1 ELSE applied[m]
      BY <2>1 DEF TypeOK
    <2>4. \A m \in Node : applied'[m] \in Nat /\ applied[m] <= applied'[m]
      BY <1>0, <2>3
    <2>5. ASSUME NEW m \in Node, NEW i \in Committed, i <= applied'[m] PROVE i <= applied[m]
      <3>1. i \in Nat /\ i # applied[n] + 1
        BY <1>0, <2>2, <2>5
      <3>2. QED
        BY <1>0, <2>3, <2>5, <3>1
    <2>6. QED
      BY <2>1, <2>2, <2>4, <2>5, KeptQuiet
  <1>4. ASSUME NEW c \in Caller, Handler(c) PROVE KeptInv'
    <2>1. UNCHANGED <<log, store, applied>>
      BY <1>4, HandlerShape DEF AckInv, raftVars
    <2>2. QED
      BY <1>1, <2>1
  <1>5. ASSUME NEW cmd \in proposed, Commit(cmd) PROVE KeptInv'
    <2>1. cmd \in Entry /\ log' = Append(log, cmd) /\ UNCHANGED <<store, applied>>
      BY <1>5 DEF Commit, raftVars, TypeOK, Entry
    <2>2. QED
      BY <1>2, <2>1
  <1>6. ASSUME NEW cmd \in proposed, Lose(cmd) PROVE KeptInv'
    BY <1>1, <1>6 DEF Lose, raftVars
  <1>7. CASE CommitEmpty
    BY <1>2, <1>7 DEF CommitEmpty, raftVars, Entry
  <1>8. CASE Tick
    BY <1>1, <1>8 DEF Tick, raftVars
  <1>9. QED
    BY <1>1, <1>3, <1>4, <1>5, <1>6, <1>7, <1>8, SoloSteps, KeptApply

\* Room stays: later entries and later times take none of it back.
LEMMA FreesLater ==
  ASSUME NEW e \in Command, NEW t \in Nat, NEW u \in Nat, t <= u, Frees(e, t)
  PROVE  Frees(e, u)
  <1>1. CASE e.op = "UNSET"
    BY <1>1 DEF Frees
  <1>2. CASE e.op # "UNSET"
    <2>1. e.value.ttl \in Int /\ e.value.updatedAt \in Nat
      BY <1>2 DEF Command, Entity
    <2>2. QED
      BY <1>2, <2>1 DEF Frees
  <1>3. QED
    BY <1>1, <1>2

LEMMA RoomStays ==
  ASSUME TypeOK, Frame, NEW i \in Committed, NEW t \in Nat, NEW u \in Nat, t <= u,
         NEW a \in Int, NEW b \in Int, a <= b, Room(log, i, t, a)
  PROVE  Room(log', i, u, b)
  <1>1. PICK l \in DOMAIN log : /\ log[l] # Noop /\ i <= l /\ l <= a
                                /\ log[l].key = log[i].key /\ Frees(log[l], t)
    BY DEF Room
  <1>2. l \in Committed /\ l \in Nat /\ log[l] \in Command
    <2>1. l \in Committed
      BY <1>1 DEF Committed
    <2>2. QED
      BY <2>1, CommittedType
  <1>3. log'[l] = log[l] /\ log'[i] = log[i] /\ l \in Committed'
    BY <1>2 DEF Frame
  <1>4. Frees(log[l], u) /\ l <= b
    BY <1>1, <1>2, FreesLater
  <1>5. l \in DOMAIN log' /\ log'[l] # Noop
    BY <1>3 DEF Committed
  <1>6. QED
    BY <1>1, <1>3, <1>4, <1>5 DEF Room

\* A reader that finds an applied entity gone or expired finds room.
LEMMA RoomFound ==
  ASSUME TypeOK, KeptInv, SetInv, NEW n \in Node, NEW i \in Committed, i <= applied[n],
         log[i].op = "SET", ~log[i].dir,
         \/ Read(n, log[i].key, FALSE) = Empty
         \/ EntityExpired(Read(n, log[i].key, FALSE))
         \/ EntityExpired(Read(n, log[i].key, TRUE))
  PROVE  Room(log, i, now, Len(log))
  <1>1. PICK l \in Committed :
          /\ i <= l /\ l <= applied[n] /\ log[l].key = log[i].key
          /\ log[l].op = "UNSET" \/ store[n][log[i].key] = log[l].value
    BY DEF KeptInv, Kept
  <1>2. /\ log[l] \in Command /\ log[l] \in Issued /\ l \in DOMAIN log /\ log[l] # Noop
        /\ l <= Len(log) /\ log[i].key \in Key /\ log[i].key \notin InvalidKey
    <2>1. log[l] \in Command /\ log[l] \in Issued /\ log[i] \in Command /\ l \in 1..Len(log)
      BY CommittedType
    <2>2. log[i].key \notin InvalidKey
      BY DEF KeptInv, Kept
    <2>3. QED
      BY <2>1, <2>2 DEF Committed, Command
  <1>3. CASE log[l].op # "UNSET"
    <2> DEFINE v == log[l].value
    <2>1. v \in Entity /\ store[n][log[i].key] = v /\ v.updatedAt <= now
      BY <1>1, <1>2, <1>3 DEF Command, SetInv, SetAsAsked
    <2>2. v.kind = "kv" /\ v.ttl \in Int /\ v.updatedAt \in Nat /\ now \in Nat
      BY <2>1 DEF Entity, TypeOK
    <2> HIDE DEF v
    <2>3. Read(n, log[i].key, FALSE) = v /\ Read(n, log[i].key, TRUE) = Empty /\ v # Empty
      BY <1>2, <2>1, <2>2 DEF Read, Empty
    <2>4. ~EntityExpired(Empty)
      BY DEF EntityExpired, Empty
    <2>5. EntityExpired(v)
      BY <2>3, <2>4
    <2>6. v.ttl # NeverExpired /\ (v.ttl = Expired \/ v.ttl - (now - v.updatedAt) <= 0)
      BY <2>2, <2>5 DEF EntityExpired
    <2>7. now >= v.updatedAt + v.ttl
      BY <2>1, <2>2, <2>6 DEF Expired
    <2>8. Frees(log[l], now)
      BY <2>6, <2>7 DEF Frees, v
    <2>9. QED
      BY <1>1, <1>2, <2>8 DEF Room
  <1>4. CASE log[l].op = "UNSET"
    BY <1>1, <1>2, <1>4 DEF Room, Frees
  <1>5. QED
    BY <1>3, <1>4

\* Who is prior to a request has returned, and stays as it is.
LEMMA PriorFrozen ==
  ASSUME TypeOK, PriorInv, Frame, NEW d \in Caller, NEW p \in call'[d].prior
  PROVE  p \in Caller /\ call[p].pc = "done" /\ call'[p] = call[p]
  <1>1. p \in Returned
    BY DEF PriorInv, Frame
  <1>2. p \in Caller /\ call[p].pc = "done"
    BY <1>1 DEF Returned
  <1>3. QED
    BY <1>2 DEF Frame

\* What a creation needs is kept by every step that gives it no new request:
\* a SET it proposes is stamped now, and a SET of its own may be committed.
LEMMA RoomCarried ==
  ASSUME TypeOK, TypeOK', Frame, NEW d \in Caller, NEW i \in Committed, RoomFor(d, i),
         call'[d].pc \in {"probe", "write"} => call[d].pc \in {"probe", "write"},
         \A cmd \in proposed' : cmd.op = "SET" /\ cmd.caller = d =>
           cmd \in proposed \/ (cmd.value.updatedAt = now /\ call[d].pc \in {"probe", "write"}),
         \A j \in Committed' : log'[j].op = "SET" /\ log'[j].caller = d =>
           j \in Committed \/ (log'[j] \in proposed /\ j = Len(log) + 1)
  PROVE  RoomFor(d, i)'
  <1>0. /\ now \in Nat /\ now' \in Nat /\ now <= now'
        /\ Len(log) \in Nat /\ Len(log') \in Nat /\ Len(log) <= Len(log')
    BY DEF TypeOK, Frame
  <1>1. ASSUME NEW cmd \in Command, cmd.op = "SET" PROVE cmd.value.updatedAt \in Nat
    BY <1>1 DEF Command, Entity
  <1>2. call'[d].pc \in {"probe", "write"} => Room(log', i, now', Len(log'))
    BY <1>0, RoomStays DEF RoomFor
  <1>3. ASSUME NEW cmd \in proposed', cmd.caller = d, cmd.op = "SET"
        PROVE  Room(log', i, cmd.value.updatedAt, Len(log'))
    <2>1. cmd.value.updatedAt \in Nat /\ cmd.value.updatedAt <= cmd.value.updatedAt
      <3>1. cmd.value.updatedAt \in Nat
        BY <1>1, <1>3 DEF TypeOK
      <3>2. QED
        BY <3>1
    <2>2. Room(log, i, cmd.value.updatedAt, Len(log))
      BY <1>3 DEF RoomFor
    <2>3. QED
      BY <1>0, <2>1, <2>2, RoomStays
  <1>4. ASSUME NEW j \in Committed', log'[j].caller = d, log'[j].op = "SET"
        PROVE  Room(log', i, log'[j].value.updatedAt, j - 1)
    <2>1. log'[j] \in Command
      <3>1. log'[j] \in Entry /\ log'[j] # Noop
        BY <1>4 DEF TypeOK, Committed
      <3>2. QED
        BY <3>1 DEF Entry
    <2>2. log'[j].value.updatedAt \in Nat /\ log'[j].value.updatedAt <= log'[j].value.updatedAt
      <3>1. log'[j].value.updatedAt \in Nat
        BY <1>1, <1>4, <2>1
      <3>2. QED
        BY <3>1
    <2>3. CASE j \in Committed
      <3>1. log'[j] = log[j] /\ j \in Nat
        BY <2>3, CommittedType DEF Frame
      <3>2. Room(log, i, log'[j].value.updatedAt, j - 1)
        BY <1>4, <2>3, <3>1 DEF RoomFor
      <3>3. j - 1 \in Int /\ j - 1 <= j - 1
        BY <3>1
      <3>4. QED
        BY <2>2, <3>2, <3>3, RoomStays
    <2>4. CASE log'[j] \in proposed /\ j = Len(log) + 1
      <3>1. Room(log, i, log'[j].value.updatedAt, Len(log))
        BY <1>4, <2>4 DEF RoomFor
      <3>2. j - 1 = Len(log) /\ Len(log) <= Len(log) /\ Len(log) \in Int
        BY <1>0, <2>4
      <3>3. Room(log', i, log'[j].value.updatedAt, Len(log))
        BY <2>2, <3>1, <3>2, RoomStays
      <3>4. QED
        BY <3>2, <3>3
    <2>5. QED
      BY <1>4, <2>3, <2>4
  <1>5. QED
    BY <1>2, <1>3, <1>4 DEF RoomFor

\* Who comes before whom is settled when a request begins.
LEMMA BeforeStays ==
  ASSUME TypeOK, PriorInv, Frame, NEW c \in Caller, NEW d \in Caller, NEW i \in Committed,
         Before(c, d, i)', call[d].pc # "idle"
  PROVE  Before(c, d, i)
  <1>1. call'[c] = call[c]
    BY PriorFrozen DEF Before
  <1>2. log'[i] = log[i] /\ call'[d].req = call[d].req /\ call'[d].prior = call[d].prior
    BY DEF Frame
  <1>3. CreatedAt(c, i)
    BY <1>1, <1>2 DEF Before, CreatedAt, Acknowledged
  <1>4. QED
    BY <1>2, <1>3 DEF Before, Creates

\* Creations find room: one lemma per kind of step.
LEMMA RoomReturning ==
  ASSUME TypeOK, TypeOK', PriorInv, SetInv, RoomInv, NEW c0 \in Caller, NEW new, Returning(c0, new),
         UNCHANGED <<log, now>>
  PROVE  RoomInv'
  <1>1. /\ Frame /\ UNCHANGED proposed /\ Committed' = Committed /\ Issued' = Issued
        /\ call'[c0] = new /\ \A p \in Caller \ {c0} : call'[p] = call[p]
    BY ReturningFrame
  <1>2. new.pc = "done"
    BY DEF Returning
  <1>3. SUFFICES ASSUME NEW c \in Caller, NEW d \in Caller, NEW i \in Committed, Before(c, d, i)'
                 PROVE  RoomFor(d, i)'
    BY <1>1 DEF RoomInv
  <1>4. CASE call[d].pc = "idle"
    <2>1. d = c0
      BY <1>1, <1>3, <1>4 DEF Before, Creates
    <2>2. \A cmd \in Issued : cmd.caller # d
      BY <1>4 DEF PriorInv
    <2>3. QED
      BY <1>1, <1>2, <2>1, <2>2 DEF RoomFor, Issued
  <1>5. CASE call[d].pc # "idle"
    <2>1. RoomFor(d, i)
      BY <1>1, <1>3, <1>5, BeforeStays DEF RoomInv
    <2>2. call'[d].pc \in {"probe", "write"} => call[d].pc \in {"probe", "write"}
      BY <1>1, <1>2
    <2>3. QED
      BY <1>1, <2>1, <2>2, RoomCarried
  <1>6. QED
    BY <1>4, <1>5

LEMMA RoomProposing ==
  ASSUME TypeOK, TypeOK', AckInv, PriorInv, SetInv, KeptInv, RoomInv,
         NEW c0 \in Caller, NEW n, NEW new, NEW cmd, Proposing(c0, n, new, cmd), UNCHANGED <<log, now>>
  PROVE  RoomInv'
  <1>1. /\ Frame /\ Committed' = Committed
        /\ Issued' \subseteq Issued \cup {cmd} /\ proposed' \subseteq proposed \cup {cmd}
        /\ call'[c0] = new /\ \A p \in Caller \ {c0} : call'[p] = call[p]
    BY ProposingFrame
  <1>2. n \in Node /\ cmd.caller = c0 /\ call[c0].pc \in {"idle", "probe", "sweep"}
    BY DEF Proposing
  <1>3. SUFFICES ASSUME NEW c \in Caller, NEW d \in Caller, NEW i \in Committed, Before(c, d, i)'
                 PROVE  RoomFor(d, i)'
    BY <1>1 DEF RoomInv
  <1>4. CASE call[d].pc = "idle"
    <2>1. d = c0
      BY <1>1, <1>3, <1>4 DEF Before, Creates
    <2>2. \A x \in Issued : x.caller # d
      BY <1>4 DEF PriorInv
    <2>3. log[i].op = "SET" /\ log[i].caller = c /\ c \in call'[d].prior /\ Acknowledged(c)'
      BY <1>3 DEF Before, CreatedAt
    <2>4. Acknowledged(c)
      BY <1>1, <2>3, PriorFrozen DEF Acknowledged
    <2>5. i <= applied[n]
      BY <1>2, <2>3, <2>4, AckedEntry
    <2>6. /\ new.req.op = "SetKV" /\ ~new.req.overwrite /\ ~new.req.dir
          /\ log[i].key = new.req.key
      BY <1>1, <1>3, <2>1 DEF Before, Creates
    <2>7. /\ cmd.op = "SET" => cmd.value.updatedAt = now
          /\ \/ Read(n, new.req.key, FALSE) = Empty
             \/ EntityExpired(Read(n, new.req.key, FALSE))
      <3>1. cmd.op = "SET" => cmd.value.updatedAt = now
        BY DEF Proposing
      <3>2. new.req.dir = FALSE
        <4>1. call'[d] \in ActiveCall
          BY <1>3, <2>1 DEF TypeOK, Call, IdleCall, Before, Creates
        <4>2. call'[d].req \in WriteRequest
          BY <1>1, <2>1, <2>6, <4>1 DEF ActiveCall, Request
        <4>3. QED
          BY <1>1, <2>1, <2>6, <4>2 DEF WriteRequest
      <3>3. \/ Read(n, new.req.key, new.req.dir) = Empty
            \/ EntityExpired(Read(n, new.req.key, FALSE))
        BY <1>4, <2>1, <2>6 DEF Proposing
      <3>4. QED
        BY <3>1, <3>2, <3>3
    <2>8. ~log[i].dir
      <3>1. log[i] \in Issued
        BY CommittedType
      <3>2. log[i].dir = call[c].req.dir
        BY <2>3, <3>1 DEF SetInv, SetAsAsked
      <3>3. ~call[c].req.dir
        BY <1>1, <1>3, <2>3, PriorFrozen DEF Before, CreatedAt
      <3>4. QED
        BY <3>2, <3>3
    <2>9. Room(log, i, now, Len(log))
      BY <1>2, <2>3, <2>5, <2>6, <2>7, <2>8, RoomFound
    <2>10. \A j \in Committed : log[j].caller # d
      BY <2>2 DEF Issued
    <2>11. \A x \in proposed' : x.caller = d => x = cmd
      BY <1>1, <2>2 DEF Issued
    <2>12. QED
      BY <1>1, <2>7, <2>9, <2>10, <2>11 DEF RoomFor
  <1>5. CASE call[d].pc # "idle"
    <2>1. RoomFor(d, i) /\ Before(c, d, i)
      BY <1>1, <1>3, <1>5, BeforeStays DEF RoomInv
    <2>2. d = c0 => call[d].pc = "probe" /\ (cmd.op = "SET" => cmd.value.updatedAt = now)
      <3>1. SUFFICES ASSUME d = c0 PROVE call[d].pc = "probe" /\ (cmd.op = "SET" => cmd.value.updatedAt = now)
        OBVIOUS
      <3>2. call[c0].req.op = "SetKV" /\ new.req = call[c0].req
        BY <1>5, <2>1, <3>1 DEF Before, Creates, Proposing
      <3>3. call[c0].pc # "sweep"
        BY <3>2 DEF AckInv
      <3>4. QED
        BY <1>2, <1>5, <3>1, <3>3 DEF Proposing
    <2>3. call'[d].pc \in {"probe", "write"} => call[d].pc \in {"probe", "write"}
      BY <1>1, <2>2
    <2>4. \A x \in proposed' : x.op = "SET" /\ x.caller = d =>
            x \in proposed \/ (x.value.updatedAt = now /\ call[d].pc \in {"probe", "write"})
      BY <1>1, <1>2, <2>2
    <2>5. QED
      BY <1>1, <2>1, <2>3, <2>4, RoomCarried
  <1>6. QED
    BY <1>4, <1>5

LEMMA RoomCommit ==
  ASSUME TypeOK, TypeOK', AckInv, PriorInv, SetInv, RoomInv, NEW cmd \in proposed, Commit(cmd)
  PROVE  RoomInv'
  <1>1. /\ Frame /\ UNCHANGED <<call, now, store, applied>> /\ proposed' = proposed \ {cmd}
        /\ Committed' = Committed \cup {Len(log) + 1} /\ log'[Len(log) + 1] = cmd
        /\ Len(log') = Len(log) + 1 /\ Issued' = Issued /\ cmd \in Command /\ cmd \in Issued
    BY CommitFrame
  <1>2. SUFFICES ASSUME NEW c \in Caller, NEW d \in Caller, NEW i \in Committed', Before(c, d, i)'
                 PROVE  RoomFor(d, i)'
    BY DEF RoomInv
  <1>3. i \in Committed
    <2>1. SUFFICES ASSUME i = Len(log) + 1 PROVE FALSE
      BY <1>1
    <2>2. cmd.op = "SET" /\ cmd.caller = c /\ Acknowledged(c) /\ call[c].req.op = "SetKV"
      BY <1>1, <1>2, <2>1 DEF Before, CreatedAt, Acknowledged
    <2>3. QED
      BY <2>2, AckedSet
  <1>4. call[d].pc # "idle"
    BY <1>1, <1>2 DEF Before, Creates
  <1>5. RoomFor(d, i)
    BY <1>1, <1>2, <1>3, <1>4, BeforeStays DEF RoomInv
  <1>6. \A j \in Committed' : j \in Committed \/ (log'[j] \in proposed /\ j = Len(log) + 1)
    BY <1>1
  <1>7. QED
    BY <1>1, <1>3, <1>5, <1>6, RoomCarried

LEMMA RoomCalm ==
  ASSUME TypeOK, TypeOK', PriorInv, RoomInv, Calm
  PROVE  RoomInv'
  <1>1. Frame /\ Committed' = Committed /\ proposed' \subseteq proposed
        /\ \A p \in Caller : call'[p].pc = call[p].pc
    BY CalmFrame DEF Calm
  <1>2. SUFFICES ASSUME NEW c \in Caller, NEW d \in Caller, NEW i \in Committed, Before(c, d, i)'
                 PROVE  RoomFor(d, i)'
    BY <1>1 DEF RoomInv
  <1>3. call[d].pc # "idle"
    BY <1>1, <1>2 DEF Before, Creates
  <1>4. RoomFor(d, i)
    BY <1>1, <1>2, <1>3, BeforeStays DEF RoomInv
  <1>5. QED
    BY <1>1, <1>4, RoomCarried

\* What was acknowledged when a request began stays so.
LEMMA PriorSetStays ==
  ASSUME TypeOK, PriorInv, Frame, NEW r \in Caller, NEW i \in Committed, PriorSet(r, i)'
  PROVE  /\ log[i].op = "SET" /\ ~log[i].dir /\ Acknowledged(log[i].caller)
         /\ call[r].pc # "idle" => PriorSet(r, i)
  <1>1. log'[i] = log[i]
    BY DEF Frame
  <1>2. log[i].caller \in call'[r].prior
    BY <1>1 DEF PriorSet
  <1>3. call'[log[i].caller] = call[log[i].caller]
    BY <1>2, PriorFrozen
  <1>4. Acknowledged(log[i].caller)
    BY <1>1, <1>3 DEF PriorSet, Acknowledged
  <1>5. call[r].pc # "idle" => call'[r].prior = call[r].prior
    BY DEF Frame
  <1>6. QED
    BY <1>1, <1>2, <1>4, <1>5 DEF PriorSet

\* The two parts of RemovalInv.
Removable(r, i) == Removes(r, log[i].key) /\ PriorSet(r, i) => Room(log, i, now, Len(log))
Removed(h, i) ==
  (/\ log[i].op = "UNSET" /\ call[log[i].caller].req.op # "UnsetKV"
   /\ LastBefore(h, i) /\ PriorSet(log[i].caller, h)) => Frees(log[h], now)

LEMMA RemovalParts ==
  RemovalInv <=> /\ \A r \in Caller : \A i \in Committed : Removable(r, i)
                 /\ \A h, i \in Committed : Removed(h, i)
  BY DEF RemovalInv, Removable, Removed

\* What may be removed stays so, and so does what was removed.
LEMMA RemovableStays ==
  ASSUME TypeOK, PriorInv, Frame, NEW r \in Caller, NEW i \in Committed, Removable(r, i),
         call[r].pc # "idle", \A k : Removes(r, k)' => Removes(r, k)
  PROVE  Removable(r, i)'
  <1>1. log'[i] = log[i] /\ now \in Nat /\ now' \in Nat /\ now <= now'
        /\ Len(log) \in Int /\ Len(log') \in Int /\ Len(log) <= Len(log')
    BY DEF Frame, TypeOK
  <1>2. SUFFICES ASSUME Removes(r, log[i].key)', PriorSet(r, i)' PROVE Room(log', i, now', Len(log'))
    BY DEF Removable
  <1>0. Removes(r, log[i].key)
    <2>1. PICK k : k = log[i].key /\ k = log'[i].key
      BY <1>1
    <2>2. Removes(r, k)'
      BY <1>2, <2>1 DEF Removes
    <2>3. QED
      BY <2>1, <2>2
  <1>3. PriorSet(r, i)
    BY <1>2, PriorSetStays
  <1>4. Room(log, i, now, Len(log))
    BY <1>0, <1>3 DEF Removable
  <1>5. QED
    BY <1>1, <1>4, RoomStays

LEMMA RemovedStays ==
  ASSUME TypeOK, PriorInv, Frame, NEW h \in Committed, NEW i \in Committed, Removed(h, i)
  PROVE  Removed(h, i)'
  <1>1. /\ log'[i] = log[i] /\ log'[h] = log[h] /\ log[h] \in Command /\ now \in Nat /\ now' \in Nat /\ now <= now'
    BY CommittedType DEF Frame, TypeOK
  <1>2. PICK r \in Caller : r = log[i].caller /\ call[r].pc # "idle"
    <2>1. log[i] \in Issued /\ log[i].caller \in Caller
      BY CommittedType DEF Command
    <2>2. QED
      BY <2>1 DEF PriorInv
  <1>3. call'[r].req = call[r].req /\ log'[i].caller = r
    BY <1>1, <1>2 DEF Frame
  <1>4. LastBefore(h, i)' => LastBefore(h, i)
    BY <1>1 DEF LastBefore, Frame
  <1>5. PriorSet(r, h)' => PriorSet(r, h)
    BY <1>2, PriorSetStays
  <1>6. PriorSet(log[i].caller, h)' <=> PriorSet(r, h)'
    BY <1>3 DEF PriorSet
  <1>7. Frees(log[h], now) => Frees(log[h], now')
    BY <1>1, FreesLater
  <1>8. QED
    BY <1>1, <1>2, <1>3, <1>4, <1>5, <1>6, <1>7 DEF Removed

\* Removals spare what lives: one lemma per kind of step.
LEMMA RemovalReturning ==
  ASSUME TypeOK, PriorInv, RemovalInv, NEW c0 \in Caller, NEW new, Returning(c0, new),
         UNCHANGED <<log, now>>
  PROVE  RemovalInv'
  <1>1. /\ Frame /\ UNCHANGED proposed /\ Committed' = Committed /\ Issued' = Issued
        /\ call'[c0] = new /\ \A p \in Caller \ {c0} : call'[p] = call[p]
    BY ReturningFrame
  <1>2. new.pc = "done"
    BY DEF Returning
  <1>3. ASSUME NEW r \in Caller, NEW i \in Committed PROVE Removable(r, i)'
    <2>1. CASE call[r].pc = "idle"
      <3>1. \A cmd \in proposed' : cmd.caller # r
        BY <1>1, <2>1 DEF PriorInv, Issued
      <3>2. call'[r].pc # "sweep"
        BY <1>1, <1>2, <2>1
      <3>3. QED
        BY <3>1, <3>2 DEF Removable, Removes
    <2>2. CASE call[r].pc # "idle"
      <3>1. \A k : Removes(r, k)' => Removes(r, k)
        BY <1>1, <1>2, <2>2 DEF Removes, Frame
      <3>2. QED
        BY <1>1, <2>2, <3>1, RemovableStays, RemovalParts
    <2>3. QED
      BY <2>1, <2>2
  <1>4. ASSUME NEW h \in Committed, NEW i \in Committed PROVE Removed(h, i)'
    BY <1>1, RemovedStays, RemovalParts
  <1>5. QED
    BY <1>1, <1>3, <1>4 DEF RemovalInv, Removable, Removed

LEMMA RemovalProposing ==
  ASSUME TypeOK, AckInv, PriorInv, SetInv, KeptInv, RemovalInv,
         NEW c0 \in Caller, NEW n, NEW new, NEW cmd, Proposing(c0, n, new, cmd), UNCHANGED <<log, now>>
  PROVE  RemovalInv'
  <1>1. /\ Frame /\ Committed' = Committed
        /\ Issued' \subseteq Issued \cup {cmd} /\ proposed' \subseteq proposed \cup {cmd}
        /\ call'[c0] = new /\ \A p \in Caller \ {c0} : call'[p] = call[p]
    BY ProposingFrame
  <1>2. n \in Node /\ cmd.caller = c0
    BY DEF Proposing
  <1>3. ASSUME NEW i \in Committed, call[c0].pc = "idle" PROVE Removable(c0, i)'
    <2>1. \A x \in proposed' : x.caller = c0 => x = cmd
      BY <1>1, <1>3 DEF PriorInv, Issued
    <2>2. SUFFICES ASSUME Removes(c0, log[i].key)', PriorSet(c0, i)' PROVE Room(log, i, now, Len(log))
      BY DEF Removable, Removes
    <2>3. log[i].op = "SET" /\ ~log[i].dir /\ Acknowledged(log[i].caller)
      BY <1>1, <2>2, PriorSetStays
    <2>4. i <= applied[n]
      BY <1>2, <2>3, AckedEntry
    <2>5. \/ new.pc = "sweep" /\ log[i].key \in new.todo
          \/ cmd.op = "UNSET" /\ cmd.key = log[i].key /\ new.req.op # "UnsetKV"
      BY <1>1, <2>1, <2>2 DEF Removes
    <2>6. \/ EntityExpired(Read(n, log[i].key, FALSE))
          \/ EntityExpired(Read(n, log[i].key, TRUE))
      BY <1>3, <2>5 DEF Proposing
    <2>7. QED
      BY <1>2, <2>3, <2>4, <2>6, RoomFound
  <1>4. ASSUME NEW r \in Caller, NEW i \in Committed PROVE Removable(r, i)'
    <2>1. CASE r = c0 /\ call[r].pc # "idle"
      <3>1. /\ new.req = call[c0].req
            /\ \/ cmd.op = "SET" /\ new.pc = "write"
               \/ call[c0].pc = "sweep" /\ new.todo \cup {cmd.key} \subseteq call[c0].todo
        BY <2>1 DEF Proposing
      <3>2. \A k : Removes(r, k)' => Removes(r, k)
        BY <1>1, <1>2, <2>1, <3>1 DEF Removes
      <3>3. QED
        BY <1>1, <2>1, <3>2, RemovableStays, RemovalParts
    <2>2. CASE r # c0
      <3>1. \A k : Removes(r, k)' => Removes(r, k)
        BY <1>1, <1>2, <2>2 DEF Removes
      <3>2. CASE call[r].pc # "idle"
        BY <1>1, <3>1, <3>2, RemovableStays, RemovalParts
      <3>3. CASE call[r].pc = "idle"
        <4>1. call'[r].pc = "idle" /\ call'[r].prior = {}
          BY <1>1, <2>2, <3>3, CallTyped
        <4>2. QED
          BY <4>1 DEF Removable, PriorSet
      <3>4. QED
        BY <3>2, <3>3
    <2>3. QED
      BY <1>3, <2>1, <2>2
  <1>5. ASSUME NEW h \in Committed, NEW i \in Committed PROVE Removed(h, i)'
    BY <1>1, RemovedStays, RemovalParts
  <1>6. QED
    BY <1>1, <1>4, <1>5 DEF RemovalInv, Removable, Removed

LEMMA RemovalCommit ==
  ASSUME TypeOK, AckInv, PriorInv, SetInv, RemovalInv, NEW cmd \in proposed, Commit(cmd)
  PROVE  RemovalInv'
  <1>1. /\ Frame /\ UNCHANGED <<call, now, store, applied>> /\ proposed' = proposed \ {cmd}
        /\ Committed' = Committed \cup {Len(log) + 1} /\ log'[Len(log) + 1] = cmd
        /\ Len(log') = Len(log) + 1 /\ Issued' = Issued /\ cmd \in Command /\ cmd \in Issued
    BY CommitFrame
  <1>0. PICK e \in Nat : e = Len(log) + 1
    BY CommittedType
  <1>2. \A i \in Committed : i \in Nat /\ i < e
    BY <1>0, CommittedType
  <1>9. Committed' = Committed \cup {e} /\ log'[e] = cmd
    BY <1>0, <1>1
  <1>3. \A r \in Caller : ~PriorSet(r, e)'
    <2>1. SUFFICES ASSUME NEW r \in Caller, PriorSet(r, e)' PROVE FALSE
      OBVIOUS
    <2>2. cmd.op = "SET" /\ Acknowledged(cmd.caller) /\ cmd.caller \in Caller
      BY <1>1, <1>9, <2>1 DEF PriorSet, Acknowledged, Command
    <2>3. call[cmd.caller].req.op = "SetKV"
      BY <1>1, <2>2 DEF SetInv, SetAsAsked, Acknowledged
    <2>4. QED
      BY <2>2, <2>3, AckedSet
  <1>4. ASSUME NEW r \in Caller, NEW i \in Committed PROVE Removable(r, i)'
    <2>1. \A k : Removes(r, k)' => Removes(r, k)
      BY <1>1 DEF Removes
    <2>2. CASE call[r].pc = "idle"
      <3>1. call'[r].prior = {}
        BY <1>1, <2>2, CallTyped
      <3>2. QED
        BY <3>1 DEF Removable, PriorSet
    <2>3. CASE call[r].pc # "idle"
      BY <1>1, <2>1, <2>3, RemovableStays, RemovalParts
    <2>4. QED
      BY <2>2, <2>3
  <1>5. ASSUME NEW h \in Committed, NEW i \in Committed PROVE Removed(h, i)'
    BY <1>1, RemovedStays, RemovalParts
  <1>6. ASSUME NEW i \in Committed' PROVE Removed(e, i)'
    <2>1. ~(e < i)
      BY <1>2, <1>9
    <2>2. QED
      BY <2>1 DEF Removed, LastBefore
  <1>7. ASSUME NEW h \in Committed PROVE Removed(h, e)'
    <2>1. PICK r \in Caller : r = cmd.caller
      BY <1>1 DEF Command
    <2>2. SUFFICES ASSUME cmd.op = "UNSET", call[r].req.op # "UnsetKV", LastBefore(h, e)', PriorSet(r, h)'
                   PROVE  Frees(log[h], now)
      <3>1. log'[h] = log[h]
        BY <1>1 DEF Frame
      <3>2. PriorSet(log[e].caller, h)' <=> PriorSet(r, h)'
        BY <1>1, <1>9, <2>1 DEF PriorSet
      <3>3. QED
        BY <1>1, <1>9, <2>1, <3>1, <3>2 DEF Removed
    <2>3. log'[h] = log[h] /\ log'[e] = cmd /\ h \in Nat
      BY <1>1, <1>2, <1>9 DEF Frame
    <2>4. log[h].key = cmd.key /\ \A l \in Committed : log[l].key = log[h].key => l <= h
      <3>1. h < e /\ log'[h].key = log'[e].key
            /\ \A l \in Committed' : l < e /\ log'[l].key = log'[e].key => l <= h
        BY <2>2 DEF LastBefore
      <3>2. \A l \in Committed : l \in Committed' /\ l < e /\ log'[l] = log[l]
        BY <1>1, <1>2 DEF Frame
      <3>3. QED
        BY <2>3, <3>1, <3>2
    <2>5. Removes(r, log[h].key)
      BY <2>1, <2>2, <2>4 DEF Removes
    <2>6. PriorSet(r, h) /\ log[h].op = "SET"
      <3>1. call[r].pc # "idle"
        BY <1>1, <2>1 DEF PriorInv
      <3>2. QED
        BY <1>1, <2>2, <3>1, PriorSetStays
    <2>7. Room(log, h, now, Len(log))
      BY <2>5, <2>6, RemovalParts DEF Removable
    <2>8. PICK l \in DOMAIN log : log[l] # Noop /\ h <= l /\ log[l].key = log[h].key /\ Frees(log[l], now)
      BY <2>7 DEF Room
    <2>9. l \in Committed
      BY <2>8 DEF Committed
    <2>10. l <= h /\ l \in Nat
      BY <1>2, <2>4, <2>8, <2>9
    <2>11. l = h
      BY <2>3, <2>8, <2>10
    <2>12. QED
      BY <2>8, <2>11
  <1>8. ASSUME NEW r \in Caller PROVE Removable(r, e)'
    BY <1>3 DEF Removable
  <1>10. /\ \A r \in Caller : \A i \in Committed' : Removable(r, i)'
         /\ \A h, i \in Committed' : Removed(h, i)'
    BY <1>4, <1>5, <1>6, <1>7, <1>8, <1>9
  <1>11. QED
    BY <1>10 DEF RemovalInv, Removable, Removed

LEMMA RemovalCalm ==
  ASSUME TypeOK, PriorInv, RemovalInv, Calm
  PROVE  RemovalInv'
  <1>1. Frame /\ Committed' = Committed
    BY CalmFrame DEF Calm
  <1>2. ASSUME NEW r \in Caller, NEW i \in Committed PROVE Removable(r, i)'
    <2>1. \A k : Removes(r, k)' => Removes(r, k)
      BY DEF Removes, Calm
    <2>2. CASE call[r].pc = "idle"
      <3>1. call'[r].prior = {}
        BY <2>2, CallTyped DEF Calm
      <3>2. QED
        BY <3>1 DEF Removable, PriorSet
    <2>3. CASE call[r].pc # "idle"
      BY <1>1, <2>1, <2>3, RemovableStays, RemovalParts
    <2>4. QED
      BY <2>2, <2>3
  <1>3. ASSUME NEW h \in Committed, NEW i \in Committed PROVE Removed(h, i)'
    BY <1>1, RemovedStays, RemovalParts
  <1>4. QED
    BY <1>1, <1>2, <1>3 DEF RemovalInv, Removable, Removed

SoloInv == AckInv /\ PriorInv /\ SetInv /\ KeptInv /\ RoomInv /\ RemovalInv

\* All of it together.
LEMMA SoloInit == Init => SoloInv
  <1> SUFFICES ASSUME Init PROVE SoloInv
    OBVIOUS
  <1>1. Committed = {} /\ Issued = {} /\ proposed = {}
    BY DEF Init, Committed, Issued
  <1>2. \A c \in Caller : call[c].pc = "idle" /\ call[c].prior = {}
    BY DEF Init, IdleCall
  <1>3. AckInv /\ PriorInv /\ SetInv /\ KeptInv
    BY <1>1, <1>2, AckInit DEF PriorInv, SetInv, KeptInv
  <1>4. RoomInv /\ RemovalInv
    BY <1>1 DEF RoomInv, RemovalInv
  <1>5. QED
    BY <1>3, <1>4 DEF SoloInv

LEMMA SoloStep ==
  ASSUME TypeOK, Alone, SoloInv, [Next]_vars, restarts' = 0
  PROVE  SoloInv'
  <1>0. AckInv /\ PriorInv /\ SetInv /\ KeptInv /\ RoomInv /\ RemovalInv
    BY DEF SoloInv
  <1>1. TypeOK' /\ AckInv' /\ KeptInv'
    BY <1>0, TypeStep, AckStep, KeptStep
  <1>2. ASSUME NEW c \in Caller, NEW new, Returning(c, new), UNCHANGED <<log, now>>
        PROVE  PriorInv' /\ SetInv' /\ RoomInv' /\ RemovalInv'
    <2>1. Frame /\ Issued' \subseteq Issued
      BY <1>2, ReturningFrame
    <2>2. PriorInv'
      BY <1>0, <2>1, PriorStep
    <2>3. QED
      BY <1>0, <1>1, <1>2, <2>2, SetInvReturning, RoomReturning, RemovalReturning
  <1>3. ASSUME NEW c \in Caller, NEW n, NEW new, NEW cmd, Proposing(c, n, new, cmd), UNCHANGED <<log, now>>
        PROVE  PriorInv' /\ SetInv' /\ RoomInv' /\ RemovalInv'
    <2>1. Frame /\ Issued' \subseteq Issued \cup {cmd} /\ call'[c] = new
      BY <1>3, ProposingFrame
    <2>2. cmd.caller = c /\ new.pc # "idle"
      BY <1>3 DEF Proposing
    <2>3. \A x \in Issued' : x \in Issued \/ call'[x.caller].pc # "idle"
      BY <2>1, <2>2
    <2>4. PriorInv'
      BY <1>0, <2>1, <2>3, PriorStep
    <2>5. QED
      BY <1>0, <1>1, <1>3, <2>4, SetInvProposing, RoomProposing, RemovalProposing
  <1>4. ASSUME NEW cmd \in proposed, Commit(cmd) PROVE PriorInv' /\ SetInv' /\ RoomInv' /\ RemovalInv'
    <2>1. Frame /\ Issued' \subseteq Issued
      BY <1>4, CommitFrame
    <2>2. PriorInv'
      BY <1>0, <2>1, PriorStep
    <2>3. QED
      BY <1>0, <1>1, <1>4, <2>2, SetInvCommit, RoomCommit, RemovalCommit
  <1>5. CASE Calm
    <2>1. Frame /\ Issued' \subseteq Issued
      BY <1>5, CalmFrame
    <2>2. PriorInv'
      BY <1>0, <2>1, PriorStep
    <2>3. QED
      BY <1>0, <1>1, <1>5, <2>2, SetInvCalm, RoomCalm, RemovalCalm DEF SoloInv
  <1>6. QED
    BY <1>0, <1>1, <1>2, <1>3, <1>4, <1>5, SoloKinds DEF SoloInv

LEMMA SoloInvariant ==
  ASSUME Alone
  PROVE  Spec => [](restarts = 0 => TypeOK /\ SoloInv)
  <1> DEFINE I == restarts = 0 => SoloInv
             J == restarts = 0 => TypeOK /\ SoloInv
  <1>1. Init => I
    BY SoloInit
  <1>2. TypeOK /\ I /\ [Next]_vars => I'
    <2>1. SUFFICES ASSUME TypeOK, I, [Next]_vars, restarts' = 0 PROVE SoloInv'
      OBVIOUS
    <2>2. restarts = 0
      BY <2>1, SoloSteps
    <2>3. QED
      BY <2>1, <2>2, SoloStep
  <1>3. TypeOK /\ I => J
    OBVIOUS
  <1> HIDE DEF I, J
  <1>4. Spec => []J
    BY <1>1, <1>2, <1>3, TypeCorrect, PTL DEF Spec
  <1>5. QED
    BY <1>4 DEF J

\* The invariant implies both properties.
LEMMA RoomIsMade == TypeOK /\ SoloInv => CreateExclusiveInSequence
  <1> SUFFICES ASSUME TypeOK, SoloInv, NEW c \in Caller, NEW d \in Caller,
                      NEW i \in Committed, NEW j \in Committed,
                      CreatedAt(c, i), CreatedAt(d, j), log[i].key = log[j].key, c \in call[d].prior
               PROVE  MadeRoom(i, j)
    BY DEF CreateExclusiveInSequence
  <1>1. log[j] \in Issued /\ i \in Nat /\ j \in Nat
    BY CommittedType
  <1>2. log[j].key = call[d].req.key
    BY <1>1 DEF SoloInv, SetInv, SetAsAsked, CreatedAt
  <1>3. Before(c, d, i)
    BY <1>2 DEF Before, Creates, CreatedAt, Acknowledged
  <1>4. Room(log, i, log[j].value.updatedAt, j - 1)
    BY <1>3 DEF SoloInv, RoomInv, RoomFor, CreatedAt
  <1>5. PICK l \in DOMAIN log : /\ log[l] # Noop /\ i <= l /\ l <= j - 1 /\ log[l].key = log[i].key
                                /\ Frees(log[l], log[j].value.updatedAt)
    BY <1>4 DEF Room
  <1>6. l \in Committed
    BY <1>5 DEF Committed
  <1>7. l < j
    <2>1. l \in Nat
      BY <1>6, CommittedType
    <2>2. QED
      BY <1>1, <1>5, <2>1
  <1>8. QED
    BY <1>5, <1>6, <1>7 DEF MadeRoom, Frees

LEMMA OnlyExpired == TypeOK /\ SoloInv => ExpiryRemovesOnlyExpired
  <1> SUFFICES ASSUME TypeOK, SoloInv, NEW i \in Committed,
                      log[i].op = "UNSET", call[log[i].caller].req.op # "UnsetKV",
                      Writes(log[i].key, i - 1) # {},
                      LET last == log[LastWrite(log[i].key, i - 1)]
                      IN  /\ last.op = "SET" /\ ~last.dir
                          /\ last.caller \in call[log[i].caller].prior /\ Acknowledged(last.caller)
               PROVE  LET last == log[LastWrite(log[i].key, i - 1)]
                      IN  /\ last.value.ttl # NeverExpired
                          /\ now >= last.value.updatedAt + last.value.ttl
    BY DEF ExpiryRemovesOnlyExpired
  <1> DEFINE k == log[i].key
             h == LastWrite(k, i - 1)
  <1>1. i \in Nat /\ i \in 1..Len(log) /\ i - 1 \in Nat /\ Len(log) \in Nat
    <2>1. i \in 1..Len(log) /\ Len(log) \in Nat
      BY CommittedType
    <2>2. QED
      BY <2>1
  <1>2. h \in Writes(k, i - 1) /\ \A l \in Writes(k, i - 1) : l <= h
    BY <1>1, LastWriteIsLast
  <1>3. h \in 1..(i - 1) /\ log[h] # Noop /\ log[h].key = k
    BY <1>2 DEF Writes
  <1>4. h \in Committed /\ h < i
    <2>1. DOMAIN log = 1..Len(log)
      BY DEF TypeOK
    <2>2. h \in 1..Len(log) /\ h < i
      BY <1>1, <1>3
    <2>3. QED
      BY <1>3, <2>1, <2>2 DEF Committed
  <1>5. \A l \in Committed : l < i /\ log[l].key = k => l \in Writes(k, i - 1)
    <2>1. SUFFICES ASSUME NEW l \in Committed, l < i, log[l].key = k PROVE l \in Writes(k, i - 1)
      OBVIOUS
    <2>2. l \in 1..Len(log) /\ log[l] # Noop
      BY CommittedType DEF Committed
    <2>3. l \in 1..(i - 1)
      BY <1>1, <2>1, <2>2
    <2>4. QED
      BY <2>1, <2>2, <2>3 DEF Writes
  <1>6. LastBefore(h, i)
    BY <1>2, <1>3, <1>4, <1>5 DEF LastBefore
  <1>7. PriorSet(log[i].caller, h) /\ log[h].op = "SET"
    BY DEF PriorSet
  <1> HIDE DEF h, k
  <1>8. Frees(log[h], now)
    BY <1>4, <1>6, <1>7 DEF SoloInv, RemovalInv
  <1>9. QED
    BY <1>7, <1>8 DEF Frees, h, k

\* On a store of one replica, until it is restarted, a creation that was
\* requested after another one of the same key had succeeded succeeds only
\* where the key was removed or expired in between.
THEOREM CreationIsExclusive ==
  ASSUME Alone
  PROVE  Spec => [](restarts = 0 => CreateExclusiveInSequence)
  BY RoomIsMade, SoloInvariant, PTL

\* On a store of one replica, until it is restarted, a removal that a read
\* starts spares every entity that was acknowledged when the read began and is
\* not expired, however the removal is delayed.
THEOREM ExpirySparesTheLiving ==
  ASSUME Alone
  PROVE  Spec => [](restarts = 0 => ExpiryRemovesOnlyExpired)
  BY OnlyExpired, SoloInvariant, PTL
=============================================================================
