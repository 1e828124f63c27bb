------------------------------- MODULE RaftKV -------------------------------
(***************************************************************************)
(* The replicated key-value store of cassemkv: the request handlers of     *)
(* raftimpl/raft_impl.go, the Ready loop of raftimpl/node.go that feeds    *)
(* committed entries and snapshots to them, and the bbolt repository.      *)
(*                                                                         *)
(* etcd's raft is external: it is one log of committed entries to which    *)
(* accepted proposals are appended in any order, unless they are lost when *)
(* leadership moves, and entries without a command, when a leader is       *)
(* elected or the membership changes.  Every replica reads the same log at *)
(* its own pace.                                                           *)
(*                                                                         *)
(* A key names one cell of the bolt file: empty, a bucket ("dir") or an    *)
(* entity.  A Caller is one RPC handler, running on one replica; it makes  *)
(* one request and is then done.                                           *)
(***************************************************************************)
EXTENDS Integers, FiniteSets, Sequences

CONSTANTS
  Node,        \* the cassemkv replicas
  Key,         \* the keys clients use
  InvalidKey,  \* those with an empty path segment or leaf (locateBucket refuses them)
  Val,         \* the values clients write
  Ttl,         \* the ttl values clients write, 0 for none
  Caller,      \* the requests, each made once
  Op,          \* the operations clients use
  DirFlags,    \* the isDir flags clients use
  SnapCount,   \* raft.Config snapCount
  CanLose,     \* does raft refuse proposals, or lose accepted ones?
  MaxEmpty,    \* bound on the entries without a command
  MaxNow,      \* bound on the wall clock
  MaxRestart   \* bound on crash-and-restarts

AllOps == {"SetKV", "UnsetKV", "GetKV", "Range", "Expire"}

ASSUME ConstAssumption ==
  /\ InvalidKey \subseteq Key
  /\ Ttl \subseteq Nat
  /\ Op \subseteq AllOps
  /\ DirFlags \subseteq BOOLEAN
  /\ SnapCount \in Nat
  /\ CanLose \in BOOLEAN
  /\ MaxEmpty \in Nat
  /\ MaxNow \in Nat
  /\ MaxRestart \in Nat

VARIABLES
  now,            \* the wall clock, assumed common to the replicas
  log,            \* committed entries
  proposed,       \* commands raft has accepted and not yet committed
  store,          \* store[n][k]: the bolt file of n; it survives a crash
  published,      \* raftNode.appliedIndex: entries handed to the applier
  applied,        \* of those, the ones the applier has finished
  halted,         \* the applyCommits goroutine has returned an error
  snap,           \* the newest snapshot file of n
  awaited,        \* the batch published last had commands: applyDoneC is not nil
  hasty,          \* history: a snapshot was taken without waiting for a busy applier
  nextRequestID,  \* raftNodeImpl.nextRequestID, zero after every start
  call,           \* the handlers
  restarts

vars == <<now, log, proposed, store, published, applied, halted, snap, awaited, hasty,
          nextRequestID, call, restarts>>
raftVars == <<published, applied, halted, snap, awaited, hasty>>

-----------------------------------------------------------------------------
(* Cells of the bolt file *)

NeverExpired == -2
Expired == -1
Empty == [kind |-> "empty"]
Dir == [kind |-> "dir"]
Entity == [kind : {"kv"}, val : Val, ttl : Int, updatedAt : Nat]
Cell == {Empty, Dir} \cup Entity

NewEntityWithCreated(v, ttl) ==
  [kind |-> "kv", val |-> v, ttl |-> IF ttl = 0 THEN NeverExpired ELSE ttl,
   updatedAt |-> now]

\* Mutant: expires one second early.
EntityExpiredEarly(cell) ==
  cell.kind = "kv" /\ cell.ttl # NeverExpired /\ cell.ttl - (now - cell.updatedAt) <= 1

\* GetKV on a directory answers with a zero Entity, whose ttl 0 counts from
\* the Unix epoch: EntityExpired finds every directory expired.
EntityExpired(cell) ==
  \/ cell.kind = "dir"
  \/ /\ cell.kind = "kv"
     /\ cell.ttl # NeverExpired
     /\ cell.ttl = Expired \/ cell.ttl - (now - cell.updatedAt) <= 0

\* Mutant: the two kinds are swapped.
ReadSwapped(n, k, dir) ==
  IF k \notin InvalidKey /\ store[n][k].kind = (IF dir THEN "kv" ELSE "dir")
  THEN store[n][k] ELSE Empty

\* boltRepoImpl.GetKV: the cell read as the kind asked for, Empty for the
\* not-found errors and for the error of an invalid key.
Read(n, k, dir) ==
  IF k \notin InvalidKey /\ store[n][k].kind = (IF dir THEN "dir" ELSE "kv")
  THEN store[n][k] ELSE Empty

\* The error a read ends with.
ReadResult(k, cell) ==
  CASE k \in InvalidKey -> "err"
    [] k \notin InvalidKey /\ cell = Empty -> "notfound"
    [] OTHER -> "ok"

-----------------------------------------------------------------------------
(* Commands.  node and caller are history: MutateCommand carries only the  *)
(* request id of the node that proposed it.                                *)

Command == {cmd \in [id : Nat, node : Node, caller : Caller, op : {"SET", "UNSET"},
                     key : Key, dir : BOOLEAN, value : Cell] :
              cmd.op = "SET" => cmd.value \in Entity}

\* An entry without a command.
Noop == [op |-> "NOOP"]
Entry == Command \cup {Noop}

SetCommand(n, c, k, dir, entity) ==
  [id |-> nextRequestID[n] + 1, node |-> n, caller |-> c, op |-> "SET",
   key |-> k, dir |-> dir, value |-> entity]

UnsetCommand(n, c, k, dir) ==
  [id |-> nextRequestID[n] + 1, node |-> n, caller |-> c, op |-> "UNSET",
   key |-> k, dir |-> dir, value |-> Empty]

\* bbolt refuses to use a bucket as a value or a value as a bucket, and
\* locateBucket refuses an invalid key.
Fails(cmd, cell) ==
  \/ cmd.key \in InvalidKey
  \/ cell.kind = (IF cmd.dir THEN "kv" ELSE "dir")

\* The cell a command that does not fail leaves.
Effect(cmd) ==
  CASE cmd.op = "UNSET" -> Empty
    [] cmd.op = "SET" /\ cmd.dir -> Dir
    [] OTHER -> cmd.value

-----------------------------------------------------------------------------
(* Handlers *)

IdleCall == [pc |-> "idle", id |-> 0, ack |-> "none", todo |-> {}, prior |-> {}]

\* A handler waits in "probe" for the removal of an expired key, in "write"
\* for its own command and in "sweep" for the removals Range starts.
Waiting(c) == call[c].pc \in {"probe", "write", "sweep"}

\* Mutants: the id is not compared; only direct writes are registered.
PendingAnyId(c, n, id) == Waiting(c) /\ call[c].node = n /\ call[c].ack = "none"
PendingWriteOnly(c, n, id) == /\ call[c].pc = "write" /\ call[c].node = n
                              /\ call[c].id = id /\ call[c].ack = "none"

\* The entries of the pending map of node n.
Pending(c, n, id) ==
  /\ Waiting(c)
  /\ call[c].node = n
  /\ call[c].id = id
  /\ call[c].ack = "none"

Returned == {c \in Caller : call[c].pc = "done"}

\* registerPending and propose: the handler waits on a fresh request id, and
\* raft has accepted the command or node.Propose has answered an error.
registerAndPropose(rec, c, n, cmd) ==
  /\ nextRequestID' = [nextRequestID EXCEPT ![n] = @ + 1]
  /\ \/ /\ proposed' = proposed \cup {cmd}
        /\ call' = [call EXCEPT ![c] = [rec EXCEPT !.id = cmd.id, !.ack = "none"]]
     \/ /\ CanLose
        /\ proposed' = proposed
        /\ call' = [call EXCEPT ![c] = [rec EXCEPT !.id = cmd.id, !.ack = "err"]]

returns(rec, c, result) ==
  /\ call' = [call EXCEPT ![c] = [rec EXCEPT !.pc = "done", !.ack = result]]
  /\ UNCHANGED <<nextRequestID, proposed>>

NewCall(c, n, req, pc, todo) ==
  [pc |-> pc, node |-> n, req |-> req, id |-> 0, ack |-> "none", todo |-> todo,
   prior |-> Returned]

\* The handler's last step: propose the SET and wait.
proposeSet(rec, c, n, req) ==
  registerAndPropose([rec EXCEPT !.pc = "write"], c, n,
    SetCommand(n, c, req.key, req.dir, NewEntityWithCreated(req.val, req.ttl)))

\* SetKV.  The existence check reads the local store, before the proposal.
doSetKV(c, n, req) ==
  LET last == Read(n, req.key, req.dir)
      rec == NewCall(c, n, req, "probe", {})
  IN \/ /\ EntityExpired(last)
        /\ registerAndPropose(rec, c, n, UnsetCommand(n, c, req.key, FALSE))
     \/ /\ last # Empty /\ ~EntityExpired(last) /\ ~req.overwrite
        /\ returns(rec, c, "exists")
     \/ /\ last = Empty \/ (~EntityExpired(last) /\ req.overwrite)
        /\ proposeSet(rec, c, n, req)

SetRequest == [op : {"SetKV"}, key : Key, dir : DirFlags, val : Val, ttl : Ttl,
               overwrite : BOOLEAN]

SetKV(c, n) ==
  /\ "SetKV" \in Op
  /\ call[c].pc = "idle"
  /\ \E req \in SetRequest : doSetKV(c, n, req)
  /\ UNCHANGED <<now, log, store, raftVars, restarts>>

UnsetKV(c, n) ==
  /\ "UnsetKV" \in Op
  /\ call[c].pc = "idle"
  /\ \E req \in [op : {"UnsetKV"}, key : Key, dir : DirFlags] :
       registerAndPropose(NewCall(c, n, req, "write", {}), c, n,
                          UnsetCommand(n, c, req.key, req.dir))
  /\ UNCHANGED <<now, log, store, raftVars, restarts>>

GetKV(c, n) ==
  /\ "GetKV" \in Op
  /\ call[c].pc = "idle"
  /\ \E k \in Key :
       LET last == Read(n, k, FALSE)
           rec == NewCall(c, n, [op |-> "GetKV", key |-> k], "probe", {})
       IN \/ /\ EntityExpired(last)
             /\ registerAndPropose(rec, c, n, UnsetCommand(n, c, k, FALSE))
          \/ /\ ~EntityExpired(last)
             /\ returns(rec, c, ReadResult(k, last))
  /\ UNCHANGED <<now, log, store, raftVars, restarts>>

\* Range answers at once and removes the expired keys it met in a goroutine
\* of its own, one after the other.
Range(c, n) ==
  /\ "Range" \in Op
  /\ call[c].pc = "idle"
  /\ LET expiredKeys == {k \in Key : EntityExpired(Read(n, k, FALSE))}
         rec(todo) == NewCall(c, n, [op |-> "Range"], "sweep", todo)
     IN \/ expiredKeys = {} /\ returns(rec({}), c, "ok")
        \/ \E k \in expiredKeys :
             registerAndPropose(rec(expiredKeys \ {k}), c, n, UnsetCommand(n, c, k, FALSE))
  /\ UNCHANGED <<now, log, store, raftVars, restarts>>

\* Expire rewrites an entity that has a deadline, with a ttl in the past.
Expire(c, n) ==
  /\ "Expire" \in Op
  /\ call[c].pc = "idle"
  /\ \E k \in Key :
       LET v == Read(n, k, FALSE)
           hasDeadline == v.kind = "kv" /\ v.ttl # NeverExpired
       IN \/ /\ ~hasDeadline
             /\ returns(NewCall(c, n, [op |-> "Expire", key |-> k], "done", {}), c,
                        IF k \in InvalidKey THEN "err" ELSE "ok")
          \/ /\ hasDeadline
             /\ doSetKV(c, n, [op |-> "Expire", key |-> k, dir |-> FALSE, val |-> v.val,
                               ttl |-> Expired, overwrite |-> TRUE])
  /\ UNCHANGED <<now, log, store, raftVars, restarts>>

\* waitPending returns in a handler that waits for its own command.
AckWrite(c) ==
  /\ call[c].pc = "write"
  /\ call[c].ack # "none"
  /\ returns(call[c], c, call[c].ack)
  /\ UNCHANGED <<now, log, store, raftVars, restarts>>

\* probeRemoveExpired ignores the error of its UnsetKV: GetKV then answers
\* not found, SetKV and Expire go on to propose the SET.
AckProbe(c) ==
  /\ call[c].pc = "probe"
  /\ call[c].ack # "none"
  /\ \/ /\ call[c].req.op = "GetKV"
        /\ returns(call[c], c, "notfound")
     \/ /\ call[c].req.op # "GetKV"
        /\ proposeSet(call[c], c, call[c].node, call[c].req)
  /\ UNCHANGED <<now, log, store, raftVars, restarts>>

AckSweep(c) ==
  /\ call[c].pc = "sweep"
  /\ call[c].ack # "none"
  /\ \/ /\ call[c].todo = {}
        /\ returns(call[c], c, "ok")
     \/ \E k \in call[c].todo :
          registerAndPropose([call[c] EXCEPT !.todo = @ \ {k}], c, call[c].node,
                             UnsetCommand(call[c].node, c, k, FALSE))
  /\ UNCHANGED <<now, log, store, raftVars, restarts>>

\* The client's context ends first.  Expire, probes and sweeps run with
\* context.Background() and never do.
ContextDone(c) ==
  /\ call[c].pc = "write"
  /\ call[c].req.op \in {"SetKV", "UnsetKV"}
  /\ returns(call[c], c, "timeout")
  /\ UNCHANGED <<now, log, store, raftVars, restarts>>

-----------------------------------------------------------------------------
(* Raft, as the Ready loop sees it *)

\* An accepted proposal is committed.
Commit(cmd) ==
  /\ log' = Append(log, cmd)
  /\ proposed' = proposed \ {cmd}
  /\ UNCHANGED <<now, store, raftVars, nextRequestID, call, restarts>>

\* node.Propose answers nil and the entry never commits.
Lose(cmd) ==
  /\ CanLose
  /\ proposed' = proposed \ {cmd}
  /\ UNCHANGED <<now, log, store, raftVars, nextRequestID, call, restarts>>

\* A new leader's first entry, or a change of the membership, is committed.
CommitEmpty ==
  /\ Cardinality({i \in DOMAIN log : log[i] = Noop}) < MaxEmpty
  /\ log' = Append(log, Noop)
  /\ UNCHANGED <<now, proposed, store, raftVars, nextRequestID, call, restarts>>

\* The entries from i to j hold a command.
HasCommand(i, j) == \E l \in i..j : log[l] # Noop

\* The applier is not back in its receive.
Busy(n) == HasCommand(applied[n] + 1, published[n])

SnapshotDue(n) == published[n] - snap[n].index > SnapCount

\* Mutant: the batch is counted from the snapshot, not from what is published.
entriesToApplyUncut(n) == snap[n].index..Len(log)

\* The last index of each batch a Ready may hold: what is already published
\* is cut off.
entriesToApply(n) == (published[n] + 1)..Len(log)

\* publishEntries hands the commands of a batch to the applier over an
\* unbuffered channel: the applier must be back in its receive.  A batch
\* without commands is only counted.
publishEntries(n) ==
  /\ ~SnapshotDue(n)
  /\ \E i \in entriesToApply(n) :
       /\ HasCommand(published[n] + 1, i) => ~halted[n] /\ ~Busy(n)
       /\ published' = [published EXCEPT ![n] = i]
       /\ awaited' = [awaited EXCEPT ![n] = HasCommand(published[n] + 1, i)]
  /\ UNCHANGED <<now, log, proposed, store, applied, halted, snap, hasty, nextRequestID,
                 call, restarts>>

\* resolvePending: the id alone selects the waiting handler.
resolvePending(n, id, ack) ==
  call' = [c \in Caller |-> IF Pending(c, n, id) THEN [call[c] EXCEPT !.ack = ack]
                            ELSE call[c]]

\* Mutant: only the proposer's replica takes the error seriously.
ApplyFailsLocally(n, cmd) ==
  Fails(cmd, store[n][cmd.key]) /\ \E c \in Caller : Pending(c, n, cmd.id)

ApplyFails(n, cmd) == Fails(cmd, store[n][cmd.key])

\* One committed command is applied to the store and acknowledged.  On an
\* error applyCommits returns: nobody receives from commitC any more.
applyMutateLogEntry(n) ==
  /\ ~halted[n]
  /\ applied[n] < published[n]
  /\ log[applied[n] + 1] # Noop
  /\ LET cmd == log[applied[n] + 1]
     IN \/ /\ ApplyFails(n, cmd)
           /\ halted' = [halted EXCEPT ![n] = TRUE]
           /\ resolvePending(n, cmd.id, "err")
           /\ UNCHANGED <<store, applied>>
        \/ /\ ~ApplyFails(n, cmd)
           /\ store' = [store EXCEPT ![n][cmd.key] = Effect(cmd)]
           /\ applied' = [applied EXCEPT ![n] = @ + 1]
           /\ resolvePending(n, cmd.id, "ok")
           /\ UNCHANGED halted
  /\ UNCHANGED <<now, log, proposed, published, snap, awaited, hasty, nextRequestID, restarts>>

\* Entries without a command never reach the applier.
passEmpty(n) ==
  /\ ~halted[n]
  /\ applied[n] < published[n]
  /\ log[applied[n] + 1] = Noop
  /\ applied' = [applied EXCEPT ![n] = @ + 1]
  /\ UNCHANGED <<now, log, proposed, store, published, halted, snap, awaited, hasty,
                 nextRequestID, call, restarts>>

\* Mutant: the snapshot is taken without waiting for the applier.
maybeTriggerSnapshotEarly(n) ==
  /\ SnapshotDue(n)
  /\ snap' = [snap EXCEPT ![n] = [index |-> published[n], data |-> store[n]]]
  /\ UNCHANGED <<now, log, proposed, store, published, applied, halted, awaited, hasty,
                 nextRequestID, call, restarts>>

\* The Ready loop waits for applyDoneC, if there is one; applyCommit closes it
\* on its way out, after an error too.
maybeTriggerSnapshot(n) ==
  /\ SnapshotDue(n)
  /\ awaited[n] => ~Busy(n) \/ halted[n]
  /\ snap' = [snap EXCEPT ![n] = [index |-> published[n], data |-> store[n]]]
  /\ hasty' = (hasty \/ (~awaited[n] /\ Busy(n)))
  /\ UNCHANGED <<now, log, proposed, store, published, applied, halted, awaited,
                 nextRequestID, call, restarts>>

\* Mutant: the received snapshot is saved and never loaded.
recoverFromSnapshotSkipped(n, m) == UNCHANGED store

recoverFromSnapshot(n, m) == store' = [store EXCEPT ![n] = snap[m].data]

\* A lagging replica receives the snapshot of another one.
publishSnapshot(n, m) ==
  /\ ~halted[n]
  /\ ~Busy(n)
  /\ ~SnapshotDue(n)
  /\ snap[m].index > published[n]
  /\ snap' = [snap EXCEPT ![n] = snap[m]]
  /\ recoverFromSnapshot(n, m)
  /\ published' = [published EXCEPT ![n] = snap[m].index]
  /\ applied' = [applied EXCEPT ![n] = snap[m].index]
  /\ UNCHANGED <<now, log, proposed, halted, awaited, hasty, nextRequestID, call, restarts>>

\* The process dies and starts again: the WAL is replayed from the newest
\* snapshot, over the bolt file as it was left when there is no snapshot.
Restart(n) ==
  /\ restarts < MaxRestart
  /\ restarts' = restarts + 1
  /\ store' = [store EXCEPT ![n] = IF snap[n].index > 0 THEN snap[n].data ELSE @]
  /\ published' = [published EXCEPT ![n] = snap[n].index]
  /\ applied' = [applied EXCEPT ![n] = snap[n].index]
  /\ halted' = [halted EXCEPT ![n] = FALSE]
  /\ nextRequestID' = [nextRequestID EXCEPT ![n] = 0]
  /\ call' = [c \in Caller |-> IF Waiting(c) /\ call[c].node = n
                               THEN [call[c] EXCEPT !.pc = "done", !.ack = "crash"]
                               ELSE call[c]]
  /\ awaited' = [awaited EXCEPT ![n] = FALSE]
  /\ UNCHANGED <<now, log, proposed, snap, hasty>>

Tick ==
  /\ now < MaxNow
  /\ now' = now + 1
  /\ UNCHANGED <<log, proposed, store, raftVars, nextRequestID, call, restarts>>

-----------------------------------------------------------------------------

Init ==
  /\ now = 0
  /\ log = <<>>
  /\ proposed = {}
  /\ store = [n \in Node |-> [k \in Key |-> Empty]]
  /\ published = [n \in Node |-> 0]
  /\ applied = [n \in Node |-> 0]
  /\ halted = [n \in Node |-> FALSE]
  /\ snap = [n \in Node |-> [index |-> 0, data |-> [k \in Key |-> Empty]]]
  /\ awaited = [n \in Node |-> FALSE]
  /\ hasty = FALSE
  /\ nextRequestID = [n \in Node |-> 0]
  /\ call = [c \in Caller |-> IdleCall]
  /\ restarts = 0

Handler(c) ==
  \/ AckWrite(c) \/ AckProbe(c) \/ AckSweep(c) \/ ContextDone(c)
  \/ \E n \in Node : SetKV(c, n) \/ UnsetKV(c, n) \/ GetKV(c, n) \/ Range(c, n) \/ Expire(c, n)

Replica(n) ==
  \/ publishEntries(n) \/ applyMutateLogEntry(n) \/ passEmpty(n) \/ maybeTriggerSnapshot(n) \/ Restart(n)
  \/ \E m \in Node : publishSnapshot(n, m)

Next ==
  \/ \E c \in Caller : Handler(c)
  \/ \E n \in Node : Replica(n)
  \/ \E cmd \in proposed : Commit(cmd) \/ Lose(cmd)
  \/ CommitEmpty
  \/ Tick

Spec == Init /\ [][Next]_vars

\* The goroutines of a replica keep running and raft keeps committing; clients
\* promise nothing, and neither do crashes, lost proposals or context ends.
Fairness ==
  /\ \A n \in Node : WF_vars(\/ publishEntries(n) \/ maybeTriggerSnapshot(n)
                              \/ applyMutateLogEntry(n) \/ passEmpty(n))
  /\ \A c \in Caller : WF_vars(AckWrite(c) \/ AckProbe(c) \/ AckSweep(c))
  /\ \A c \in Caller : WF_vars(\E cmd \in proposed : cmd.caller = c /\ Commit(cmd))

FairSpec == Spec /\ Fairness

-----------------------------------------------------------------------------
(* Properties *)

WriteRequest == [op : {"SetKV", "Expire"}, key : Key, dir : BOOLEAN, val : Val,
                 ttl : Nat \cup {Expired}, overwrite : BOOLEAN]
Request == WriteRequest \cup [op : {"UnsetKV"}, key : Key, dir : BOOLEAN]
             \cup [op : {"GetKV", "Expire"}, key : Key] \cup [op : {"Range"}]
Ack == {"none", "ok", "err", "exists", "notfound", "timeout", "crash"}
ActiveCall ==
  {r \in [pc : {"probe", "write", "sweep", "done"}, node : Node, req : Request, id : Nat,
          ack : Ack, todo : SUBSET Key, prior : SUBSET Caller] :
     r.pc = "probe" /\ r.req.op # "GetKV" => r.req \in WriteRequest}
Call == {IdleCall} \cup ActiveCall

\* Every variable has its type, and the indices of a replica are ordered:
\* snapshot, applied, published, end of the log.
TypeOK ==
  /\ now \in Nat /\ restarts \in Nat
  /\ log \in Seq(Entry)
  /\ proposed \subseteq Command
  /\ store \in [Node -> [Key -> Cell]]
  /\ snap \in [Node -> [index : Nat, data : [Key -> Cell]]]
  /\ published \in [Node -> Nat] /\ applied \in [Node -> Nat]
  /\ halted \in [Node -> BOOLEAN] /\ awaited \in [Node -> BOOLEAN] /\ hasty \in BOOLEAN
  /\ nextRequestID \in [Node -> Nat]
  /\ call \in [Caller -> Call]
  /\ \A n \in Node : /\ snap[n].index <= published[n]
                     /\ applied[n] <= published[n]
                     /\ published[n] <= Len(log)

\* The last committed command on k among the first i.
Writes(k, i) == {j \in 1..i : log[j] # Noop /\ log[j].key = k}
LastWrite(k, i) == CHOOSE j \in Writes(k, i) : \A l \in Writes(k, i) : l <= j
ValueAt(k, i) == IF Writes(k, i) = {} THEN Empty ELSE Effect(log[LastWrite(k, i)])

\* Commands no replica can fail to apply: entities at valid keys only.
CleanLog == \A i \in DOMAIN log : log[i] # Noop => log[i].key \in Key \ InvalidKey /\ ~log[i].dir

\* A replica that has applied the whole log holds exactly what the log says,
\* whatever mixture of batches, crashes, WAL replays over the surviving bolt
\* file, own and received snapshots it went through (as long as the log has
\* only commands that cannot fail and every snapshot waited for the applier).
Converged ==
  CleanLog /\ ~hasty => \A n \in Node : applied[n] = Len(log) =>
                          store[n] = [k \in Key |-> ValueAt(k, Len(log))]

\* A cell is never older than index i.  It may be newer: after a restart the
\* WAL is replayed over the bolt file the previous process left.
NotOlder(cells, i) ==
  \A k \in Key : \E h \in i..Len(log) : cells[k] = ValueAt(k, h)

\* No write is lost: the store of a replica holds every write up to its
\* applied index and a snapshot every write up to its own, each possibly
\* overwritten by later ones; and an applier with nothing to fail on runs.
NotBehind ==
  CleanLog /\ ~hasty => \A n \in Node : /\ ~halted[n]
                                        /\ NotOlder(store[n], applied[n])
                                        /\ NotOlder(snap[n].data, snap[n].index)

\* A snapshot of a log nothing can fail on holds every write it stands for.
SnapshotKeepsWrites ==
  CleanLog => \A n \in Node : NotOlder(snap[n].data, snap[n].index)

\* The first command that stops an applier stops them all: no replica gets past
\* the place of the one that stopped earliest by applying the log.  (A received
\* snapshot may carry one past it, and the replicas differ from there on; so
\* they do after a snapshot that did not wait, and after a restart, which
\* replays commands over cells that are already newer.)
PoisonIsUniform ==
  restarts = 0 /\ ~hasty => \A n, m \in Node :
    (/\ halted[n] /\ \A r \in Node : halted[r] => applied[n] <= applied[r]
     /\ snap[m].index <= applied[n])
      => applied[m] <= applied[n]

\* The committed commands.
Committed == {i \in DOMAIN log : log[i] # Noop}

\* A call's own command, as opposed to the removals it starts.
OwnCommand(c, cmd) ==
  /\ cmd.caller = c
  /\ cmd.op = (IF call[c].req.op = "UnsetKV" THEN "UNSET" ELSE "SET")

Acknowledged(c) ==
  /\ call[c].pc = "done" /\ call[c].ack = "ok"
  /\ call[c].req.op \in {"SetKV", "UnsetKV"}

\* A write is acknowledged only when its own command is committed: resolvePending
\* finds the waiting request by its id alone.  This is about one replica that has
\* not restarted.  Ids are counted from zero by each process, so that an entry
\* replayed after a restart, or one proposed on another replica, may acknowledge
\* a request whose command is not committed.
AckIsCommitted ==
  \A c \in Caller : Acknowledged(c) => \E i \in Committed : OwnCommand(c, log[i])

\* c created the key at log position i: SetKV without overwrite, acknowledged.
CreatedAt(c, i) ==
  /\ Acknowledged(c)
  /\ call[c].req.op = "SetKV" /\ ~call[c].req.overwrite /\ ~call[c].req.dir
  /\ log[i].caller = c /\ log[i].op = "SET"

\* From entry i on, before entry j, the key of i was removed or given an entity
\* that had expired when j was proposed.
MadeRoom(i, j) ==
  \E l \in Committed :
    /\ i <= l /\ l < j /\ log[l].key = log[i].key
    /\ \/ log[l].op = "UNSET"
       \/ /\ log[l].value.ttl # NeverExpired
          /\ log[j].value.updatedAt >= log[l].value.updatedAt + log[l].value.ttl

\* Of two acknowledged creations of one key that were requested one after the
\* other on one replica, the second was possible only because the key was
\* removed or expired in between.  (Requests that overlap, or that reach
\* different replicas, can both succeed: each looks at its replica's store
\* before it proposes, and nobody looks again when the command is applied.)
CreateExclusiveInSequence ==
  \A c, d \in Caller : \A i, j \in Committed :
    (/\ CreatedAt(c, i) /\ CreatedAt(d, j) /\ i < j /\ log[i].key = log[j].key
     /\ c \in call[d].prior /\ call[c].node = call[d].node)
      => MadeRoom(i, j)

\* A removal of an expired key, started by a read, never removes an entity
\* that was already acknowledged when the read began, unless it is expired.
\* (It may remove one that was written while the read was under way.)
ExpiryRemovesOnlyExpired ==
  \A i \in Committed :
    LET r == log[i].caller
        k == log[i].key
    IN (/\ log[i].op = "UNSET" /\ call[r].req.op # "UnsetKV"
        /\ Writes(k, i - 1) # {})
         => LET last == log[LastWrite(k, i - 1)]
            IN (/\ last.op = "SET" /\ ~last.dir
                /\ last.caller \in call[r].prior /\ Acknowledged(last.caller))
                 => /\ last.value.ttl # NeverExpired
                    /\ now >= last.value.updatedAt + last.value.ttl

\* Every request returns.
EveryCallReturns == \A c \in Caller : Waiting(c) ~> ~Waiting(c)
=============================================================================
