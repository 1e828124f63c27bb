# A verification project for cassem

cassem is a configuration centre. Its data live in **cassemkv**, a key-value store replicated
with raft; **cassemadm** is the administrators' HTTP server, **cassemagent** serves elements to
application instances, and a Go SDK and a web console are their clients. This directory holds TLA+
modules for the parts where the order of steps matters, TLC configurations for small instances,
and TLAPS proofs of the main results.

`tlc -config X.cfg M` repeats a run and `tlapm M.tla` a proof. PROJECT.json lists the runs, which
lines each definition stands for, the hazards, and for each property a mutant of the model, a
plausible bug, that breaks it.

## 1. Inventory

| Component | State | Operations | What is hard, what makes it correct |
|---|---|---|---|
| replicated store (`internal/app/kv/raftimpl`) | log, published and applied index, bolt file, snapshot, pending requests | SetKV, UnsetKV, GetKV, Range, Expire; publishEntries, apply, snapshot, restart | crash and WAL replay over a surviving file, snapshots beside a running applier, commands that fail. No write lost, replicas converge, success means committed |
| proposal pipeline (same directory) | proposeC, pending map, answers | registerPending, propose, sendProposals, resolvePending, Shutdown | every interleaving of Shutdown, cancellation and the applier. Everyone is answered, once and truly |
| bbolt storage (`kv/storage`) | nested buckets and values | GetKV, SetKV, UnsetKV, Range, snapshot | values and directories under one name, pagination |
| change stream (`kv/app_watcher.go`, `app.go`, `app_grpc.go`) | three channels, buckets of observers | emitChange, propagate, distribute, Subscribe, Unsubscribe | slow and leaving observers, panics. Order, completeness, no blocked applier |
| element writes (`coord/coordinator_kv_w.go`) | metadata, versions, operation records | create, update, delete, publish, roll back | several KV writes without a transaction or a lock. What is in use stays intact, published versions do not change |
| retention (`kv/retention_compact.go`, `adm/retention_gc.go`) | keep set; persisted cursor | compactElementHistory; rounds | decisions on stale reads, a resumed scan |
| membership (`raftimpl/node.go`, `kv/cluster_members.go`) | peers slots, member records | AddNode, RemoveNode | two stores changed in turn, roll-back |
| leadership (`kv/leader_health.go`) | serving status | follow notifications | dropped notifications |
| instance index, agent registry (`coord/*_hybrid.go`) | normal and reversed keys with ttl | register, renew, unregister, watch | several keys per operation, check then set |
| access control and tokens (`coord/coordinator_acl.go`, `coordinator_token*.go`) | policy in one key, tokens | grant, revoke; issue, revoke | whole-policy overwrites by several processes |
| agent (`internal/app/agent`) | instance pool, element cache (LRU-K) | register, watch, dispatch; query, set | two streams of an instance, asynchronous cache updates |
| administrator's agent pool (`adm/agent_pool.go`) | nodes with bounded postboxes | refresh, watch, notify, batch | refresh against watch, full postboxes |
| distributed lock (`kvclient/lock.go`) | one key with a ttl | Acquire, Release | a lock outliving its ttl |
| SDK (`sdk/go/client.go`) | watches | watch, renew, close | reconnection, close |
| console: copy environment (`web/src/features/envs/CopyEnvDialog.tsx`) | form, listing, progress, pool of workers | choose, start, create, copy, leave | concurrent workers, partial failure, a page left half way. Every element once, an honest report, nothing written elsewhere |
| console: publish and rollback wizards (`features/publish`) | versions offered, strategy, targets, review | choose, compare, confirm | the element changes between review and confirmation. What is served was reviewed |
| console: element detail (`features/elements/ElementDetailPage.tsx`) | element, editor, flags | load, save, publish directly | navigation under a request, three requests in turn. The page shows its element and publishes what was written |
| console: users (`features/users/UsersPage.tsx`) | list, four dialogs, bindings | add, disable, reset, grant, revoke | overlapping reads. A dialog acts on its own user |
| console: lists (`features/apps`, `features/envs`, `features/elements/ElementsPage.tsx`) | rows, query, cursor, dialogs | search, page, create, delete, navigate | answers out of order, results after navigation. Rows answer the controls |
| console: instances (`features/cluster/InstancesPage.tsx`) | list, filter with candidates, detail | filter, refresh, open | three kinds of requests with a number each. The detail belongs to the list |
| console: topology (`features/cluster/AgentsPage.tsx`) | topology loaded | load, draw | unknown agents, grouping at a threshold. Every instance drawn once |
| HTTP handlers, configuration, transport, key formatting, generated code, console's layout, settings, login and texts | none of their own | | not modelled: I/O around the operations above |

Writes flow console → cassemadm → coordinator → cassemkv (gRPC) → proposeC → raft → commitC →
applier → bolt; the applier answers the pending request and emits a change, which the watcher
passes to Watch streams. A publication is pushed by cassemadm through cassemagent to instances.

## 2. Modules

**RaftKV** (with **MCRaftKV**, which adds only the symmetry sets). etcd's raft is external: one
committed log that grows by accepted proposals in any order (`Commit`), by entries without a
command (`CommitEmpty`: a leader's first entry, a membership change), and from which proposals may
be lost (`Lose`, or refused in `registerAndPropose`). For each replica the model keeps the bolt
file (`store`), `appliedIndex` (`published`), what the applier has finished (`applied`), whether
the applier has returned an error (`halted`), and the newest snapshot (`snap`).

- A *request* is a record in `call`: SetKV, GetKV and Expire may first wait for the removal of an
  expired key (`probe`), Range removes expired keys in the background (`sweep`). Existence checks
  read the local store before the proposal, as the code does. `EntityExpired` is true of every
  directory, because GetKV returns a zero entity for one.
- `publishEntries` hands a batch over the unbuffered commitC, so that the applier must be back;
  a batch without commands is only counted, and `awaited` records that applyDoneC is nil for it.
- `applyMutateLogEntry` applies one command, acknowledges whoever waits under its id *on this
  replica*, and on an error ends the applier. `maybeTriggerSnapshot` waits for applyDoneC if there
  is one. `Restart` loads the snapshot (if any) and replays the rest of the log over the bolt file
  as it was left.
- Abstracted: keys are independent cells (a value, a directory or nothing; parents and subtrees
  are left to a module of their own), `createdAt`, logging. `hasty`, and `node` and `caller` in
  commands, are history. The replicas share one clock.

**ProposalPipeline** opens the step that RaftKV takes as one: a caller checks the shutdown flag,
registers, checks again, sends on proposeC, waits for raft's answer on an unbuffered channel, then
for the acknowledgement; each wait but the first also ends with the context. `sendProposals`, the
applier and the four stages of Shutdown are the other actors. A panic on the closed proposeC ends
the caller with result `panic`.

**ChangeStream** (with **MCChangeStream**) follows a change through changeC, the propagating
goroutine, the watcher's channel and its loop to the observers of the key and of its directory.
Slow observers are dropped from one bucket and closed; a send to a closed observer panics and
GoFunc restarts the loop without that change. `sent`, `built`, `handled`, `joined` and `panicked`
are history.

**ElementLifecycle** is one element: metadata, versions, operation records. Every handler becomes
the list of KV writes it has yet to make; each write is a step, may be preceded by the existence
check of a creation, and may fail before or after it took effect (then the rest is skipped, as in
the code). Compaction reads the metadata, scans, and removes versions and operations one by one.
`old` abstracts createdAt relative to the cutoff. *Assumption*: the cutoff lies further back than
a request takes (the default is 30 days), so that no version under creation is old. `moved` is history:
who has looked back (published a named version, rolled back, deleted) since the compaction read the metadata,
or with a request that was under way then.

### The console

The console's pages are React components: handlers and effects run to the end between two awaits, so
each stretch between awaits is one action, and the closure a handler continues with is the state
it saved. A request is sent in one action and answered in another; in between anything else may
happen, answers come in any order, and a request may fail or, where it changes something, take
effect and lose its answer. `requestSeq` and its kin, `mountedRef` and `lastLoadKeyRef` are modelled as
they are: where the code compares them with what a request started with, so does the model.

**CopyEnv** (with **MCCopyEnv**) is the dialog that copies an environment: the form and the listing of
the source, page by page and as the store is at each page (`startLoad`, `requestElements`, `elementsLoaded`,
`elementsFailed`), `startCopy`, the creation of the target (`envCreated`, `envRefused`), the workers
(`requestElement`, `createElement`, and `settle`, which reports and claims the next index without an
await), `workersDone` and `onFinished`. The dialog may be closed when nothing is copied; the page may be left or unloaded at
any moment. It may also go on to another application (`navigate`): the dialog stays mounted with what it shows, an open
one lists the source anew, and the page asks for the new application's environments (`envsLoaded`). A task keeps the application it was
started in (`taskApp`) and reloads that one's list at the end (`finishList`). The list of environments shows some of
those there are (`EnvLists`): it is cut at 100 and empty after a failure. `made`, `wrote` and `loadedFrom` are history. **CopyTask** is the abstract
specification: a task begins, its environment is created or refused, every chosen element is
settled once, and it is complete only when all are; CopyEnv implements it with `phase` and `outcome`
computed from step, progress, items and results.

**ElementStore** is the element service as the console sees it, one step per request (module
ElementLifecycle takes the handlers apart). **PublishWizard** and **RollbackWizard** each keep one record
(`pub`, `rb`) with the wizard's step, choice, strategy, targets and difference; **Wizards** (with
**MCWizards**) puts both on one element, with other administrators and retention. `life` counts the
element's creations, since a deleted element's version numbers are given out again.

**ElementDetail** (with **MCElementDetail**) is the page of an element with its editor; publishing directly
is three requests (`save` records which is due and what it was started with). The location changes
under the mounted page. Whether content is valid is a constant set.

**UsersPage** keeps the list of users, the dialog that is open, the request it has sent (`task`) and the
first read of the access dialog (`opening`), which carries no sequence number. Users and bindings on the server
change through this page and through others. The list is one page of `Limit` rows (100 in the code), and no further
one is asked for.

**Collections** is what the list pages share: named collections on the server, listed in order and page
by page. **AppsPage** (pages by a stack of cursors, loads in an effect), **EnvsPage** (navigation, the
copy in two steps) and **ElementsPage** (load more, navigation, refs beside state) each keep one record;
`own` in it is history: what the page itself has created or deleted. **InstancesPage** and
**TopologyPage** are the pages of the cluster; the graph of the latter is an operator over the topology loaded
(`groupInstancesByAgent`, `getInstanceGraphNodes`, `buildTopologyGraph`). **Console** (with **MCConsole**)
composes the five: the router mounts one page at a time.

Two modules assume something of the element they start with: no version beyond the latest (Wizards),
no draft but the latest (ElementDetail). ElementStore answers each request in one step, and its steps
keep both true.

**RaftKVProofs**, **ReplicaChannelsProofs** (of ProposalPipeline and ChangeStream), **ElementLifecycleProofs**,
**CopyEnvProofs**, **WizardsProofs**, **ElementDetailProofs**, **UsersPageProofs** and **ConsoleProofs** hold the theorems, section 5.

## 3. Runs

| Run | Bounds | Shows |
|---|---|---|
| converge | 2 replicas, 2 requests, a key and an invalid key, directories, lost proposals, 1 restart, snapshot after more than one entry | `TypeOK`, `NotBehind`: no store or snapshot misses a write it is labelled with; `Converged`: who has applied everything holds what the log says; `PoisonIsUniform`: appliers stop at the same command |
| calls | 1 replica, 2 requests, all operations, ttl 1, 1 tick, snapshots, an empty entry | `AckIsCommitted`, `CreateExclusiveInSequence`, `ExpiryRemovesOnlyExpired`, `EveryCallReturns` |
| hasty_snapshot | 1 replica, 2 requests, 1 empty entry | `SnapshotKeepsWrites` **fails** |
| stream | 2 observers (one of both topics), 3 changes, all buffers of 1, so that they can all be full | `ToldInOrder`, `NothingMissed`, `ApplierNotBlocked` |
| pipeline | 3 requests, one of them in the background, proposeC of 1 | `EveryoneAnswered`, `OkIsApplied`; without cancellation `EveryCallReturns`, `PatientShutdownStops` |
| element | 1 administrator, 8 requests, 3 versions, 2 contents, failing writes | `ServedVersionIntact`, `PublishedIsImmutable`; without failures `NextStepPossible`, `AuditTrail` |
| compact | the same operations and a compaction beside them, 7 requests | `CompactionSpares` |
| copy | 2 applications with 2 names of environments, 3 keys, pages of 2, 2 workers, 2 listings, 1 navigation, 1 change by others | `ReportIsHonest`, `ElementsMatchSource`, `WritesOnlyIntoOwnEnv`, `CopyEnds`, and `ImplementsTask`, the refinement of CopyTask |
| wizard | 1 element, 3 versions of which a listing shows 2, 1 target, 2 changes by others | `ReviewIsAccurate`, `ServedWasReviewed`, `Direction`, `NeverLocked` |
| detail | 2 elements, 3 versions, valid and invalid content, 3 loads, 2 changes by others | `PageMatchesLocation`, `PublishesOwnDraft`, `NeverLocked` |
| users | 3 accounts, one of them a superadmin and two not added yet, a list of at most 2, 1 binding beside the cluster's, 3 loads, 2 changes by others or lost answers | `BindingsBelongToTarget`, `OwnChangesShown`, `NeverLocked` |
| lists | 3 items, 2 applications, 2 environments, 2 queries, pages of 1 and 2, 3 or 4 loads, 1 change by others or lost answer; 7 requests of the instances page; topologies with up to 2 agents and 2 instances, with and without known ids | `ShownMatchesControls`, `OwnChangesShown`, `PagingIsSound`, `GraphIsFaithful`, `NeverLocked` |

Every module has a type invariant. It is a property of the run converge, where it also orders the
indices of a replica, and a theorem about each specification but Console. There the inductive invariant holds the types
that the proofs need; the rest (flags, and counters below their bounds) is model-checked when TypeOK is added to the cfg.

*Why the bounds are enough.* Every KV operation touches one cell, so one key (two where an invalid
one is needed) shows all interference; two replicas show a sender and a receiver of snapshots and
different paces; two requests already give every order of two commands, three are used where a
third party matters (a value written between two others). One restart is needed to replay, and two
would repeat it. The pipeline's buffer of 1 is filled by two of three callers. Three versions are
one in use, one older and one draft. In the console, two overlapping loads already come in the wrong
order and a third is overtaken by both; two locations are enough to leave one for the other; two workers
share three elements, so that one of them claims twice; one navigation takes the dialog to an application whose environments
have the same names; pages of one and two among three rows have a
first, a middle and a last page; one change by others is placed at every moment, two where one must undo the other.
The graph's threshold is 1, so that two instances of an agent are grouped. CHECK_DEADLOCK is off everywhere: requests, changes and calls
are bounded, so that every behaviour may come to rest.

*Fairness.* The goroutines of a process run (weak fairness for the Ready loop with the applier, each
waiting handler, sendProposals, propagate, the distribution loop), and raft commits what it has
accepted; weak fairness for the applier in the pipeline holds while the node runs. Nothing is
assumed of clients: no request, cancellation, subscription, reading or Shutdown need ever
happen. The liveness runs of the store exclude invalid keys, directories and lost proposals,
after which background removals do wait for ever. In the console every request is answered or fails (the
browser sees to that) and callbacks run; nothing is assumed of the administrator. Each kind of request
has its own fairness condition, because each is a promise of its own.

## 4. What the code does differently from what it says

*hasty_snapshot.* For a batch without commands applyDoneC is nil, and the snapshot does not wait
although the applier may still be busy with the batch before. A replica restored from it lacks a
committed write. The comment in node.go says that it waits.

Other limits met while modelling, stated in the comments and conditions of the properties:

- request ids are counted from zero by each process, and an entry is matched with a waiting request by
  its id alone: after a restart replayed entries acknowledge requests of the new process, and entries
  proposed on another replica do the same without one (`AckIsCommitted` is checked on one replica that
  does not restart, and fails otherwise);
- sendProposals answers on an unbuffered channel with no alternative: a caller whose context ended
  leaves it blocked, no write passes any more and the node does not stop (`PatientShutdownStops`);
- the keep set of a compaction is computed from metadata that may change before the removals. A roll-back, the publication of
  a named older version, or a deletion followed by a creation puts a version in use, or in draft, that the keep set
  does not spare, and it is removed. `CompactionSpares` holds while no such request runs beside the compaction
  (`moved = {}`); without this condition the run finds the violation;
- two overlapping creations of a key both succeed (`CreateExclusiveInSequence` says what remains),
  and hence two concurrent updates of an element get one version number: the slower one overwrites
  a version that may be published by then. The comment of UpdateElement speaks of a lock that the
  code does not take; `PublishedIsImmutable` is checked for one administrator;
- applyDoneC is also closed when a command fails, and the snapshot then covers entries that were
  not applied (`Converged` and `NotBehind` are about logs with commands that cannot fail);
- a restart replays commands over newer cells: the removal of a value fails if the key has become a
  directory since, and the replica stops there for good; and a snapshot that did not wait may carry a
  follower past a command that stops others (`PoisonIsUniform` holds up to a restart and to such a snapshot);
- an update that fails between its two writes takes the next version's number for good, and every
  later update is refused (`NextStepPossible` holds while no write fails);
- after navigation, the reload at the end of a copy loads the environments of the application in which the
  copy was started, and "load more" before the first answer continues the environment that was left
  (the exceptions of `ShownMatchesControls`); the delete dialogs keep their name across navigation;
- the applications' Next button is not disabled while a page loads: pressed twice it counts a page that
  was not shown (`PagingIsSound` is about the cursors);
- the candidates of the instances filter share one sequence number: of the loads a page with parameters starts,
  only the last counts, and typing does not raise it (another exception of `ShownMatchesControls`);
- publishing directly publishes the draft that the server names after the update, which is another
  administrator's if one updated in between (the condition of `PublishesOwnDraft`);
- a binding added while the access dialog still loads may vanish from it when the older answer
  comes last (`BindingsBelongToTarget` only says whose bindings are shown);
- the environments are loaded by one request for 100 rows and no more are asked for: one beyond them is not shown, not even to the
  administrator who has just created it (the condition of `OwnChangesShown` for a full list);
- the load effect of the copy dialog runs again when the page goes on to another application, but it neither sets
  loadingElements nor clears the elements: until the listing is answered the former application's elements are shown,
  and a copy of them can be started in the new one (the exception of `ElementsMatchSource`);
- an environment that a copy has created, and that others delete and create again meanwhile, is written to by the
  copy all the same: the workers know it by its name (`WritesOnlyIntoOwnEnv` counts it as the task's own);
- the users are loaded by one request for 100 rows as well (the exception of `OwnChangesShown` for a full list);
- the topology draws an instance of an agent that is not listed at the first agent (the condition of
  `GraphIsFaithful`).

## 5. Proofs

All theorems hold for every value of the constants that satisfies the module's assumptions.

**RaftKVProofs.** `TypeCorrect`: `Spec => []TypeOK`, where TypeOK also orders the indices of a replica.
`NoWriteLost`: `Spec => []NotBehind`. `Convergence`: `Spec => []Converged`.

The natural claim, that a store holds exactly what the log says at its applied index, is *false*:
after a restart the log is replayed over a bolt file that is further ahead, and for a while the
store is a mixture. What is inductive, together with TypeOK, is `NotBehind`: for each key there is
*some* index `h`, not below the one the store (or the snapshot) is labelled with and not beyond the
log, such that the cell is what the log says at `h`. At the end of the log only one `h` is left,
and `Converged` follows. The steps: applying entry `i` leaves cells of other keys alone, and what
was right for `i - 1` at an `h` is right for `i` unless `h = i - 1` and entry `i` writes the key,
which is the cell just written (`ApplyNotBehind`, `LastWriteIsLast`, `ValueWritten`, `ValueKept`); entries
without commands change no value (`NotOlderNoops`); appending to the log changes no earlier value
(`ValueStable`, `CommitKeepsNotBehind`); a snapshot may be taken if only empty entries lie between
`applied` and `published`, which is what the wait ensures unless it is skipped (`hasty`). The
condition `CleanLog` (values at valid keys only) excludes commands that fail, the condition
`~hasty` the snapshots of hasty_snapshot.

`PoisonStopsAll`: `Spec => []PoisonIsUniform`. Whether a command fails depends on the cell it finds, so
the proof is about cells: until a restart or a hasty snapshot, and up to the first command that fails, a store
*is* what the log says at its applied index, so two appliers find the same cell there; whoever is past that
command owes it to a snapshot of a replica that had stopped at it (`PoisonReplica`).
`AcknowledgedIsCommitted` is about one replica (`Alone`) until its first restart: request ids are counted
per process, so the claim is false with two replicas and after a restart (section 4). `AckInv` says that a command
proposed or committed under the id that a write waits for is that write's own. With the same restriction:
`CreationIsExclusive` (`CreateExclusiveInSequence`) and `ExpirySparesTheLiving` (`ExpiryRemovesOnlyExpired`), from
`SoloInv`. Both are about a handler that looks at the store and acts on it much later, so the invariant carries
what it saw along: an entity that was applied gives way to nothing but a removal or another entity (`KeptInv`), hence
whoever finds it gone or expired finds *room* in the log, and room is never taken back, since the clock and the log only grow
(`RoomFound`, `RoomStays`). `RoomInv` follows a creation from its look at the store to its place in the log, `RemovalInv` a removal.
That an acknowledged entity was there when the handler looked is `AckInv` with `SetInv`: a caller proposes one SET.

**CopyEnvProofs** (any applications, environments, keys, contents, number of workers and seed that satisfy
`SeedAssumption` and `BoundAssumption`). `TypeCorrect`; `OwnEnvOnly`
(`WritesOnlyIntoOwnEnv`). The workers read `sourceEnv` and `targetEnv` when they send a request, not
when the task starts, so neither claim is inductive alone: a worker that found the names changed
would write elsewhere or read the content of no environment. `LockInv` supplies the reason why it
cannot: while anything of a task is under way the dialog is copying (then the form is not shown and
the dialog neither closes nor resets) or the page is gone. `TaskInv` says what the task holds: names
of environments, a target it has created once workers run, and a key for each running worker. The
dialog's own steps are grouped (`FormStep`), since one lemma says that they leave the store and the
task alone (`FormFrame`); `TaskKeepsInv` states once what a step of the task has to respect, for
the workers (`WorkerKeepsInv`) and the phases (`PhaseKeepsInv`).

`HonestReport` (`ReportIsHonest`) needs an account of who holds what. `ReportInv` gives it: the items before
the cursor are those that a worker holds or that have been reported, each exactly once (`ShareInv`); a
report of "copied" is backed by a write and one of "skipped" by none (`HonestInv`); and what the dialog
shows belongs to the phase the task is in (`PhaseInv`). `SourceIsShown` (`ElementsMatchSource`) follows from `LoadInv`: the newest
listing under way and the one shown are of an environment of the name chosen; in an open dialog the newest is of the page's
application too, and what is shown is, or that listing is still under way.
`Refinement` is the safety part of `ImplementsTask`, which is all of it: CopyTask states no fairness.

**ReplicaChannelsProofs.** *The way out*, ChangeStream (any keys, observers and sizes of the buffers): `TypeCorrect`; `PipeIsLossless`; `ToldIsOrdered`
(`ToldInOrder`); `NothingIsMissed` (`NothingMissed`). `PipeInv` lays the pipe out as one sequence: what was built and
not yet dealt with is what notify, watchC, the relay, changeC and emitChange hold, in this order. `OrderInv` adds that
nobody was told of a change after one that is still pending, `StreamInv` that an open stream is in the buckets of its
topics and is a target only of what it subscribed to in time. `NothingMissed` is stated with the notifications due to an
observer (`Due`) and their `Rank`; the proof shows that each step of the loop adds to what was told exactly what it adds to
what is due (`Complete`).

*The way in*, ProposalPipeline (any callers and any capacity of proposeC): `PipelineTypeCorrect`; `RegisteredIsAnswered`
(`EveryoneAnswered`, which is `NobodyForgotten` and `NobodyLeftBehind`); `SuccessIsApplied` (`OkIsApplied`). The invariant relates the
stages of Shutdown with where callers in the pending map can be: the second look at the flag, after
registration, is what makes failing all pending requests complete.

**ElementLifecycleProofs.** `TypeCorrect` holds for any number of administrators at once. The others need a
hypothesis, because nothing locks an element and section 4 shows what overlapping requests do. With `Serial`
(one caller, no compaction): `ServedIsIntact` (`ServedVersionIntact`), `PublishedStays` (`PublishedIsImmutable`),
`NeverStuck` (`NextStepPossible`), `TrailIsComplete` (`AuditTrail`). Between two writes of a request the
element is in none of the states that the properties describe, so the invariant `SerialInv` says for each
phase of each handler which writes are still to come and how the element looks before them; a write may fail
in every phase, and then `Intact` must hold of what is left behind. With `OneByOne` (one caller with every operation, and a
compaction beside it): `CompactionIsSafe` (`CompactionSpares`). Its invariant `OrderlyInv` says that, while `moved` is empty, whatever
the metadata, or metadata still to be written, name is spared by the keep set computed from an earlier read; a request
that looks back makes this false, and what starts after that compaction starts afresh.

**WizardsProofs.** `TypeCorrect`; `ReviewAccurate` (`ReviewIsAccurate`); `ServedIsReviewed` (`ServedWasReviewed`);
`DirectionIsKept` (`Direction`). A wizard compares and confirms what it listed earlier, and other administrators work
in between; what makes the review true at confirmation is that, within one life of the element, a version given
out keeps its content, and that it was published, or is gone for good, and the latest version only grows (`Evolves`). `PubInv`
and `RbInv` carry the listing and both sides of the difference along on this ground (`Known`).

**ElementDetailProofs.** `TypeCorrect`; `PageIsOfLocation` (`PageMatchesLocation`); `DirectPublishIsOwn`
(`PublishesOwnDraft`). `LoadInv`: of the loads under way only the newest can still be shown, and it is of the page's location.
`SaveInv` follows the three requests of a direct publication: unless someone interfered (`Evolves`), the draft the second
request finds is the version the first one added, with the content that was in the editor (`OwnVersion`).

**UsersPageProofs.** `TypeCorrect`; `BindingsAreTheTargets` (`BindingsBelongToTarget`); `OwnChangesAreShown` (`OwnChangesShown`).
The first read of the access dialog has no sequence number, and is harmless because it carries the user it is for and
the dialog cannot be open for another while it is under way (`DialogInv`, `TaskInv`). `OwnInv`: an answer
to the newest load was read after the last change of this page that nobody has changed since; an account missing from it
was left out of a full page.

**ConsoleProofs** (any names, collections, searches, page sizes, topologies and bounds on loads). `ShownMatchesControlsAlways`,
`OwnChangesShownAlways`, `PagingIsSoundAlways` and `GraphIsFaithfulAlways` state the four invariants of the run lists; all four
follow from one inductive invariant, `ConsoleInv`.

- *The server.* The collections are finite, so that a listing has an end. `ListedSpec` says what a page contains: the first
  names from the cursor on that match, in order, and, if there are more, the name after them. That any finite set of names can
  be put in order (`AllOrdered`) is an induction, carried out on the least size that would fail.
- *What is shown.* The property speaks of pages whose last load is answered; inductive is that the last load on its way
  asks for what the controls and the location say, and that every other answer is ignored (`AppLoads`, `EnvLoads`, `ElLoads`, `ListInv`,
  `DetailInv`, `KeysInv`). For the elements, a load that continues the list begins after its rows, which answer the same query
  (`ElLast`, `ElBase`); this also keeps the rows in order without repetition (`Continued`). The cursors of the
  applications ascend, and the page shown never leads back (`AppWay`).
- *Own changes* are followed through three places: what the page knows of them is true of the server, so an answer read since
  agrees with them, so the rows do once it is shown (`AppOwn`, `EnvOwn`, `ElOwn`). A change that fails, or by others, makes
  an item unknown.
- *Composition.* The lists share the collections, so a page could falsify what another knows. `OnePage`: of the
  three that write, at most one is open or has a request under way; the others are at rest and know of nothing
  (a behaviour of Console opens one page and may leave it with its request under way).
- *The graph* (`GraphSpec`) is proved for each topology, not for the ones of the run: every instance is in the node of
  its agent or in one of its own, and the nodes of an agent share no instance.

The proofs made three assumptions explicit, all true of the program: collections are finite when the console is opened,
the pages of environments and elements have a location to open at, and the agents of a topology form a list.
They also showed a limit that no run reached, the list of environments cut at 100 rows (section 4).

*Only model-checked*: liveness (`EveryCallReturns`, `PatientShutdownStops`, `ApplierNotBlocked`, `CopyEnds`, `NeverLocked`), which
is out of the prover's reach. Every other property of a passing run is stated by a theorem.

## 6. Plan

Modelled: the store, its pipeline, the change stream, the life of an element, and the console's pages that
hold state. Left, in order:

1. **BoltRepo**: nested directories, subtree removal, range pagination; a refinement of RaftKV's
   flat cells. **DistributedLock** over SetKV and UnsetKV with ttl.
2. **InstancePool** (agent), **LRUK** and **AgentCache** (10-second freshness, asynchronous updates), the
   key format of the pool as a pure operator.
3. **AgentPool** (refresh, watch, postboxes, batches), **InstanceIndex** (normal and reversed keys).
4. **RetentionGC** (lock, cursor, budget), composed with ElementLifecycle; applications and
   environments; **Membership** (peers slots, member records, roll-back); **AccessControl**, tokens,
   leader health, **SDKClient**.
5. An abstract specification of a linear store, implemented by RaftKV on one replica that does not
   restart; ProposalPipeline as an implementation of RaftKV's request step.
6. Proofs: the type invariant of Console; CopyTask's promises as theorems about CopyTask itself.

Not modelled, and not planned: HTTP handlers and routes, configuration, transport, generated code, the
command-line programs; in the console the access control page (one read-only table), login, settings,
documentation, the content editor, layout and texts, which keep no state that others depend on.
