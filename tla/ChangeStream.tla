---------------------------- MODULE ChangeStream ----------------------------
(***************************************************************************)
(* How a cassemkv replica tells its watchers of a change: the applier      *)
(* (raftimpl/raft_impl.go emitChange) feeds changeC, propagateChangesSignal *)
(* (app.go) moves it to the channelWatcher, whose loop distributes it to   *)
(* the observers of its topic; the gRPC Watch handler of each observer     *)
(* drains the observer's channel (app_watcher.go, app_grpc.go).            *)
(*                                                                         *)
(* Two topics are told of every change: its key and the directory of the   *)
(* key.  A goroutine that sends on a closed channel panics; GoFunc runs    *)
(* the loop again after a pause, without the change it was distributing.   *)
(***************************************************************************)
EXTENDS Integers, FiniteSets, Sequences

CONSTANTS
  Key,         \* the keys written
  Directory,   \* Directory[k]: the topic of the parent directory of k
  Observer,    \* the Watch streams, each opened at most once
  Topics,      \* Topics[o]: the keys and directories o watches
  ChangeCap,   \* capacity of raftNodeImpl.changeC
  WatchCap,    \* capacity of channelWatcher.ch
  ObserverCap, \* capacity of an observer's channel
  MaxChange    \* bound on the changes applied

Topic == Key \cup {Directory[k] : k \in Key}

ASSUME ConstAssumption ==
  /\ Key # {} /\ DOMAIN Directory = Key
  /\ Topics \in [Observer -> SUBSET Topic] /\ \A o \in Observer : Topics[o] # {}
  /\ ChangeCap \in Nat /\ WatchCap \in Nat /\ ObserverCap \in Nat
  /\ MaxChange \in Nat

VARIABLES
  changes,   \* how many changes the applier has built
  emitting,  \* the notifications emitChange has yet to send: it blocks on them
  changeC,
  relay,     \* what propagateChangesSignal has received and not passed on
  watchC,    \* channelWatcher.ch
  buckets,   \* buckets[t]: the observers of topic t
  loop,      \* the loop goroutine: "recv", "send" or "panic"
  notify,    \* the notification being distributed
  targets,   \* the observers of its snapshot it has yet to serve
  chan,      \* chan[o]: the observer's channel
  closed,    \* closed[o]: the channel is closed
  watch,     \* watch[o]: the Watch handler: "none", "on", "leaving", "gone"
  leaving,   \* leaving[o]: the topics Unsubscribe has yet to visit
  sent,      \* history: sent[o] is what the handler of o took from its channel
  built,     \* history: every notification the applier has built
  handled,   \* history: how many of them the loop has finished with
  joined,    \* history: the first of them o could be told of, less one
  panicked   \* history: the loop has panicked

vars == <<changes, emitting, changeC, relay, watchC, buckets, loop, notify, targets,
          chan, closed, watch, leaving, sent, built, handled, joined, panicked>>
pipeVars == <<changes, emitting, changeC, relay, watchC, built>>
loopVars == <<loop, notify, targets, handled, panicked>>
streamVars == <<chan, closed, watch, leaving, sent, joined>>

Notification == [change : Nat, topic : Topic]
Nobody == [change |-> 0, topic |-> CHOOSE t \in Topic : TRUE]

-----------------------------------------------------------------------------
(* From the applier to the watcher *)

\* The notifications of one change, in the order emitChange sends them.
emitChange(k) ==
  <<[change |-> changes + 1, topic |-> k],
    [change |-> changes + 1, topic |-> Directory[k]]>>

\* Mutant: emitChange runs in a goroutine of its own, and the later one may
\* come first.
ApplyAsync(k) ==
  /\ changes < MaxChange
  /\ changes' = changes + 1
  /\ emitting' = emitChange(k) \o emitting
  /\ built' = built \o emitChange(k)
  /\ UNCHANGED <<changeC, relay, watchC, buckets, loopVars, streamVars>>

\* The applier applies a command that changes k.
Apply(k) ==
  /\ emitting = <<>>
  /\ changes < MaxChange
  /\ changes' = changes + 1
  /\ emitting' = emitChange(k)
  /\ built' = built \o emitChange(k)
  /\ UNCHANGED <<changeC, relay, watchC, buckets, loopVars, streamVars>>

Emit ==
  /\ emitting # <<>>
  /\ Len(changeC) < ChangeCap
  /\ changeC' = Append(changeC, Head(emitting))
  /\ emitting' = Tail(emitting)
  /\ UNCHANGED <<changes, relay, watchC, built, buckets, loopVars, streamVars>>

\* propagateChangesSignal receives one notification ...
PropagateReceive ==
  /\ relay = <<>>
  /\ changeC # <<>>
  /\ relay' = <<Head(changeC)>>
  /\ changeC' = Tail(changeC)
  /\ UNCHANGED <<changes, emitting, watchC, built, buckets, loopVars, streamVars>>

\* ... and blocks in ChangeNotify until the watcher's channel has room.
ChangeNotify ==
  /\ relay # <<>>
  /\ Len(watchC) < WatchCap
  /\ watchC' = Append(watchC, Head(relay))
  /\ relay' = <<>>
  /\ UNCHANGED <<changes, emitting, changeC, built, buckets, loopVars, streamVars>>

-----------------------------------------------------------------------------
(* The watcher's loop *)

\* The loop takes a notification and snapshots the observers of its topic.
LoopReceive ==
  /\ loop = "recv"
  /\ watchC # <<>>
  /\ watchC' = Tail(watchC)
  /\ notify' = Head(watchC)
  /\ targets' = buckets[notify'.topic]
  /\ loop' = "send"
  /\ UNCHANGED <<changes, emitting, changeC, relay, built, buckets, handled, panicked,
                 streamVars>>

HasRoom(o) == Len(chan[o]) < ObserverCap

\* topicBucket.remove: this bucket only.
remove(t, o) == [buckets EXCEPT ![t] = @ \ {o}]

\* distribute sends to one observer.
DistributeSend(o) ==
  /\ loop = "send" /\ o \in targets
  /\ ~closed[o]
  /\ HasRoom(o)
  /\ chan' = [chan EXCEPT ![o] = Append(@, notify)]
  /\ targets' = targets \ {o}
  /\ UNCHANGED <<pipeVars, buckets, loop, notify, handled, panicked, closed, watch, leaving,
                 sent, joined>>

\* Mutants: distribute waits for the slow observer; it skips it.
DistributeTimeoutNever(o) == FALSE
DistributeTimeoutSkips(o) ==
  /\ loop = "send" /\ o \in targets
  /\ ~closed[o] /\ ~HasRoom(o)
  /\ targets' = targets \ {o}
  /\ UNCHANGED <<pipeVars, buckets, loop, notify, handled, panicked, streamVars>>

\* The observer stays full for slowObserverTimeout: it is removed from the
\* bucket of this topic, not from its other ones, and closed.
DistributeTimeout(o) ==
  /\ loop = "send" /\ o \in targets
  /\ ~closed[o]
  /\ ~HasRoom(o)
  /\ buckets' = remove(notify.topic, o)
  /\ closed' = [closed EXCEPT ![o] = TRUE]
  /\ targets' = targets \ {o}
  /\ UNCHANGED <<pipeVars, loop, notify, handled, panicked, chan, watch, leaving, sent, joined>>

\* The observer was closed after the snapshot, or is left over in this bucket.
DistributePanic(o) ==
  /\ loop = "send" /\ o \in targets
  /\ closed[o]
  /\ loop' = "panic"
  /\ panicked' = TRUE
  /\ targets' = {}
  /\ UNCHANGED <<pipeVars, buckets, notify, handled, streamVars>>

DistributeDone ==
  /\ loop = "send" /\ targets = {}
  /\ loop' = "recv"
  /\ handled' = handled + 1
  /\ UNCHANGED <<pipeVars, buckets, notify, targets, panicked, streamVars>>

\* GoFunc runs the loop again.
LoopRestart ==
  /\ loop = "panic"
  /\ loop' = "recv"
  /\ handled' = handled + 1
  /\ UNCHANGED <<pipeVars, buckets, notify, targets, panicked, streamVars>>

-----------------------------------------------------------------------------
(* The Watch handlers *)

Subscribe(o) ==
  /\ watch[o] = "none"
  /\ watch' = [watch EXCEPT ![o] = "on"]
  /\ buckets' = [t \in Topic |-> IF t \in Topics[o] THEN buckets[t] \cup {o} ELSE buckets[t]]
  /\ joined' = [joined EXCEPT ![o] = handled + (IF loop = "recv" THEN 0 ELSE 1)]
  /\ UNCHANGED <<pipeVars, loopVars, chan, closed, leaving, sent>>

\* A notification is taken from the channel and sent to the client.
Receive(o) ==
  /\ watch[o] = "on"
  /\ chan[o] # <<>>
  /\ sent' = [sent EXCEPT ![o] = Append(@, Head(chan[o]))]
  /\ chan' = [chan EXCEPT ![o] = Tail(@)]
  /\ UNCHANGED <<pipeVars, buckets, loopVars, closed, watch, leaving, joined>>

\* The channel is closed and drained, or the client or the server ends the
\* stream: the handler returns through its deferred Unsubscribe.
Leave(o) ==
  /\ watch[o] = "on"
  /\ watch' = [watch EXCEPT ![o] = "leaving"]
  /\ leaving' = [leaving EXCEPT ![o] = Topics[o]]
  /\ UNCHANGED <<pipeVars, buckets, loopVars, chan, closed, sent, joined>>

\* Unsubscribe visits one bucket after the other; the first remove closes the
\* observer.
Unsubscribe(o) ==
  /\ watch[o] = "leaving"
  /\ \E t \in leaving[o] :
       /\ buckets' = remove(t, o)
       /\ closed' = [closed EXCEPT ![o] = TRUE]
       /\ leaving' = [leaving EXCEPT ![o] = @ \ {t}]
       /\ watch' = [watch EXCEPT ![o] = IF leaving[o] = {t} THEN "gone" ELSE @]
  /\ UNCHANGED <<pipeVars, loopVars, chan, sent, joined>>

-----------------------------------------------------------------------------

Init ==
  /\ changes = 0 /\ emitting = <<>> /\ changeC = <<>> /\ relay = <<>> /\ watchC = <<>>
  /\ buckets = [t \in Topic |-> {}]
  /\ loop = "recv" /\ notify = Nobody /\ targets = {}
  /\ chan = [o \in Observer |-> <<>>]
  /\ closed = [o \in Observer |-> FALSE]
  /\ watch = [o \in Observer |-> "none"]
  /\ leaving = [o \in Observer |-> {}]
  /\ sent = [o \in Observer |-> <<>>]
  /\ built = <<>> /\ handled = 0 /\ joined = [o \in Observer |-> 0] /\ panicked = FALSE

Distribute == \E o \in Observer : DistributeSend(o) \/ DistributeTimeout(o) \/ DistributePanic(o)
Loop == LoopReceive \/ Distribute \/ DistributeDone \/ LoopRestart
Propagate == PropagateReceive \/ ChangeNotify
Watch(o) == Subscribe(o) \/ Receive(o) \/ Leave(o) \/ Unsubscribe(o)

Next ==
  \/ \E k \in Key : Apply(k)
  \/ Emit \/ Propagate \/ Loop
  \/ \E o \in Observer : Watch(o)

Spec == Init /\ [][Next]_vars

\* The three goroutines of the server run; clients may stop reading for ever.
FairSpec == Spec /\ WF_vars(Emit) /\ WF_vars(Propagate) /\ WF_vars(Loop)

-----------------------------------------------------------------------------
(* Properties *)

\* Every variable has its type and no channel holds more than its capacity.
TypeOK ==
  /\ changes \in 0..MaxChange
  /\ emitting \in Seq(Notification) /\ Len(emitting) <= 2
  /\ changeC \in Seq(Notification) /\ Len(changeC) <= ChangeCap
  /\ relay \in Seq(Notification) /\ Len(relay) <= 1
  /\ watchC \in Seq(Notification) /\ Len(watchC) <= WatchCap
  /\ buckets \in [Topic -> SUBSET Observer]
  /\ loop \in {"recv", "send", "panic"} /\ notify \in Notification
  /\ targets \subseteq Observer
  /\ chan \in [Observer -> Seq(Notification)]
  /\ \A o \in Observer : Len(chan[o]) <= ObserverCap
  /\ closed \in [Observer -> BOOLEAN]
  /\ watch \in [Observer -> {"none", "on", "leaving", "gone"}]
  /\ leaving \in [Observer -> SUBSET Topic]
  /\ sent \in [Observer -> Seq(Notification)]
  /\ built \in Seq(Notification) /\ handled \in Nat /\ joined \in [Observer -> Nat] /\ panicked \in BOOLEAN

\* Everything an observer was sent, and what it still has to take.
Told(o) == sent[o] \o chan[o]

\* A client sees changes in the order they were applied, whatever topics it
\* watches and whatever happened to the loop.
ToldInOrder ==
  \A o \in Observer : \A i, j \in DOMAIN Told(o) :
    i < j => Told(o)[i].change <= Told(o)[j].change

\* As long as the loop has not panicked, a client whose stream is open has
\* missed nothing and seen nothing twice since it subscribed: it was told
\* exactly the notifications on its topics that the applier built and the
\* loop has dealt with, the one under way included if it was served, the
\* first of them first.
Due(o) ==
  LET served == loop = "send" /\ o \notin targets /\ joined[o] <= handled
      upTo == IF served THEN handled + 1 ELSE handled
  IN {i \in (joined[o] + 1)..upTo : built[i].topic \in Topics[o]}
Rank(i, S) == Cardinality({j \in S : j <= i})
NothingMissed ==
  \A o \in Observer :
    watch[o] = "on" /\ ~closed[o] /\ ~panicked =>
      /\ Len(Told(o)) = Cardinality(Due(o))
      /\ \A i \in Due(o) : Told(o)[Rank(i, Due(o))] = built[i]

\* A client that stops reading never holds up the applier for good.
ApplierNotBlocked == (emitting # <<>>) ~> (emitting = <<>>)
=============================================================================
