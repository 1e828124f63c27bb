------------------------ MODULE ReplicaChannelsProofs ------------------------
(***************************************************************************)
(* Proofs about the channels of a replica.                                 *)
(*                                                                         *)
(* ChangeStream, the way out, for any keys, watchers, topics and channel   *)
(* capacities: nothing is lost, doubled or reordered on the way.           *)
(*                                                                         *)
(* ProposalPipeline, the way in, for any set of callers and any capacity   *)
(* of proposeC: however Shutdown interleaves with requests, no registered  *)
(* caller is forgotten and none is told of a success that did not happen.  *)
(***************************************************************************)
EXTENDS ChangeStream, ProposalPipeline, FiniteSetTheorems, SequenceTheorems, TLAPS

-----------------------------------------------------------------------------
(* The change stream *)

\* How far the loop has got with what was built, the one under way included.
Current == handled + (IF loop = "recv" THEN 0 ELSE 1)

\* What was built and is not dealt with is on its way, in this order: the
\* notification under way, the watcher's channel, the relay, changeC and what
\* the applier has yet to emit.
PipeInv ==
  /\ Len(built) = Current + Len(watchC) + Len(relay) + Len(changeC) + Len(emitting)
  /\ loop # "recv" => notify = built[handled + 1]
  /\ \A i \in 1..Len(watchC) : watchC[i] = built[Current + i]
  /\ \A i \in 1..Len(relay) : relay[i] = built[Current + Len(watchC) + i]
  /\ \A i \in 1..Len(changeC) : changeC[i] = built[Current + Len(watchC) + Len(relay) + i]
  /\ \A i \in 1..Len(emitting) :
       emitting[i] = built[Current + Len(watchC) + Len(relay) + Len(changeC) + i]

\* The changes are numbered in the order in which they are built, and nobody
\* was told of one that comes after one still to be dealt with.
OrderInv ==
  /\ \A i \in 1..Len(built) : built[i].change <= changes
  /\ \A i, j \in 1..Len(built) : i < j => built[i].change <= built[j].change
  /\ \A o \in Observer : \A i \in 1..Len(Told(o)) :
       /\ Told(o)[i].change <= changes
       /\ \A h \in (handled + 1)..Len(built) : Told(o)[i].change <= built[h].change
  /\ ToldInOrder

\* An open stream is in the buckets of its topics, and is a target only of
\* what it has subscribed to in time.
StreamInv ==
  /\ loop = "panic" => panicked
  /\ \A o \in Observer :
       /\ watch[o] = "none" => /\ \A t \in Topic : o \notin buckets[t]
                               /\ o \notin targets /\ ~closed[o] /\ Told(o) = <<>>
       /\ watch[o] = "on" /\ ~closed[o] => \A t \in Topic : o \in buckets[t] <=> t \in Topics[o]
       /\ watch[o] # "none" => joined[o] <= Current
       /\ watch[o] = "on" /\ ~closed[o] /\ loop = "send" /\ o \in targets =>
            notify.topic \in Topics[o] /\ joined[o] <= handled
-----------------------------------------------------------------------------
(* Operators *)

\* The notifications of a change are of their type and carry its number.
LEMMA EmitType ==
  ASSUME TypeOK, NEW k \in Key
  PROVE  /\ emitChange(k) \in Seq(Notification) /\ Len(emitChange(k)) = 2
         /\ \A i \in 1..2 : emitChange(k)[i].change = changes + 1
  <1>1. changes \in Nat /\ k \in Topic /\ Directory[k] \in Topic
    BY ConstAssumption DEF TypeOK, Topic
  <1>2. /\ [change |-> changes + 1, topic |-> k] \in Notification
        /\ [change |-> changes + 1, topic |-> Directory[k]] \in Notification
    BY <1>1 DEF Notification
  <1>3. QED
    BY <1>2 DEF emitChange

\* What the handler takes from the channel was already counted as told.
LEMMA TakeKeepsTold ==
  ASSUME NEW S, NEW s \in Seq(S), NEW c \in Seq(S), c # <<>>
  PROVE  Append(s, Head(c)) \o Tail(c) = s \o c
  <1>1. /\ Head(c) \in S /\ Head(c) = c[1] /\ Tail(c) \in Seq(S) /\ Len(Tail(c)) = Len(c) - 1
        /\ Len(c) \in Nat \ {0}
        /\ \A i \in 1..(Len(c) - 1) : Tail(c)[i] = c[i + 1]
    BY HeadTailProperties, EmptySeq
  <1>2. /\ Append(s, Head(c)) \in Seq(S) /\ Len(Append(s, Head(c))) = Len(s) + 1 /\ Len(s) \in Nat
        /\ \A i \in 1..Len(s) : Append(s, Head(c))[i] = s[i]
        /\ Append(s, Head(c))[Len(s) + 1] = c[1]
    BY <1>1, AppendProperties, LenProperties
  <1> DEFINE a == Append(s, Head(c))
             t == Tail(c)
  <1> HIDE DEF a, t
  <1>3. a \in Seq(S) /\ t \in Seq(S) /\ Len(a) = Len(s) + 1 /\ Len(t) = Len(c) - 1
    BY <1>1, <1>2 DEF a, t
  <1>4. /\ a \o t \in Seq(S) /\ Len(a \o t) = Len(s) + Len(c)
        /\ \A i \in 1..(Len(s) + Len(c)) : (a \o t)[i] = IF i <= Len(s) + 1 THEN a[i] ELSE t[i - (Len(s) + 1)]
    <2>1. /\ a \o t \in Seq(S) /\ Len(a \o t) = Len(a) + Len(t)
          /\ \A i \in 1..(Len(a) + Len(t)) : (a \o t)[i] = IF i <= Len(a) THEN a[i] ELSE t[i - Len(a)]
      BY <1>3, ConcatProperties
    <2>2. Len(a) + Len(t) = Len(s) + Len(c)
      BY <1>1, <1>2, <1>3
    <2>3. QED
      BY <1>3, <2>1, <2>2
  <1>5. /\ s \o c \in Seq(S) /\ Len(s \o c) = Len(s) + Len(c)
        /\ \A i \in 1..(Len(s) + Len(c)) : (s \o c)[i] = IF i <= Len(s) THEN s[i] ELSE c[i - Len(s)]
    BY ConcatProperties
  <1>6. ASSUME NEW i \in 1..(Len(s) + Len(c))
        PROVE  (a \o t)[i] = (s \o c)[i]
    <2>1. CASE i <= Len(s)
      BY <1>1, <1>2, <1>4, <1>5, <2>1 DEF a
    <2>2. CASE i = Len(s) + 1
      BY <1>1, <1>2, <1>4, <1>5, <2>2 DEF a
    <2>3. CASE i > Len(s) + 1
      <3>1. i - (Len(s) + 1) \in 1..(Len(c) - 1) /\ i - (Len(s) + 1) + 1 = i - Len(s)
        BY <1>1, <1>2, <2>3
      <3>2. t[i - (Len(s) + 1)] = c[i - Len(s)]
        BY <1>1, <3>1 DEF t
      <3>3. QED
        BY <1>1, <1>2, <1>4, <1>5, <2>3, <3>2
    <2>4. i \in Nat /\ Len(s) \in Nat
      BY <1>1, <1>2
    <2>5. i <= Len(s) \/ i = Len(s) + 1 \/ i > Len(s) + 1
      BY <2>4
    <2>6. QED
      BY <2>1, <2>2, <2>3, <2>5
  <1>7. a \o t = s \o c
    BY <1>4, <1>5, <1>6, SeqEqual
  <1>8. QED
    BY <1>7 DEF a, t

LEMMA SendIsTold ==
  ASSUME NEW S, NEW s \in Seq(S), NEW c \in Seq(S), NEW x \in S
  PROVE  s \o Append(c, x) = Append(s \o c, x)
  <1>1. s \o c \in Seq(S) /\ <<x>> \in Seq(S) /\ Append(c, x) = c \o <<x>>
    BY ConcatProperties, AppendIsConcat
  <1>2. Append(s \o c, x) = (s \o c) \o <<x>>
    BY <1>1, AppendIsConcat
  <1>3. (s \o c) \o <<x>> = s \o (c \o <<x>>)
    BY <1>1, ConcatAssociative
  <1>4. QED
    BY <1>1, <1>2, <1>3
-----------------------------------------------------------------------------
(* Types *)

LEMMA TypeInit == Init => TypeOK
  <1> SUFFICES ASSUME Init PROVE TypeOK
    OBVIOUS
  <1>1. MaxChange \in Nat /\ ChangeCap \in Nat /\ WatchCap \in Nat /\ ObserverCap \in Nat
    BY ConstAssumption
  <1>2. <<>> \in Seq(Notification) /\ Len(<<>>) = 0
    BY EmptySeq
  <1>3. Nobody \in Notification
    BY ConstAssumption DEF Nobody, Notification, Topic
  <1>4. /\ changes \in 0..MaxChange
        /\ emitting \in Seq(Notification) /\ Len(emitting) <= 2
        /\ changeC \in Seq(Notification) /\ Len(changeC) <= ChangeCap
        /\ relay \in Seq(Notification) /\ Len(relay) <= 1
        /\ watchC \in Seq(Notification) /\ Len(watchC) <= WatchCap
    BY <1>1, <1>2 DEF Init
  <1>5. /\ chan \in [Observer -> Seq(Notification)] /\ sent \in [Observer -> Seq(Notification)]
        /\ \A o \in Observer : Len(chan[o]) <= ObserverCap
        /\ built \in Seq(Notification)
    BY <1>1, <1>2 DEF Init
  <1>6. /\ buckets \in [Topic -> SUBSET Observer] /\ loop \in {"recv", "send", "panic"}
        /\ notify \in Notification /\ targets \subseteq Observer
        /\ closed \in [Observer -> BOOLEAN] /\ leaving \in [Observer -> SUBSET Topic]
        /\ watch \in [Observer -> {"none", "on", "leaving", "gone"}]
        /\ handled \in Nat /\ joined \in [Observer -> Nat] /\ panicked \in BOOLEAN
    BY <1>3 DEF Init
  <1>7. QED
    BY <1>4, <1>5, <1>6 DEF TypeOK

LEMMA TypeStep == TypeOK /\ [Next]_vars => TypeOK'
  <1> SUFFICES ASSUME TypeOK, [Next]_vars PROVE TypeOK'
    OBVIOUS
  <1>0. MaxChange \in Nat /\ ChangeCap \in Nat /\ WatchCap \in Nat /\ ObserverCap \in Nat
    BY ConstAssumption
  <1>1. ASSUME NEW k \in Key, Apply(k) PROVE TypeOK'
    <2>1. /\ emitChange(k) \in Seq(Notification) /\ Len(emitChange(k)) = 2
      BY EmitType
    <2>2. built' \in Seq(Notification)
      BY <1>1, <2>1, ConcatProperties DEF Apply, TypeOK
    <2>3. changes' \in 0..MaxChange
      BY <1>0, <1>1 DEF Apply, TypeOK
    <2>4. QED
      BY <1>1, <2>1, <2>2, <2>3 DEF Apply, TypeOK, loopVars, streamVars
  <1>2. CASE Emit
    <2>1. Head(emitting) \in Notification /\ Tail(emitting) \in Seq(Notification)
          /\ Len(Tail(emitting)) <= 2
      BY <1>2, HeadTailProperties, EmptySeq DEF Emit, TypeOK
    <2>2. changeC' \in Seq(Notification) /\ Len(changeC') <= ChangeCap
      BY <1>0, <1>2, <2>1 DEF Emit, TypeOK
    <2>3. QED
      BY <1>2, <2>1, <2>2 DEF Emit, TypeOK, loopVars, streamVars
  <1>3. CASE PropagateReceive
    <2>1. Head(changeC) \in Notification /\ Tail(changeC) \in Seq(Notification)
          /\ Len(Tail(changeC)) <= ChangeCap
      BY <1>0, <1>3, HeadTailProperties, EmptySeq DEF PropagateReceive, TypeOK
    <2>2. <<Head(changeC)>> \in Seq(Notification) /\ Len(<<Head(changeC)>>) <= 1
      BY <2>1
    <2>3. QED
      BY <1>3, <2>1, <2>2 DEF PropagateReceive, TypeOK, loopVars, streamVars
  <1>4. CASE ChangeNotify
    <2>1. Head(relay) \in Notification
      BY <1>4, HeadTailProperties DEF ChangeNotify, TypeOK
    <2>2. watchC' \in Seq(Notification) /\ Len(watchC') <= WatchCap
      BY <1>0, <1>4, <2>1 DEF ChangeNotify, TypeOK
    <2>3. <<>> \in Seq(Notification) /\ Len(<<>>) = 0
      BY EmptySeq
    <2>4. QED
      BY <1>4, <2>2, <2>3 DEF ChangeNotify, TypeOK, loopVars, streamVars
  <1>5. CASE LoopReceive
    <2>1. Head(watchC) \in Notification /\ Tail(watchC) \in Seq(Notification)
          /\ Len(Tail(watchC)) <= WatchCap
      BY <1>0, <1>5, HeadTailProperties, EmptySeq DEF LoopReceive, TypeOK
    <2>2. notify'.topic \in Topic
      BY <1>5, <2>1 DEF LoopReceive, Notification
    <2>3. targets' \subseteq Observer
      BY <1>5, <2>2 DEF LoopReceive, TypeOK
    <2>4. QED
      BY <1>5, <2>1, <2>3 DEF LoopReceive, TypeOK, streamVars
  <1>6. ASSUME NEW o \in Observer, DistributeSend(o) PROVE TypeOK'
    <2>1. chan[o] \in Seq(Notification) /\ notify \in Notification /\ Len(chan[o]) < ObserverCap
      BY <1>6 DEF DistributeSend, HasRoom, TypeOK
    <2>2. Append(chan[o], notify) \in Seq(Notification) /\ Len(Append(chan[o], notify)) <= ObserverCap
      BY <1>0, <2>1
    <2>3. chan' \in [Observer -> Seq(Notification)] /\ \A p \in Observer : Len(chan'[p]) <= ObserverCap
      BY <1>6, <2>2 DEF DistributeSend, TypeOK
    <2>4. QED
      BY <1>6, <2>3 DEF DistributeSend, TypeOK, pipeVars
  <1>7. ASSUME NEW o \in Observer, DistributeTimeout(o) PROVE TypeOK'
    <2>1. notify.topic \in Topic
      BY DEF TypeOK, Notification
    <2>2. QED
      BY <1>7, <2>1 DEF DistributeTimeout, remove, TypeOK, pipeVars
  <1>8. ASSUME NEW o \in Observer, DistributePanic(o) PROVE TypeOK'
    BY <1>8 DEF DistributePanic, TypeOK, pipeVars, streamVars
  <1>9. CASE DistributeDone \/ LoopRestart
    BY <1>9 DEF DistributeDone, LoopRestart, TypeOK, pipeVars, streamVars
  <1>10. ASSUME NEW o \in Observer, Subscribe(o) PROVE TypeOK'
    <2>1. joined' \in [Observer -> Nat]
      BY <1>10 DEF Subscribe, TypeOK
    <2>2. QED
      BY <1>10, <2>1 DEF Subscribe, TypeOK, pipeVars, loopVars
  <1>11. ASSUME NEW o \in Observer, Receive(o) PROVE TypeOK'
    <2>1. chan[o] \in Seq(Notification) /\ chan[o] # <<>> /\ Len(chan[o]) <= ObserverCap
          /\ sent[o] \in Seq(Notification)
      BY <1>11 DEF Receive, TypeOK
    <2>2. Head(chan[o]) \in Notification /\ Tail(chan[o]) \in Seq(Notification)
          /\ Len(Tail(chan[o])) <= ObserverCap
      BY <1>0, <2>1, HeadTailProperties, EmptySeq
    <2>3. Append(sent[o], Head(chan[o])) \in Seq(Notification)
      BY <2>1, <2>2
    <2>4. chan' \in [Observer -> Seq(Notification)] /\ \A p \in Observer : Len(chan'[p]) <= ObserverCap
      BY <1>11, <2>2 DEF Receive, TypeOK
    <2>5. sent' \in [Observer -> Seq(Notification)]
      BY <1>11, <2>3 DEF Receive, TypeOK
    <2>6. QED
      BY <1>11, <2>4, <2>5 DEF Receive, TypeOK, pipeVars, loopVars
  <1>12. ASSUME NEW o \in Observer, Leave(o) PROVE TypeOK'
    BY <1>12, ConstAssumption DEF Leave, TypeOK, pipeVars, loopVars
  <1>13. ASSUME NEW o \in Observer, Unsubscribe(o) PROVE TypeOK'
    <2>1. PICK t \in leaving[o] :
            /\ buckets' = remove(t, o)
            /\ closed' = [closed EXCEPT ![o] = TRUE]
            /\ leaving' = [leaving EXCEPT ![o] = @ \ {t}]
            /\ watch' = [watch EXCEPT ![o] = IF leaving[o] = {t} THEN "gone" ELSE @]
      BY <1>13 DEF Unsubscribe
    <2>2. UNCHANGED <<pipeVars, loopVars, chan, sent, joined>>
      BY <1>13 DEF Unsubscribe
    <2>3. QED
      BY <2>1, <2>2 DEF remove, TypeOK, pipeVars, loopVars
  <1>14. CASE UNCHANGED vars
    BY <1>14 DEF TypeOK, vars
  <1>15. QED
    BY <1>1, <1>2, <1>3, <1>4, <1>5, <1>6, <1>7, <1>8, <1>9, <1>10, <1>11, <1>12, <1>13, <1>14
       DEF Next, Propagate, Loop, Distribute, Watch
-----------------------------------------------------------------------------
(* The pipeline *)

LEMMA PipeInit == Init => PipeInv
  BY EmptySeq DEF Init, PipeInv, Current

\* Nothing is lost, doubled or overtaken on the way to the loop.
LEMMA PipeStep == TypeOK /\ PipeInv /\ [Next]_vars => PipeInv'
  <1> SUFFICES ASSUME TypeOK, PipeInv, [Next]_vars PROVE PipeInv'
    OBVIOUS
  <1>0. /\ watchC \in Seq(Notification) /\ relay \in Seq(Notification) /\ changeC \in Seq(Notification)
        /\ emitting \in Seq(Notification) /\ built \in Seq(Notification)
        /\ handled \in Nat /\ Current \in Nat
        /\ Len(watchC) \in Nat /\ Len(relay) \in Nat /\ Len(changeC) \in Nat /\ Len(emitting) \in Nat
        /\ Len(relay) <= 1
    BY DEF TypeOK, Current
  <1>1. ASSUME NEW k \in Key, Apply(k) PROVE PipeInv'
    <2>1. /\ emitting = <<>> /\ emitting' = emitChange(k) /\ built' = built \o emitChange(k)
          /\ UNCHANGED <<watchC, relay, changeC, handled, loop, notify>>
      BY <1>1 DEF Apply, loopVars
    <2>2. emitChange(k) \in Seq(Notification) /\ Len(emitChange(k)) = 2
      BY EmitType
    <2>3. /\ Len(built') = Len(built) + 2
          /\ \A i \in 1..(Len(built) + 2) :
               built'[i] = IF i <= Len(built) THEN built[i] ELSE emitChange(k)[i - Len(built)]
      <3> DEFINE e == emitChange(k)
      <3> HIDE DEF e
      <3>1. e \in Seq(Notification) /\ Len(e) = 2 /\ built' = built \o e
        BY <2>1, <2>2 DEF e
      <3>2. /\ Len(built \o e) = Len(built) + Len(e)
            /\ \A i \in 1..(Len(built) + Len(e)) :
                 (built \o e)[i] = IF i <= Len(built) THEN built[i] ELSE e[i - Len(built)]
        BY <1>0, <3>1, ConcatProperties
      <3>3. QED
        BY <3>1, <3>2 DEF e
    <2>4. Len(emitting) = 0 /\ Len(emitting') = 2 /\ Current' = Current
      BY <2>1, <2>2, EmptySeq DEF Current
    <2>5. \A i \in 1..2 : emitting'[i] = built'[Len(built) + i]
      BY <1>0, <2>1, <2>2, <2>3
    <2>6. Len(built) = Current + Len(watchC) + Len(relay) + Len(changeC)
      BY <1>0, <2>4 DEF PipeInv
    <2>7. loop # "recv" => handled + 1 <= Len(built)
      BY <1>0, <2>6 DEF Current
    <2>8. loop' # "recv" => notify' = built'[handled' + 1]
      BY <1>0, <2>1, <2>3, <2>7, SMTT(20) DEF PipeInv
    <2>9. /\ \A i \in 1..Len(watchC') : watchC'[i] = built'[Current' + i]
          /\ \A i \in 1..Len(relay') : relay'[i] = built'[Current' + Len(watchC') + i]
          /\ \A i \in 1..Len(changeC') : changeC'[i] = built'[Current' + Len(watchC') + Len(relay') + i]
      <3>1. \A n \in 1..Len(built) : built'[n] = built[n]
        BY <1>0, <2>3
      <3>2. \A i \in 1..Len(watchC) : Current + i \in 1..Len(built)
        BY <1>0, <2>6
      <3>3. \A i \in 1..Len(relay) : Current + Len(watchC) + i \in 1..Len(built)
        BY <1>0, <2>6
      <3>4. \A i \in 1..Len(changeC) : Current + Len(watchC) + Len(relay) + i \in 1..Len(built)
        BY <1>0, <2>6
      <3>5. UNCHANGED <<watchC, relay, changeC>> /\ Current' = Current
        BY <2>1, <2>4
      <3>6. \A i \in 1..Len(watchC) : watchC[i] = built'[Current + i]
        BY <3>1, <3>2 DEF PipeInv
      <3>7. \A i \in 1..Len(relay) : relay[i] = built'[Current + Len(watchC) + i]
        BY <3>1, <3>3 DEF PipeInv
      <3>8. \A i \in 1..Len(changeC) : changeC[i] = built'[Current + Len(watchC) + Len(relay) + i]
        BY <3>1, <3>4 DEF PipeInv
      <3>9. QED
        BY <3>5, <3>6, <3>7, <3>8
    <2>11. \A i \in 1..Len(emitting') :
             emitting'[i] = built'[Current' + Len(watchC') + Len(relay') + Len(changeC') + i]
      BY <1>0, <2>1, <2>4, <2>5, <2>6
    <2>12. Len(built') = Current' + Len(watchC') + Len(relay') + Len(changeC') + Len(emitting')
      BY <1>0, <2>1, <2>3, <2>4, <2>6
    <2>13. QED
      BY <2>8, <2>9, <2>11, <2>12 DEF PipeInv
  <1>2. CASE Emit
    <2>1. /\ emitting # <<>> /\ changeC' = Append(changeC, Head(emitting)) /\ emitting' = Tail(emitting)
          /\ UNCHANGED <<watchC, relay, built, handled, loop, notify>> /\ Current' = Current
      BY <1>2 DEF Emit, loopVars, Current
    <2>2. /\ Head(emitting) = emitting[1] /\ Head(emitting) \in Notification
          /\ Len(emitting') = Len(emitting) - 1 /\ Len(emitting) \in Nat \ {0}
          /\ \A i \in 1..(Len(emitting) - 1) : emitting'[i] = emitting[i + 1]
      BY <1>0, <2>1, HeadTailProperties, EmptySeq
    <2>3. /\ Len(changeC') = Len(changeC) + 1
          /\ \A i \in 1..Len(changeC) : changeC'[i] = changeC[i]
          /\ changeC'[Len(changeC) + 1] = emitting[1]
      BY <1>0, <2>1, <2>2, AppendProperties
    <2>4. \A i \in 1..Len(changeC') : changeC'[i] = built[Current + Len(watchC) + Len(relay) + i]
      <3>1. emitting[1] = built[Current + Len(watchC) + Len(relay) + Len(changeC) + 1]
        BY <2>2 DEF PipeInv
      <3>2. \A i \in 1..Len(changeC') : i \in 1..Len(changeC) \/ i = Len(changeC) + 1
        BY <1>0, <2>3
      <3>3. \A i \in 1..Len(changeC) : changeC'[i] = built[Current + Len(watchC) + Len(relay) + i]
        BY <2>3 DEF PipeInv
      <3>4. Current + Len(watchC) + Len(relay) + Len(changeC) + 1
              = Current + Len(watchC) + Len(relay) + (Len(changeC) + 1)
        BY <1>0
      <3>5. changeC'[Len(changeC) + 1] = built[Current + Len(watchC) + Len(relay) + (Len(changeC) + 1)]
        BY <2>3, <3>1, <3>4
      <3>6. QED
        BY <3>2, <3>3, <3>5
    <2>5. \A i \in 1..Len(emitting') :
            emitting'[i] = built[Current + Len(watchC) + Len(relay) + Len(changeC') + i]
      BY <1>0, <2>2, <2>3 DEF PipeInv
    <2>6. Len(built) = Current + Len(watchC) + Len(relay) + Len(changeC') + Len(emitting')
      BY <1>0, <2>2, <2>3 DEF PipeInv
    <2>7. QED
      BY <2>1, <2>4, <2>5, <2>6 DEF PipeInv
  <1>3. CASE PropagateReceive
    <2>1. /\ relay = <<>> /\ changeC # <<>> /\ relay' = <<Head(changeC)>> /\ changeC' = Tail(changeC)
          /\ UNCHANGED <<watchC, emitting, built, handled, loop, notify>> /\ Current' = Current
      BY <1>3 DEF PropagateReceive, loopVars, Current
    <2>2. /\ Head(changeC) = changeC[1] /\ Len(changeC') = Len(changeC) - 1 /\ Len(changeC) \in Nat \ {0}
          /\ \A i \in 1..(Len(changeC) - 1) : changeC'[i] = changeC[i + 1]
      BY <1>0, <2>1, HeadTailProperties, EmptySeq
    <2>3. Len(relay) = 0 /\ Len(relay') = 1 /\ relay'[1] = changeC[1]
      BY <2>1, <2>2, EmptySeq
    <2>4. \A i \in 1..Len(relay') : relay'[i] = built[Current + Len(watchC) + i]
      BY <1>0, <2>2, <2>3 DEF PipeInv
    <2>5. \A i \in 1..Len(changeC') : changeC'[i] = built[Current + Len(watchC) + Len(relay') + i]
      BY <1>0, <2>2, <2>3 DEF PipeInv
    <2>6. \A i \in 1..Len(emitting') :
            emitting'[i] = built[Current + Len(watchC) + Len(relay') + Len(changeC') + i]
      BY <1>0, <2>1, <2>2, <2>3 DEF PipeInv
    <2>7. Len(built) = Current + Len(watchC) + Len(relay') + Len(changeC') + Len(emitting')
      BY <1>0, <2>1, <2>2, <2>3 DEF PipeInv
    <2>8. QED
      BY <2>1, <2>4, <2>5, <2>6, <2>7 DEF PipeInv
  <1>4. CASE ChangeNotify
    <2>1. /\ relay # <<>> /\ watchC' = Append(watchC, Head(relay)) /\ relay' = <<>>
          /\ UNCHANGED <<changeC, emitting, built, handled, loop, notify>> /\ Current' = Current
      BY <1>4 DEF ChangeNotify, loopVars, Current
    <2>2. Head(relay) = relay[1] /\ Head(relay) \in Notification /\ Len(relay) = 1 /\ Len(relay') = 0
      <3>1. Len(relay) \in Nat \ {0} /\ Len(<<>>) = 0
        BY <1>0, <2>1, EmptySeq
      <3>2. Head(relay) \in Notification /\ Head(relay) = relay[1]
        BY <1>0, <2>1, HeadTailProperties
      <3>3. Len(relay) = 1
        <4> DEFINE n == Len(relay)
        <4>1. n \in Nat /\ n <= 1 /\ n # 0
          BY <1>0, <3>1
        <4> HIDE DEF n
        <4>2. n = 1
          BY <4>1
        <4>3. QED
          BY <4>2 DEF n
      <3>4. Len(relay') = 0
        BY <2>1, <3>1
      <3>5. QED
        BY <3>2, <3>3, <3>4
    <2>3. /\ Len(watchC') = Len(watchC) + 1
          /\ \A i \in 1..Len(watchC) : watchC'[i] = watchC[i]
          /\ watchC'[Len(watchC) + 1] = relay[1]
      BY <1>0, <2>1, <2>2, AppendProperties
    <2>4. \A i \in 1..Len(watchC') : watchC'[i] = built[Current + i]
      <3>1. relay[1] = built[Current + Len(watchC) + 1]
        BY <2>2 DEF PipeInv
      <3>2. \A i \in 1..Len(watchC') : i \in 1..Len(watchC) \/ i = Len(watchC) + 1
        BY <1>0, <2>3
      <3>3. \A i \in 1..Len(watchC) : watchC'[i] = built[Current + i]
        BY <2>3 DEF PipeInv
      <3>4. Current + Len(watchC) + 1 = Current + (Len(watchC) + 1)
        BY <1>0
      <3>5. watchC'[Len(watchC) + 1] = built[Current + (Len(watchC) + 1)]
        BY <2>3, <3>1, <3>4
      <3>6. QED
        BY <3>2, <3>3, <3>5
    <2>0. Current + Len(watchC') + Len(relay') = Current + Len(watchC) + Len(relay)
      BY <1>0, <2>2, <2>3
    <2>5. \A i \in 1..Len(changeC') : changeC'[i] = built[Current + Len(watchC') + Len(relay') + i]
      BY <2>0, <2>1 DEF PipeInv
    <2>6. \A i \in 1..Len(emitting') :
            emitting'[i] = built[Current + Len(watchC') + Len(relay') + Len(changeC') + i]
      BY <2>0, <2>1 DEF PipeInv
    <2>7. \A i \in 1..Len(relay') : relay'[i] = built[Current + Len(watchC') + i]
      BY <2>2
    <2>8. Len(built) = Current + Len(watchC') + Len(relay') + Len(changeC') + Len(emitting')
      BY <2>0, <2>1 DEF PipeInv
    <2>9. QED
      BY <2>1, <2>4, <2>5, <2>6, <2>7, <2>8 DEF PipeInv
  <1>5. CASE LoopReceive
    <2>1. /\ watchC # <<>> /\ watchC' = Tail(watchC) /\ notify' = Head(watchC) /\ loop = "recv"
          /\ loop' = "send" /\ UNCHANGED <<changeC, emitting, relay, built, handled>>
      BY <1>5 DEF LoopReceive
    <2>2. Current = handled /\ Current' = handled + 1
      BY <1>0, <2>1 DEF Current
    <2>3. /\ Head(watchC) = watchC[1] /\ Len(watchC') = Len(watchC) - 1 /\ Len(watchC) \in Nat \ {0}
          /\ \A i \in 1..(Len(watchC) - 1) : watchC'[i] = watchC[i + 1]
      BY <1>0, <2>1, HeadTailProperties, EmptySeq
    <2>4. notify' = built'[handled' + 1]
      BY <2>1, <2>2, <2>3 DEF PipeInv
    <2>5. \A i \in 1..Len(watchC') : watchC'[i] = built'[Current' + i]
      BY <1>0, <2>1, <2>2, <2>3 DEF PipeInv
    <2>6. Current' + Len(watchC') = Current + Len(watchC)
      BY <1>0, <2>2, <2>3
    <2>7. QED
      BY <1>0, <2>1, <2>4, <2>5, <2>6 DEF PipeInv
  <1>6. CASE DistributeDone \/ LoopRestart
    <2>1. /\ loop # "recv" /\ loop' = "recv" /\ handled' = handled + 1
          /\ UNCHANGED <<watchC, changeC, emitting, relay, built>>
      BY <1>6 DEF DistributeDone, LoopRestart, pipeVars
    <2>2. Current' = Current
      BY <1>0, <2>1 DEF Current
    <2>3. QED
      BY <2>1, <2>2 DEF PipeInv
  <1>7. CASE \/ \E o \in Observer : DistributeSend(o) \/ DistributeTimeout(o) \/ DistributePanic(o)
             \/ \E o \in Observer : Subscribe(o) \/ Receive(o) \/ Leave(o) \/ Unsubscribe(o)
             \/ UNCHANGED vars
    <2>1. UNCHANGED <<watchC, changeC, emitting, relay, built, handled, notify>>
      BY <1>7 DEF DistributeSend, DistributeTimeout, DistributePanic, Subscribe, Receive, Leave,
                  Unsubscribe, vars, pipeVars, loopVars
    <2>2. loop' = loop \/ (loop = "send" /\ loop' = "panic")
      BY <1>7 DEF DistributeSend, DistributeTimeout, DistributePanic, Subscribe, Receive, Leave,
                  Unsubscribe, vars, loopVars
    <2>3. Current' = Current
      BY <2>1, <2>2 DEF Current
    <2>4. QED
      BY <2>1, <2>2, <2>3 DEF PipeInv
  <1>8. QED
    BY <1>1, <1>2, <1>3, <1>4, <1>5, <1>6, <1>7 DEF Next, Propagate, Loop, Distribute, Watch
-----------------------------------------------------------------------------
(* What a step does to the histories *)

\* A step leaves what was built alone or adds the two notifications of the
\* next change to it.
LEMMA BuiltStep ==
  ASSUME TypeOK, [Next]_vars
  PROVE  \/ built' = built /\ changes' = changes
         \/ /\ \E k \in Key : Apply(k)
            /\ changes' = changes + 1 /\ Len(built') = Len(built) + 2
            /\ \A i \in 1..Len(built) : built'[i] = built[i]
            /\ \A i \in (Len(built) + 1)..(Len(built) + 2) : built'[i].change = changes + 1
  <1>1. CASE \E k \in Key : Apply(k)
    <2>1. PICK k \in Key : Apply(k)
      BY <1>1
    <2> DEFINE e == emitChange(k)
    <2> HIDE DEF e
    <2>2. e \in Seq(Notification) /\ Len(e) = 2 /\ \A i \in 1..2 : e[i].change = changes + 1
      BY EmitType DEF e
    <2>3. built' = built \o e /\ changes' = changes + 1
      BY <2>1 DEF Apply, e
    <2>4. built \in Seq(Notification) /\ Len(built) \in Nat
      BY DEF TypeOK
    <2>5. /\ Len(built \o e) = Len(built) + Len(e)
          /\ \A i \in 1..(Len(built) + Len(e)) :
               (built \o e)[i] = IF i <= Len(built) THEN built[i] ELSE e[i - Len(built)]
      BY <2>2, <2>4, ConcatProperties
    <2>6. Len(built') = Len(built) + 2 /\ \A i \in 1..Len(built) : built'[i] = built[i]
      BY <2>2, <2>3, <2>4, <2>5
    <2>7. ASSUME NEW i \in (Len(built) + 1)..(Len(built) + 2) PROVE built'[i].change = changes + 1
      <3>1. i - Len(built) \in 1..2 /\ i \in 1..(Len(built) + 2) /\ ~(i <= Len(built))
        BY <2>4
      <3>2. built'[i] = e[i - Len(built)]
        BY <2>2, <2>3, <2>5, <3>1
      <3>3. QED
        BY <2>2, <3>1, <3>2
    <2>8. QED
      BY <1>1, <2>3, <2>6, <2>7
  <1>2. CASE ~ \E k \in Key : Apply(k)
    BY <1>2 DEF Next, Propagate, Loop, Distribute, Watch, Emit, PropagateReceive, ChangeNotify,
                LoopReceive, DistributeSend, DistributeTimeout, DistributePanic, DistributeDone,
                LoopRestart, Subscribe, Receive, Leave, Unsubscribe, vars, pipeVars
  <1>3. QED
    BY <1>1, <1>2

\* Distribute tells its observer of the notification under way.
LEMMA SendTells ==
  ASSUME TypeOK, NEW o \in Observer, DistributeSend(o)
  PROVE  Told(o)' = Append(Told(o), notify)
  <1> DEFINE s == sent[o]
             c == chan[o]
             x == notify
  <1>1. s \in Seq(Notification) /\ c \in Seq(Notification) /\ x \in Notification
    BY DEF TypeOK
  <1>2. sent'[o] = s /\ chan'[o] = Append(c, x)
    BY DEF DistributeSend, TypeOK
  <1> HIDE DEF s, c, x
  <1>3. s \o Append(c, x) = Append(s \o c, x)
    BY <1>1, SendIsTold
  <1>4. QED
    BY <1>2, <1>3 DEF Told, s, c, x

\* Only distribute tells an observer something, and only the notification
\* under way.
LEMMA ToldStep ==
  ASSUME TypeOK, [Next]_vars, NEW o \in Observer
  PROVE  \/ Told(o)' = Told(o)
         \/ DistributeSend(o) /\ Told(o)' = Append(Told(o), notify)
  <1>0. sent[o] \in Seq(Notification) /\ chan[o] \in Seq(Notification) /\ notify \in Notification
    BY DEF TypeOK
  <1>1. CASE DistributeSend(o)
    BY <1>1, SendTells
  <1>2. CASE Receive(o)
    <2>1. chan[o] # <<>> /\ sent'[o] = Append(sent[o], Head(chan[o])) /\ chan'[o] = Tail(chan[o])
      BY <1>2 DEF Receive, TypeOK
    <2>2. QED
      BY <1>0, <2>1, TakeKeepsTold DEF Told
  <1>3. ASSUME NEW p \in Observer, p # o, DistributeSend(p) \/ Receive(p)
        PROVE  Told(o)' = Told(o)
    <2>1. sent'[o] = sent[o] /\ chan'[o] = chan[o]
      BY <1>3 DEF DistributeSend, Receive, TypeOK
    <2>2. QED
      BY <2>1 DEF Told
  <1>4. CASE ~ \E p \in Observer : DistributeSend(p) \/ Receive(p)
    <2>1. sent' = sent /\ chan' = chan
      BY <1>4 DEF Next, Propagate, Loop, Distribute, Watch, Apply, Emit, PropagateReceive, ChangeNotify,
                LoopReceive, DistributeTimeout, DistributePanic, DistributeDone,
                LoopRestart, Subscribe, Leave, Unsubscribe, vars, streamVars
    <2>2. QED
      BY <2>1 DEF Told
  <1>5. QED
    BY <1>1, <1>2, <1>3, <1>4

\* Every notification of a sequence has the number of a change.
LEMMA NumberType ==
  ASSUME NEW s \in Seq(Notification), NEW i \in 1..Len(s)
  PROVE  s[i] \in Notification /\ s[i].change \in Nat /\ s[i].topic \in Topic
  <1>1. s[i] \in Notification
    BY ElementOfSeq
  <1>2. QED
    BY <1>1 DEF Notification

LEMMA ToldType ==
  ASSUME TypeOK, NEW o \in Observer
  PROVE  Told(o) \in Seq(Notification) /\ Len(Told(o)) \in Nat /\ DOMAIN Told(o) = 1..Len(Told(o))
  <1>1. sent[o] \in Seq(Notification) /\ chan[o] \in Seq(Notification)
    BY DEF TypeOK
  <1>2. Told(o) \in Seq(Notification)
    BY <1>1, ConcatProperties DEF Told
  <1>3. QED
    BY <1>2, LenProperties

\* The loop only moves on.
LEMMA HandledStep ==
  ASSUME TypeOK, [Next]_vars
  PROVE  handled' = handled \/ (handled' = handled + 1 /\ built' = built)
  BY DEF Next, Propagate, Loop, Distribute, Watch, Apply, Emit, PropagateReceive, ChangeNotify,
         LoopReceive, DistributeSend, DistributeTimeout, DistributePanic, DistributeDone,
         LoopRestart, Subscribe, Receive, Leave, Unsubscribe, vars, pipeVars, loopVars
-----------------------------------------------------------------------------
(* The order *)

LEMMA OrderInit == Init => OrderInv
  <1> SUFFICES ASSUME Init PROVE OrderInv
    OBVIOUS
  <1>1. Len(built) = 0
    BY EmptySeq DEF Init
  <1>2. \A o \in Observer : Told(o) = <<>> /\ Len(Told(o)) = 0 /\ DOMAIN Told(o) = 1..0
    <2>1. ASSUME NEW o \in Observer PROVE Told(o) = <<>>
      <3>1. sent[o] = <<>> /\ chan[o] = <<>>
        BY DEF Init
      <3>2. <<>> \in Seq(Notification) /\ <<>> \o <<>> = <<>>
        BY EmptySeq, ConcatEmptySeq
      <3>3. QED
        BY <3>1, <3>2 DEF Told
    <2>2. QED
      BY <2>1, EmptySeq
  <1>3. QED
    BY <1>1, <1>2 DEF OrderInv, ToldInOrder

\* Whatever the observers and the loop do, a later notification is of the same
\* change or of a later one.
LEMMA OrderStep == TypeOK /\ TypeOK' /\ PipeInv /\ OrderInv /\ [Next]_vars => OrderInv'
  <1> SUFFICES ASSUME TypeOK, TypeOK', PipeInv, OrderInv, [Next]_vars PROVE OrderInv'
    OBVIOUS
  <1>0. /\ built \in Seq(Notification) /\ Len(built) \in Nat /\ changes \in Nat /\ handled \in Nat
        /\ built' \in Seq(Notification) /\ Len(built') \in Nat
        /\ \A i \in 1..Len(built) : built[i].change \in Nat
        /\ \A i \in 1..Len(built') : built'[i].change \in Nat
    <2>1. built \in Seq(Notification) /\ built' \in Seq(Notification) /\ changes \in Nat /\ handled \in Nat
      BY ConstAssumption DEF TypeOK
    <2>2. QED
      BY <2>1, NumberType, LenProperties
  <1>1. ASSUME NEW o \in Observer
        PROVE  /\ Len(Told(o)) \in Nat /\ DOMAIN Told(o) = 1..Len(Told(o))
               /\ \A i \in 1..Len(Told(o)) : Told(o)[i].change \in Nat
    BY ToldType, NumberType
  <1>2. /\ \A i \in 1..Len(built') : built'[i].change <= changes'
        /\ \A i, j \in 1..Len(built') : i < j => built'[i].change <= built'[j].change
    <2>1. CASE built' = built /\ changes' = changes
      BY <2>1 DEF OrderInv
    <2>2. CASE /\ changes' = changes + 1 /\ Len(built') = Len(built) + 2
               /\ \A i \in 1..Len(built) : built'[i] = built[i]
               /\ \A i \in (Len(built) + 1)..(Len(built) + 2) : built'[i].change = changes + 1
      <3>1. \A i \in 1..Len(built') : i \in 1..Len(built) \/ i \in (Len(built) + 1)..(Len(built) + 2)
        BY <1>0, <2>2
      <3>2. \A i \in 1..Len(built) : built'[i].change <= changes /\ built'[i].change \in Nat
        BY <1>0, <2>2 DEF OrderInv
      <3>3. \A i \in 1..Len(built') : built'[i].change <= changes'
        BY <1>0, <2>2, <3>1, <3>2
      <3>4. ASSUME NEW i \in 1..Len(built'), NEW j \in 1..Len(built'), i < j
            PROVE  built'[i].change <= built'[j].change
        <4>1. CASE j \in 1..Len(built)
          <5>1. i \in 1..Len(built)
            BY <1>0, <3>4, <4>1
          <5>2. QED
            BY <2>2, <3>4, <4>1, <5>1 DEF OrderInv
        <4>2. CASE j \in (Len(built) + 1)..(Len(built) + 2)
          BY <1>0, <2>2, <3>3, <4>2
        <4>3. QED
          BY <3>1, <4>1, <4>2
      <3>5. QED
        BY <3>3, <3>4
    <2>3. QED
      BY <2>1, <2>2, BuiltStep
  \* Nobody is ahead of the loop, whether or not the step tells him something.
  <1>3. ASSUME NEW o \in Observer, NEW i \in 1..Len(Told(o))
        PROVE  /\ Told(o)[i].change <= changes'
               /\ \A h \in (handled' + 1)..Len(built') : Told(o)[i].change <= built'[h].change
    <2>0. /\ Told(o)[i].change \in Nat /\ Told(o)[i].change <= changes
          /\ \A h \in (handled + 1)..Len(built) : Told(o)[i].change <= built[h].change
      BY <1>1 DEF OrderInv
    <2>1. CASE built' = built /\ changes' = changes
      <3>1. handled' = handled \/ handled' = handled + 1
        BY HandledStep
      <3>2. \A h \in (handled' + 1)..Len(built) : h \in (handled + 1)..Len(built)
        BY <1>0, <3>1
      <3>3. QED
        BY <2>0, <2>1, <3>2
    <2>2. CASE /\ \E k \in Key : Apply(k)
               /\ changes' = changes + 1 /\ Len(built') = Len(built) + 2
               /\ \A j \in 1..Len(built) : built'[j] = built[j]
               /\ \A j \in (Len(built) + 1)..(Len(built) + 2) : built'[j].change = changes + 1
      <3>1. handled' = handled
        BY <2>2 DEF Apply, loopVars
      <3>2. ASSUME NEW h \in (handled' + 1)..Len(built') PROVE Told(o)[i].change <= built'[h].change
        <4>1. CASE h \in (Len(built) + 1)..(Len(built) + 2)
          BY <1>0, <2>0, <2>2, <4>1
        <4>2. CASE h \in (handled + 1)..Len(built)
          <5>1. h \in 1..Len(built)
            BY <1>0, <4>2
          <5>2. QED
            BY <2>0, <2>2, <4>2, <5>1
        <4>3. h \in (Len(built) + 1)..(Len(built) + 2) \/ h \in (handled + 1)..Len(built)
          BY <1>0, <2>2, <3>1, <3>2
        <4>4. QED
          BY <4>1, <4>2, <4>3
      <3>3. Told(o)[i].change <= changes'
        BY <1>0, <2>0, <2>2
      <3>4. QED
        BY <3>2, <3>3
    <2>3. QED
      BY <2>1, <2>2, BuiltStep
  <1>4. ASSUME NEW o \in Observer
        PROVE  /\ \A i \in 1..Len(Told(o)') :
                    /\ Told(o)'[i].change <= changes'
                    /\ \A h \in (handled' + 1)..Len(built') : Told(o)'[i].change <= built'[h].change
               /\ \A i, j \in DOMAIN Told(o)' : i < j => Told(o)'[i].change <= Told(o)'[j].change
    <2>1. CASE Told(o)' = Told(o)
      <3>1. \A i, j \in DOMAIN Told(o) : i < j => Told(o)[i].change <= Told(o)[j].change
        BY DEF OrderInv, ToldInOrder
      <3>2. QED
        BY <1>3, <2>1, <3>1
    <2>2. CASE DistributeSend(o) /\ Told(o)' = Append(Told(o), notify)
      <3> DEFINE old == Told(o)
                 new == Append(old, notify)
      <3> HIDE DEF old, new
      <3>1. old \in Seq(Notification) /\ notify \in Notification /\ Len(old) \in Nat
            /\ \A i \in 1..Len(old) : old[i].change \in Nat
        BY <1>1, ToldType DEF TypeOK, old
      <3>2. /\ Len(new) = Len(old) + 1 /\ DOMAIN new = 1..(Len(old) + 1) /\ new[Len(old) + 1] = notify
            /\ \A i \in 1..Len(old) : new[i] = old[i]
        BY <3>1, AppendProperties, LenProperties DEF new
      <3>3. loop = "send" /\ built' = built /\ changes' = changes /\ handled' = handled
        BY <2>2 DEF DistributeSend, pipeVars
      <3>4. handled + 1 \in 1..Len(built) /\ notify = built[handled + 1]
        <4>1. Len(built) >= handled + 1
          BY <1>0, <3>3 DEF PipeInv, Current, TypeOK
        <4>2. QED
          BY <1>0, <3>3, <4>1 DEF PipeInv
      <3>5. /\ notify.change <= changes /\ notify.change \in Nat
            /\ \A h \in (handled + 1)..Len(built) : notify.change <= built[h].change
        <4>1. notify.change <= changes /\ notify.change \in Nat
          BY <1>0, <3>4 DEF OrderInv
        <4>2. ASSUME NEW h \in (handled + 1)..Len(built) PROVE notify.change <= built[h].change
          <5>1. h \in 1..Len(built) /\ (h = handled + 1 \/ handled + 1 < h)
            BY <1>0
          <5>2. QED
            BY <3>4, <4>1, <5>1 DEF OrderInv
        <4>3. QED
          BY <4>1, <4>2
      <3>6. \A i \in 1..Len(old) :
              /\ old[i].change <= changes
              /\ \A h \in (handled + 1)..Len(built) : old[i].change <= built[h].change
        BY DEF OrderInv, old
      <3>7. \A i \in 1..Len(old) : old[i].change <= notify.change
        <4>1. handled + 1 \in (handled + 1)..Len(built)
          BY <1>0, <3>4
        <4>2. QED
          BY <3>4, <3>6, <4>1
      <3>8. \A i, j \in 1..Len(old) : i < j => old[i].change <= old[j].change
        BY <1>1 DEF OrderInv, ToldInOrder, old
      <3>9. \A i \in 1..Len(new) : i \in 1..Len(old) \/ i = Len(old) + 1
        BY <3>1, <3>2
      <3>10. \A i \in 1..Len(new) :
               /\ new[i].change <= changes
               /\ \A h \in (handled + 1)..Len(built) : new[i].change <= built[h].change
        BY <3>2, <3>5, <3>6, <3>9
      <3>11. ASSUME NEW i \in 1..Len(new), NEW j \in 1..Len(new), i < j
             PROVE  new[i].change <= new[j].change
        <4>1. i \in 1..Len(old)
          BY <3>1, <3>2, <3>11
        <4>2. CASE j \in 1..Len(old)
          BY <3>2, <3>8, <3>11, <4>1, <4>2
        <4>3. CASE j = Len(old) + 1
          BY <3>2, <3>7, <4>1, <4>3
        <4>4. QED
          BY <3>9, <4>2, <4>3
      <3>12. Told(o)' = new
        BY <2>2 DEF new, old
      <3>13. DOMAIN new = 1..Len(new)
        BY <3>2
      <3>14. QED
        BY <3>3, <3>10, <3>11, <3>12, <3>13
    <2>3. QED
      BY <2>1, <2>2, ToldStep
  <1>5. QED
    BY <1>2, <1>4 DEF OrderInv, ToldInOrder
-----------------------------------------------------------------------------
(* The streams *)

LEMMA StreamInit == Init => StreamInv
  <1> SUFFICES ASSUME Init PROVE StreamInv
    OBVIOUS
  <1>1. ASSUME NEW o \in Observer PROVE Told(o) = <<>> /\ watch[o] = "none" /\ ~closed[o]
    <2>1. sent[o] = <<>> /\ chan[o] = <<>> /\ watch[o] = "none" /\ ~closed[o]
      BY DEF Init
    <2>2. <<>> \in Seq(Notification) /\ <<>> \o <<>> = <<>>
      BY EmptySeq, ConcatEmptySeq
    <2>3. QED
      BY <2>1, <2>2 DEF Told
  <1>2. loop = "recv" /\ targets = {} /\ \A t \in Topic : buckets[t] = {}
    BY DEF Init
  <1>3. QED
    BY <1>1, <1>2 DEF StreamInv

\* An open stream stays in the buckets of its topics, and in no other.
LEMMA StreamStep == TypeOK /\ PipeInv /\ StreamInv /\ [Next]_vars => StreamInv'
  <1> SUFFICES ASSUME TypeOK, PipeInv, StreamInv, [Next]_vars PROVE StreamInv'
    OBVIOUS
  <1>0. handled \in Nat /\ joined \in [Observer -> Nat] /\ notify \in Notification
        /\ Current \in Nat
    BY DEF TypeOK, Current
  <1>1. loop' = "panic" => panicked'
    BY DEF StreamInv, Next, Propagate, Loop, Distribute, Watch, Apply, Emit, PropagateReceive,
           ChangeNotify, LoopReceive, DistributeSend, DistributeTimeout, DistributePanic,
           DistributeDone, LoopRestart, Subscribe, Receive, Leave, Unsubscribe, vars, loopVars
  <1> DEFINE P(o) ==
       /\ watch[o] = "none" => /\ \A t \in Topic : o \notin buckets[t]
                               /\ o \notin targets /\ ~closed[o] /\ Told(o) = <<>>
       /\ watch[o] = "on" /\ ~closed[o] => \A t \in Topic : o \in buckets[t] <=> t \in Topics[o]
       /\ watch[o] # "none" => joined[o] <= Current
       /\ watch[o] = "on" /\ ~closed[o] /\ loop = "send" /\ o \in targets =>
            notify.topic \in Topics[o] /\ joined[o] <= handled
  <1>2. \A o \in Observer : P(o)
    BY DEF StreamInv
  <1> SUFFICES ASSUME NEW o \in Observer PROVE P(o)'
    BY <1>1 DEF StreamInv
  <1>3. P(o)
    BY <1>2
  \* A stream that has not begun is told nothing, because it is no target.
  <1>4. watch[o] = "none" => Told(o)' = Told(o)
    <2>1. watch[o] = "none" => ~DistributeSend(o)
      BY <1>3 DEF DistributeSend
    <2>2. QED
      BY <2>1, ToldStep
  <1>5. CASE (\E k \in Key : Apply(k)) \/ Emit \/ Propagate \/ UNCHANGED vars
    <2>1. UNCHANGED <<buckets, loop, notify, targets, handled, closed, watch, joined>>
      BY <1>5 DEF Propagate, Apply, Emit, PropagateReceive, ChangeNotify, vars, loopVars, streamVars
    <2>2. Current' = Current
      BY <2>1 DEF Current
    <2>3. QED
      BY <1>3, <1>4, <2>1, <2>2
  <1>6. CASE LoopReceive
    <2>1. /\ loop = "recv" /\ loop' = "send" /\ notify' = Head(watchC) /\ watchC # <<>>
          /\ targets' = buckets[notify'.topic]
          /\ UNCHANGED <<buckets, handled, closed, watch, joined>>
      BY <1>6 DEF LoopReceive, streamVars
    <2>2. Current = handled /\ Current' = handled + 1
      BY <1>0, <2>1 DEF Current
    <2>3. notify'.topic \in Topic
      <3>1. Head(watchC) \in Notification
        BY <2>1, HeadTailProperties DEF TypeOK
      <3>2. QED
        BY <2>1, <3>1 DEF Notification
    <2>4. joined[o] \in Nat
      BY <1>0
    <2>5. watch[o] # "none" => joined[o] <= Current'
      BY <1>0, <1>3, <2>2, <2>4
    <2>6. QED
      BY <1>3, <1>4, <2>1, <2>2, <2>3, <2>5
  <1>7. ASSUME NEW p \in Observer, DistributeSend(p) PROVE P(o)'
    <2>1. /\ targets' = targets \ {p}
          /\ UNCHANGED <<buckets, loop, notify, handled, closed, watch, joined>>
      BY <1>7 DEF DistributeSend
    <2>2. Current' = Current
      BY <2>1 DEF Current
    <2>3. QED
      BY <1>3, <1>4, <2>1, <2>2
  <1>8. ASSUME NEW p \in Observer, DistributeTimeout(p) PROVE P(o)'
    <2>1. /\ targets' = targets \ {p} /\ p \in targets
          /\ buckets' = remove(notify.topic, p) /\ closed' = [closed EXCEPT ![p] = TRUE]
          /\ UNCHANGED <<loop, notify, handled, watch, joined>>
      BY <1>8 DEF DistributeTimeout
    <2>2. Current' = Current
      BY <2>1 DEF Current
    <2>3. \A t \in Topic : buckets'[t] \subseteq buckets[t] /\ (o # p => (o \in buckets'[t] <=> o \in buckets[t]))
      BY <2>1 DEF remove, TypeOK
    <2>4. (o = p => closed'[o]) /\ (o # p => closed'[o] = closed[o])
      BY <2>1 DEF TypeOK
    <2>5. CASE o = p
      BY <1>3, <1>4, <2>1, <2>2, <2>4, <2>5
    <2>6. CASE o # p
      BY <1>3, <1>4, <2>1, <2>2, <2>3, <2>4, <2>6
    <2>7. QED
      BY <2>5, <2>6
  <1>9. ASSUME NEW p \in Observer, DistributePanic(p) PROVE P(o)'
    <2>1. /\ targets' = {} /\ loop = "send" /\ loop' = "panic"
          /\ UNCHANGED <<buckets, notify, handled, closed, watch, joined>>
      BY <1>9 DEF DistributePanic, streamVars
    <2>2. Current' = Current
      BY <2>1 DEF Current
    <2>3. QED
      BY <1>3, <1>4, <2>1, <2>2
  <1>10. CASE DistributeDone \/ LoopRestart
    <2>1. /\ loop # "recv" /\ loop' = "recv" /\ handled' = handled + 1
          /\ UNCHANGED <<buckets, targets, notify, closed, watch, joined>>
      BY <1>10 DEF DistributeDone, LoopRestart, streamVars
    <2>2. Current' = Current
      BY <1>0, <2>1 DEF Current
    <2>3. QED
      BY <1>3, <1>4, <2>1, <2>2
  <1>11. ASSUME NEW p \in Observer, Subscribe(p) PROVE P(o)'
    <2>1. /\ watch[p] = "none" /\ watch' = [watch EXCEPT ![p] = "on"]
          /\ buckets' = [t \in Topic |-> IF t \in Topics[p] THEN buckets[t] \cup {p} ELSE buckets[t]]
          /\ joined' = [joined EXCEPT ![p] = handled + (IF loop = "recv" THEN 0 ELSE 1)]
          /\ UNCHANGED <<loop, notify, targets, handled, closed>>
      BY <1>11 DEF Subscribe, loopVars
    <2>2. Current' = Current
      BY <2>1 DEF Current
    <2>3. CASE o = p
      <3>1. watch[o] = "none" /\ watch'[o] = "on" /\ joined'[o] = Current
        BY <2>1, <2>3 DEF TypeOK, Current
      <3>2. \A t \in Topic : o \in buckets'[t] <=> t \in Topics[o]
        BY <1>3, <2>1, <2>3, <3>1
      <3>3. o \notin targets' /\ joined'[o] <= Current'
        BY <1>0, <1>3, <2>1, <2>2, <3>1
      <3>4. QED
        BY <3>1, <3>2, <3>3
    <2>4. CASE o # p
      <3>1. watch'[o] = watch[o] /\ joined'[o] = joined[o]
        BY <2>1, <2>4 DEF TypeOK
      <3>2. \A t \in Topic : o \in buckets'[t] <=> o \in buckets[t]
        BY <2>1, <2>4
      <3>3. QED
        BY <1>3, <1>4, <2>1, <2>2, <3>1, <3>2
    <2>5. QED
      BY <2>3, <2>4
  <1>12. ASSUME NEW p \in Observer, Receive(p) PROVE P(o)'
    <2>1. UNCHANGED <<buckets, loop, notify, targets, handled, closed, watch, joined>>
      BY <1>12 DEF Receive, loopVars
    <2>2. Current' = Current
      BY <2>1 DEF Current
    <2>3. QED
      BY <1>3, <1>4, <2>1, <2>2
  <1>13. ASSUME NEW p \in Observer, Leave(p) PROVE P(o)'
    <2>1. /\ watch[p] = "on" /\ watch' = [watch EXCEPT ![p] = "leaving"]
          /\ UNCHANGED <<buckets, loop, notify, targets, handled, closed, joined>>
      BY <1>13 DEF Leave, loopVars
    <2>2. Current' = Current
      BY <2>1 DEF Current
    <2>3. watch'[o] = watch[o] \/ (watch[o] = "on" /\ watch'[o] = "leaving")
      BY <2>1 DEF TypeOK
    <2>4. QED
      BY <1>3, <1>4, <2>1, <2>2, <2>3
  <1>14. ASSUME NEW p \in Observer, Unsubscribe(p) PROVE P(o)'
    <2>1. PICK t \in leaving[p] :
            /\ buckets' = remove(t, p)
            /\ closed' = [closed EXCEPT ![p] = TRUE]
            /\ watch' = [watch EXCEPT ![p] = IF leaving[p] = {t} THEN "gone" ELSE @]
      BY <1>14 DEF Unsubscribe
    <2>2. watch[p] = "leaving" /\ UNCHANGED <<loop, notify, targets, handled, joined>>
      BY <1>14 DEF Unsubscribe, loopVars
    <2>3. Current' = Current
      BY <2>2 DEF Current
    <2>4. CASE o = p
      <3>1. watch[o] = "leaving" /\ watch'[o] \in {"leaving", "gone"}
        BY <2>1, <2>2, <2>4 DEF TypeOK
      <3>2. QED
        BY <1>3, <2>2, <2>3, <3>1
    <2>5. CASE o # p
      <3>1. watch'[o] = watch[o] /\ closed'[o] = closed[o]
        BY <2>1, <2>5 DEF TypeOK
      <3>2. \A s \in Topic : o \in buckets'[s] <=> o \in buckets[s]
        BY <2>1, <2>5 DEF remove, TypeOK
      <3>3. QED
        BY <1>3, <1>4, <2>2, <2>3, <3>1, <3>2
    <2>6. QED
      BY <2>4, <2>5
  <1>15. QED
    BY <1>5, <1>6, <1>7, <1>8, <1>9, <1>10, <1>11, <1>12, <1>13, <1>14
       DEF Next, Loop, Distribute, Watch
-----------------------------------------------------------------------------
(* Nothing is missed *)

\* Adding the next number to a set of numbers leaves their ranks alone.
LEMMA RankOfNext ==
  ASSUME NEW n \in Nat, NEW S \in SUBSET (1..n)
  PROVE  /\ Cardinality(S) \in Nat
         /\ Cardinality(S \cup {n + 1}) = Cardinality(S) + 1
         /\ Rank(n + 1, S \cup {n + 1}) = Cardinality(S) + 1
         /\ \A i \in S : /\ Rank(i, S \cup {n + 1}) = Rank(i, S)
                         /\ Rank(i, S) \in 1..Cardinality(S)
  <1>1. IsFiniteSet(S) /\ n + 1 \notin S
    <2>1. IsFiniteSet(1..n)
      BY FS_Interval
    <2>2. IsFiniteSet(S)
      BY <2>1, FS_Subset
    <2>3. n + 1 \notin 1..n
      OBVIOUS
    <2>4. QED
      BY <2>2, <2>3
  <1>2. Cardinality(S) \in Nat
    BY <1>1, FS_CardinalityType
  <1>3. Cardinality(S \cup {n + 1}) = Cardinality(S) + 1
    BY <1>1, FS_AddElement
  <1>4. Rank(n + 1, S \cup {n + 1}) = Cardinality(S) + 1
    <2>0. \A j \in S \cup {n + 1} : j <= n + 1
      <3>1. \A j \in 1..n : j <= n + 1
        OBVIOUS
      <3>2. n + 1 <= n + 1
        OBVIOUS
      <3>3. QED
        BY <3>1, <3>2
    <2>1. {j \in S \cup {n + 1} : j <= n + 1} = S \cup {n + 1}
      BY <2>0
    <2>2. QED
      BY <1>3, <2>1 DEF Rank
  <1>5. ASSUME NEW i \in S
        PROVE  /\ Rank(i, S \cup {n + 1}) = Rank(i, S)
               /\ Rank(i, S) \in 1..Cardinality(S)
    <2> DEFINE T == {j \in S : j <= i}
    <2>1. {j \in S \cup {n + 1} : j <= i} = T
      OBVIOUS
    <2>2. T \in SUBSET S /\ i \in T
      OBVIOUS
    <2> HIDE DEF T
    <2>3. IsFiniteSet(T) /\ Cardinality(T) <= Cardinality(S)
      BY <1>1, <2>2, FS_Subset
    <2>4. Cardinality(T) \in Nat /\ Cardinality(T) # 0
      BY <2>2, <2>3, FS_CardinalityType, FS_EmptySet
    <2>5. Cardinality(T) \in 1..Cardinality(S)
      BY <1>2, <2>3, <2>4
    <2>6. QED
      BY <2>1, <2>5 DEF Rank, T
  <1>6. QED
    BY <1>2, <1>3, <1>4, <1>5

\* What NothingMissed says of one stream.
Complete(o) ==
  /\ Len(Told(o)) = Cardinality(Due(o))
  /\ \A i \in Due(o) : Told(o)[Rank(i, Due(o))] = built[i]

LEMMA MissedInit == Init => NothingMissed
  BY DEF Init, NothingMissed

\* What is due to a stream stays built as it is, and a stream that is not sent
\* the notification under way has nothing more due to it.
LEMMA DueStep ==
  ASSUME TypeOK, PipeInv, StreamInv, [Next]_vars, NEW o \in Observer,
         watch[o] = "on", ~closed[o], ~closed'[o], ~panicked',
         ~DistributeSend(o), ~Subscribe(o)
  PROVE  /\ Due(o)' = Due(o)
         /\ \A i \in Due(o) : built'[i] = built[i]
  <1>0. /\ handled \in Nat /\ joined[o] \in Nat /\ Len(built) \in Nat
        /\ joined[o] <= Current /\ Current <= Len(built) /\ Current \in Nat
    <2>1. /\ handled \in Nat /\ joined[o] \in Nat /\ Len(built) \in Nat /\ Current \in Nat
          /\ Len(watchC) \in Nat /\ Len(relay) \in Nat /\ Len(changeC) \in Nat /\ Len(emitting) \in Nat
      BY DEF TypeOK, Current
    <2>2. joined[o] <= Current
      BY DEF StreamInv
    <2>3. QED
      BY <2>1, <2>2 DEF PipeInv
  <1>1. Due(o) \subseteq 1..Len(built)
    BY <1>0 DEF Due, Current
  <1>2. \A i \in 1..Len(built) : built'[i] = built[i]
    BY BuiltStep
  <1>3. CASE (\E k \in Key : Apply(k)) \/ Emit \/ Propagate \/ UNCHANGED vars
    <2>1. UNCHANGED <<loop, targets, handled, joined>>
      BY <1>3 DEF Propagate, Apply, Emit, PropagateReceive, ChangeNotify, vars, loopVars, streamVars
    <2>2. \A i \in (joined[o] + 1)..handled : i \in 1..Len(built)
      BY <1>0 DEF Current
    <2>3. loop = "send" => \A i \in (joined[o] + 1)..(handled + 1) : i \in 1..Len(built)
      BY <1>0 DEF Current
    <2>4. QED
      BY <1>1, <1>2, <2>1, <2>2, <2>3 DEF Due
  <1>4. CASE LoopReceive
    <2>1. /\ loop = "recv" /\ loop' = "send" /\ targets' = buckets[notify'.topic]
          /\ watchC # <<>> /\ notify' = Head(watchC)
          /\ UNCHANGED <<buckets, handled, joined, built>>
      BY <1>4 DEF LoopReceive, streamVars
    <2>2. notify' = built[handled + 1] /\ notify'.topic \in Topic
      <3>1. Head(watchC) \in Notification /\ Head(watchC) = watchC[1] /\ 1 \in 1..Len(watchC)
        BY <2>1, HeadTailProperties, EmptySeq, LenProperties DEF TypeOK
      <3>2. Current = handled
        BY <1>0, <2>1 DEF Current
      <3>3. QED
        BY <2>1, <3>1, <3>2 DEF PipeInv, Notification
    <2>3. o \notin targets' => built[handled + 1].topic \notin Topics[o]
      BY <2>1, <2>2 DEF StreamInv
    <2>4. \A i \in (joined[o] + 1)..(handled + 1) : i \in (joined[o] + 1)..handled \/ i = handled + 1
      BY <1>0
    <2>5. \A i \in (joined[o] + 1)..handled : i \in (joined[o] + 1)..(handled + 1)
      BY <1>0
    <2>6. QED
      BY <1>1, <1>2, <2>1, <2>3, <2>4, <2>5 DEF Due
  <1>5. ASSUME NEW p \in Observer, p # o, DistributeSend(p) \/ DistributeTimeout(p)
        PROVE  Due(o)' = Due(o) /\ \A i \in Due(o) : built'[i] = built[i]
    <2>1. targets' = targets \ {p} /\ UNCHANGED <<loop, handled, joined, built>>
      BY <1>5 DEF DistributeSend, DistributeTimeout, pipeVars
    <2>2. QED
      BY <1>5, <2>1 DEF Due
  <1>6. ~DistributeTimeout(o) /\ ~LoopRestart /\ \A p \in Observer : ~DistributePanic(p)
    <2>1. ~DistributeTimeout(o)
      BY DEF DistributeTimeout, TypeOK
    <2>2. ~LoopRestart
      BY DEF LoopRestart, StreamInv
    <2>3. QED
      BY <2>1, <2>2 DEF DistributePanic
  <1>7. CASE DistributeDone
    <2>1. /\ loop = "send" /\ loop' = "recv" /\ handled' = handled + 1 /\ targets = {}
          /\ UNCHANGED <<joined, built>>
      BY <1>7 DEF DistributeDone, pipeVars, streamVars
    <2>2. CASE joined[o] <= handled
      BY <2>1, <2>2 DEF Due
    <2>3. CASE joined[o] > handled
      <3>1. joined[o] = handled + 1
        BY <1>0, <2>1, <2>3 DEF Current
      <3>2. (joined[o] + 1)..handled = {} /\ (joined[o] + 1)..(handled + 1) = {}
        BY <1>0, <3>1
      <3>3. QED
        BY <1>0, <2>1, <2>3, <3>2 DEF Due
    <2>4. QED
      BY <1>0, <2>2, <2>3
  <1>8. ASSUME NEW p \in Observer, (p # o /\ Subscribe(p)) \/ Receive(p) \/ Leave(p) \/ Unsubscribe(p)
        PROVE  Due(o)' = Due(o) /\ \A i \in Due(o) : built'[i] = built[i]
    <2>1. UNCHANGED <<loop, handled, targets, built>> /\ joined'[o] = joined[o]
      BY <1>8 DEF Subscribe, Receive, Leave, Unsubscribe, pipeVars, loopVars, TypeOK
    <2>2. QED
      BY <2>1 DEF Due
  <1>9. QED
    BY <1>3, <1>4, <1>5, <1>6, <1>7, <1>8 DEF Next, Loop, Distribute, Watch

\* Distribute makes the notification under way due and tells of it.
LEMMA SendCompletes ==
  ASSUME TypeOK, PipeInv, StreamInv, NEW o \in Observer, watch[o] = "on", Complete(o),
         DistributeSend(o), Told(o)' = Append(Told(o), notify)
  PROVE  Complete(o)'
  <1>0. /\ handled \in Nat /\ joined[o] \in Nat
        /\ loop = "send" /\ o \in targets /\ ~closed[o] /\ targets' = targets \ {o}
        /\ UNCHANGED <<loop, handled, joined, built>>
    BY DEF TypeOK, DistributeSend, pipeVars
  <1>1. notify = built[handled + 1] /\ notify.topic \in Topics[o] /\ joined[o] <= handled
    BY <1>0 DEF PipeInv, StreamInv
  <1> DEFINE S == Due(o)
             s == Told(o)
  <1>2. S \in SUBSET (1..handled) /\ Due(o)' = S \cup {handled + 1}
    <2>1. S = {i \in (joined[o] + 1)..handled : built[i].topic \in Topics[o]}
      BY <1>0 DEF Due
    <2>2. Due(o)' = {i \in (joined[o] + 1)..(handled + 1) : built[i].topic \in Topics[o]}
      BY <1>0, <1>1 DEF Due
    <2>3. (joined[o] + 1)..(handled + 1) = ((joined[o] + 1)..handled) \cup {handled + 1}
      BY <1>0, <1>1
    <2>4. (joined[o] + 1)..handled \subseteq 1..handled
      BY <1>0
    <2>5. QED
      BY <1>1, <2>1, <2>2, <2>3, <2>4
  <1>3. s \in Seq(Notification) /\ Len(s) = Cardinality(S) /\ notify \in Notification
        /\ \A i \in S : s[Rank(i, S)] = built[i]
    BY ToldType DEF Complete, TypeOK
  <1> HIDE DEF S, s
  <1>4. /\ Cardinality(S) \in Nat
        /\ Cardinality(S \cup {handled + 1}) = Cardinality(S) + 1
        /\ Rank(handled + 1, S \cup {handled + 1}) = Cardinality(S) + 1
        /\ \A i \in S : /\ Rank(i, S \cup {handled + 1}) = Rank(i, S)
                        /\ Rank(i, S) \in 1..Cardinality(S)
    BY <1>0, <1>2, RankOfNext
  <1>5. /\ Len(Append(s, notify)) = Len(s) + 1
        /\ Append(s, notify)[Len(s) + 1] = notify
        /\ \A i \in 1..Len(s) : Append(s, notify)[i] = s[i]
    BY <1>3, AppendProperties
  <1>6. Told(o)' = Append(s, notify)
    BY DEF s
  <1>7. Len(Told(o)') = Cardinality(Due(o)')
    BY <1>2, <1>3, <1>4, <1>5, <1>6
  <1>8. ASSUME NEW i \in S \cup {handled + 1}
        PROVE  Append(s, notify)[Rank(i, S \cup {handled + 1})] = built[i]
    <2>1. CASE i = handled + 1
      BY <1>1, <1>3, <1>4, <1>5, <2>1
    <2>2. CASE i \in S
      BY <1>3, <1>4, <1>5, <2>2
    <2>3. QED
      BY <2>1, <2>2
  <1>9. \A i \in Due(o)' : Told(o)'[Rank(i, Due(o)')] = built'[i]
    BY <1>0, <1>2, <1>6, <1>8
  <1>10. QED
    BY <1>7, <1>9 DEF Complete, Rank

LEMMA MissedStep ==
  TypeOK /\ PipeInv /\ StreamInv /\ NothingMissed /\ [Next]_vars => NothingMissed'
  <1> SUFFICES ASSUME TypeOK, PipeInv, StreamInv, NothingMissed, [Next]_vars,
                      NEW o \in Observer, watch'[o] = "on", ~closed'[o], ~panicked'
               PROVE  Complete(o)'
    BY DEF NothingMissed, Complete
  <1>1. CASE Subscribe(o)
    <2>1. /\ watch[o] = "none" /\ Told(o)' = Told(o) /\ UNCHANGED <<loop, targets, handled>>
          /\ joined'[o] = handled + (IF loop = "recv" THEN 0 ELSE 1)
      BY <1>1 DEF Subscribe, loopVars, TypeOK, Told
    <2>2. handled \in Nat
      BY DEF TypeOK
    <2>3. Told(o)' = <<>>
      BY <2>1 DEF StreamInv
    <2>4. (joined'[o] + 1)..handled' = {} /\ (loop' = "send" => ~(joined'[o] <= handled'))
      BY <2>1, <2>2
    <2>5. Due(o)' = {}
      BY <2>4 DEF Due
    <2>6. Len(Told(o)') = Cardinality(Due(o)')
      BY <2>3, <2>5, FS_EmptySet, EmptySeq
    <2>7. QED
      BY <2>5, <2>6 DEF Complete
  <1>2. CASE ~Subscribe(o)
    <2>1. watch[o] = "on" /\ ~closed[o] /\ ~panicked
      <3>1. watch[o] = "on"
        BY <1>2, SMTT(20) DEF Next, Propagate, Loop, Distribute, Watch, Apply, Emit, PropagateReceive,
           ChangeNotify, LoopReceive, DistributeSend, DistributeTimeout, DistributePanic,
           DistributeDone, LoopRestart, Subscribe, Receive, Leave, Unsubscribe, vars, streamVars, TypeOK
      <3>2. ~closed[o]
        BY DEF Next, Propagate, Loop, Distribute, Watch, Apply, Emit, PropagateReceive,
           ChangeNotify, LoopReceive, DistributeSend, DistributeTimeout, DistributePanic,
           DistributeDone, LoopRestart, Subscribe, Receive, Leave, Unsubscribe, vars, streamVars, TypeOK
      <3>3. ~panicked
        BY DEF Next, Propagate, Loop, Distribute, Watch, Apply, Emit, PropagateReceive,
           ChangeNotify, LoopReceive, DistributeSend, DistributeTimeout, DistributePanic,
           DistributeDone, LoopRestart, Subscribe, Receive, Leave, Unsubscribe, vars, loopVars, TypeOK
      <3>4. QED
        BY <3>1, <3>2, <3>3
    <2>2. Complete(o)
      BY <2>1 DEF NothingMissed, Complete
    <2>3. CASE DistributeSend(o) /\ Told(o)' = Append(Told(o), notify)
      BY <2>1, <2>2, <2>3, SendCompletes
    <2>4. CASE ~DistributeSend(o)
      <3>1. Told(o)' = Told(o)
        BY <2>4, ToldStep
      <3>2. Due(o)' = Due(o) /\ \A i \in Due(o) : built'[i] = built[i]
        BY <1>2, <2>1, <2>4, DueStep
      <3>3. QED
        BY <2>2, <3>1, <3>2 DEF Complete, Rank
    <2>5. DistributeSend(o) => Told(o)' = Append(Told(o), notify)
      BY SendTells
    <2>6. QED
      BY <2>3, <2>4, <2>5
  <1>3. QED
    BY <1>1, <1>2
-----------------------------------------------------------------------------
(* The theorems *)

\* Every variable has its type and no channel ever holds more than its
\* capacity, whatever the watchers do.
THEOREM TypeCorrect == Spec => []TypeOK
  BY TypeInit, TypeStep, PTL DEF Spec

\* The loop is told of every notification the applier builds, in the order of
\* building: what it has not finished with is in the channels, the relay and
\* emitChange, none missing, none twice.
THEOREM PipeIsLossless == Spec => []PipeInv
  BY TypeInit, TypeStep, PipeInit, PipeStep, PTL DEF Spec

\* A client sees changes in the order in which they were applied.
THEOREM ToldIsOrdered == Spec => []ToldInOrder
  <1>1. OrderInv => ToldInOrder
    BY DEF OrderInv
  <1>2. QED
    BY <1>1, TypeInit, TypeStep, PipeInit, PipeStep, OrderInit, OrderStep, PTL DEF Spec

\* While the loop has not panicked, a client whose stream is open was told
\* exactly what is due to it.
THEOREM NothingIsMissed == Spec => []NothingMissed
  BY TypeInit, TypeStep, PipeInit, PipeStep, StreamInit, StreamStep, MissedInit, MissedStep, PTL
     DEF Spec

-----------------------------------------------------------------------------
(* The proposal pipeline *)

\* The pipeline keeps its types: at the start and at every step.
LEMMA PipelineTypeInit == PipelineInit => PipelineTypeOK
  BY PipelineAssumption DEF PipelineInit, PipelineTypeOK

\* A caller that returns, or moves on, keeps its types.
LEMMA CallerType ==
  ASSUME PipelineTypeOK, NEW c \in Caller,
         \/ \E r \in {"ok", "err", "shutdown", "cancelled", "panic"} : return(c, r)
         \/ \E to \in {"register", "propose", "send", "answer", "wait"} :
              goto(c, to) /\ pending' \subseteq Caller
  PROVE  /\ pc' \in [Caller -> {"idle", "register", "propose", "send", "answer", "wait", "done"}]
         /\ result' \in [Caller -> {"none", "ok", "err", "shutdown", "cancelled", "panic"}]
         /\ pending' \subseteq Caller
  BY DEF PipelineTypeOK, return, goto

LEMMA PipelineTypeStep == PipelineTypeOK /\ [PipelineNext]_pipelineVars => PipelineTypeOK'
  <1> SUFFICES ASSUME PipelineTypeOK, [PipelineNext]_pipelineVars PROVE PipelineTypeOK'
    OBVIOUS
  <1> USE DEF senderVars, nodeVars
  <1>1. ASSUME NEW c \in Caller, checkShutdown(c) PROVE PipelineTypeOK'
    BY <1>1, CallerType DEF PipelineTypeOK, checkShutdown
  <1>2. ASSUME NEW c \in Caller, registerPending(c) PROVE PipelineTypeOK'
    BY <1>2, CallerType DEF PipelineTypeOK, registerPending
  <1>3. ASSUME NEW c \in Caller, propose(c) PROVE PipelineTypeOK'
    BY <1>3, CallerType DEF PipelineTypeOK, propose
  <1>4. ASSUME NEW c \in Caller, sendProposal(c) PROVE PipelineTypeOK'
    <2>1. /\ pc' \in [Caller -> {"idle", "register", "propose", "send", "answer", "wait", "done"}]
          /\ result' \in [Caller -> {"none", "ok", "err", "shutdown", "cancelled", "panic"}]
          /\ pending' \subseteq Caller
      BY <1>4, CallerType DEF PipelineTypeOK, sendProposal
    <2>2. proposeC' \in Seq(Caller) /\ Len(proposeC') <= ProposeCap
      BY <1>4, PipelineAssumption DEF PipelineTypeOK, sendProposal, room
    <2>3. QED
      BY <1>4, <2>1, <2>2 DEF PipelineTypeOK, sendProposal
  <1>5. ASSUME NEW c \in Caller, waitPending(c) PROVE PipelineTypeOK'
    <2>1. ack[c] \in {"ok", "shutdown"}
      BY <1>5 DEF PipelineTypeOK, waitPending
    <2>2. QED
      BY <1>5, <2>1, CallerType DEF PipelineTypeOK, waitPending
  <1>6. ASSUME NEW c \in Caller, contextDone(c) PROVE PipelineTypeOK'
    BY <1>6, CallerType DEF PipelineTypeOK, contextDone
  <1>7. ASSUME NEW c \in Caller, Cancel(c) PROVE PipelineTypeOK'
    BY <1>7 DEF PipelineTypeOK, Cancel
  <1>8. ASSUME NEW c \in Caller, resolvePending(c) PROVE PipelineTypeOK'
    BY <1>8 DEF PipelineTypeOK, resolvePending
  <1>9. CASE receiveProposal
    BY <1>9, PipelineAssumption DEF PipelineTypeOK, receiveProposal
  <1>10. CASE nodePropose
    BY <1>10 DEF PipelineTypeOK, nodePropose
  <1>11. CASE sendAnswer
    BY <1>11, CallerType DEF PipelineTypeOK, sendAnswer
  <1>12. CASE senderStop
    BY <1>12 DEF PipelineTypeOK, senderStop
  <1>13. CASE stop
    BY <1>13 DEF PipelineTypeOK, stop
  <1>14. CASE Shutdown
    BY <1>14 DEF PipelineTypeOK, Shutdown, ShutdownFlag, failAllPending, ShutdownClose
  <1>15. CASE UNCHANGED pipelineVars
    BY <1>15 DEF PipelineTypeOK, pipelineVars
  <1>16. QED
    BY <1>1, <1>2, <1>3, <1>4, <1>5, <1>6, <1>7, <1>8, <1>9, <1>10, <1>11, <1>12, <1>13,
       <1>14, <1>15 DEF PipelineNext, Call, Sender

\* The callers, the channels and the phases of Shutdown keep their types, and
\* proposeC never holds more than its capacity.
THEOREM PipelineTypeCorrect == PipelineSpec => []PipelineTypeOK
  BY PipelineTypeInit, PipelineTypeStep, PTL DEF PipelineSpec

-----------------------------------------------------------------------------

\* An acknowledgement of success is only ever sent by the applier.
AckOkIsApplied == \A c \in Caller : ack[c] = "ok" => c \in applied

\* The inductive invariant.
PipelineInv == NobodyForgotten /\ NobodyLeftBehind /\ OkIsApplied /\ AckOkIsApplied

LEMMA PipelineInvInit == PipelineInit => PipelineInv
  BY DEF PipelineInit, PipelineInv, NobodyForgotten, NobodyLeftBehind, OkIsApplied, AckOkIsApplied

\* A caller that returns with something else than "ok" disturbs nothing: it
\* leaves the pending map and nobody waits for it any more.
LEMMA ReturnKeepsInv ==
  ASSUME PipelineTypeOK, PipelineInv, NEW c \in Caller, NEW r, return(c, r),
         r = "ok" => c \in applied, UNCHANGED <<ack, applied, shutdown>>
  PROVE  PipelineInv'
  BY DEF PipelineTypeOK, PipelineInv, NobodyForgotten, NobodyLeftBehind, OkIsApplied,
         AckOkIsApplied, return

\* Moving on without touching the map disturbs nothing once the caller is
\* registered, unless it leaves "propose" while Shutdown is under way.
LEMMA GotoKeepsInv ==
  ASSUME PipelineTypeOK, PipelineInv, NEW c \in Caller,
         NEW to \in {"register", "propose", "send", "answer", "wait"}, goto(c, to),
         to = "register" \/ pc[c] \in {"propose", "send", "answer"},
         pc[c] = "propose" => ~shuttingDown,
         UNCHANGED <<pending, ack, applied, shutdown>>
  PROVE  PipelineInv'
  <1>1. NobodyForgotten'
    BY DEF PipelineTypeOK, PipelineInv, NobodyForgotten, goto
  <1>2. NobodyLeftBehind'
    BY DEF PipelineTypeOK, PipelineInv, NobodyLeftBehind, goto, shuttingDown
  <1>3. OkIsApplied' /\ AckOkIsApplied'
    BY DEF PipelineInv, OkIsApplied, AckOkIsApplied, goto
  <1>4. QED
    BY <1>1, <1>2, <1>3 DEF PipelineInv

LEMMA PipelineInvStep ==
  PipelineTypeOK /\ PipelineInv /\ [PipelineNext]_pipelineVars => PipelineInv'
  <1> SUFFICES ASSUME PipelineTypeOK, PipelineInv, [PipelineNext]_pipelineVars PROVE PipelineInv'
    OBVIOUS
  <1> USE DEF senderVars, nodeVars
  <1>1. ASSUME NEW c \in Caller, checkShutdown(c) PROVE PipelineInv'
    <2>1. CASE return(c, "shutdown")
      BY <1>1, <2>1, ReturnKeepsInv DEF checkShutdown
    <2>2. CASE goto(c, "register") /\ UNCHANGED pending
      <3>1. pc[c] # "propose" /\ UNCHANGED <<pending, ack, applied, shutdown>>
        BY <1>1, <2>2 DEF checkShutdown
      <3>2. QED
        BY <2>2, <3>1, GotoKeepsInv
    <2>3. QED
      BY <1>1, <2>1, <2>2 DEF checkShutdown
  <1>2. ASSUME NEW c \in Caller, registerPending(c) PROVE PipelineInv'
    BY <1>2 DEF PipelineTypeOK, PipelineInv, NobodyForgotten, NobodyLeftBehind, OkIsApplied,
                AckOkIsApplied, registerPending, goto
  <1>3. ASSUME NEW c \in Caller, propose(c) PROVE PipelineInv'
    <2>1. CASE return(c, "shutdown")
      BY <1>3, <2>1, ReturnKeepsInv DEF propose
    <2>2. CASE ~shuttingDown /\ goto(c, "send") /\ UNCHANGED pending
      <3>1. pc[c] = "propose" /\ UNCHANGED <<pending, ack, applied, shutdown>>
        BY <1>3, <2>2 DEF propose
      <3>2. QED
        BY <2>2, <3>1, GotoKeepsInv
    <2>3. QED
      BY <1>3, <2>1, <2>2 DEF propose
  <1>4. ASSUME NEW c \in Caller, sendProposal(c) PROVE PipelineInv'
    <2>1. CASE return(c, "panic")
      BY <1>4, <2>1, ReturnKeepsInv DEF sendProposal
    <2>2. CASE goto(c, "answer") /\ UNCHANGED pending
      <3>1. pc[c] = "send" /\ UNCHANGED <<pending, ack, applied, shutdown>>
        BY <1>4, <2>2 DEF sendProposal
      <3>2. QED
        BY <2>2, <3>1, GotoKeepsInv
    <2>3. QED
      BY <1>4, <2>1, <2>2 DEF sendProposal
  <1>5. ASSUME NEW c \in Caller, waitPending(c) PROVE PipelineInv'
    <2>1. ack[c] = "ok" => c \in applied
      BY DEF PipelineInv, AckOkIsApplied
    <2>2. QED
      BY <1>5, <2>1, ReturnKeepsInv DEF waitPending
  <1>6. ASSUME NEW c \in Caller, contextDone(c) PROVE PipelineInv'
    BY <1>6, ReturnKeepsInv DEF contextDone
  <1>7. ASSUME NEW c \in Caller, resolvePending(c) PROVE PipelineInv'
    BY <1>7 DEF PipelineTypeOK, PipelineInv, NobodyForgotten, NobodyLeftBehind, OkIsApplied,
                AckOkIsApplied, resolvePending
  <1>8. CASE sendAnswer
    <2>1. proposal \in Caller /\ pc[proposal] = "answer" /\ UNCHANGED <<ack, applied, shutdown>>
      BY <1>8 DEF PipelineTypeOK, sendAnswer
    <2>2. CASE return(proposal, "err")
      BY <2>1, <2>2, ReturnKeepsInv
    <2>3. CASE goto(proposal, "wait") /\ UNCHANGED pending
      BY <2>1, <2>3, GotoKeepsInv
    <2>4. QED
      BY <1>8, <2>2, <2>3 DEF sendAnswer
  <1>9. CASE failAllPending
    BY <1>9 DEF PipelineTypeOK, PipelineInv, NobodyForgotten, NobodyLeftBehind, OkIsApplied,
                AckOkIsApplied, failAllPending
  <1>10. CASE ShutdownFlag \/ ShutdownClose
    BY <1>10 DEF PipelineInv, NobodyForgotten, NobodyLeftBehind, OkIsApplied, AckOkIsApplied,
                 ShutdownFlag, ShutdownClose
  <1>11. CASE UNCHANGED <<pc, result, pending, ack, applied, shutdown>>
    BY <1>11 DEF PipelineInv, NobodyForgotten, NobodyLeftBehind, OkIsApplied, AckOkIsApplied
  <1>12. ASSUME NEW c \in Caller, Cancel(c) PROVE PipelineInv'
    BY <1>11, <1>12 DEF Cancel
  <1>13. CASE receiveProposal \/ nodePropose \/ senderStop \/ stop
    BY <1>11, <1>13 DEF receiveProposal, nodePropose, senderStop, stop
  <1>14. CASE UNCHANGED pipelineVars
    BY <1>11, <1>14 DEF pipelineVars
  <1>15. QED
    BY <1>1, <1>2, <1>3, <1>4, <1>5, <1>6, <1>7, <1>8, <1>9, <1>10, <1>12, <1>13, <1>14
       DEF PipelineNext, Call, Sender, Shutdown

LEMMA PipelineAlwaysInv == PipelineSpec => []PipelineInv
  BY PipelineTypeCorrect, PipelineInvInit, PipelineInvStep, PTL DEF PipelineSpec

\* A registered caller is never forgotten: the applier or Shutdown answers it,
\* and Shutdown leaves nobody in the pending map who would wait for an answer.
THEOREM RegisteredIsAnswered == PipelineSpec => []EveryoneAnswered
  BY PipelineAlwaysInv, PTL DEF PipelineInv, EveryoneAnswered

\* Success is only reported for an applied write.
THEOREM SuccessIsApplied == PipelineSpec => []OkIsApplied
  BY PipelineAlwaysInv, PTL DEF PipelineInv
=============================================================================
