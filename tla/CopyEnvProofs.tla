--------------------------- MODULE CopyEnvProofs ---------------------------
(***************************************************************************)
(* Proofs about CopyEnv, for any applications, environments, keys,         *)
(* contents and number of workers: the task writes only into the           *)
(* environment it created.  A worker acts on names the form held when the  *)
(* task was started; the invariant says why they cannot have changed       *)
(* since: while anything of the task is under way, the dialog is locked or *)
(* the page is gone, and the application is the one the task was started   *)
(* in wherever the page has gone.                                          *)
(***************************************************************************)
EXTENDS CopyEnv, FiniteSetTheorems, TLAPS

Quiet == task = "idle" /\ \A w \in Worker : worker[w].pc = "off"

\* The form is not under a task, and a dialog that fades out is not copying.
LockInv ==
  /\ step = "create" => ~copying
  /\ exiting => ~copying /\ ~open
  /\ mounted /\ ~copying => Quiet

\* What the task and its workers hold.
TaskInv ==
  /\ \A w \in Worker : worker[w].pc # "off" => task = "workers" /\ worker[w].key \in Key
  /\ task \in {"createEnv", "workers"} => taskApp \in App /\ sourceEnv \in Env /\ targetEnv \in Env
  /\ task = "workers" => target \in made

Inv == TypeOK /\ LockInv /\ TaskInv
-----------------------------------------------------------------------------
(* Operators *)

\* The chosen keys can be listed, since there are finitely many.
LEMMA ListingType ==
  ASSUME NEW S \in SUBSET Key
  PROVE  Listing(S) \in Seq(Key)
  <1>1. IsFiniteSet(S)
    BY FS_Subset, BoundAssumption
  <1>2. Cardinality(S) \in Nat /\ ExistsBijection(1..Cardinality(S), S)
    BY <1>1, FS_CardinalityType
  <1>3. PICK f : f \in Bijection(1..Cardinality(S), S)
    BY <1>2 DEF ExistsBijection
  <1>4. f \in Listings(S)
    BY <1>3 DEF Listings, Bijection, Injection, IsInjective
  <1>5. Listing(S) \in Listings(S)
    BY <1>4 DEF Listing
  <1>6. QED
    BY <1>2, <1>5 DEF Listings

\* An element's content and the records the task writes are of their types.
LEMMA Types ==
  /\ Off \in WorkerState
  /\ \A k \in Key : Getting(k) \in WorkerState
  /\ \A k \in Key, r \in Raw \cup {Blank} : Posting(k, r) \in WorkerState
  /\ \A r \in Raw \cup {Blank} : [raw |-> r, used |-> FALSE] \in Element
  /\ \A c \in Element : c.raw \in Raw \cup {Blank}
  /\ NoElements \in [Key -> Element \cup {None}]
  BY DEF Off, Getting, Posting, WorkerState, Element, NoElements

\* The lists of environments, and the places named by the form.
LEMMA Places ==
  /\ \A a : EnvLists(a) \subseteq SUBSET Env
  /\ appId \in App /\ sourceEnv \in Env => shownSource \in Place
  /\ taskApp \in App /\ sourceEnv \in Env => source \in Place
  /\ taskApp \in App /\ targetEnv \in Env => target \in Place
  BY DEF EnvLists, shownSource, source, target, Place

\* A worker that settles its element claims one of the items or stops.
LEMMA SettleType ==
  ASSUME Inv, NEW w \in Worker, worker[w].pc # "off", NEW st \in Status, settle(w, st)
  PROVE  /\ worker' \in [Worker -> WorkerState] /\ cursor' \in Nat \ {0}
         /\ results' \in Seq([key : Key, status : Status])
         /\ \A v \in Worker : worker'[v].pc # "off" => worker'[v].key \in Key
  <1> USE DEF Inv, TypeOK
  <1>1. worker[w].key \in Key
    BY DEF TaskInv
  <1>2. cursor <= Len(items) => items[cursor] \in Key
    OBVIOUS
  <1>3. CASE isActive
    <2>1. results' \in Seq([key : Key, status : Status])
      <3>1. [key |-> worker[w].key, status |-> st] \in [key : Key, status : Status]
        BY <1>1
      <3>2. results' = Append(results, [key |-> worker[w].key, status |-> st])
        BY <1>3 DEF settle
      <3>3. results \in Seq([key : Key, status : Status])
        OBVIOUS
      <3>4. QED
        BY <3>1, <3>2, <3>3
    <2>2. PICK x : /\ x \in WorkerState /\ (x.pc # "off" => x.key \in Key)
                   /\ worker' = [worker EXCEPT ![w] = x]
      <3>1. CASE cursor <= Len(items)
        BY <1>2, <1>3, <3>1, Types DEF settle, Getting
      <3>2. CASE ~(cursor <= Len(items))
        BY <1>3, <3>2, Types DEF settle, Off
      <3>3. QED
        BY <3>1, <3>2
    <2>3. \A v \in Worker : worker'[v].pc # "off" => worker'[v].key \in Key
      BY <2>2 DEF TaskInv
    <2>4. cursor' \in Nat \ {0}
      BY <1>3 DEF settle
    <2>5. QED
      BY <2>1, <2>2, <2>3, <2>4
  <1>4. CASE ~isActive
    <2>1. worker' = [worker EXCEPT ![w] = Off] /\ results' = results /\ cursor' = cursor
      BY <1>4 DEF settle
    <2>2. worker' \in [Worker -> WorkerState] /\ cursor' \in Nat \ {0}
      BY <2>1, Types
    <2>3. \A v \in Worker : worker'[v].pc # "off" => worker'[v].key \in Key
      BY <2>1 DEF Off, TaskInv
    <2>4. results' \in Seq([key : Key, status : Status])
      BY <2>1
    <2>5. QED
      BY <2>2, <2>3, <2>4
  <1>5. QED
    BY <1>3, <1>4
-----------------------------------------------------------------------------
(* The invariant *)

LEMMA InvInit == Init => Inv
  <1> SUFFICES ASSUME Init PROVE Inv
    OBVIOUS
  <1>1. content \in [Place -> [Key -> Element \cup {None}]]
    BY SeedAssumption, Types DEF Init
  <1>2. worker \in [Worker -> WorkerState] /\ \A w \in Worker : worker[w].pc = "off"
    BY Types DEF Init, Off
  <1>3. progress \in [createEnv : ProgressState, copyElements : ProgressState, complete : ProgressState]
    BY DEF Init, createInitialProgress, ProgressState
  <1>4. results \in Seq([key : Key, status : Status]) /\ items \in Seq(Key)
    BY DEF Init
  <1>5. elements \in [Key -> Element \cup {None}] /\ DOMAIN Seed \subseteq Place
    BY SeedAssumption, Types DEF Init
  <1>6. TypeOK
    <2>1. /\ mounted \in BOOLEAN /\ open \in BOOLEAN /\ exiting \in BOOLEAN
          /\ loadingElements \in BOOLEAN /\ copying \in BOOLEAN
      BY DEF Init
    <2>2. /\ exists \in SUBSET Place /\ rows \in SUBSET Env /\ changes \in Nat /\ loads \in SUBSET Load
          /\ loadSeq \in Nat /\ cursor \in Nat \ {0} /\ made \in SUBSET Place /\ wrote \in SUBSET Key
          /\ selectedKeys \in SUBSET Key /\ appId \in App /\ moves \in Nat
      BY <1>5, Places, SeedAssumption DEF Init
    <2>3. /\ step \in {"create", "execute"} /\ emptyStrategy \in {"skip", "copy"}
          /\ task \in {"idle", "createEnv", "workers", "refresh"}
          /\ {sourceEnv, targetEnv} \subseteq Env \cup {None} /\ loadedFrom \in Place \cup {None}
          /\ listing \in App \cup {None, "task"} /\ taskApp \in App \cup {None}
      BY DEF Init
    <2>4. QED
      BY <1>1, <1>2, <1>3, <1>4, <1>5, <2>1, <2>2, <2>3 DEF TypeOK
  <1>7. LockInv /\ TaskInv
    BY <1>2 DEF Init, LockInv, TaskInv, Quiet
  <1>8. QED
    BY <1>6, <1>7 DEF Inv

\* The dialog's own steps: the form, the list, opening and closing.
FormStep ==
  \/ Open \/ handleClose \/ switchEmptyStrategy \/ viewCopiedEnv \/ unmount \/ envsLoaded
  \/ \E a \in App : navigate(a)
  \/ \E e \in rows : handleSourceEnvChange(e)
  \/ \E e \in Env : typeTargetEnv(e)
  \/ \E S \in SUBSET Key : toggle(S)
  \/ \E l \in loads : requestElements(l) \/ elementsLoaded(l) \/ elementsFailed(l)

\* They leave the store and the task alone.
LEMMA FormFrame ==
  ASSUME FormStep
  PROVE  UNCHANGED <<storeVars, taskVars>>
  BY DEF FormStep, Open, handleClose, navigate, envsLoaded,
             switchEmptyStrategy, viewCopiedEnv, unmount, gone,
         handleSourceEnvChange, typeTargetEnv, toggle, requestElements, elementsLoaded,
         elementsFailed

\* A new listing is of the place asked for.
LEMMA LoadType ==
  ASSUME TypeOK, NEW p \in Place, startLoad(p)
  PROVE  loads' \in SUBSET Load /\ loadSeq' \in Nat
  BY Types DEF TypeOK, startLoad, Load

\* The variables of the form, the listing and the view keep their types.
LEMMA FormType ==
  ASSUME Inv, FormStep
  PROVE  TypeOK'
  <1> USE DEF Inv
  <1>1. UNCHANGED <<storeVars, taskVars>>
    BY FormFrame
  <1>2. CASE Open
    <2>1. loads' \in SUBSET Load /\ loadSeq' \in Nat
      BY <1>2, LoadType, Places DEF Open, TypeOK
    <2>2. open' \in BOOLEAN /\ exiting' \in BOOLEAN
      BY <1>2 DEF Open
    <2>3. UNCHANGED <<formVars, mounted, appId, moves, rows, listing, loadingElements, loadedFrom>>
      BY <1>2 DEF Open
    <2>4. QED
      BY <1>1, <2>1, <2>2, <2>3 DEF TypeOK, storeVars, formVars, taskVars
  <1>3. CASE handleClose
    <2>1. open' \in BOOLEAN /\ exiting' \in BOOLEAN
      BY <1>3 DEF handleClose
    <2>2. UNCHANGED <<formVars, loadVars, mounted, appId, moves, rows, listing>>
      BY <1>3 DEF handleClose
    <2>3. QED
      BY <1>1, <2>1, <2>2 DEF TypeOK, storeVars, formVars, loadVars, taskVars
  <1>4. CASE switchEmptyStrategy
    BY <1>1, <1>4 DEF switchEmptyStrategy, TypeOK, storeVars, viewVars, loadVars, taskVars
  <1>5. CASE viewCopiedEnv \/ unmount
    BY <1>1, <1>5, Types DEF viewCopiedEnv, unmount, gone, TypeOK, storeVars, taskVars
  <1>6. ASSUME NEW e \in rows, handleSourceEnvChange(e)
        PROVE  TypeOK'
    <2>1. e \in Env
      BY DEF TypeOK
    <2>2. loads' \in SUBSET Load /\ loadSeq' \in Nat
      <3>1. <<appId, e>> \in Place
        BY <2>1 DEF TypeOK, Place
      <3>2. QED
        BY <1>6, <3>1, LoadType DEF handleSourceEnvChange
    <2>3. QED
      BY <1>1, <1>6, <2>1, <2>2 DEF handleSourceEnvChange, TypeOK, storeVars, viewVars, taskVars
  <1>7. ASSUME NEW e \in Env, typeTargetEnv(e)
        PROVE  TypeOK'
    BY <1>1, <1>7 DEF typeTargetEnv, TypeOK, storeVars, viewVars, loadVars, taskVars
  <1>8. ASSUME NEW S \in SUBSET Key, toggle(S)
        PROVE  TypeOK'
    BY <1>1, <1>8 DEF toggle, TypeOK, storeVars, viewVars, loadVars, taskVars
  <1>9. ASSUME NEW l \in loads, requestElements(l)
        PROVE  TypeOK'
    <2>1. l \in Load
      BY DEF TypeOK
    <2>2. PICK p \in SUBSET l.rest :
            loads' = (loads \ {l}) \cup
              {[l EXCEPT !.rest = l.rest \ p,
                         !.got = [k \in Key |-> IF k \in p THEN content[l.from][k] ELSE l.got[k]]]}
      BY <1>9 DEF requestElements
    <2>3. [k \in Key |-> IF k \in p THEN content[l.from][k] ELSE l.got[k]]
            \in [Key -> Element \cup {None}]
      BY <2>1 DEF TypeOK, Load
    <2>4. [l EXCEPT !.rest = l.rest \ p,
                    !.got = [k \in Key |-> IF k \in p THEN content[l.from][k] ELSE l.got[k]]] \in Load
      BY <2>1, <2>2, <2>3 DEF Load
    <2>5. loads' \in SUBSET Load
      BY <2>2, <2>4 DEF TypeOK
    <2>6. QED
      <3>1. UNCHANGED <<formVars, viewVars, loadingElements, loadSeq, loadedFrom>>
        BY <1>9 DEF requestElements
      <3>2. QED
        BY <1>1, <2>5, <3>1 DEF TypeOK, storeVars, formVars, viewVars, taskVars
  <1>10. ASSUME NEW l \in loads, elementsLoaded(l) \/ elementsFailed(l)
         PROVE  TypeOK'
    <2>1. /\ elements' \in [Key -> Element \cup {None}] /\ selectedKeys' \in SUBSET Key
          /\ loadingElements' \in BOOLEAN /\ loadedFrom' \in Place \cup {None}
      BY <1>10, Types DEF elementsLoaded, elementsFailed, Listed, TypeOK, Load
    <2>2. UNCHANGED <<viewVars, step, sourceEnv, targetEnv, emptyStrategy, loadSeq>>
      BY <1>10 DEF elementsLoaded, elementsFailed
    <2>3. loads' \in SUBSET Load
      BY <1>10 DEF elementsLoaded, elementsFailed, TypeOK
    <2>4. QED
      BY <1>1, <2>1, <2>2, <2>3 DEF TypeOK, storeVars, viewVars, taskVars
  <1>11. ASSUME NEW a \in App, navigate(a)
         PROVE  TypeOK'
    <2>1. loads' \in SUBSET Load /\ loadSeq' \in Nat
      <3>1. CASE open /\ sourceEnv # None
        <4>1. <<a, sourceEnv>> \in Place
          BY <3>1 DEF TypeOK, Place
        <4>2. QED
          BY <1>11, <3>1, <4>1, LoadType DEF navigate
      <3>2. CASE ~(open /\ sourceEnv # None)
        BY <1>11, <3>2 DEF navigate, TypeOK
      <3>3. QED
        BY <3>1, <3>2
    <2>2. appId' \in App /\ moves' \in Nat /\ listing' \in App
      BY <1>11 DEF navigate, TypeOK
    <2>3. UNCHANGED <<formVars, mounted, open, exiting, rows, loadingElements, loadedFrom>>
      BY <1>11 DEF navigate
    <2>4. QED
      BY <1>1, <2>1, <2>2, <2>3 DEF TypeOK, storeVars, formVars, taskVars
  <1>12. CASE envsLoaded
    <2>1. rows' \in SUBSET Env /\ listing' = None
      BY <1>12, Places DEF envsLoaded
    <2>2. UNCHANGED <<formVars, loadVars, mounted, open, exiting, appId, moves>>
      BY <1>12 DEF envsLoaded
    <2>3. QED
      BY <1>1, <2>1, <2>2 DEF TypeOK, storeVars, formVars, loadVars, taskVars
  <1>13. QED
    BY <1>2, <1>3, <1>4, <1>5, <1>6, <1>7, <1>8, <1>9, <1>10, <1>11, <1>12 DEF FormStep

\* The names a task works with are not changed by the dialog's own steps: the
\* form can be filled in only while nothing of a task is under way.
LEMMA FormKeepsInv ==
  ASSUME Inv, FormStep
  PROVE  Inv'
  <1>1. TypeOK'
    BY FormType
  <1>2. UNCHANGED taskVars
    BY FormFrame
  <1>3. LockInv'
    <2>1. step' = step
      BY DEF FormStep, Open, handleClose, navigate, envsLoaded,
             switchEmptyStrategy, viewCopiedEnv, unmount, gone,
             handleSourceEnvChange, typeTargetEnv, toggle, requestElements, elementsLoaded,
             elementsFailed, formVars
    <2>2. mounted' = mounted \/ mounted' = FALSE
      BY DEF FormStep, Open, handleClose, navigate, envsLoaded,
             switchEmptyStrategy, viewCopiedEnv, unmount, gone,
             handleSourceEnvChange, typeTargetEnv, toggle, requestElements, elementsLoaded,
             elementsFailed, viewVars
    <2>3. exiting' = exiting \/ exiting' = FALSE \/ ~copying
      BY DEF FormStep, Open, handleClose, navigate, envsLoaded,
             switchEmptyStrategy, viewCopiedEnv, unmount, gone,
             handleSourceEnvChange, typeTargetEnv, toggle, requestElements, elementsLoaded,
             elementsFailed, viewVars
    <2>4. exiting' => ~open'
      BY DEF FormStep, Open, handleClose, navigate, envsLoaded,
             switchEmptyStrategy, viewCopiedEnv, unmount, gone,
             handleSourceEnvChange, typeTargetEnv, toggle, requestElements, elementsLoaded,
             elementsFailed, viewVars, Inv, LockInv
    <2>5. QED
      BY <1>2, <2>1, <2>2, <2>3, <2>4 DEF Inv, LockInv, Quiet, taskVars
  <1>4. TaskInv'
    <2>1. CASE UNCHANGED <<sourceEnv, targetEnv>>
      BY <1>2, <2>1 DEF Inv, TaskInv, taskVars, target
    <2>2. CASE mounted /\ step = "create"
      BY <1>2, <2>2 DEF Inv, LockInv, TaskInv, Quiet, taskVars
    <2>3. QED
      BY <2>1, <2>2 DEF FormStep, Open, handleClose, navigate, envsLoaded,
             switchEmptyStrategy, viewCopiedEnv, unmount, gone,
             handleSourceEnvChange, typeTargetEnv, toggle, requestElements, elementsLoaded,
             elementsFailed, formVars, formShown, isActive
  <1>5. QED
    BY <1>1, <1>3, <1>4 DEF Inv

\* The task's steps keep the names and the view.
LEMMA TaskKeepsInv ==
  ASSUME Inv, UNCHANGED <<changes, formVars, loadVars, mounted, open, exiting, appId, moves, taskApp>>,
         /\ exists' \in SUBSET Place /\ content' \in [Place -> [Key -> Element \cup {None}]]
         /\ rows' \in SUBSET Env /\ listing' \in App \cup {None, "task"} /\ copying' \in BOOLEAN
         /\ progress' \in [createEnv : ProgressState, copyElements : ProgressState,
                           complete : ProgressState]
         /\ results' \in Seq([key : Key, status : Status])
         /\ task' \in {"idle", "createEnv", "workers", "refresh"}
         /\ items' = items /\ cursor' \in Nat \ {0} /\ worker' \in [Worker -> WorkerState]
         /\ made' \in SUBSET Place /\ made \subseteq made' /\ wrote' \in SUBSET Key,
         copying' = copying \/ (copying' = FALSE /\ Quiet'),
         task' = "createEnv" => task = "createEnv",
         task # "idle" \/ Quiet',
         task' = "workers" => task \in {"createEnv", "workers"} /\ target \in made',
         \A w \in Worker : worker'[w].pc # "off" => task' = "workers" /\ worker'[w].key \in Key
  PROVE  Inv'
  <1>1. TypeOK'
    BY DEF Inv, TypeOK, formVars, loadVars
  <1>2. LockInv'
    <2>1. mounted' /\ ~copying' => Quiet'
      BY DEF Inv, LockInv, Quiet
    <2>2. copying' => copying
      OBVIOUS
    <2>3. QED
      BY <2>1, <2>2 DEF Inv, LockInv, formVars
  <1>3. TaskInv'
    BY DEF Inv, TaskInv, formVars, target
  <1>4. QED
    BY <1>1, <1>2, <1>3 DEF Inv

\* A worker's step: the environments and elements it changes are the target's.
LEMMA WorkerKeepsInv ==
  ASSUME Inv, NEW w \in Worker, requestElement(w) \/ createElement(w)
  PROVE  Inv'
  <1>1. /\ worker[w].pc # "off" /\ task = "workers" /\ worker[w].key \in Key
        /\ source \in Place /\ target \in Place /\ target \in made
    BY Places DEF Inv, TaskInv, requestElement, createElement
  <1>2. UNCHANGED <<changes, formVars, loadVars, viewVars, copying, progress, task, items, taskApp, made>>
    BY DEF requestElement, createElement, storeVars
  <1>3. /\ exists' \in SUBSET Place /\ content' \in [Place -> [Key -> Element \cup {None}]]
        /\ wrote' \in SUBSET Key
    <2>1. CASE requestElement(w)
      BY <2>1 DEF requestElement, storeVars, Inv, TypeOK
    <2>2. CASE createElement(w)
      <3>1. worker[w].raw \in Raw \cup {Blank}
        BY DEF Inv, TypeOK, WorkerState
      <3>2. [raw |-> worker[w].raw, used |-> FALSE] \in Element
        BY <3>1, Types
      <3>3. CASE UNCHANGED <<content, exists, wrote>>
        BY <3>3 DEF Inv, TypeOK
      <3>4. CASE /\ content' = [content EXCEPT ![target][worker[w].key] =
                                  [raw |-> worker[w].raw, used |-> FALSE]]
                 /\ exists' = exists \cup {target}
                 /\ wrote' = wrote \cup {worker[w].key}
        <4>1. content \in [Place -> [Key -> Element \cup {None}]] /\ exists \in SUBSET Place
              /\ wrote \in SUBSET Key
          BY DEF Inv, TypeOK
        <4>2. exists' \in SUBSET Place /\ wrote' \in SUBSET Key
          BY <1>1, <3>4, <4>1
        <4>3. [content[target] EXCEPT ![worker[w].key] = [raw |-> worker[w].raw, used |-> FALSE]]
                \in [Key -> Element \cup {None}]
          BY <1>1, <3>2, <4>1
        <4>4. content' \in [Place -> [Key -> Element \cup {None}]]
          BY <1>1, <3>4, <4>1, <4>3
        <4>5. QED
          BY <4>2, <4>4
      <3>5. QED
        BY <2>2, <3>3, <3>4 DEF createElement
    <2>3. QED
      BY <2>1, <2>2
  <1>4. /\ worker' \in [Worker -> WorkerState] /\ cursor' \in Nat \ {0}
        /\ results' \in Seq([key : Key, status : Status])
        /\ \A v \in Worker : worker'[v].pc # "off" => worker'[v].key \in Key
    <2>1. CASE \E st \in Status : settle(w, st)
      BY <1>1, <2>1, SettleType
    <2>2. CASE /\ worker' = [worker EXCEPT ![w] = Posting(@.key, content[source][worker[w].key].raw)]
               /\ content[source][worker[w].key] # None
               /\ UNCHANGED <<results, cursor>>
      <3>1. content[source][worker[w].key] \in Element
        BY <1>1, <2>2 DEF Inv, TypeOK
      <3>2. Posting(worker[w].key, content[source][worker[w].key].raw) \in WorkerState
        BY <1>1, <3>1, Types
      <3>3. worker' \in [Worker -> WorkerState]
        BY <2>2, <3>2 DEF Inv, TypeOK
      <3>4. \A v \in Worker : worker'[v].pc # "off" => worker'[v].key \in Key
        BY <1>1, <2>2 DEF Posting, Inv, TypeOK, TaskInv
      <3>5. QED
        BY <2>2, <3>3, <3>4 DEF Inv, TypeOK
    <2>3. QED
      BY <2>1, <2>2 DEF requestElement, createElement, Status
  <1>5. QED
    <2>1. /\ rows' \in SUBSET Env /\ listing' \in App \cup {None, "task"}
          /\ copying' \in BOOLEAN /\ made' \in SUBSET Place
          /\ progress' \in [createEnv : ProgressState, copyElements : ProgressState,
                            complete : ProgressState]
      BY <1>2 DEF Inv, TypeOK, viewVars
    <2>2. QED
      BY <1>1, <1>2, <1>3, <1>4, <2>1, TaskKeepsInv DEF viewVars

\* The other steps of the task: the creation of the target and the end.
LEMMA PhaseKeepsInv ==
  ASSUME Inv, envCreated \/ envRefused \/ workersDone \/ onFinished
  PROVE  Inv'
  <1> DEFINE Progress == [createEnv : ProgressState, copyElements : ProgressState,
                          complete : ProgressState]
  <1>1. progress \in Progress /\ copying \in BOOLEAN
    BY DEF Inv, TypeOK
  <1>2. CASE envCreated
    <2>1. task = "createEnv" /\ target \in Place /\ \A w \in Worker : worker[w].pc = "off"
      BY <1>2, Places DEF envCreated, Inv, TaskInv
    <2>2. /\ UNCHANGED <<content, changes, formVars, loadVars, viewVars, copying, results, items, taskApp, wrote>>
          /\ exists' = exists \cup {target} /\ made' = made \cup {target}
      BY <1>2 DEF envCreated
    <2>3. progress' \in Progress
      BY <1>1, <1>2 DEF envCreated, ProgressState
    <2>4. /\ worker' \in [Worker -> WorkerState] /\ cursor' \in Nat \ {0}
          /\ task' \in {"idle", "workers"}
          /\ \A w \in Worker : worker'[w].pc # "off" => task' = "workers" /\ worker'[w].key \in Key
      <3>1. CASE isActive
        <4>1. runWorkers /\ task' = "workers"
          BY <1>2, <3>1 DEF envCreated
        <4>2. \A w \in Worker : w <= Len(items) => items[w] \in Key
          BY DEF Inv, TypeOK, Worker
        <4>3. worker' \in [Worker -> WorkerState]
          BY <4>1, <4>2, Types DEF runWorkers
        <4>4. \A w \in Worker : worker'[w].pc # "off" => worker'[w].key \in Key
          BY <4>1, <4>2 DEF runWorkers, Getting, Off
        <4>5. cursor' \in Nat \ {0}
          BY <4>1, BoundAssumption DEF runWorkers, Inv, TypeOK
        <4>6. QED
          BY <4>1, <4>3, <4>4, <4>5
      <3>2. CASE ~isActive
        BY <1>2, <2>1, <3>2 DEF envCreated, Inv, TypeOK
      <3>3. QED
        BY <3>1, <3>2
    <2>5. exists' \in SUBSET Place /\ made' \in SUBSET Place /\ target \in made' /\ made \subseteq made'
      BY <2>1, <2>2 DEF Inv, TypeOK
    <2>6. /\ content' \in [Place -> [Key -> Element \cup {None}]] /\ rows' \in SUBSET Env
          /\ listing' \in App \cup {None, "task"}
          /\ copying' \in BOOLEAN /\ results' \in Seq([key : Key, status : Status])
          /\ wrote' \in SUBSET Key
      BY <2>2 DEF Inv, TypeOK, viewVars
    <2>7. QED
      BY <2>1, <2>2, <2>3, <2>4, <2>5, <2>6, TaskKeepsInv DEF viewVars
  <1>3. CASE envRefused
    <2>1. task = "createEnv" /\ target \in Place /\ \A w \in Worker : worker[w].pc = "off"
      BY <1>3, Places DEF envRefused, Inv, TaskInv
    <2>2. /\ UNCHANGED <<content, changes, formVars, loadVars, viewVars, results, items, cursor,
                         worker, taskApp, made, wrote>>
          /\ task' = "idle" /\ (copying' = copying \/ copying' = FALSE)
          /\ exists' \in {exists, exists \cup {target}}
      BY <1>3 DEF envRefused
    <2>3. progress' \in Progress
      BY <1>1, <1>3 DEF envRefused, createInitialProgress, ProgressState
    <2>4. Quiet'
      BY <2>1, <2>2 DEF Quiet
    <2>5. /\ exists' \in SUBSET Place /\ made' \in SUBSET Place /\ copying' \in BOOLEAN
          /\ cursor' \in Nat \ {0} /\ worker' \in [Worker -> WorkerState]
          /\ content' \in [Place -> [Key -> Element \cup {None}]] /\ rows' \in SUBSET Env
          /\ listing' \in App \cup {None, "task"}
          /\ results' \in Seq([key : Key, status : Status]) /\ wrote' \in SUBSET Key
      BY <1>1, <2>1, <2>2 DEF Inv, TypeOK, viewVars
    <2>6. QED
      BY <2>1, <2>2, <2>3, <2>4, <2>5, TaskKeepsInv DEF viewVars, Quiet
  <1>4. CASE workersDone \/ onFinished
    <2>1. task # "idle" /\ \A w \in Worker : worker[w].pc = "off"
      BY <1>4 DEF workersDone, onFinished, Inv, TaskInv
    <2>2. /\ UNCHANGED <<storeVars, formVars, loadVars, mounted, open, exiting, appId, moves, results, items,
                         cursor, worker, taskApp, made, wrote>>
          /\ task' \in {"idle", "refresh"}
          /\ copying' = copying \/ (copying' = FALSE /\ task' = "idle")
      BY <1>4 DEF workersDone, onFinished
    <2>3. progress' \in Progress /\ rows' \in SUBSET Env /\ listing' \in App \cup {None, "task"}
      <3>1. rows \in SUBSET Env /\ listing \in App \cup {None, "task"}
        BY DEF Inv, TypeOK
      <3>2. CASE workersDone
        BY <1>1, <3>1, <3>2 DEF workersDone, ProgressState
      <3>3. CASE onFinished
        BY <1>1, <3>1, <3>3, Places DEF onFinished, finishList
      <3>4. QED
        BY <1>4, <3>2, <3>3
    <2>4. /\ exists' \in SUBSET Place /\ made' \in SUBSET Place /\ copying' \in BOOLEAN
          /\ cursor' \in Nat \ {0} /\ worker' \in [Worker -> WorkerState]
          /\ content' \in [Place -> [Key -> Element \cup {None}]]
          /\ results' \in Seq([key : Key, status : Status]) /\ wrote' \in SUBSET Key
      BY <1>1, <2>2 DEF Inv, TypeOK, storeVars
    <2>5. copying' = copying \/ (copying' = FALSE /\ Quiet')
      BY <2>1, <2>2 DEF Quiet
    <2>6. QED
      BY <2>1, <2>2, <2>3, <2>4, <2>5, TaskKeepsInv DEF storeVars
  <1>5. QED
    BY <1>2, <1>3, <1>4

\* A task is started, forgotten or cut off.
LEMMA StartKeepsInv ==
  ASSUME Inv, startCopy \/ reset \/ unload
  PROVE  Inv'
  <1>1. CASE startCopy
    <2>1. /\ mounted /\ open /\ step = "create" /\ sourceEnv \in Env /\ targetEnv \in Env
          /\ ~exiting /\ \A w \in Worker : worker[w].pc = "off"
      <3>1. mounted /\ open /\ step = "create" /\ sourceEnv # None /\ targetEnv # None
        BY <1>1 DEF startCopy, isActive, canStart
      <3>2. ~copying /\ ~exiting
        BY <3>1 DEF Inv, LockInv
      <3>3. Quiet
        BY <3>1, <3>2 DEF Inv, LockInv
      <3>4. sourceEnv \in Env \cup {None} /\ targetEnv \in Env \cup {None}
        BY DEF Inv, TypeOK
      <3>5. QED
        BY <3>1, <3>2, <3>3, <3>4 DEF Quiet
    <2>2. selectedElements \in SUBSET Key
      BY DEF selectedElements, Inv, TypeOK
    <2>3. items' \in Seq(Key)
      BY <1>1, <2>2, ListingType DEF startCopy
    <2>4. /\ progress' \in [createEnv : ProgressState, copyElements : ProgressState,
                            complete : ProgressState]
          /\ results' \in Seq([key : Key, status : Status])
      BY <1>1 DEF startCopy, createInitialProgress, ProgressState
    <2>5. /\ UNCHANGED <<storeVars, viewVars, loadVars, sourceEnv, targetEnv, elements,
                         selectedKeys, emptyStrategy, worker>>
          /\ step' = "execute" /\ copying' = TRUE /\ task' = "createEnv"
          /\ cursor' = 1 /\ taskApp' = appId /\ made' = {} /\ wrote' = {}
      BY <1>1 DEF startCopy
    <2>6. TypeOK'
      BY <2>3, <2>4, <2>5 DEF Inv, TypeOK, storeVars, viewVars, loadVars
    <2>7. LockInv' /\ TaskInv'
      BY <2>1, <2>5 DEF Inv, TypeOK, LockInv, TaskInv, viewVars
    <2>8. QED
      BY <2>6, <2>7 DEF Inv
  <1>2. CASE reset
    <2>1. Quiet /\ mounted /\ exiting /\ ~open
      BY <1>2 DEF reset, Inv, LockInv
    <2>2. /\ UNCHANGED <<storeVars, mounted, open, appId, moves, rows, listing, loads, loadSeq, loadedFrom,
                         task, items, cursor, worker, taskApp, made, wrote>>
          /\ exiting' = FALSE /\ step' = "create" /\ sourceEnv' = None /\ targetEnv' = None
          /\ selectedKeys' = {} /\ emptyStrategy' = "skip" /\ loadingElements' = FALSE
          /\ copying' = FALSE
      BY <1>2 DEF reset
    <2>3. /\ elements' \in [Key -> Element \cup {None}]
          /\ progress' \in [createEnv : ProgressState, copyElements : ProgressState,
                            complete : ProgressState]
          /\ results' \in Seq([key : Key, status : Status])
      BY <1>2, Types DEF reset, createInitialProgress, ProgressState
    <2>4. TypeOK'
      BY <2>2, <2>3 DEF Inv, TypeOK, storeVars
    <2>5. LockInv' /\ TaskInv'
      BY <2>1, <2>2 DEF LockInv, TaskInv, Quiet
    <2>6. QED
      BY <2>4, <2>5 DEF Inv
  <1>3. CASE unload
    <2>1. /\ UNCHANGED <<storeVars, appId, moves, step, sourceEnv, targetEnv, emptyStrategy, loadSeq, copying,
                         progress, results, items, cursor, taskApp, made, wrote>>
          /\ mounted' = FALSE /\ open' = FALSE /\ exiting' = FALSE /\ rows' = {} /\ listing' = None
          /\ selectedKeys' = {} /\ loadingElements' = FALSE /\ loads' = {} /\ loadedFrom' = None
          /\ task' = "idle"
      BY <1>3 DEF unload, gone
    <2>2. /\ elements' \in [Key -> Element \cup {None}]
          /\ worker' \in [Worker -> WorkerState] /\ \A w \in Worker : worker'[w].pc = "off"
      BY <1>3, Types DEF unload, gone, Off
    <2>3. TypeOK'
      BY <2>1, <2>2 DEF Inv, TypeOK, storeVars
    <2>4. LockInv' /\ TaskInv'
      BY <2>1, <2>2 DEF Inv, LockInv, TaskInv
    <2>5. QED
      BY <2>3, <2>4 DEF Inv
  <1>4. QED
    BY <1>1, <1>2, <1>3

\* Other administrators change the store only.
LEMMA OtherKeepsInv ==
  ASSUME Inv, OtherChange
  PROVE  Inv'
  <1>1. UNCHANGED <<formVars, loadVars, viewVars, taskVars>>
    BY DEF OtherChange
  <1>2. changes' \in Nat /\ exists' \in SUBSET Place
    <2>1. changes \in Nat /\ exists \in SUBSET Place
      BY DEF Inv, TypeOK
    <2>2. changes' = changes + 1
      BY DEF OtherChange
    <2>3. \/ exists' = exists
          \/ \E e \in OtherEnv : exists' = exists \cup {e}
          \/ \E e \in OtherEnv : exists' = exists \ {e}
      BY DEF OtherChange
    <2>4. OtherEnv \subseteq Place
      BY BoundAssumption
    <2>5. exists' \in SUBSET Place
      BY <2>1, <2>3, <2>4
    <2>6. QED
      BY <2>1, <2>2, <2>5
  <1>3. content' \in [Place -> [Key -> Element \cup {None}]]
    <2>1. CASE \E o \in OtherWrite : content' = [content EXCEPT ![o[1]][o[2]] = o[3]]
      BY <2>1, BoundAssumption DEF Inv, TypeOK
    <2>2. CASE content' = content
      BY <2>2 DEF Inv, TypeOK
    <2>3. CASE \E e \in OtherEnv : content' = [content EXCEPT ![e] = NoElements]
      BY <2>3, BoundAssumption, Types DEF Inv, TypeOK
    <2>4. QED
      BY <2>1, <2>2, <2>3 DEF OtherChange
  <1>4. TypeOK'
    BY <1>1, <1>2, <1>3 DEF Inv, TypeOK, formVars, loadVars, viewVars, taskVars
  <1>5. LockInv' /\ TaskInv'
    BY <1>1 DEF Inv, LockInv, TaskInv, Quiet, formVars, viewVars, taskVars, target
  <1>6. QED
    BY <1>4, <1>5 DEF Inv

LEMMA InvStep == Inv /\ [Next]_vars => Inv'
  <1> SUFFICES ASSUME Inv, [Next]_vars PROVE Inv'
    OBVIOUS
  <1>1. CASE FormStep
    BY <1>1, FormKeepsInv
  <1>2. CASE \E w \in Worker : requestElement(w) \/ createElement(w)
    BY <1>2, WorkerKeepsInv
  <1>3. CASE envCreated \/ envRefused \/ workersDone \/ onFinished
    BY <1>3, PhaseKeepsInv
  <1>4. CASE startCopy \/ reset \/ unload
    BY <1>4, StartKeepsInv
  <1>5. CASE OtherChange
    BY <1>5, OtherKeepsInv
  <1>6. CASE UNCHANGED vars
    BY <1>6 DEF Inv, TypeOK, LockInv, TaskInv, Quiet, vars, storeVars, formVars, loadVars, viewVars,
                taskVars, target
  <1>7. QED
    BY <1>1, <1>2, <1>3, <1>4, <1>5, <1>6 DEF Next, Administrator, Browser, FormStep

LEMMA AlwaysInv == Spec => []Inv
  BY InvInit, InvStep, PTL DEF Spec
-----------------------------------------------------------------------------
(* What the report, the workers and the phases of the task have to do with  *)
(* each other                                                               *)

Running == {w \in Worker : worker[w].pc # "off"}
ResultKeys == {results[i].key : i \in DOMAIN results}
ItemKeys == {items[i] : i \in DOMAIN items}

\* No element was chosen twice.
ItemsInv == \A i, j \in DOMAIN items : items[i] = items[j] => i = j

\* What the dialog shows while the task is in each of its phases.
PhaseInv ==
  /\ mounted /\ copying => open
  /\ task = "createEnv" => /\ progress = [createInitialProgress EXCEPT !.createEnv = "doing"]
                           /\ results = <<>> /\ wrote = {} /\ items # <<>>
  /\ task = "workers" => progress = [createEnv |-> "done", copyElements |-> "doing",
                                     complete |-> "pending"]
  /\ task = "refresh" => progress.createEnv = "done" /\ progress.complete = "done"

\* The items before the cursor are those that workers hold or have reported,
\* each once, and a worker stops when there is none left.
ShareInv ==
  mounted /\ task = "workers" =>
    /\ \A v, w \in Running : worker[v].key = worker[w].key => v = w
    /\ \A w \in Running : worker[w].key \notin ResultKeys
    /\ \A i \in DOMAIN items :
         i < cursor <=> items[i] \in ResultKeys \/ \E w \in Running : worker[w].key = items[i]
    /\ ResultKeys \subseteq ItemKeys /\ \A w \in Running : worker[w].key \in ItemKeys
    /\ \A w \in Worker \ Running : cursor > Len(items)

\* The report names an element once, and what it says of it is true.
HonestInv ==
  mounted /\ step = "execute" =>
    /\ \A i, j \in DOMAIN results : results[i].key = results[j].key => i = j
    /\ Reported("success") \subseteq wrote
    /\ Reported("skipped") \cap wrote = {}
    /\ wrote \subseteq Reported("success") \cup Reported("failed")

ReportInv == ItemsInv /\ PhaseInv /\ ShareInv /\ HonestInv /\ EveryItemOnce

\* The newest listing under way, and the one shown, are of an environment of
\* the name chosen.  In an open dialog the newest is of the page's application
\* too, and what is shown is, or that listing is still under way.
LoadInv ==
  /\ \A l \in loads : l.id <= loadSeq
  /\ mounted /\ sourceEnv # None =>
       /\ \A l \in loads : l.id = loadSeq => l.from \in App \X {sourceEnv}
       /\ ~loadingElements => loadedFrom \in App \X {sourceEnv}
  /\ isActive /\ sourceEnv # None =>
       /\ \A l \in loads : l.id = loadSeq => l.from = shownSource
       /\ ~loadingElements /\ loadedFrom # shownSource => \E l \in loads : l.id = loadSeq

\* The chosen elements are listed once each, and there is one.
LEMMA ListingOnce ==
  ASSUME NEW S \in SUBSET Key
  PROVE  /\ \A i, j \in DOMAIN Listing(S) : Listing(S)[i] = Listing(S)[j] => i = j
         /\ S # {} => Listing(S) # <<>>
  <1>1. IsFiniteSet(S)
    BY FS_Subset, BoundAssumption
  <1>2. Cardinality(S) \in Nat /\ ExistsBijection(1..Cardinality(S), S)
    BY <1>1, FS_CardinalityType
  <1>3. PICK f : f \in Bijection(1..Cardinality(S), S)
    BY <1>2 DEF ExistsBijection
  <1>4. f \in Listings(S)
    BY <1>3 DEF Listings, Bijection, Injection, IsInjective
  <1>5. Listing(S) \in Listings(S)
    BY <1>4 DEF Listing
  <1>6. S # {} => Cardinality(S) # 0
    BY <1>1, FS_EmptySet
  <1>7. QED
    BY <1>2, <1>5, <1>6 DEF Listings

\* Two lists that name the same elements, each once, are of the same length.
LEMMA SameLength ==
  ASSUME NEW s \in Seq(Key), NEW t \in Seq(Key),
         \A i, j \in DOMAIN s : s[i] = s[j] => i = j,
         \A i, j \in DOMAIN t : t[i] = t[j] => i = j,
         {s[i] : i \in DOMAIN s} = {t[i] : i \in DOMAIN t}
  PROVE  Len(s) = Len(t)
  <1> DEFINE K == {s[i] : i \in DOMAIN s}
  <1>1. ASSUME NEW u \in Seq(Key), \A i, j \in DOMAIN u : u[i] = u[j] => i = j,
               K = {u[i] : i \in DOMAIN u}
        PROVE  Cardinality(K) = Len(u)
    <2>1. Len(u) \in Nat /\ DOMAIN u = 1..Len(u)
      BY <1>1
    <2>2. u \in Bijection(1..Len(u), K)
      <3>1. u \in [1..Len(u) -> K]
        <4>1. u = [i \in 1..Len(u) |-> u[i]]
          BY <1>1, <2>1
        <4>2. \A i \in 1..Len(u) : u[i] \in K
          BY <1>1, <2>1
        <4>3. QED
          BY <4>1, <4>2
      <3>2. IsInjective(u)
        BY <1>1 DEF IsInjective
      <3>3. u \in Surjection(1..Len(u), K)
        BY <1>1, <2>1, <3>1 DEF Surjection
      <3>4. QED
        BY <3>1, <3>2, <3>3 DEF Bijection, Injection
    <2>3. IsFiniteSet(1..Len(u)) /\ Cardinality(1..Len(u)) = Len(u)
      <3>1. 1 \in Int /\ Len(u) \in Int
        BY <2>1
      <3>2. IsFiniteSet(1..Len(u)) /\ Cardinality(1..Len(u)) = IF 1 > Len(u) THEN 0 ELSE Len(u) - 1 + 1
        BY <3>1, FS_Interval
      <3>3. QED
        BY <2>1, <3>2
    <2>4. QED
      BY <2>2, <2>3, FS_Bijection DEF ExistsBijection
  <1>2. QED
    BY <1>1

LEMMA ReportInit == Init => ReportInv /\ LoadInv
  BY DEF Init, ReportInv, ItemsInv, PhaseInv, ShareInv, HonestInv, EveryItemOnce, LoadInv,
         createInitialProgress, isActive

\* Steps that leave the task and its report alone keep the invariant.
LEMMA SameReport ==
  ASSUME ReportInv, UNCHANGED <<taskVars, step>>, mounted' => mounted,
         mounted' /\ copying => open'
  PROVE  ReportInv'
  <1>1. UNCHANGED <<copying, progress, results, task, items, cursor, worker, wrote, step>>
    BY DEF taskVars
  <1>2. ItemsInv' /\ EveryItemOnce'
    BY <1>1, ZenonT(40) DEF ReportInv, ItemsInv, EveryItemOnce
  <1>3. PhaseInv'
    BY <1>1 DEF ReportInv, PhaseInv
  <1>4. HonestInv'
    BY <1>1 DEF ReportInv, HonestInv, Reported
  <1>5. ShareInv'
    <2>1. Running' = Running /\ ResultKeys' = ResultKeys /\ ItemKeys' = ItemKeys
      BY <1>1 DEF Running, ResultKeys, ItemKeys
    <2>2. QED
      BY <1>1, <2>1 DEF ReportInv, ShareInv
  <1>6. QED
    BY <1>2, <1>3, <1>4, <1>5 DEF ReportInv

LEMMA FormKeepsReport ==
  ASSUME Inv, ReportInv, FormStep
  PROVE  ReportInv'
  <1>1. UNCHANGED taskVars
    BY FormFrame
  <1>2. step' = step /\ (mounted' = mounted \/ mounted' = FALSE)
    <2>1. step' = step
      BY DEF FormStep, Open, handleClose, navigate, envsLoaded,
             switchEmptyStrategy, viewCopiedEnv, unmount, gone,
             handleSourceEnvChange, typeTargetEnv, toggle, requestElements, elementsLoaded,
             elementsFailed, formVars
    <2>2. mounted' = mounted \/ mounted' = FALSE
      BY DEF FormStep, Open, handleClose, navigate, envsLoaded,
             switchEmptyStrategy, viewCopiedEnv, unmount, gone,
             handleSourceEnvChange, typeTargetEnv, toggle, requestElements, elementsLoaded,
             elementsFailed, viewVars
    <2>3. QED
      BY <2>1, <2>2
  <1>3. open' = open \/ open' = TRUE \/ ~copying \/ ~mounted'
    BY DEF FormStep, Open, handleClose, navigate, envsLoaded,
             switchEmptyStrategy, viewCopiedEnv, unmount, gone,
           handleSourceEnvChange, typeTargetEnv, toggle, requestElements, elementsLoaded,
           elementsFailed, viewVars
  <1>4. QED
    BY <1>1, <1>2, <1>3, SameReport DEF ReportInv, PhaseInv

\* A task starts with an empty report; forgetting one and leaving the page
\* leave nothing to be honest about.
LEMMA StartKeepsReport ==
  ASSUME Inv, ReportInv, startCopy \/ reset \/ unload
  PROVE  ReportInv'
  <1>1. CASE startCopy
    <2>1. /\ mounted /\ open /\ items' = Listing(selectedElements)
          /\ progress' = [createInitialProgress EXCEPT !.createEnv = "doing"]
          /\ results' = <<>> /\ wrote' = {} /\ task' = "createEnv" /\ UNCHANGED viewVars
      BY <1>1 DEF startCopy, isActive
    <2>2. selectedElements \in SUBSET Key /\ selectedElements # {}
      BY <1>1 DEF startCopy, canStart, estimatedCopy, selectedElements, Inv, TypeOK
    <2>3. ItemsInv' /\ items' # <<>>
      BY <2>1, <2>2, ListingOnce DEF ItemsInv
    <2>4. PhaseInv' /\ ShareInv' /\ EveryItemOnce'
      BY <2>1, <2>3 DEF PhaseInv, ShareInv, EveryItemOnce, createInitialProgress, viewVars
    <2>5. HonestInv'
      BY <2>1 DEF HonestInv, Reported
    <2>6. QED
      BY <2>3, <2>4, <2>5 DEF ReportInv
  <1>2. CASE reset
    <2>1. Quiet
      BY <1>2 DEF reset, Inv, LockInv
    <2>2. /\ UNCHANGED <<mounted, open, task, items>> /\ copying' = FALSE /\ step' = "create"
          /\ progress' = createInitialProgress /\ results' = <<>>
      BY <1>2 DEF reset
    <2>3. QED
      BY <2>1, <2>2 DEF ReportInv, ItemsInv, PhaseInv, ShareInv, HonestInv, EveryItemOnce, Quiet,
                        createInitialProgress
  <1>3. CASE unload
    <2>1. UNCHANGED <<items, progress, results>> /\ mounted' = FALSE /\ task' = "idle"
      BY <1>3 DEF unload, gone
    <2>2. ItemsInv' /\ EveryItemOnce'
      BY <2>1, ZenonT(40) DEF ReportInv, ItemsInv, EveryItemOnce
    <2>3. PhaseInv' /\ ShareInv' /\ HonestInv'
      BY <2>1 DEF PhaseInv, ShareInv, HonestInv
    <2>4. QED
      BY <2>2, <2>3 DEF ReportInv
  <1>4. QED
    BY <1>1, <1>2, <1>3

\* While a task is under way on a page that is there, the dialog shows it.
LEMMA Shown ==
  ASSUME Inv, ReportInv, mounted, task # "idle"
  PROVE  isActive /\ copying /\ step = "execute" /\ ~exiting
  <1>1. copying
    BY DEF Inv, LockInv, Quiet
  <1>2. QED
    BY <1>1 DEF Inv, TypeOK, LockInv, ReportInv, PhaseInv, isActive

\* All items are claimed and no worker holds one: the report names them all.
LEMMA AllReported ==
  ASSUME Inv, ReportInv, mounted, task = "workers", \A w \in Worker : worker[w].pc = "off"
  PROVE  ResultKeys = ItemKeys /\ Len(results) = Len(items)
  <1>1. Running = {} /\ 1 \in Worker
    BY BoundAssumption DEF Running, Worker
  <1>2. cursor > Len(items) /\ cursor \in Nat /\ items \in Seq(Key)
    BY <1>1 DEF ReportInv, ShareInv, Inv, TypeOK
  <1>3. \A i \in DOMAIN items : i < cursor
    BY <1>2
  <1>4. ResultKeys = ItemKeys
    BY <1>1, <1>3 DEF ReportInv, ShareInv, ItemKeys
  <1> DEFINE t == [i \in 1..Len(results) |-> results[i].key]
  <1>5. results \in Seq([key : Key, status : Status])
    BY DEF Inv, TypeOK
  <1>6. Len(results) \in Nat /\ \A i \in 1..Len(results) : results[i].key \in Key
    <2> DEFINE R == [key : Key, status : Status]
    <2>1. results \in Seq(R) /\ \A x \in R : x.key \in Key
      BY <1>5
    <2> HIDE DEF R
    <2>2. QED
      BY <2>1
  <1>7. t \in Seq(Key) /\ Len(t) = Len(results) /\ DOMAIN t = DOMAIN results
    BY <1>5, <1>6
  <1>8. \A i, j \in DOMAIN t : t[i] = t[j] => i = j
    BY <1>5, <1>7, Shown DEF ReportInv, HonestInv
  <1>9. {t[i] : i \in DOMAIN t} = ResultKeys
    BY <1>5, <1>7 DEF ResultKeys
  <1>10. Len(t) = Len(items)
    <2> HIDE DEF t
    <2>1. {t[i] : i \in DOMAIN t} = {items[i] : i \in DOMAIN items}
      BY <1>4, <1>9 DEF ItemKeys
    <2>2. \A i, j \in DOMAIN items : items[i] = items[j] => i = j
      BY DEF ReportInv, ItemsInv
    <2>3. QED
      BY <1>2, <1>7, <1>8, <2>1, <2>2, SameLength
  <1>11. QED
    BY <1>4, <1>7, <1>10

LEMMA PhaseKeepsReport ==
  ASSUME Inv, ReportInv, envCreated \/ envRefused \/ workersDone \/ onFinished
  PROVE  ReportInv'
  <1>0. UNCHANGED <<mounted, open, step, items, results, wrote>>
    BY DEF envCreated, envRefused, workersDone, onFinished, formVars, viewVars
  <1>1. ItemsInv' /\ HonestInv'
    BY <1>0 DEF ReportInv, ItemsInv, HonestInv, Reported
  <1>2. CASE envCreated
    <2>1. /\ task = "createEnv" /\ copying' = copying /\ results = <<>>
          /\ progress = [createInitialProgress EXCEPT !.createEnv = "doing"]
      BY <1>2 DEF envCreated, ReportInv, PhaseInv
    <2>2. CASE ~isActive
      <3>1. task' = "idle" /\ progress' = progress
        BY <1>2, <2>2 DEF envCreated
      <3>2. QED
        BY <1>0, <1>1, <2>1, <3>1 DEF ReportInv, PhaseInv, ShareInv, EveryItemOnce
    <2>3. CASE isActive
      <3>1. /\ task' = "workers" /\ runWorkers
            /\ progress' = [progress EXCEPT !.createEnv = "done", !.copyElements = "doing"]
        BY <1>2, <2>3 DEF envCreated
      <3>2. progress' = [createEnv |-> "done", copyElements |-> "doing", complete |-> "pending"]
        BY <2>1, <3>1 DEF createInitialProgress
      <3>3. PhaseInv' /\ EveryItemOnce'
        <4>1. (mounted /\ copying => open)'
          BY <1>0, <2>1 DEF ReportInv, PhaseInv
        <4>2. progress'.complete = "pending"
          BY <3>2
        <4>3. QED
          BY <3>1, <3>2, <4>1, <4>2 DEF PhaseInv, EveryItemOnce
      <3>4. ShareInv'
        <4>1. items \in Seq(Key) /\ workerCount \in Nat \ {0} /\ items' = items
          BY <1>0, BoundAssumption DEF Inv, TypeOK
        <4>2. ResultKeys' = {}
          BY <1>0, <2>1 DEF ResultKeys
        <4>3. \A w \in Worker : worker'[w] = IF w <= Len(items) THEN Getting(items[w]) ELSE Off
          BY <3>1 DEF runWorkers
        <4>4. \A w \in Worker : (w \in Running' <=> w <= Len(items))
                                /\ (w <= Len(items) => worker'[w].key = items[w])
          <5>1. \A w \in Worker : w \in Running' <=> worker'[w].pc # "off"
            BY DEF Running
          <5>2. \A k : Getting(k).pc = "get" /\ Getting(k).key = k /\ Off.pc = "off"
            BY DEF Getting, Off
          <5>3. QED
            BY <4>3, <5>1, <5>2
        <4>5. \A w \in Running' : w \in DOMAIN items /\ worker'[w].key = items[w]
          BY <4>1, <4>4 DEF Running, Worker
        <4>6. \A v, w \in Running' : worker'[v].key = worker'[w].key => v = w
          BY <4>5 DEF ReportInv, ItemsInv
        <4>7. /\ \A i \in DOMAIN items : i < cursor' <=> i \in Running'
              /\ \A w \in Worker \ Running' : cursor' > Len(items)
          <5>1. cursor' = 1 + IF Len(items) < workerCount THEN Len(items) ELSE workerCount
            BY <3>1 DEF runWorkers
          <5>2. \A w \in Running' : w \in Worker
            BY DEF Running, Worker
          <5>3. Worker = 1..workerCount /\ DOMAIN items = 1..Len(items) /\ Len(items) \in Nat
            BY <4>1 DEF Worker
          <5>4. QED
            BY <4>1, <4>4, <5>1, <5>2, <5>3
        <4>8. \A i \in DOMAIN items : i \in Running' <=> \E w \in Running' : worker'[w].key = items[i]
          BY <4>5 DEF ReportInv, ItemsInv
        <4>9. QED
          BY <4>1, <4>2, <4>5, <4>6, <4>7, <4>8 DEF ShareInv, ItemKeys
      <3>5. QED
        BY <1>1, <3>3, <3>4 DEF ReportInv
    <2>4. QED
      BY <2>2, <2>3
  <1>3. CASE envRefused
    <2>1. /\ task = "createEnv" /\ task' = "idle" /\ (copying' => copying)
          /\ progress = [createInitialProgress EXCEPT !.createEnv = "doing"]
          /\ progress' \in {progress, [createInitialProgress EXCEPT !.createEnv = "failed"]}
      BY <1>3 DEF envRefused, ReportInv, PhaseInv
    <2>2. progress'.complete = "pending"
      BY <2>1 DEF createInitialProgress
    <2>3. QED
      BY <1>0, <1>1, <2>1, <2>2 DEF ReportInv, PhaseInv, ShareInv, EveryItemOnce
  <1>4. CASE workersDone
    <2>1. task = "workers" /\ copying' = copying /\ \A w \in Worker : worker[w].pc = "off"
      BY <1>4 DEF workersDone
    <2>2. CASE ~isActive
      BY <1>0, <1>1, <1>4, <2>1, <2>2 DEF workersDone, ReportInv, PhaseInv, ShareInv, EveryItemOnce
    <2>3. CASE isActive
      <3>1. ResultKeys = ItemKeys /\ Len(results) = Len(items)
        BY <2>1, <2>3, AllReported DEF isActive
      <3>2. task' = "refresh" /\ progress'.createEnv = "done" /\ progress'.complete = "done"
        <4>1. /\ progress' = [progress EXCEPT !.copyElements = "done", !.complete = "done"]
              /\ task' = "refresh"
          BY <1>4, <2>3 DEF workersDone
        <4>2. progress = [createEnv |-> "done", copyElements |-> "doing", complete |-> "pending"]
          BY <2>1 DEF ReportInv, PhaseInv
        <4>3. QED
          BY <4>1, <4>2
      <3>3. EveryItemOnce'
        BY <1>0, <3>1 DEF EveryItemOnce, ResultKeys, ItemKeys
      <3>4. PhaseInv' /\ ShareInv'
        BY <1>0, <2>1, <3>2 DEF ReportInv, PhaseInv, ShareInv
      <3>5. QED
        BY <1>1, <3>3, <3>4 DEF ReportInv
    <2>4. QED
      BY <2>2, <2>3
  <1>5. CASE onFinished
    <2>1. task' = "idle" /\ progress' = progress /\ (copying' = copying \/ copying' = FALSE)
      BY <1>5 DEF onFinished
    <2>2. (mounted /\ copying => open)'
      BY <1>0, <2>1 DEF ReportInv, PhaseInv
    <2>3. PhaseInv' /\ ShareInv'
      BY <2>1, <2>2 DEF PhaseInv, ShareInv
    <2>4. EveryItemOnce'
      BY <1>0, <2>1 DEF ReportInv, EveryItemOnce
    <2>5. QED
      BY <1>1, <2>3, <2>4 DEF ReportInv
  <1>6. QED
    BY <1>2, <1>3, <1>4, <1>5

\* What a worker adds to the report.
LEMMA SettleReports ==
  ASSUME Inv, ReportInv, NEW w \in Worker, worker[w].pc # "off", NEW st \in Status, settle(w, st),
         isActive
  PROVE  /\ DOMAIN results' = 1..(Len(results) + 1) /\ Len(results) \in Nat
         /\ DOMAIN results = 1..Len(results)
         /\ \A i \in DOMAIN results : results'[i] = results[i]
         /\ results'[Len(results) + 1] = [key |-> worker[w].key, status |-> st]
         /\ ResultKeys' = ResultKeys \cup {worker[w].key}
         /\ \A s \in Status : Reported(s)' = Reported(s) \cup (IF s = st THEN {worker[w].key} ELSE {})
  <1>1. results' = Append(results, [key |-> worker[w].key, status |-> st])
    BY DEF settle
  <1>2. results \in Seq([key : Key, status : Status]) /\ worker[w].key \in Key
    BY DEF Inv, TypeOK, TaskInv
  <1>3. /\ DOMAIN results' = 1..(Len(results) + 1) /\ Len(results) \in Nat
        /\ DOMAIN results = 1..Len(results)
        /\ \A i \in DOMAIN results : results'[i] = results[i]
        /\ results'[Len(results) + 1] = [key |-> worker[w].key, status |-> st]
    <2> DEFINE r == [key |-> worker[w].key, status |-> st]
    <2>1. r \in [key : Key, status : Status]
      BY <1>2
    <2> HIDE DEF r
    <2>2. QED
      BY <1>1, <1>2, <2>1 DEF r
  <1>4. ResultKeys' = ResultKeys \cup {worker[w].key}
    BY <1>3 DEF ResultKeys
  <1>5. \A s \in Status : Reported(s)' = Reported(s) \cup (IF s = st THEN {worker[w].key} ELSE {})
    BY <1>3 DEF Reported
  <1>6. QED
    BY <1>3, <1>4, <1>5

\* A worker that reports its item and claims the next keeps the shares apart.
LEMMA SettleKeepsShares ==
  ASSUME Inv, ReportInv, NEW w \in Worker, worker[w].pc # "off", NEW st \in Status, settle(w, st),
         isActive, items' = items, task = "workers"
  PROVE  ShareInv'
  <1>1. /\ worker[w].key \in ItemKeys /\ worker[w].key \notin ResultKeys /\ w \in Running
        /\ items \in Seq(Key) /\ cursor \in Nat \ {0} /\ worker \in [Worker -> WorkerState]
    BY DEF isActive, ReportInv, ShareInv, Running, Inv, TypeOK
  <1>2. /\ cursor' = cursor + 1
        /\ \A v \in Worker \ {w} : worker'[v] = worker[v]
        /\ worker'[w] = IF cursor <= Len(items) THEN Getting(items[cursor]) ELSE Off
    BY <1>1 DEF settle
  <1>3. ResultKeys' = ResultKeys \cup {worker[w].key} /\ ItemKeys' = ItemKeys
    <2>1. ResultKeys' = ResultKeys \cup {worker[w].key}
      BY SettleReports
    <2>2. QED
      BY <2>1 DEF ItemKeys
  <1>4. /\ \A u, v \in Running : worker[u].key = worker[v].key => u = v
        /\ \A v \in Running : worker[v].key \notin ResultKeys /\ worker[v].key \in ItemKeys
        /\ \A i \in DOMAIN items :
             i < cursor <=> items[i] \in ResultKeys \/ \E v \in Running : worker[v].key = items[i]
        /\ ResultKeys \subseteq ItemKeys
        /\ \A v \in Worker \ Running : cursor > Len(items)
    BY DEF isActive, ReportInv, ShareInv
  <1>5. CASE cursor <= Len(items)
    <2>1. cursor \in DOMAIN items /\ worker'[w].key = items[cursor] /\ worker'[w].pc # "off"
      BY <1>1, <1>2, <1>5 DEF Getting
    <2>2. Running' = Running
      BY <1>1, <1>2, <2>1 DEF Running
    <2>3. /\ items[cursor] \notin ResultKeys /\ \A v \in Running : worker[v].key # items[cursor]
          /\ items[cursor] \in ItemKeys
      BY <1>1, <1>4, <2>1 DEF ItemKeys
    <2>4. \A u, v \in Running' : worker'[u].key = worker'[v].key => u = v
      BY <1>2, <1>4, <2>1, <2>2, <2>3 DEF Running
    <2>5. \A v \in Running' : worker'[v].key \notin ResultKeys' /\ worker'[v].key \in ItemKeys'
      BY <1>1, <1>2, <1>3, <1>4, <2>1, <2>2, <2>3 DEF Running
    <2>6. \A i \in DOMAIN items :
             i < cursor' <=> items[i] \in ResultKeys' \/ \E v \in Running' : worker'[v].key = items[i]
      <3> SUFFICES ASSUME NEW i \in DOMAIN items
                   PROVE  i < cursor' <=> items[i] \in ResultKeys'
                                           \/ \E v \in Running' : worker'[v].key = items[i]
        OBVIOUS
      <3>1. i < cursor' <=> i < cursor \/ i = cursor
        BY <1>1, <1>2
      <3>2. items[i] = items[cursor] <=> i = cursor
        BY <2>1 DEF ReportInv, ItemsInv
      <3>3. CASE i = cursor
        BY <1>1, <2>1, <2>2, <3>1, <3>3
      <3>4. CASE i # cursor
        BY <1>1, <1>2, <1>3, <1>4, <2>1, <2>2, <3>1, <3>2, <3>4 DEF Running
      <3>5. QED
        BY <3>3, <3>4
    <2>7. QED
      BY <1>1, <1>2, <1>3, <1>4, <2>2, <2>4, <2>5, <2>6 DEF ShareInv
  <1>6. CASE ~(cursor <= Len(items))
    <2>1. Running' = Running \ {w}
      BY <1>1, <1>2, <1>6 DEF Running, Off
    <2>2. \A i \in DOMAIN items : i < cursor /\ i < cursor'
      BY <1>1, <1>2, <1>6
    <2>3. \A u \in Running' : worker'[u] = worker[u] /\ u # w /\ u \in Running
      BY <1>2, <2>1 DEF Running
    <2>4. \A i \in DOMAIN items : items[i] \in ResultKeys' \/ \E v \in Running' : worker'[v].key = items[i]
      BY <1>3, <1>4, <2>1, <2>2, <2>3
    <2>5. \A v \in Running' : worker'[v].key \notin ResultKeys' /\ worker'[v].key \in ItemKeys'
      BY <1>1, <1>3, <1>4, <2>3
    <2>6. cursor' > Len(items)
      BY <1>1, <1>2, <1>6
    <2>7. QED
      BY <1>1, <1>3, <1>4, <2>2, <2>3, <2>4, <2>5, <2>6 DEF ShareInv
  <1>7. QED
    BY <1>5, <1>6

\* The report stays true of what was written.
LEMMA SettleKeepsHonest ==
  ASSUME Inv, ReportInv, NEW w \in Worker, worker[w].pc # "off", NEW st \in Status, settle(w, st),
         isActive, task = "workers", step' = step,
         \/ wrote' = wrote /\ st # "success"
         \/ wrote' = wrote \cup {worker[w].key} /\ st # "skipped"
  PROVE  HonestInv'
  <1> DEFINE k == worker[w].key
  <1>1. step = "execute" /\ mounted
    BY Shown DEF isActive
  <1>2. /\ \A i, j \in DOMAIN results : results[i].key = results[j].key => i = j
        /\ Reported("success") \subseteq wrote
        /\ Reported("skipped") \cap wrote = {}
        /\ wrote \subseteq Reported("success") \cup Reported("failed")
    BY <1>1 DEF ReportInv, HonestInv
  <1>3. k \notin ResultKeys
    BY <1>1 DEF ReportInv, ShareInv, Running
  <1>4. /\ DOMAIN results' = 1..(Len(results) + 1) /\ Len(results) \in Nat
        /\ DOMAIN results = 1..Len(results)
        /\ \A i \in DOMAIN results : results'[i] = results[i]
        /\ results'[Len(results) + 1] = [key |-> k, status |-> st]
    BY SettleReports
  <1>5. \A s \in Status : Reported(s)' = Reported(s) \cup (IF s = st THEN {k} ELSE {})
    BY SettleReports, ZenonT(40)
  <1>6. \A s : Reported(s) \subseteq ResultKeys
    BY DEF Reported, ResultKeys
  <1>7. \A i, j \in DOMAIN results' : results'[i].key = results'[j].key => i = j
    <2>1. \A i \in DOMAIN results : results'[i].key # k
      BY <1>3, <1>4 DEF ResultKeys
    <2>2. \A i \in DOMAIN results' : i \in DOMAIN results \/ i = Len(results) + 1
      BY <1>4
    <2>3. results'[Len(results) + 1].key = k
      BY <1>4
    <2>4. QED
      BY <1>2, <1>4, <2>1, <2>2, <2>3
  <1>8. k \notin wrote
    BY <1>2, <1>3, <1>6
  <1> HIDE DEF k
  <1>9. /\ Reported("success")' = Reported("success") \cup (IF "success" = st THEN {k} ELSE {})
        /\ Reported("skipped")' = Reported("skipped") \cup (IF "skipped" = st THEN {k} ELSE {})
        /\ Reported("failed")' = Reported("failed") \cup (IF "failed" = st THEN {k} ELSE {})
    BY <1>5 DEF Status
  <1>10. st \in {"success", "skipped", "failed"}
    BY DEF Status
  <1>11. (wrote' = wrote /\ st # "success") \/ (wrote' = wrote \cup {k} /\ st # "skipped")
    BY DEF k
  <1>12. k \notin Reported("skipped")
    BY <1>3, <1>6
  <1>13. /\ Reported("success")' \subseteq wrote'
         /\ Reported("skipped")' \cap wrote' = {}
         /\ wrote' \subseteq Reported("success")' \cup Reported("failed")'
    BY <1>2, <1>8, <1>9, <1>10, <1>11, <1>12
  <1>14. QED
    BY <1>7, <1>13 DEF HonestInv

LEMMA WorkerKeepsReport ==
  ASSUME Inv, ReportInv, NEW w \in Worker, requestElement(w) \/ createElement(w)
  PROVE  ReportInv'
  <1>1. worker[w].pc # "off" /\ task = "workers" /\ worker[w].key \in Key
    BY DEF Inv, TaskInv, requestElement, createElement
  <1>2. UNCHANGED <<step, mounted, open, copying, progress, task, items>>
    BY DEF requestElement, createElement, formVars, viewVars
  <1>3. ItemsInv' /\ PhaseInv'
    <2>1. (mounted /\ copying => open)'
      BY <1>2 DEF ReportInv, PhaseInv
    <2>2. ItemsInv'
      BY <1>2 DEF ReportInv, ItemsInv
    <2>3. QED
      BY <1>1, <1>2, <2>1, <2>2 DEF ReportInv, PhaseInv
  <1>4. progress'.complete = "pending"
    BY <1>1, <1>2 DEF ReportInv, PhaseInv
  <1>5. EveryItemOnce'
    BY <1>4 DEF EveryItemOnce
  <1>6. CASE ~mounted
    BY <1>2, <1>3, <1>5, <1>6 DEF ReportInv, ShareInv, HonestInv
  <1>7. CASE mounted
    <2>1. isActive /\ step = "execute"
      BY <1>1, <1>7, Shown
    <2>2. CASE \E st \in Status : /\ settle(w, st)
                                 /\ \/ wrote' = wrote /\ st # "success"
                                    \/ wrote' = wrote \cup {worker[w].key} /\ st # "skipped"
      <3>1. PICK st \in Status : /\ settle(w, st)
                                 /\ \/ wrote' = wrote /\ st # "success"
                                    \/ wrote' = wrote \cup {worker[w].key} /\ st # "skipped"
        BY <2>2
      <3>2. ShareInv'
        BY <1>1, <1>2, <2>1, <3>1, SettleKeepsShares
      <3>3. HonestInv'
        BY <1>1, <1>2, <2>1, <3>1, SettleKeepsHonest
      <3>4. QED
        BY <1>3, <1>5, <3>2, <3>3 DEF ReportInv
    <2>3. CASE /\ UNCHANGED <<results, cursor, wrote>>
               /\ \E r : worker' = [worker EXCEPT ![w] = Posting(@.key, r)]
      <3>1. PICK r : worker' = [worker EXCEPT ![w] = Posting(worker[w].key, r)]
        BY <2>3
      <3>2. worker \in [Worker -> WorkerState]
        BY DEF Inv, TypeOK
      <3>3. /\ \A v \in Worker \ {w} : worker'[v] = worker[v]
            /\ worker'[w].pc = "post" /\ worker'[w].key = worker[w].key
        BY <3>1, <3>2 DEF Posting
      <3>4. \A v \in Worker : worker'[v].key = worker[v].key /\ (worker'[v].pc # "off" <=> worker[v].pc # "off")
        BY <1>1, <3>3
      <3>5. Running' = Running /\ ResultKeys' = ResultKeys /\ ItemKeys' = ItemKeys
        BY <1>2, <2>3, <3>4 DEF Running, ResultKeys, ItemKeys
      <3>6. \A v \in Running : worker'[v].key = worker[v].key
        BY <3>4 DEF Running
      <3>7. ShareInv'
        BY <1>2, <2>3, <3>5, <3>6 DEF ReportInv, ShareInv
      <3>8. HonestInv'
        BY <1>2, <2>3 DEF ReportInv, HonestInv, Reported
      <3>9. QED
        BY <1>3, <1>5, <3>7, <3>8 DEF ReportInv
    <2>4. CASE requestElement(w)
      BY <2>2, <2>3, <2>4 DEF requestElement, Status
    <2>5. CASE createElement(w)
      BY <2>2, <2>5 DEF createElement, Status
    <2>6. QED
      BY <2>4, <2>5
  <1>8. QED
    BY <1>6, <1>7

LEMMA ReportStep == Inv /\ ReportInv /\ [Next]_vars => ReportInv'
  <1> SUFFICES ASSUME Inv, ReportInv, [Next]_vars PROVE ReportInv'
    OBVIOUS
  <1>1. CASE FormStep
    BY <1>1, FormKeepsReport
  <1>2. CASE \E w \in Worker : requestElement(w) \/ createElement(w)
    BY <1>2, WorkerKeepsReport
  <1>3. CASE envCreated \/ envRefused \/ workersDone \/ onFinished
    BY <1>3, PhaseKeepsReport
  <1>4. CASE startCopy \/ reset \/ unload
    BY <1>4, StartKeepsReport
  <1>5. CASE OtherChange \/ UNCHANGED vars
    <2>1. UNCHANGED <<taskVars, step, mounted, open>>
      BY <1>5 DEF OtherChange, vars, formVars, viewVars
    <2>2. copying' = copying
      BY <2>1 DEF taskVars
    <2>3. QED
      BY <2>1, <2>2, SameReport DEF ReportInv, PhaseInv
  <1>6. QED
    BY <1>1, <1>2, <1>3, <1>4, <1>5 DEF Next, Administrator, Browser, FormStep

LEMMA AlwaysReport == Spec => []ReportInv
  BY ReportInit, ReportStep, InvInit, InvStep, PTL DEF Spec

\* A listing that starts is the newest.
LEMMA StartsLoad ==
  ASSUME Inv, LoadInv, NEW p, startLoad(p)
  PROVE  /\ \A l \in loads' : l.id <= loadSeq' /\ (l.id = loadSeq' => l.from = p)
         /\ \E l \in loads' : l.id = loadSeq'
  <1>1. loadSeq \in Nat /\ \A l \in loads : l.id \in Nat /\ l.id <= loadSeq
    BY DEF Inv, TypeOK, Load, LoadInv
  <1> DEFINE n == [id |-> loadSeq + 1, from |-> p, rest |-> Key, got |-> NoElements]
  <1>2. n.id = loadSeq + 1 /\ n.from = p
    OBVIOUS
  <1>3. loadSeq' = loadSeq + 1 /\ loads' = loads \cup {n}
    BY DEF startLoad
  <1> HIDE DEF n
  <1>4. QED
    BY <1>1, <1>2, <1>3

\* The dialog's own steps keep the listing and the source chosen together.
LEMMA FormKeepsLoad ==
  ASSUME Inv, LoadInv, FormStep
  PROVE  LoadInv'
  <1>0. loadSeq \in Nat /\ loads \in SUBSET Load /\ (\A l \in loads : l.id \in Nat) /\ appId \in App
    BY DEF Inv, TypeOK, Load
  <1>1. ASSUME NEW a \in App, NEW e, startLoad(<<a, e>>), appId' = a, sourceEnv' = e,
               loadingElements' = TRUE \/ (loadingElements' = loadingElements /\ sourceEnv = e),
               UNCHANGED <<loadedFrom, mounted>>
        PROVE  LoadInv'
    <2>1. /\ \A l \in loads' : l.id <= loadSeq' /\ (l.id = loadSeq' => l.from = <<a, e>>)
          /\ \E l \in loads' : l.id = loadSeq'
      BY <1>1, StartsLoad
    <2>2. shownSource' = <<a, e>> /\ <<a, e>> \in App \X {sourceEnv'}
      BY <1>1 DEF shownSource
    <2>3. mounted' /\ sourceEnv' # None /\ ~loadingElements' => loadedFrom' \in App \X {sourceEnv'}
      BY <1>1 DEF LoadInv
    <2>4. QED
      BY <2>1, <2>2, <2>3 DEF LoadInv
  <1>2. CASE /\ UNCHANGED <<loads, loadSeq, sourceEnv, loadingElements, loadedFrom>>
             /\ mounted' = mounted \/ mounted' = FALSE
             /\ isActive' => isActive /\ appId' = appId
    <2>1. isActive' => isActive /\ shownSource' = shownSource
      BY <1>2 DEF shownSource
    <2>2. QED
      BY <1>2, <2>1 DEF LoadInv
  <1>3. CASE mounted' = FALSE /\ loads' = {}
    BY <1>3 DEF LoadInv, isActive
  <1>4. ASSUME NEW l \in loads, requestElements(l)
        PROVE  LoadInv'
    <2>1. PICK q : loads' = (loads \ {l}) \cup {q} /\ q.id = l.id /\ q.from = l.from
      <3>1. PICK p \in SUBSET l.rest :
              loads' = (loads \ {l}) \cup
                {[l EXCEPT !.rest = l.rest \ p,
                           !.got = [k \in Key |-> IF k \in p THEN content[l.from][k] ELSE l.got[k]]]}
        BY <1>4 DEF requestElements
      <3>2. l \in Load
        BY <1>0
      <3> DEFINE q == [l EXCEPT !.rest = l.rest \ p,
                                !.got = [k \in Key |-> IF k \in p THEN content[l.from][k] ELSE l.got[k]]]
      <3>3. q.id = l.id /\ q.from = l.from
        BY <3>2 DEF Load
      <3>4. QED
        BY <3>1, <3>3
    <2>2. /\ UNCHANGED <<loadSeq, sourceEnv, loadingElements, loadedFrom, mounted>>
          /\ isActive' = isActive /\ shownSource' = shownSource
      BY <1>4 DEF requestElements, formVars, viewVars, isActive, shownSource
    <2>3. \A x \in loads' : \E y \in loads : x.id = y.id /\ x.from = y.from
      BY <2>1
    <2>4. \A y \in loads : \E x \in loads' : x.id = y.id
      BY <2>1
    <2>5. QED
      BY <2>2, <2>3, <2>4 DEF LoadInv
  <1>5. ASSUME NEW l \in loads, elementsLoaded(l) \/ elementsFailed(l)
        PROVE  LoadInv'
    <2>1. /\ loads' = loads \ {l} /\ UNCHANGED <<loadSeq, sourceEnv, mounted>>
          /\ isActive' = isActive /\ shownSource' = shownSource
      BY <1>5 DEF elementsLoaded, elementsFailed, viewVars, isActive, shownSource
    <2>2. CASE isLatest(l)
      <3>1. loadedFrom' = l.from /\ l.id = loadSeq /\ isActive
        BY <1>5, <2>2 DEF elementsLoaded, elementsFailed, isLatest
      <3>2. sourceEnv # None => l.from = shownSource /\ l.from \in App \X {sourceEnv}
        BY <3>1 DEF LoadInv, isActive
      <3>3. QED
        BY <2>1, <3>1, <3>2 DEF LoadInv
    <2>3. CASE ~isLatest(l)
      <3>1. UNCHANGED <<loadingElements, loadedFrom>> /\ (isActive => l.id # loadSeq)
        BY <1>5, <2>3 DEF elementsLoaded, elementsFailed, isLatest
      <3>2. QED
        BY <2>1, <3>1 DEF LoadInv
    <2>4. QED
      BY <2>2, <2>3
  <1>6. CASE Open
    <2>1. CASE sourceEnv # None
      BY <1>0, <1>1, <1>6, <2>1 DEF Open, formVars, shownSource
    <2>2. CASE sourceEnv = None
      BY <1>6, <2>2 DEF Open, formVars, LoadInv
    <2>3. QED
      BY <2>1, <2>2
  <1>7. CASE handleClose \/ switchEmptyStrategy \/ envsLoaded
    BY <1>2, <1>7 DEF handleClose, switchEmptyStrategy, envsLoaded, formVars, viewVars, loadVars, isActive
  <1>8. CASE viewCopiedEnv \/ unmount
    BY <1>3, <1>8 DEF viewCopiedEnv, unmount, gone
  <1>9. ASSUME NEW e \in rows, handleSourceEnvChange(e)
        PROVE  LoadInv'
    BY <1>0, <1>1, <1>9 DEF handleSourceEnvChange, viewVars
  <1>10. ASSUME \/ \E e \in Env : typeTargetEnv(e)
                \/ \E S \in SUBSET Key : toggle(S)
         PROVE  LoadInv'
    BY <1>2, <1>10 DEF typeTargetEnv, toggle, viewVars, loadVars, isActive
  <1>11. ASSUME NEW a \in App, navigate(a)
         PROVE  LoadInv'
    <2>1. CASE open /\ sourceEnv # None
      BY <1>1, <1>11, <2>1 DEF navigate, formVars
    <2>2. CASE ~(open /\ sourceEnv # None)
      <3>1. UNCHANGED <<loads, loadSeq, sourceEnv, loadingElements, loadedFrom, mounted, open>>
        BY <1>11, <2>2 DEF navigate, formVars
      <3>2. QED
        BY <2>2, <3>1 DEF LoadInv, isActive
    <2>3. QED
      BY <2>1, <2>2
  <1>12. QED
    BY <1>4, <1>5, <1>6, <1>7, <1>8, <1>9, <1>10, <1>11 DEF FormStep

LEMMA LoadStep == Inv /\ LoadInv /\ [Next]_vars => LoadInv'
  <1> SUFFICES ASSUME Inv, LoadInv, [Next]_vars PROVE LoadInv'
    OBVIOUS
  <1>1. CASE FormStep
    BY <1>1, FormKeepsLoad
  <1>2. CASE UNCHANGED <<loadVars, sourceEnv, mounted, open, appId>>
    BY <1>2 DEF LoadInv, loadVars, isActive, shownSource
  <1>3. CASE \/ \E w \in Worker : requestElement(w) \/ createElement(w)
             \/ envCreated \/ envRefused \/ workersDone \/ onFinished
             \/ startCopy \/ OtherChange \/ UNCHANGED vars
    <2>1. UNCHANGED <<loadVars, sourceEnv, mounted, open, appId>>
      BY <1>3 DEF requestElement, createElement, envCreated, envRefused, workersDone, onFinished,
                  startCopy, OtherChange, vars, formVars, viewVars
    <2>2. QED
      BY <1>2, <2>1
  <1>4. CASE reset
    BY <1>4 DEF reset, LoadInv
  <1>5. CASE unload
    BY <1>5 DEF unload, gone, LoadInv, isActive
  <1>6. QED
    BY <1>1, <1>3, <1>4, <1>5 DEF Next, Administrator, Browser, FormStep

LEMMA AlwaysLoad == Spec => []LoadInv
  BY ReportInit, LoadStep, InvInit, InvStep, PTL DEF Spec
-----------------------------------------------------------------------------
(* The dialog implements the abstract task *)

\* Without a task on the page there is nothing to report.
LEMMA NoTask == Phase = "none" => Outcome = Task!Nothing
  BY DEF Outcome, Task!Nothing

\* What the abstract task sees.
LEMMA SameTask ==
  ASSUME UNCHANGED <<mounted, step, progress, items, results>>
  PROVE  UNCHANGED <<Phase, Outcome>>
  <1>1. Phase' = Phase
    BY DEF Phase
  <1>2. \A s : Reported(s)' = Reported(s)
    BY DEF Reported
  <1>3. Outcome' = Outcome
    BY <1>1, <1>2 DEF Outcome
  <1>4. QED
    BY <1>1, <1>3

\* The page or the report is left.
LEMMA LeavesTask ==
  ASSUME ~mounted' \/ step' = "create"
  PROVE  Task!Forget \/ UNCHANGED <<Phase, Outcome>>
  <1>1. Phase' = "none"
    BY DEF Phase
  <1>2. Outcome' = Task!Nothing
    BY <1>1 DEF Outcome, Task!Nothing
  <1>3. CASE Phase = "none"
    BY <1>1, <1>2, <1>3, NoTask
  <1>4. CASE Phase # "none"
    BY <1>1, <1>2, <1>4 DEF Task!Forget
  <1>5. QED
    BY <1>3, <1>4

LEMMA StartsTask ==
  ASSUME Inv, startCopy
  PROVE  \E S \in SUBSET Key : Task!Begin(S)
  <1>1. /\ mounted /\ step = "create" /\ step' = "execute" /\ mounted' = mounted
        /\ items' = Listing(selectedElements) /\ results' = <<>>
        /\ progress' = [createInitialProgress EXCEPT !.createEnv = "doing"]
    BY DEF startCopy, isActive, canStart, viewVars
  <1>2. selectedElements \in SUBSET Key /\ selectedElements # {}
    BY DEF startCopy, canStart, estimatedCopy, selectedElements, Inv, TypeOK
  <1>3. items' \in Seq(Key) /\ items' # <<>>
    BY <1>1, <1>2, ListingType, ListingOnce
  <1> DEFINE S == {items'[i] : i \in DOMAIN items'}
  <1>4. S \in SUBSET Key /\ S # {}
    <2>1. S \in SUBSET Key
      BY <1>3
    <2>2. Len(items') \in Nat /\ Len(items') # 0 /\ DOMAIN items' = 1..Len(items')
      BY <1>3
    <2>3. 1 \in DOMAIN items'
      BY <2>2
    <2>4. items'[1] \in S
      BY <2>3
    <2>5. QED
      BY <2>1, <2>4
  <1>5. Phase = "none" /\ Phase' = "creating"
    BY <1>1 DEF Phase, createInitialProgress
  <1>6. \A s : Reported(s)' = {}
    BY <1>1 DEF Reported
  <1>7. Outcome' = [k \in Key |-> IF k \in S THEN "waiting" ELSE "outside"]
    BY <1>5, <1>6 DEF Outcome
  <1>8. QED
    BY <1>4, <1>5, <1>7 DEF Task!Begin

\* Phases in which the report does not change.
LEMMA PhaseIsTaskStep ==
  ASSUME Inv, ReportInv, envCreated \/ envRefused \/ workersDone \/ onFinished
  PROVE  Task!Next \/ UNCHANGED <<Phase, Outcome>>
  <1>1. UNCHANGED <<mounted, open, step, items, results>>
    BY DEF envCreated, envRefused, workersDone, onFinished, formVars, viewVars
  <1>2. CASE ~mounted
    BY <1>1, <1>2, LeavesTask DEF Task!Next
  <1>3. CASE mounted /\ onFinished
    <2>1. progress' = progress
      BY <1>3 DEF onFinished
    <2>2. QED
      BY <1>1, <2>1, SameTask
  <1>4. CASE mounted /\ ~onFinished
    <2>1. isActive /\ step = "execute"
      BY <1>4, Shown DEF envCreated, envRefused, workersDone
    <2>2. \A s : Reported(s)' = Reported(s)
      BY <1>1 DEF Reported
    <2>3. Phase # "none" /\ Phase' # "none"
      BY <1>1, <1>4, <2>1 DEF Phase
    <2>4. Outcome' = Outcome
      BY <1>1, <2>2, <2>3 DEF Outcome
    <2>5. CASE envCreated
      <3>1. progress = [createInitialProgress EXCEPT !.createEnv = "doing"]
        BY <2>5 DEF envCreated, ReportInv, PhaseInv
      <3>2. progress' = [progress EXCEPT !.createEnv = "done", !.copyElements = "doing"]
        BY <2>1, <2>5 DEF envCreated
      <3>3. Phase = "creating" /\ Phase' = "copying"
        BY <1>1, <1>4, <2>1, <3>1, <3>2 DEF Phase, createInitialProgress
      <3>4. QED
        BY <2>4, <3>3 DEF Task!Next, Task!Created
    <2>6. CASE envRefused
      <3>1. progress = [createInitialProgress EXCEPT !.createEnv = "doing"]
        BY <2>6 DEF envRefused, ReportInv, PhaseInv
      <3>2. progress' = [createInitialProgress EXCEPT !.createEnv = "failed"]
        BY <2>1, <2>6 DEF envRefused
      <3>3. Phase = "creating" /\ Phase' = "refused"
        BY <1>1, <1>4, <2>1, <3>1, <3>2 DEF Phase, createInitialProgress
      <3>4. QED
        BY <2>4, <3>3 DEF Task!Next, Task!Refused
    <2>7. CASE workersDone
      <3>1. task = "workers" /\ \A w \in Worker : worker[w].pc = "off"
        BY <2>7 DEF workersDone
      <3>2. progress = [createEnv |-> "done", copyElements |-> "doing", complete |-> "pending"]
        BY <3>1 DEF ReportInv, PhaseInv
      <3>3. progress' = [progress EXCEPT !.copyElements = "done", !.complete = "done"]
        BY <2>1, <2>7 DEF workersDone
      <3>4. Phase = "copying" /\ Phase' = "complete"
        BY <1>1, <1>4, <2>1, <3>2, <3>3 DEF Phase
      <3>5. \A k \in Key : Outcome[k] # "waiting"
        <4> SUFFICES ASSUME NEW k \in Key, k \in ItemKeys PROVE Outcome[k] # "waiting"
          BY <3>4 DEF Outcome, ItemKeys
        <4>1. PICK i \in DOMAIN results : results[i].key = k
          BY <1>4, <3>1, AllReported DEF ResultKeys
        <4> DEFINE R == [key : Key, status : Status]
        <4>2. results \in Seq(R) /\ \A x \in R : x.status \in Status
          BY DEF Inv, TypeOK
        <4>3. results[i].status \in Status
          <5> HIDE DEF R
          <5>1. QED
            BY <4>2
        <4>4. k \in Reported(results[i].status)
          BY <4>1 DEF Reported
        <4>5. (CHOOSE s \in Status : k \in Reported(s)) \in Status
          BY <4>3, <4>4
        <4>6. Outcome[k] = CHOOSE s \in Status : k \in Reported(s)
          BY <3>4, <4>3, <4>4 DEF Outcome, ItemKeys
        <4>7. QED
          BY <4>5, <4>6 DEF Status
      <3>6. QED
        BY <2>4, <3>4, <3>5 DEF Task!Next, Task!Complete
    <2>8. QED
      BY <1>4, <2>5, <2>6, <2>7
  <1>5. QED
    BY <1>2, <1>3, <1>4

\* A worker's report settles its element; its other steps do not show.
LEMMA WorkerIsTaskStep ==
  ASSUME Inv, ReportInv, NEW w \in Worker, requestElement(w) \/ createElement(w)
  PROVE  Task!Next \/ UNCHANGED <<Phase, Outcome>>
  <1>1. worker[w].pc # "off" /\ task = "workers" /\ worker[w].key \in Key
    BY DEF Inv, TaskInv, requestElement, createElement
  <1>2. UNCHANGED <<step, mounted, progress, items>>
    BY DEF requestElement, createElement, formVars, viewVars
  <1>3. CASE ~mounted
    BY <1>2, <1>3, LeavesTask DEF Task!Next
  <1>4. CASE mounted /\ results' = results
    BY <1>2, <1>4, SameTask
  <1>5. ASSUME mounted, NEW st \in Status, settle(w, st)
        PROVE  Task!Next
    <2> DEFINE k == worker[w].key
    <2>1. isActive /\ step = "execute"
      BY <1>1, <1>5, Shown
    <2>2. progress = [createEnv |-> "done", copyElements |-> "doing", complete |-> "pending"]
      BY <1>1 DEF ReportInv, PhaseInv
    <2>3. Phase = "copying" /\ Phase' = "copying"
      BY <1>2, <1>5, <2>1, <2>2 DEF Phase
    <2>4. \A s \in Status : Reported(s)' = Reported(s) \cup (IF s = st THEN {k} ELSE {})
      BY <1>1, <1>5, <2>1, SettleReports, ZenonT(40)
    <2>5. k \in ItemKeys /\ k \notin ResultKeys /\ ItemKeys' = ItemKeys
      BY <1>1, <1>2, <1>5 DEF ReportInv, ShareInv, Running, ItemKeys
    <2>6. \A s \in Status : k \notin Reported(s)
      BY <2>5 DEF Reported, ResultKeys
    <2> HIDE DEF k
    <2>7. k \in Key
      BY <1>1 DEF k
    <2>8. Outcome[k] = "waiting"
      BY <2>3, <2>5, <2>6, <2>7 DEF Outcome, ItemKeys
    <2>9. Outcome'[k] = st
      <3>1. \A s \in Status : k \in Reported(s)' <=> s = st
        BY <2>4, <2>6
      <3>2. (CHOOSE s \in Status : k \in Reported(s)') = st
        BY <3>1
      <3>3. QED
        BY <2>3, <2>5, <2>7, <3>1, <3>2 DEF Outcome, ItemKeys
    <2>10. ASSUME NEW j \in Key, j # k
           PROVE  Outcome'[j] = Outcome[j]
      <3>1. \A s \in Status : j \in Reported(s)' <=> j \in Reported(s)
        BY <2>4, <2>10
      <3>2. (CHOOSE s \in Status : j \in Reported(s)') = (CHOOSE s \in Status : j \in Reported(s))
        BY <3>1
      <3>3. QED
        BY <1>2, <2>3, <3>1, <3>2 DEF Outcome
    <2>11. Outcome' = [Outcome EXCEPT ![k] = st]
      <3>1. Outcome = [j \in Key |-> Outcome[j]] /\ Outcome' = [j \in Key |-> Outcome'[j]]
        BY DEF Outcome
      <3>2. QED
        BY <2>9, <2>10, <3>1
    <2>12. QED
      BY <2>3, <2>7, <2>8, <2>11 DEF Task!Next, Task!Settle, Task!Settled, Status
  <1>6. results' = results \/ \E st \in Status : settle(w, st)
    BY DEF requestElement, createElement, Status
  <1>7. QED
    BY <1>3, <1>4, <1>5, <1>6

LEMMA TaskStep == Inv /\ ReportInv /\ [Next]_vars => [Task!Next]_(Task!taskVars)
  <1> SUFFICES ASSUME Inv, ReportInv, [Next]_vars
               PROVE  Task!Next \/ UNCHANGED <<Phase, Outcome>>
    BY DEF Task!taskVars
  <1>1. CASE mounted' = FALSE \/ step' = "create"
    BY <1>1, LeavesTask DEF Task!Next
  <1>2. CASE UNCHANGED <<mounted, step, progress, items, results>>
    BY <1>2, SameTask
  <1>3. CASE FormStep
    <2>1. UNCHANGED taskVars
      BY <1>3, FormFrame
    <2>2. step' = step
      BY <1>3 DEF FormStep, Open, handleClose, navigate, envsLoaded,
             switchEmptyStrategy, viewCopiedEnv, unmount, gone,
             handleSourceEnvChange, typeTargetEnv, toggle, requestElements, elementsLoaded,
             elementsFailed, formVars
    <2>3. mounted' = mounted \/ mounted' = FALSE
      BY <1>3 DEF FormStep, Open, handleClose, navigate, envsLoaded,
             switchEmptyStrategy, viewCopiedEnv, unmount, gone,
             handleSourceEnvChange, typeTargetEnv, toggle, requestElements, elementsLoaded,
             elementsFailed, viewVars
    <2>4. QED
      BY <1>1, <1>2, <2>1, <2>2, <2>3 DEF taskVars
  <1>4. CASE \E w \in Worker : requestElement(w) \/ createElement(w)
    BY <1>4, WorkerIsTaskStep
  <1>5. CASE envCreated \/ envRefused \/ workersDone \/ onFinished
    BY <1>5, PhaseIsTaskStep
  <1>6. CASE startCopy
    BY <1>6, StartsTask DEF Task!Next
  <1>7. CASE reset \/ unload
    BY <1>1, <1>7 DEF reset, unload, gone
  <1>8. CASE OtherChange \/ UNCHANGED vars
    BY <1>2, <1>8 DEF OtherChange, vars, formVars, viewVars, taskVars
  <1>9. QED
    BY <1>3, <1>4, <1>5, <1>6, <1>7, <1>8 DEF Next, Administrator, Browser, FormStep
-----------------------------------------------------------------------------
(* Theorems *)

\* Every reachable state of the dialog, its task and the store is well typed.
THEOREM TypeCorrect == Spec => []TypeOK
  BY AlwaysInv, PTL DEF Inv

\* The task creates elements only where none was, in an environment its own
\* createEnv request created: between startCopy and the last worker's answer,
\* whatever the administrator and others do, and wherever the page goes, the
\* target stays the one created.
THEOREM OwnEnvOnly == Spec => WritesOnlyIntoOwnEnv
  <1>1. ASSUME Inv, [Next]_vars, NEW k \in wrote' \ wrote
        PROVE  target \in made /\ content[target][k] = None
    <2>1. CASE \E w \in Worker : createElement(w)
      <3>1. PICK w \in Worker : createElement(w)
        BY <2>1
      <3>2. worker[w].pc = "post" /\ task = "workers" /\ target \in made
        BY <1>1, <3>1 DEF createElement, Inv, TaskInv
      <3>3. k = worker[w].key /\ content[target][k] = None
        BY <1>1, <3>1 DEF createElement
      <3>4. QED
        BY <3>2, <3>3
    <2>2. CASE FormStep
      BY <1>1, <2>2, FormFrame DEF taskVars
    <2>3. CASE \E w \in Worker : requestElement(w)
      BY <1>1, <2>3 DEF requestElement
    <2>4. CASE envCreated \/ envRefused \/ workersDone \/ onFinished \/ startCopy \/ reset \/ unload
      BY <1>1, <2>4 DEF envCreated, envRefused, workersDone, onFinished, startCopy, reset, unload
    <2>5. CASE OtherChange \/ UNCHANGED vars
      BY <1>1, <2>5 DEF OtherChange, vars, taskVars
    <2>6. QED
      BY <1>1, <2>1, <2>2, <2>3, <2>4, <2>5 DEF Next, Administrator, Browser, FormStep
  <1>2. Inv /\ [Next]_vars =>
          [\A k \in wrote' \ wrote : target \in made /\ content[target][k] = None]_vars
    BY <1>1
  <1>3. QED
    BY <1>2, AlwaysInv, PTL DEF Spec, WritesOnlyIntoOwnEnv

\* Whatever requests fail or lose their answer and however the workers share
\* the elements, the report says of each what this task did to it, and once
\* it shows the copy as complete it names every chosen element once.
THEOREM HonestReport == Spec => []ReportIsHonest
  <1>1. ReportInv => ReportIsHonest
    BY DEF ReportInv, HonestInv, ReportIsHonest, reportShown, isActive
  <1>2. QED
    BY <1>1, AlwaysReport, PTL

\* A copy can be started only with the elements of the source that is shown,
\* whatever listings of other environments are still under way, or, after
\* the page has gone to another application and until the listing that starts
\* is answered, with those of an environment of the same name.
THEOREM SourceIsShown == Spec => []ElementsMatchSource
  <1>1. LoadInv => ElementsMatchSource
    BY DEF LoadInv, ElementsMatchSource, isActive, canStart
  <1>2. QED
    BY <1>1, AlwaysLoad, PTL

\* The dialog with its workers, lost answers and closed pages implements the
\* task of CopyTask: nothing settled is taken back, nothing is settled twice,
\* and the copy is complete only when every element is settled.
THEOREM Refinement == Spec => ImplementsTask
  <1>1. Init => Task!Init
    BY NoTask DEF Init, Task!Init, Phase
  <1>2. QED
    BY <1>1, TaskStep, AlwaysInv, AlwaysReport, PTL DEF Spec, ImplementsTask, Task!Spec
=============================================================================
