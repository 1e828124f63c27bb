------------------------------- MODULE CopyEnv -------------------------------
(***************************************************************************)
(* The console's "copy environment" task: the dialog that lists the        *)
(* elements of a source environment, creates the target environment and    *)
(* copies the chosen elements with a pool of concurrent workers.  Other    *)
(* administrators change the store meanwhile, requests fail or lose their  *)
(* answer, the page may be left at any moment, and the dialog stays when   *)
(* the page goes on to another application.                                *)
(***************************************************************************)
EXTENDS Naturals, Sequences, FiniteSets

CONSTANTS
  App,          \* applications
  Home,         \* the one whose page is opened
  Env,          \* environment names
  Key,          \* element keys
  Raw,          \* contents
  Blank,        \* the empty content
  None,         \* no application, no environment, no element, no key
  workerCount,  \* workers copying at a time
  Seed,         \* what the store holds when the page is opened
  PageLimit,    \* keys per page of a listing (elementPageLimit)
  OtherWrite,   \* other administrators' writes: place, key, element (None removes it)
  OtherEnv,     \* environments they create and delete
  MaxChange,    \* changes by other administrators
  MaxLoad,      \* listings the dialog starts
  MaxMove       \* times the page goes to another application

\* An environment of an application.
Place == App \X Env

\* An element: its content and whether a version of it is in use.
Element == [raw : Raw \cup {Blank}, used : BOOLEAN]

ASSUME SeedAssumption ==
  /\ None \notin App /\ None \notin Env /\ None \notin Key /\ None \notin Element
  /\ None \notin Place /\ "task" \notin App /\ Home \in App
  /\ Blank \notin Raw
  /\ DOMAIN Seed \subseteq Place
  /\ \A p \in DOMAIN Seed : Seed[p] \in [Key -> Element \cup {None}]

ASSUME BoundAssumption ==
  /\ OtherWrite \subseteq Place \X Key \X (Element \cup {None}) /\ OtherEnv \subseteq Place
  /\ PageLimit \in Nat \ {0} /\ MaxChange \in Nat /\ MaxLoad \in Nat /\ MaxMove \in Nat
  /\ workerCount \in Nat \ {0} /\ IsFiniteSet(Key)

VARIABLES
  exists,           \* store: the environments
  content,          \* store: environment and key to element or None
  changes,          \* other administrators' changes so far
  appId,            \* the application of the page
  moves,            \* how often it has changed so far
  rows,             \* the page's list of environments (the dialog's envs)
  listing,          \* the page's latest load of it: of an application, or "task"
  mounted, open, exiting,
  step, sourceEnv, targetEnv, elements, selectedKeys, emptyStrategy,
  loadingElements, loads, loadSeq,
  loadedFrom,       \* history: where elements was listed from
  copying, progress, results,
  task, items, cursor, worker,
  taskApp,          \* the application the task was started in
  made,             \* history: environments this task created
  wrote             \* history: keys this task created in the target

storeVars == <<exists, content, changes>>
formVars == <<step, sourceEnv, targetEnv, elements, selectedKeys, emptyStrategy>>
loadVars == <<loadingElements, loads, loadSeq, loadedFrom>>
viewVars == <<mounted, open, exiting, appId, moves, rows, listing>>
taskVars == <<copying, progress, results, task, items, cursor, worker, taskApp, made, wrote>>
vars == <<storeVars, formVars, loadVars, viewVars, taskVars>>

Worker == 1..workerCount
Status == {"success", "skipped", "failed"}
ProgressState == {"pending", "doing", "done", "failed"}

NoElements == [k \in Key |-> None]
Listed(els) == {k \in Key : els[k] # None}
isElementEmpty(c) == ~c.used \/ c.raw = Blank

\* The lists a load of an application's environments may show: the first 100
\* are asked for, and none is shown when it fails.
EnvLists(a) == SUBSET {e \in Env : <<a, e>> \in exists}

\* Where the form lists from, and where the task reads and writes.
shownSource == <<appId, sourceEnv>>
source == <<taskApp, sourceEnv>>
target == <<taskApp, targetEnv>>

selectedElements == {k \in selectedKeys : elements[k] # None}
emptySelected == {k \in selectedElements : isElementEmpty(elements[k])}
estimatedCopy == IF emptyStrategy = "skip" THEN selectedElements \ emptySelected ELSE selectedElements
targetError == targetEnv \in rows \/ targetEnv = sourceEnv

canStart ==
  /\ sourceEnv # None /\ targetEnv # None
  /\ ~targetError
  /\ ~loadingElements
  /\ estimatedCopy # {}
  /\ step = "create"

isActive == mounted /\ open

\* What the dialog shows: the form with the list of elements, or the report.
formShown == isActive /\ step = "create"
listShown == formShown /\ sourceEnv # None /\ ~loadingElements
reportShown == isActive /\ step = "execute"

createInitialProgress == [createEnv |-> "pending", copyElements |-> "pending", complete |-> "pending"]

Off == [pc |-> "off", key |-> None, raw |-> Blank]
Getting(k) == [pc |-> "get", key |-> k, raw |-> Blank]
Posting(k, r) == [pc |-> "post", key |-> k, raw |-> r]

\* The keys of S in the order in which the store lists them.
Listings(S) == {s \in [1..Cardinality(S) -> S] : \A i, j \in DOMAIN s : s[i] = s[j] => i = j}
Listing(S) == CHOOSE s \in Listings(S) : TRUE

Init ==
  /\ exists = DOMAIN Seed
  /\ content = [p \in Place |-> IF p \in DOMAIN Seed THEN Seed[p] ELSE NoElements]
  /\ changes = 0
  /\ appId = Home /\ moves = 0 /\ rows \in EnvLists(Home) /\ listing = None
  /\ mounted = TRUE /\ open = FALSE /\ exiting = FALSE
  /\ step = "create" /\ sourceEnv = None /\ targetEnv = None
  /\ elements = NoElements /\ selectedKeys = {} /\ emptyStrategy = "skip"
  /\ loadingElements = FALSE /\ loads = {} /\ loadSeq = 0 /\ loadedFrom = None
  /\ copying = FALSE /\ progress = createInitialProgress /\ results = <<>>
  /\ task = "idle" /\ items = <<>> /\ cursor = 1
  /\ worker = [w \in Worker |-> Off]
  /\ taskApp = None /\ made = {} /\ wrote = {}

-----------------------------------------------------------------------------
(* The dialog: opening, closing, and the listing of the source environment *)

\* The effect on open, appId and sourceEnv starts a listing.
startLoad(p) ==
  /\ loadSeq < MaxLoad
  /\ loadSeq' = loadSeq + 1
  /\ loads' = loads \cup {[id |-> loadSeq + 1, from |-> p, rest |-> Key, got |-> NoElements]}

Open ==
  /\ mounted /\ ~open /\ ~copying /\ rows # {}
  /\ open' = TRUE /\ exiting' = FALSE
  /\ IF sourceEnv # None THEN startLoad(shownSource) ELSE UNCHANGED <<loads, loadSeq>>
  /\ UNCHANGED <<storeVars, formVars, taskVars, mounted, appId, moves, rows, listing, loadingElements, loadedFrom>>

handleClose ==
  /\ isActive
  /\ ~copying
  /\ open' = FALSE /\ exiting' = TRUE
  /\ UNCHANGED <<storeVars, formVars, loadVars, taskVars, mounted, appId, moves, rows, listing>>

\* The route names another application: the dialog stays as it is, with the
\* elements and the list of environments of the former one, and both are asked for.
navigate(a) ==
  /\ mounted /\ a # appId /\ moves < MaxMove
  /\ appId' = a /\ moves' = moves + 1 /\ listing' = a
  /\ IF open /\ sourceEnv # None THEN startLoad(<<a, sourceEnv>>) ELSE UNCHANGED <<loads, loadSeq>>
  /\ UNCHANGED <<storeVars, formVars, taskVars, mounted, open, exiting, rows, loadingElements, loadedFrom>>

\* loadEnvs of the page is answered or fails.
envsLoaded ==
  /\ mounted /\ listing \in App
  /\ rows' \in EnvLists(listing)
  /\ listing' = None
  /\ UNCHANGED <<storeVars, formVars, loadVars, taskVars, mounted, open, exiting, appId, moves>>

\* onTransitionExited: the dialog has faded out and forgets its task.
reset ==
  /\ mounted /\ exiting
  /\ exiting' = FALSE
  /\ step' = "create" /\ sourceEnv' = None /\ targetEnv' = None
  /\ elements' = NoElements /\ selectedKeys' = {} /\ emptyStrategy' = "skip"
  /\ loadingElements' = FALSE
  /\ copying' = FALSE /\ progress' = createInitialProgress /\ results' = <<>>
  /\ UNCHANGED <<storeVars, mounted, open, appId, moves, rows, listing, loads, loadSeq, loadedFrom,
                 task, items, cursor, worker, taskApp, made, wrote>>

handleSourceEnvChange(e) ==
  /\ formShown /\ ~loadingElements
  /\ e # sourceEnv
  /\ sourceEnv' = e
  /\ loadingElements' = TRUE
  /\ startLoad(<<appId, e>>)
  /\ UNCHANGED <<storeVars, viewVars, taskVars, step, targetEnv, elements,
                 selectedKeys, emptyStrategy, loadedFrom>>

typeTargetEnv(e) ==
  /\ formShown
  /\ targetEnv' = e
  /\ UNCHANGED <<storeVars, viewVars, loadVars, taskVars, step, sourceEnv, elements,
                 selectedKeys, emptyStrategy>>

switchEmptyStrategy ==
  /\ formShown
  /\ emptyStrategy' = IF emptyStrategy = "skip" THEN "copy" ELSE "skip"
  /\ UNCHANGED <<storeVars, viewVars, loadVars, taskVars, step, sourceEnv, targetEnv,
                 elements, selectedKeys>>

\* toggleElement and toggleAll: the list is shown once it is loaded.
toggle(S) ==
  /\ listShown
  /\ \/ \E k \in Listed(elements) : S = (selectedKeys \ {k}) \cup ({k} \ selectedKeys)
     \/ S = Listed(elements)
     \/ S = {}
  /\ selectedKeys' = S
  /\ UNCHANGED <<storeVars, viewVars, loadVars, taskVars, step, sourceEnv, targetEnv,
                 elements, emptyStrategy>>

\* Mutant: the listing's number is not compared.
isLatestAny(l) == isActive

\* requestAllElements reads the listing page by page, each as the store is then.
requestElements(l) ==
  /\ mounted /\ l.rest # {}
  /\ \E p \in SUBSET l.rest :
       /\ Cardinality(p) = PageLimit \/ (p = l.rest /\ Cardinality(p) <= PageLimit)
       /\ loads' = (loads \ {l}) \cup
            {[l EXCEPT !.rest = l.rest \ p,
                       !.got = [k \in Key |-> IF k \in p THEN content[l.from][k] ELSE l.got[k]]]}
  /\ UNCHANGED <<storeVars, formVars, viewVars, taskVars, loadingElements, loadSeq, loadedFrom>>

isLatest(l) == isActive /\ l.id = loadSeq

elementsLoaded(l) ==
  /\ mounted /\ l.rest = {}
  /\ loads' = loads \ {l}
  /\ IF isLatest(l)
     THEN /\ elements' = l.got /\ selectedKeys' = Listed(l.got)
          /\ loadingElements' = FALSE /\ loadedFrom' = l.from
     ELSE UNCHANGED <<elements, selectedKeys, loadingElements, loadedFrom>>
  /\ UNCHANGED <<storeVars, viewVars, taskVars, step, sourceEnv, targetEnv, emptyStrategy, loadSeq>>

elementsFailed(l) ==
  /\ mounted
  /\ loads' = loads \ {l}
  /\ IF isLatest(l)
     THEN /\ elements' = NoElements /\ selectedKeys' = {}
          /\ loadingElements' = FALSE /\ loadedFrom' = l.from
     ELSE UNCHANGED <<elements, selectedKeys, loadingElements, loadedFrom>>
  /\ UNCHANGED <<storeVars, viewVars, taskVars, step, sourceEnv, targetEnv, emptyStrategy, loadSeq>>

-----------------------------------------------------------------------------
(* The task *)

startCopy ==
  /\ isActive
  /\ canStart
  /\ items' = Listing(selectedElements)
  /\ step' = "execute" /\ copying' = TRUE
  /\ progress' = [createInitialProgress EXCEPT !.createEnv = "doing"]
  /\ results' = <<>> /\ cursor' = 1 /\ taskApp' = appId /\ made' = {} /\ wrote' = {}
  /\ task' = "createEnv"
  /\ UNCHANGED <<storeVars, viewVars, loadVars, sourceEnv, targetEnv, elements,
                 selectedKeys, emptyStrategy, worker>>

\* runWorkers starts a worker per item, workerCount at most; each claims an index at once.
runWorkers ==
  /\ worker' = [w \in Worker |-> IF w <= Len(items) THEN Getting(items[w]) ELSE Off]
  /\ cursor' = 1 + IF Len(items) < workerCount THEN Len(items) ELSE workerCount

\* createEnv was accepted by the store and the answer arrived.
envCreated ==
  /\ task = "createEnv"
  /\ target \notin exists
  /\ exists' = exists \cup {target}
  /\ made' = made \cup {target}
  /\ IF isActive
     THEN /\ progress' = [progress EXCEPT !.createEnv = "done", !.copyElements = "doing"]
          /\ task' = "workers"
          /\ runWorkers
     ELSE task' = "idle" /\ UNCHANGED <<progress, worker, cursor>>
  /\ UNCHANGED <<content, changes, formVars, loadVars, viewVars, copying, results, items, taskApp, wrote>>

\* Mutant: an environment that exists already is copied into.
envRefusedGoesOn ==
  /\ task = "createEnv"
  /\ progress' = [progress EXCEPT !.createEnv = "done", !.copyElements = "doing"]
  /\ task' = "workers"
  /\ runWorkers
  /\ UNCHANGED <<storeVars, formVars, loadVars, viewVars, copying, results, items, taskApp, made, wrote>>

\* createEnv was refused, failed, or lost the answer to a creation that happened.
envRefused ==
  /\ task = "createEnv"
  /\ \/ UNCHANGED exists
     \/ target \notin exists /\ exists' = exists \cup {target}
  /\ task' = "idle"
  /\ IF isActive
     THEN /\ progress' = [createInitialProgress EXCEPT !.createEnv = "failed"]
          /\ copying' = FALSE
     ELSE UNCHANGED <<progress, copying>>
  /\ UNCHANGED <<content, changes, formVars, loadVars, viewVars, results, items, cursor,
                 worker, taskApp, made, wrote>>

\* A worker's loop: report the element, then claim the next index or stop.
settle(w, status) ==
  IF isActive
  THEN /\ results' = Append(results, [key |-> worker[w].key, status |-> status])
       /\ cursor' = cursor + 1
       /\ worker' = [worker EXCEPT ![w] =
                       IF cursor <= Len(items) THEN Getting(items[cursor]) ELSE Off]
  ELSE /\ worker' = [worker EXCEPT ![w] = Off]
       /\ UNCHANGED <<results, cursor>>

\* copyElement, first request: the element as the source holds it now.
requestElement(w) ==
  LET c == content[source][worker[w].key] IN
  /\ worker[w].pc = "get"
  /\ \/ settle(w, "failed")
     \/ c # None /\ isElementEmpty(c) /\ emptyStrategy = "skip" /\ settle(w, "skipped")
     \/ /\ c # None /\ ~(isElementEmpty(c) /\ emptyStrategy = "skip")
        /\ worker' = [worker EXCEPT ![w] = Posting(@.key, c.raw)]
        /\ UNCHANGED <<results, cursor>>
  /\ UNCHANGED <<storeVars, formVars, loadVars, viewVars, copying, progress, task, items, taskApp, made, wrote>>

\* Mutant: a refusal is not noticed.
createElementUnchecked(w) ==
  /\ worker[w].pc = "post"
  /\ settle(w, "success")
  /\ UNCHANGED <<storeVars, formVars, loadVars, viewVars, copying, progress, task, items, taskApp, made, wrote>>

\* Mutant: the task goes on when one worker has stopped.
workersDoneFirst ==
  /\ task = "workers"
  /\ \E w \in Worker : worker[w].pc = "off"
  /\ progress' = [progress EXCEPT !.copyElements = "done", !.complete = "done"]
  /\ task' = "refresh" /\ listing' = "task"
  /\ UNCHANGED <<storeVars, formVars, loadVars, mounted, open, exiting, appId, moves, rows, copying,
                 results, items, cursor, worker, taskApp, made, wrote>>

\* copyElement, second request: the store creates a draft, or refuses a key
\* that exists and an empty content; an answer may be lost.
createElement(w) ==
  LET k == worker[w].key IN
  /\ worker[w].pc = "post"
  /\ \/ /\ worker[w].raw # Blank /\ content[target][k] = None
        /\ content' = [content EXCEPT ![target][k] = [raw |-> worker[w].raw, used |-> FALSE]]
        /\ exists' = exists \cup {target}
        /\ wrote' = wrote \cup {k}
        /\ settle(w, "success") \/ settle(w, "failed")
     \/ UNCHANGED <<content, exists, wrote>> /\ settle(w, "failed")
  /\ UNCHANGED <<changes, formVars, loadVars, viewVars, copying, progress, task, items, taskApp, made>>

workersDone ==
  /\ task = "workers"
  /\ \A w \in Worker : worker[w].pc = "off"
  /\ IF isActive
     THEN /\ progress' = [progress EXCEPT !.copyElements = "done", !.complete = "done"]
          /\ task' = "refresh" /\ listing' = "task"
     ELSE task' = "idle" /\ UNCHANGED <<progress, listing>>
  /\ UNCHANGED <<storeVars, formVars, loadVars, mounted, open, exiting, appId, moves, rows, copying,
                 results, items, cursor, worker, taskApp, made, wrote>>

\* The task's load of the list, of its own application, counts if it is the latest.
finishList ==
  IF listing = "task" THEN rows' \in EnvLists(taskApp) /\ listing' = None
  ELSE UNCHANGED <<rows, listing>>

\* Mutant: copying is cleared only when the list could be refreshed.
onFinishedNoFinally ==
  /\ task = "refresh"
  /\ task' = "idle"
  /\ \/ mounted /\ copying' = FALSE /\ finishList
     \/ UNCHANGED <<copying, rows, listing>>
  /\ UNCHANGED <<storeVars, formVars, loadVars, mounted, open, exiting, appId, moves, progress, results,
                 items, cursor, worker, taskApp, made, wrote>>

\* onFinished reloads the page's list, whatever comes of it; the task is over.
onFinished ==
  /\ task = "refresh"
  /\ task' = "idle"
  /\ IF mounted THEN copying' = FALSE /\ finishList ELSE UNCHANGED <<copying, rows, listing>>
  /\ UNCHANGED <<storeVars, formVars, loadVars, mounted, open, exiting, appId, moves, progress, results,
                 items, cursor, worker, taskApp, made, wrote>>

\* The component's state is gone; a task in flight holds what it needs.
gone ==
  /\ mounted' = FALSE /\ open' = FALSE /\ exiting' = FALSE /\ rows' = {} /\ listing' = None
  /\ elements' = NoElements /\ selectedKeys' = {}
  /\ loadingElements' = FALSE /\ loads' = {} /\ loadedFrom' = None

\* The page is left for another one; what is in flight goes on.
unmount ==
  /\ mounted
  /\ gone
  /\ UNCHANGED <<storeVars, taskVars, appId, moves, step, sourceEnv, targetEnv, emptyStrategy, loadSeq>>

viewCopiedEnv ==
  /\ reportShown /\ ~copying /\ progress.createEnv = "done"
  /\ gone
  /\ UNCHANGED <<storeVars, taskVars, appId, moves, step, sourceEnv, targetEnv, emptyStrategy, loadSeq>>

\* The browser unloads the page: beforeunload warns, and then everything stops.
unload ==
  /\ mounted
  /\ gone
  /\ task' = "idle"
  /\ worker' = [w \in Worker |-> Off]
  /\ UNCHANGED <<storeVars, appId, moves, step, sourceEnv, targetEnv, emptyStrategy, loadSeq, copying,
                 progress, results, items, cursor, taskApp, made, wrote>>

-----------------------------------------------------------------------------
(* Other administrators *)

OtherChange ==
  /\ changes < MaxChange /\ mounted  \* changes after the page is gone are left out
  /\ changes' = changes + 1
  /\ \/ \E o \in OtherWrite :
          o[1] \in exists /\ content' = [content EXCEPT ![o[1]][o[2]] = o[3]] /\ UNCHANGED exists
     \/ \E p \in OtherEnv \ exists : exists' = exists \cup {p} /\ UNCHANGED content
     \/ \E p \in OtherEnv \cap exists :
          exists' = exists \ {p} /\ content' = [content EXCEPT ![p] = NoElements]
  /\ UNCHANGED <<formVars, loadVars, viewVars, taskVars>>

Administrator ==
  \/ Open \/ handleClose \/ switchEmptyStrategy \/ startCopy \/ viewCopiedEnv \/ unmount \/ unload
  \/ \E a \in App : navigate(a)
  \/ \E e \in rows : handleSourceEnvChange(e)
  \/ \E e \in Env : typeTargetEnv(e)
  \/ \E S \in SUBSET Key : toggle(S)

Browser ==
  \/ reset \/ envsLoaded
  \/ \E l \in loads : requestElements(l) \/ elementsLoaded(l) \/ elementsFailed(l)
  \/ envCreated \/ envRefused \/ workersDone \/ onFinished
  \/ \E w \in Worker : requestElement(w) \/ createElement(w)

Next == Administrator \/ Browser \/ OtherChange

Spec == Init /\ [][Next]_vars

\* Requests are answered or fail, and the browser runs what is due.
FairSpec == Spec /\ WF_vars(envCreated \/ envRefused) /\ WF_vars(workersDone) /\ WF_vars(onFinished)
                 /\ \A w \in Worker : WF_vars(requestElement(w) \/ createElement(w))
-----------------------------------------------------------------------------
(* Properties *)

WorkerState == [pc : {"off", "get", "post"}, key : Key \cup {None}, raw : Raw \cup {Blank}]
Load == [id : Nat, from : Place, rest : SUBSET Key, got : [Key -> Element \cup {None}]]

\* Every variable of the dialog, its task and the store keeps its type
\* (CopyEnvDialog's state hooks and refs).
TypeOK ==
  /\ exists \in SUBSET Place /\ content \in [Place -> [Key -> Element \cup {None}]] /\ changes \in Nat
  /\ appId \in App /\ moves \in Nat /\ rows \in SUBSET Env /\ listing \in App \cup {None, "task"}
  /\ mounted \in BOOLEAN /\ open \in BOOLEAN /\ exiting \in BOOLEAN
  /\ step \in {"create", "execute"} /\ sourceEnv \in Env \cup {None} /\ targetEnv \in Env \cup {None}
  /\ elements \in [Key -> Element \cup {None}] /\ selectedKeys \in SUBSET Key
  /\ emptyStrategy \in {"skip", "copy"}
  /\ loadingElements \in BOOLEAN /\ loads \in SUBSET Load /\ loadSeq \in Nat
  /\ loadedFrom \in Place \cup {None}
  /\ copying \in BOOLEAN
  /\ progress \in [createEnv : ProgressState, copyElements : ProgressState, complete : ProgressState]
  /\ results \in Seq([key : Key, status : Status])
  /\ task \in {"idle", "createEnv", "workers", "refresh"}
  /\ items \in Seq(Key) /\ cursor \in Nat \ {0} /\ worker \in [Worker -> WorkerState]
  /\ taskApp \in App \cup {None} /\ made \in SUBSET Place /\ wrote \in SUBSET Key

Reported(s) == {results[i].key : i \in {j \in DOMAIN results : results[j].status = s}}

\* The report is honest while the dialog shows one: an element reported as
\* copied was created by this task, one reported as skipped was not, and
\* nothing was created that is not reported (copyElement; "failed" says nothing,
\* its answer may have been lost).  Once the copy is shown as complete, every
\* chosen element is in the report exactly once, however the workers shared
\* them out (runWorkers: no await between reading and advancing the cursor).
EveryItemOnce ==
  progress.complete = "done" =>
    /\ Len(results) = Len(items)
    /\ {results[i].key : i \in DOMAIN results} = {items[i] : i \in DOMAIN items}
ReportIsHonest ==
  /\ reportShown =>
       /\ Reported("success") \subseteq wrote
       /\ Reported("skipped") \cap wrote = {}
       /\ wrote \subseteq Reported("success") \cup Reported("failed")
  /\ EveryItemOnce

\* The task can be started only with elements listed from the environment
\* chosen as its source, in the application of the page: a late listing of
\* another one is dropped (loadSeq, isActive and loadingElements in the load
\* effect).  Until the listing that navigation starts is answered, and only
\* then, they are those of an environment of that name elsewhere: the effect
\* neither clears them nor sets loadingElements.
ElementsMatchSource ==
  isActive /\ canStart =>
    \/ loadedFrom = shownSource
    \/ /\ loadedFrom \in App \X {sourceEnv}
       /\ \E l \in loads : l.id = loadSeq /\ l.from = shownSource

\* The task creates elements only where none was, and only in an environment
\* that its own createEnv request created, never in one that existed, wherever
\* the page has gone meanwhile (startCopy awaits createEnv before runWorkers).
\* An environment the task created stays its own here if another administrator
\* deletes it and creates it again.
WritesOnlyIntoOwnEnv ==
  [][\A k \in wrote' \ wrote : target \in made /\ content[target][k] = None]_vars

\* The copying flag, which locks the dialog and the page's buttons, is cleared
\* in the end or the page is left, whatever requests fail (startCopy's finally).
CopyEnds == copying ~> (~copying \/ ~mounted)

Phase ==
  IF ~mounted \/ step = "create" THEN "none"
  ELSE IF progress.createEnv = "doing" THEN "creating"
  ELSE IF progress.createEnv = "failed" THEN "refused"
  ELSE IF progress.complete = "done" THEN "complete" ELSE "copying"

Outcome == [k \in Key |->
  IF Phase = "none" \/ k \notin {items[i] : i \in DOMAIN items} THEN "outside"
  ELSE IF \E s \in Status : k \in Reported(s) THEN CHOOSE s \in Status : k \in Reported(s)
  ELSE "waiting"]

Task == INSTANCE CopyTask WITH phase <- Phase, outcome <- Outcome

\* The dialog implements the abstract task: its report never takes a settled
\* element back, settles none twice and is complete only when all are settled
\* (startCopy, runWorkers and copyElement against module CopyTask).
ImplementsTask == Task!Spec
=============================================================================
