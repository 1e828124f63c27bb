---------------------------- MODULE ElementsPage ----------------------------
(***************************************************************************)
(* The console's page of an environment's elements: search, page size,     *)
(* "load more", the dialogs that create and delete, and navigation to      *)
(* another environment, which keeps the page mounted and its rows until    *)
(* the first answer.  One record, el, is the page's state; others compose  *)
(* it with the server.                                                     *)
(***************************************************************************)
EXTENDS Collections

CONSTANT ElementPlace   \* environments

VARIABLE el

\* A load in flight: a read of the server (got) and then its answer.
Load(id, at, q, n, s, append) ==
  [id |-> id, at |-> at, query |-> q, size |-> n, seek |-> s, append |-> append,
   got |-> FALSE, page |-> NoPage]

IdleTask == [pc |-> "idle", kind |-> "none", at |-> CHOOSE p \in Place : TRUE, item |-> 0, load |-> 0]
NoDialog == [kind |-> "none", item |-> 0]

\* page holds elements, hasMore and nextSeek.  History: base, the load whose
\* answer the rows begin with; stray, that they were continued for another
\* environment; own, what this page's acknowledged changes made of an item.
Opened(p) ==
  [mounted |-> TRUE, at |-> p, page |-> NoPage, failed |-> FALSE,
   query |-> 0, pageSize |-> CHOOSE n \in PageSize : TRUE,
   loading |-> TRUE, loadingMore |-> FALSE, submitting |-> FALSE,
   dialog |-> NoDialog, task |-> IdleTask,
   seq |-> 1, loads |-> {Load(1, p, 0, CHOOSE n \in PageSize : TRUE, 0, FALSE)},
   base |-> [at |-> p, query |-> 0], stray |-> FALSE,
   own |-> [i \in Item |-> "unknown"]]

\* The state of a page that is gone, with a change that was sent.
Gone(task) ==
  [Opened(task.at) EXCEPT !.mounted = FALSE, !.loading = FALSE, !.loads = {}, !.task = task]

\* loadElements: the request carries the location of the page that asks.
loadElements(r, q, n, s, append) ==
  [r EXCEPT !.seq = @ + 1, !.loads = @ \cup {Load(r.seq + 1, r.at, q, n, s, append)}]

\* A change in flight will load the list too.
CanLoad == el.mounted /\ el.seq + (IF el.task.pc = "sent" THEN 1 ELSE 0) < MaxLoad

\* Mutant: the page takes every answer.
isLatestAny(l) == el.mounted

isLatest(l) == l.id = el.seq

requestElements(l) ==
  /\ ~l.got
  /\ el' = [el EXCEPT !.loads = (@ \ {l})
              \cup {[l EXCEPT !.got = TRUE, !.page = listed(l.at, l.query, l.size, l.seek)]}]

\* A create or delete that awaits this load is over.
ended(r, l) ==
  IF r.task.pc = "reload" /\ r.task.load = l.id
  THEN [r EXCEPT !.task = IdleTask, !.submitting = FALSE] ELSE r

\* Mutant: the flag of "load more" is cleared only by its own answer.
shownKeepsMore(l, page) ==
  [el EXCEPT !.page = page, !.loading = FALSE, !.loadingMore = IF l.append THEN FALSE ELSE @]

shown(l, page) ==
  [el EXCEPT !.page = page, !.loading = FALSE, !.loadingMore = FALSE]

elementsLoaded(l) ==
  /\ l.got
  /\ LET base == IF l.append THEN el.base ELSE [at |-> l.at, query |-> l.query]
         page == [l.page EXCEPT !.rows = IF l.append THEN el.page.rows \o @ ELSE @]
     IN el' = [ended(IF isLatest(l)
                     THEN [shown(l, page) EXCEPT !.failed = FALSE, !.base = base,
                             !.stray = l.append /\ (el.stray \/ el.base.at # l.at)]
                     ELSE el, l)
                 EXCEPT !.loads = el.loads \ {l}]

\* A failed "load more" keeps the rows and ends the list.
elementsFailed(l) ==
  el' = [ended(IF isLatest(l)
               THEN [shown(l, [NoPage EXCEPT !.rows = IF l.append THEN el.page.rows ELSE <<>>])
                       EXCEPT !.failed = TRUE, !.stray = el.stray /\ l.append]
               ELSE el, l)
           EXCEPT !.loads = el.loads \ {l}]

-----------------------------------------------------------------------------
(* What the administrator does *)

Idle == CanLoad /\ ~el.loading /\ ~el.loadingMore /\ ~el.submitting

\* The page is being filled again: nothing to continue meanwhile.
refill(r, q, n) ==
  loadElements([r EXCEPT !.query = q, !.pageSize = n, !.loading = TRUE,
                         !.page.hasMore = FALSE, !.page.nextSeek = 0], q, n, 0, FALSE)

handleSearchSubmit(q) ==
  /\ Idle /\ el.dialog = NoDialog
  /\ el' = refill(el, q, el.pageSize)

handleClearSearch ==
  /\ Idle /\ el.dialog = NoDialog
  /\ el' = refill(el, 0, el.pageSize)

handlePageSizeChange(n) ==
  /\ Idle /\ el.dialog = NoDialog
  /\ el' = refill(el, el.query, n)

\* A first load hides the table and its button, a navigation does not.
tableShown == el.mounted /\ ~el.loading /\ el.page.rows # <<>> /\ el.dialog = NoDialog

handleLoadMore ==
  /\ CanLoad /\ tableShown /\ ~el.submitting
  /\ el.page.hasMore /\ el.page.nextSeek # 0 /\ ~el.loadingMore
  /\ el' = loadElements([el EXCEPT !.loadingMore = TRUE],
                        el.query, el.pageSize, el.page.nextSeek, TRUE)

openCreate ==
  /\ el.mounted /\ ~el.submitting /\ el.dialog = NoDialog
  /\ el' = [el EXCEPT !.dialog = [kind |-> "create", item |-> 0]]

chooseDelete(i) ==
  /\ tableShown /\ ~el.submitting /\ i \in Rows(el.page)
  /\ el' = [el EXCEPT !.dialog = [kind |-> "delete", item |-> i]]

\* The confirmation of a deletion, or the form for a new element.
dialogShown(kind) == el.mounted /\ el.dialog.kind = kind

\* closeCreateDialog, closeDeleteDialog
closeDialog ==
  /\ dialogShown("create") \/ dialogShown("delete")
  /\ ~el.submitting
  /\ el' = [el EXCEPT !.dialog = NoDialog]

start(kind, i) ==
  /\ CanLoad /\ ~el.submitting
  /\ el' = [el EXCEPT !.submitting = TRUE,
              !.task = [pc |-> "sent", kind |-> kind, at |-> el.at, item |-> i, load |-> 0]]

\* The content was valid, or nothing is sent.
handleCreate(i) == dialogShown("create") /\ start("create", i)

\* The location is the one at the confirmation, not the one the row was read at.
handleDelete == dialogShown("delete") /\ start("delete", el.dialog.item)

canApplyMutationResult(t) == el.mounted /\ el.at = t.at

\* Acknowledged: the dialog closes and the list is loaded from the start.
taskAnswered ==
  LET t == el.task IN
  /\ t.pc = "sent"
  /\ accepted(t.kind, t.at, t.item) /\ UNCHANGED others
  /\ el' = IF ~el.mounted THEN Gone(IdleTask)
           ELSE IF ~canApplyMutationResult(t)
           THEN [el EXCEPT !.task = IdleTask, !.submitting = FALSE]
           ELSE LET r == refill([el EXCEPT !.dialog = NoDialog,
                                    !.own[t.item] = IF t.kind = "create" THEN "in" ELSE "out"],
                                el.query, el.pageSize)
                IN [r EXCEPT !.task.pc = "reload", !.task.load = r.seq]

\* Refused, failed, or done with the answer lost: an error is shown.
taskFailed ==
  LET t == el.task IN
  /\ t.pc = "sent"
  /\ failed(t.kind, t.at, t.item)
  /\ el' = IF ~el.mounted THEN Gone(IdleTask)
           ELSE [el EXCEPT !.task = IdleTask, !.submitting = FALSE, !.own[t.item] = "unknown"]

\* The location changes and the page stays: dialogs, rows, query and flags too.
navigate(p) ==
  /\ CanLoad /\ p # el.at
  /\ el' = loadElements([el EXCEPT !.at = p, !.own = [i \in Item |-> "unknown"]],
                        el.query, el.pageSize, 0, FALSE)

\* The page is unmounted; a change that was sent still reaches the server.
leave ==
  /\ el.mounted
  /\ el' = Gone(IF el.task.pc = "sent" THEN el.task ELSE IdleTask)

LoadStep == \E l \in el.loads : requestElements(l) \/ elementsLoaded(l) \/ elementsFailed(l)
TaskStep == taskAnswered \/ taskFailed

User ==
  \/ \E q \in Query \ {0} : handleSearchSubmit(q)
  \/ \E n \in PageSize \ {el.pageSize} : handlePageSizeChange(n)
  \/ \E i \in Item : chooseDelete(i) \/ handleCreate(i)
  \/ handleClearSearch \/ handleLoadMore \/ openCreate \/ closeDialog \/ handleDelete \/ leave
  \/ \E p \in ElementPlace : navigate(p)

Next ==
  \/ LoadStep /\ UNCHANGED serverVars
  \/ TaskStep
  \/ User /\ UNCHANGED serverVars
  \/ /\ el.mounted
     /\ \E i \in Item : OtherChange(el.at, i) /\ el' = [el EXCEPT !.own[i] = "unknown"]
-----------------------------------------------------------------------------
(* The parts of the properties that concern this page *)

Settled == el.mounted /\ \A l \in el.loads : l.id # el.seq

PageOK ==
  /\ el.mounted \in BOOLEAN /\ el.at \in Place /\ el.page \in PageType /\ el.failed \in BOOLEAN
  /\ el.query \in Query /\ el.pageSize \in PageSize
  /\ el.loading \in BOOLEAN /\ el.loadingMore \in BOOLEAN /\ el.submitting \in BOOLEAN
  /\ el.dialog \in [kind : {"none", "create", "delete"}, item : Item \cup {0}]
  /\ el.task \in [pc : {"idle", "sent", "reload"}, kind : {"none", "create", "delete"}, at : Place,
                  item : Item \cup {0}, load : 0..MaxLoad]
  /\ el.seq \in 1..MaxLoad

RowsAscend ==
  /\ \A i, j \in DOMAIN el.page.rows : i < j => el.page.rows[i] < el.page.rows[j]
  /\ el.page.hasMore => \A i \in Rows(el.page) : i < el.page.nextSeek

RowsOfLocation ==
  Settled /\ ~el.failed /\ ~el.stray => el.base = [at |-> el.at, query |-> el.query]

OwnShown ==
  Settled /\ ~el.failed /\ ~el.stray => \A i \in Item :
    /\ el.own[i] = "out" => i \notin Rows(el.page)
    /\ (el.own[i] = "in" /\ i \in Match[el.query] /\ (el.page.hasMore => i < el.page.nextSeek))
         => i \in Rows(el.page)

Locked == el.mounted /\ (el.loading \/ el.loadingMore \/ el.submitting)
=============================================================================
