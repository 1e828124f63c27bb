------------------------------ MODULE AppsPage ------------------------------
(***************************************************************************)
(* The console's page of applications: search, page size, a pager that     *)
(* goes forward by the server's cursor and back by a stack of cursors, and *)
(* the dialogs that create and delete.  A change of query, page size or    *)
(* cursor loads the list in the effect that follows.  One record, ap, is   *)
(* the page's state.                                                       *)
(***************************************************************************)
EXTENDS Collections

CONSTANT AppPlace   \* the collection of applications

VARIABLE ap

Load(id, q, n, s) ==
  [id |-> id, query |-> q, size |-> n, seek |-> s, got |-> FALSE, page |-> NoPage]

IdleTask == [pc |-> "idle", kind |-> "none", item |-> 0, load |-> 0]
NoDialog == [kind |-> "none", item |-> 0]

\* page holds apps, hasMore and nextSeek.  History: answerTo, the request the
\* rows answer; own, what this page's acknowledged changes made of an item.
Opened ==
  LET n == CHOOSE n \in PageSize : TRUE
  IN [mounted |-> TRUE, page |-> NoPage, failed |-> FALSE, loading |-> TRUE,
      query |-> 0, pageSize |-> n, seek |-> 0, seekStack |-> <<>>, pageIndex |-> 1,
      submitting |-> FALSE, dialog |-> NoDialog, task |-> IdleTask,
      seq |-> 1, loads |-> {Load(1, 0, n, 0)},
      answerTo |-> [query |-> 0, size |-> n, seek |-> 0],
      own |-> [i \in Item |-> "unknown"]]

Gone(task) == [Opened EXCEPT !.mounted = FALSE, !.loading = FALSE, !.loads = {}, !.task = task]

loadApps(r) ==
  [r EXCEPT !.seq = @ + 1, !.loads = @ \cup {Load(r.seq + 1, r.query, r.pageSize, r.seek)}]

loadKey(r) == [query |-> r.query, size |-> r.pageSize, seek |-> r.seek]

\* The effect after a render: it loads if the request would be another one.
rendered(r) == IF loadKey(r) # loadKey(ap) THEN loadApps(r) ELSE r

\* A change in flight loads the list twice if the page is not the first.
CanLoad == ap.mounted /\ ap.seq + (IF ap.task.pc = "sent" THEN 2 ELSE 0) < MaxLoad

isLatest(l) == l.id = ap.seq

requestApps(l) ==
  /\ ~l.got
  /\ ap' = [ap EXCEPT !.loads = (@ \ {l})
              \cup {[l EXCEPT !.got = TRUE, !.page = listed(AppPlace, l.query, l.size, l.seek)]}]

ended(r, l) ==
  [r EXCEPT !.loads = @ \ {l},
            !.task = IF @.pc = "reload" /\ @.load = l.id THEN IdleTask ELSE @,
            !.submitting = @ /\ ~(r.task.pc = "reload" /\ r.task.load = l.id)]

appsLoaded(l) ==
  /\ l.got
  /\ ap' = ended(IF isLatest(l)
                 THEN [ap EXCEPT !.page = l.page, !.failed = FALSE, !.loading = FALSE,
                         !.answerTo = [query |-> l.query, size |-> l.size, seek |-> l.seek]]
                 ELSE ap, l)

appsFailed(l) ==
  ap' = ended(IF isLatest(l)
              THEN [ap EXCEPT !.page = NoPage, !.failed = TRUE, !.loading = FALSE]
              ELSE ap, l)

-----------------------------------------------------------------------------
(* What the administrator does *)

resetPaging(r) == [r EXCEPT !.seek = 0, !.seekStack = <<>>, !.pageIndex = 1]

\* Nothing but the very first load disables the controls.
Free == CanLoad /\ ~ap.loading /\ ap.dialog = NoDialog

handleSearch(q) ==
  /\ Free
  /\ ap' = rendered(resetPaging([ap EXCEPT !.query = q]))

handleClearSearch ==
  /\ Free
  /\ ap' = rendered(resetPaging([ap EXCEPT !.query = 0]))

handlePageSizeChange(n) ==
  /\ Free
  /\ ap' = rendered(resetPaging([ap EXCEPT !.pageSize = n]))

\* The table, with the pager below it, is there when it has rows.
tableShown == ap.mounted /\ ~ap.loading /\ ap.page.rows # <<>> /\ ap.dialog = NoDialog

\* Pressed again before the answer it goes to the same cursor once more.
handleNextPage ==
  /\ Free /\ tableShown /\ ap.page.hasMore /\ ap.page.nextSeek # 0
  /\ Len(ap.seekStack) < MaxLoad
  /\ ap' = rendered([ap EXCEPT !.seekStack = Append(@, ap.seek), !.seek = ap.page.nextSeek,
                               !.pageIndex = @ + 1])

handlePreviousPage ==
  /\ Free /\ tableShown /\ ap.seekStack # <<>>
  /\ ap' = rendered([ap EXCEPT !.seekStack = Front(@), !.seek = Last(ap.seekStack),
                               !.pageIndex = IF @ > 1 THEN @ - 1 ELSE 1])

openCreate ==
  /\ ap.mounted /\ ap.dialog = NoDialog /\ ~ap.submitting
  /\ ap' = [ap EXCEPT !.dialog = [kind |-> "create", item |-> 0]]

chooseDelete(i) ==
  /\ tableShown /\ ~ap.submitting /\ i \in Rows(ap.page)
  /\ ap' = [ap EXCEPT !.dialog = [kind |-> "delete", item |-> i]]

\* The confirmation of a deletion, or the form for a new application.
dialogShown(kind) == ap.mounted /\ ap.dialog.kind = kind

\* closeCreateDialog, closeDeleteDialog
closeDialog ==
  /\ dialogShown("create") \/ dialogShown("delete")
  /\ ~ap.submitting
  /\ ap' = [ap EXCEPT !.dialog = NoDialog]

start(kind, i) ==
  /\ ~ap.submitting /\ ap.seq + 1 < MaxLoad
  /\ ap' = [ap EXCEPT !.submitting = TRUE,
              !.task = [pc |-> "sent", kind |-> kind, item |-> i, load |-> 0]]

handleCreate(i) == dialogShown("create") /\ start("create", i)
handleDelete == dialogShown("delete") /\ start("delete", ap.dialog.item)

\* Mutant: paging is reset and the effect is left to load the list.
reloadedByEffect(r) == rendered(resetPaging(r))

\* After a change: resetPaging, then loadApps as the handler's render has it,
\* with the old cursor; the effect loads the first page if that was another.
reloaded(r) ==
  LET old == loadApps(r)
  IN rendered(resetPaging([old EXCEPT !.task.pc = "reload", !.task.load = old.seq]))

taskAnswered ==
  LET t == ap.task IN
  /\ t.pc = "sent"
  /\ accepted(t.kind, AppPlace, t.item) /\ UNCHANGED others
  /\ ap' = IF ~ap.mounted THEN Gone(IdleTask)
           ELSE reloaded([ap EXCEPT !.dialog = NoDialog,
                            !.own[t.item] = IF t.kind = "create" THEN "in" ELSE "out"])

\* Refused, failed, or done with the answer lost: an error is shown.
taskFailed ==
  LET t == ap.task IN
  /\ t.pc = "sent"
  /\ failed(t.kind, AppPlace, t.item)
  /\ ap' = IF ~ap.mounted THEN Gone(IdleTask)
           ELSE [ap EXCEPT !.task = IdleTask, !.submitting = FALSE, !.own[t.item] = "unknown"]

leave ==
  /\ ap.mounted
  /\ ap' = Gone(IF ap.task.pc = "sent" THEN ap.task ELSE IdleTask)

LoadStep == \E l \in ap.loads : requestApps(l) \/ appsLoaded(l) \/ appsFailed(l)
TaskStep == taskAnswered \/ taskFailed

User ==
  \/ \E q \in Query \ {0} : handleSearch(q)
  \/ \E n \in PageSize \ {ap.pageSize} : handlePageSizeChange(n)
  \/ \E i \in Item : chooseDelete(i) \/ handleCreate(i)
  \/ handleClearSearch \/ handleNextPage \/ handlePreviousPage \/ openCreate \/ closeDialog \/ handleDelete \/ leave

Next ==
  \/ LoadStep /\ UNCHANGED serverVars
  \/ TaskStep
  \/ User /\ UNCHANGED serverVars
  \/ /\ ap.mounted
     /\ \E i \in Item : OtherChange(AppPlace, i) /\ ap' = [ap EXCEPT !.own[i] = "unknown"]
-----------------------------------------------------------------------------
(* The parts of the properties that concern this page *)

Settled == ap.mounted /\ \A l \in ap.loads : l.id # ap.seq

PageOK ==
  /\ ap.mounted \in BOOLEAN /\ ap.page \in PageType /\ ap.failed \in BOOLEAN /\ ap.loading \in BOOLEAN
  /\ ap.query \in Query /\ ap.pageSize \in PageSize /\ ap.seek \in Item \cup {0}
  /\ ap.seekStack \in Seq(Item \cup {0}) /\ ap.pageIndex \in 1..(MaxLoad + 1)
  /\ ap.submitting \in BOOLEAN /\ ap.dialog \in [kind : {"none", "create", "delete"}, item : Item \cup {0}]
  /\ ap.task \in [pc : {"idle", "sent", "reload"}, kind : {"none", "create", "delete"},
                  item : Item \cup {0}, load : 0..MaxLoad]
  /\ ap.seq \in 1..MaxLoad

RowsOfRequest ==
  Settled /\ ~ap.failed => ap.answerTo = [query |-> ap.query, size |-> ap.pageSize, seek |-> ap.seek]

OwnShown ==
  Settled /\ ~ap.failed => \A i \in Item :
    /\ ap.own[i] = "out" => i \notin Rows(ap.page)
    /\ (ap.own[i] = "in" /\ i \in Match[ap.query] /\ i >= ap.seek /\ (ap.page.hasMore => i < ap.page.nextSeek))
         => i \in Rows(ap.page)

WayBack ==
  LET way == Append(ap.seekStack, ap.seek)
  IN /\ way[1] = 0
     /\ \A i \in 2..Len(way) : way[i - 1] <= way[i] /\ way[i] # 0
     /\ ap.pageIndex = Len(way)

Locked == ap.mounted /\ (ap.loading \/ ap.submitting)
=============================================================================
