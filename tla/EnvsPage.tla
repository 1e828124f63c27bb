------------------------------ MODULE EnvsPage ------------------------------
(***************************************************************************)
(* The console's page of an application's environments: the dialogs that   *)
(* create and delete one and the copy of an environment, which module      *)
(* CopyEnv takes apart and which is two steps here.  Navigation to another *)
(* application keeps the page mounted.  One record, ev, is its state.      *)
(***************************************************************************)
EXTENDS Collections

CONSTANT EnvPlace   \* applications

VARIABLE ev

AllRows == 100  \* the limit of the one request

Load(id, at, copy) == [id |-> id, at |-> at, copy |-> copy, got |-> FALSE, page |-> NoPage]

IdleTask == [pc |-> "idle", kind |-> "none", at |-> CHOOSE p \in Place : TRUE, item |-> 0, load |-> 0]
NoDialog == [kind |-> "none", item |-> 0]

\* History: shownAt and byCopy, the application and the origin of the rows;
\* own, what this page's acknowledged changes made of an item.
Opened(p) ==
  [mounted |-> TRUE, at |-> p, envs |-> {}, failed |-> FALSE, loading |-> TRUE,
   submitting |-> FALSE, dialog |-> NoDialog, task |-> IdleTask,
   copyBusy |-> FALSE, copy |-> IdleTask,
   seq |-> 1, loads |-> {Load(1, p, FALSE)},
   shownAt |-> p, byCopy |-> FALSE, own |-> [i \in Item |-> "unknown"]]

\* The state of a page that is gone, with changes that were sent.
Gone(task, copy) ==
  [Opened(task.at) EXCEPT !.mounted = FALSE, !.loading = FALSE, !.loads = {}, !.task = task, !.copy = copy]

\* loadEnvs asks for the application of the render it belongs to.
loadEnvs(r, p, copy) == [r EXCEPT !.seq = @ + 1, !.loads = @ \cup {Load(r.seq + 1, p, copy)}]

\* A change and a copy in flight will load the list too.
CanLoad ==
  ev.mounted /\ ev.seq + Cardinality({t \in {"task", "copy"} : ev[t].pc = "sent"}) < MaxLoad

isLatest(l) == l.id = ev.seq

requestEnvs(l) ==
  /\ ~l.got
  /\ ev' = [ev EXCEPT !.loads = (@ \ {l})
              \cup {[l EXCEPT !.got = TRUE, !.page = listed(l.at, 0, AllRows, 0)]}]

\* A create, delete or copy that awaits this load is over.
ended(r, l) ==
  [r EXCEPT !.loads = @ \ {l},
            !.task = IF @.pc = "reload" /\ @.load = l.id THEN IdleTask ELSE @,
            !.submitting = @ /\ ~(r.task.pc = "reload" /\ r.task.load = l.id),
            !.copy = IF @.pc = "reload" /\ @.load = l.id THEN IdleTask ELSE @,
            !.copyBusy = @ /\ ~(r.copy.pc = "reload" /\ r.copy.load = l.id)]

envsLoaded(l) ==
  /\ l.got
  /\ ev' = ended(IF isLatest(l)
                 THEN [ev EXCEPT !.envs = Rows(l.page), !.failed = FALSE, !.loading = FALSE,
                                 !.shownAt = l.at, !.byCopy = l.copy]
                 ELSE ev, l)

envsFailed(l) ==
  ev' = ended(IF isLatest(l)
              THEN [ev EXCEPT !.envs = {}, !.failed = TRUE, !.loading = FALSE]
              ELSE ev, l)

-----------------------------------------------------------------------------
(* What the administrator does *)

Free == ev.mounted /\ ~ev.submitting /\ ~ev.copyBusy /\ ev.dialog = NoDialog

openCreate == Free /\ ev' = [ev EXCEPT !.dialog = [kind |-> "create", item |-> 0]]

tableShown == ~ev.loading /\ ev.envs # {}

chooseDelete(i) ==
  /\ Free /\ tableShown /\ i \in ev.envs
  /\ ev' = [ev EXCEPT !.dialog = [kind |-> "delete", item |-> i]]

\* The confirmation of a deletion, or the form for a new environment.
dialogShown(kind) == ev.mounted /\ ev.dialog.kind = kind

\* closeCreateDialog, closeDeleteDialog
closeDialog ==
  /\ dialogShown("create") \/ dialogShown("delete")
  /\ ~ev.submitting /\ ~ev.copyBusy
  /\ ev' = [ev EXCEPT !.dialog = NoDialog]

sent(kind, i) == [pc |-> "sent", kind |-> kind, at |-> ev.at, item |-> i, load |-> 0]

start(kind, i) ==
  /\ CanLoad /\ ~ev.submitting
  /\ ev' = [ev EXCEPT !.submitting = TRUE, !.task = sent(kind, i)]

handleCreate(i) == dialogShown("create") /\ start("create", i)

handleDelete == dialogShown("delete") /\ ~ev.copyBusy /\ start("delete", ev.dialog.item)

\* The copy dialog covers the page; the copy holds loadEnvs as it is now.
startCopy(i) ==
  /\ Free /\ CanLoad /\ ev.envs # {} /\ i \notin ev.envs
  /\ ev' = [ev EXCEPT !.copyBusy = TRUE, !.copy = sent("create", i)]

\* Mutant: the location is not compared.
canApplyMutationResultMounted(t) == ev.mounted

canApplyMutationResult(t) == ev.mounted /\ ev.at = t.at

taskAnswered ==
  LET t == ev.task IN
  /\ t.pc = "sent"
  /\ accepted(t.kind, t.at, t.item) /\ UNCHANGED others
  /\ ev' = IF ~ev.mounted THEN Gone(IdleTask, ev.copy)
           ELSE IF ~canApplyMutationResult(t)
           THEN [ev EXCEPT !.task = IdleTask, !.submitting = FALSE]
           ELSE LET r == loadEnvs([ev EXCEPT !.dialog = NoDialog,
                                      !.own[t.item] = IF t.kind = "create" THEN "in" ELSE "out"],
                                  t.at, FALSE)
                IN [r EXCEPT !.task.pc = "reload", !.task.load = r.seq]

\* Refused, failed, or done with the answer lost: an error is shown.
taskFailed ==
  LET t == ev.task IN
  /\ t.pc = "sent"
  /\ failed(t.kind, t.at, t.item)
  /\ ev' = IF ~ev.mounted THEN Gone(IdleTask, ev.copy)
           ELSE [ev EXCEPT !.task = IdleTask, !.submitting = FALSE, !.own[t.item] = "unknown"]

\* The copy is done: onFinished loads the list of the application where it
\* was started.
copyFinished ==
  LET t == ev.copy IN
  /\ t.pc = "sent"
  /\ accepted("create", t.at, t.item) /\ UNCHANGED others
  /\ ev' = IF ~ev.mounted THEN Gone(ev.task, IdleTask)
           ELSE LET r == loadEnvs([ev EXCEPT !.own[t.item] = IF t.at = ev.at THEN "in" ELSE @],
                                  t.at, TRUE)
                IN [r EXCEPT !.copy.pc = "reload", !.copy.load = r.seq]

\* Without its environment, or the answer about it, the copy ends; no load.
copyFailed ==
  LET t == ev.copy IN
  /\ t.pc = "sent"
  /\ failed("create", t.at, t.item)
  /\ ev' = IF ~ev.mounted THEN Gone(ev.task, IdleTask)
           ELSE [ev EXCEPT !.copy = IdleTask, !.copyBusy = FALSE, !.own[t.item] = "unknown"]

\* The application changes and the page stays: dialogs, rows and flags too.
navigate(p) ==
  /\ CanLoad /\ p # ev.at
  /\ ev' = loadEnvs([ev EXCEPT !.at = p, !.own = [i \in Item |-> "unknown"]], p, FALSE)

\* The page is unmounted; what was sent still reaches the server.
leave ==
  /\ ev.mounted
  /\ ev' = Gone(IF ev.task.pc = "sent" THEN ev.task ELSE IdleTask,
                IF ev.copy.pc = "sent" THEN ev.copy ELSE IdleTask)

LoadStep == \E l \in ev.loads : requestEnvs(l) \/ envsLoaded(l) \/ envsFailed(l)
TaskStep == taskAnswered \/ taskFailed
CopyStep == copyFinished \/ copyFailed

User ==
  \/ \E i \in Item : chooseDelete(i) \/ handleCreate(i) \/ startCopy(i)
  \/ openCreate \/ closeDialog \/ handleDelete \/ leave
  \/ \E p \in EnvPlace : navigate(p)

Next ==
  \/ LoadStep /\ UNCHANGED serverVars
  \/ TaskStep \/ CopyStep
  \/ User /\ UNCHANGED serverVars
  \/ /\ ev.mounted
     /\ \E i \in Item : OtherChange(ev.at, i) /\ ev' = [ev EXCEPT !.own[i] = "unknown"]
-----------------------------------------------------------------------------
(* The parts of the properties that concern this page *)

Settled == ev.mounted /\ \A l \in ev.loads : l.id # ev.seq

PageOK ==
  LET Task == [pc : {"idle", "sent", "reload"}, kind : {"none", "create", "delete"}, at : Place,
               item : Item \cup {0}, load : 0..MaxLoad]
  IN /\ ev.mounted \in BOOLEAN /\ ev.at \in Place /\ ev.envs \subseteq Item /\ ev.failed \in BOOLEAN
     /\ ev.loading \in BOOLEAN /\ ev.submitting \in BOOLEAN /\ ev.copyBusy \in BOOLEAN
     /\ ev.dialog \in [kind : {"none", "create", "delete"}, item : Item \cup {0}]
     /\ ev.task \in Task /\ ev.copy \in Task /\ ev.seq \in 1..MaxLoad

\* A copy that outlives its application shows that one's environments here.
RowsOfLocation == Settled /\ ~ev.failed => ev.byCopy \/ ev.shownAt = ev.at

\* An environment beyond the limit of the request is not shown.
OwnShown ==
  Settled /\ ~ev.failed /\ ev.shownAt = ev.at => \A i \in Item :
    /\ ev.own[i] = "out" => i \notin ev.envs
    /\ ev.own[i] = "in" => i \in ev.envs \/ Cardinality(ev.envs) >= AllRows

Locked == ev.mounted /\ (ev.loading \/ ev.submitting \/ ev.copyBusy)
=============================================================================
