----------------------------- MODULE UsersPage -----------------------------
(***************************************************************************)
(* The console's page of users and their access: the list, the dialogs     *)
(* that add, disable and reset a user, and the dialog that shows and       *)
(* changes the roles bound to one.  Reads of the list overlap; the answer  *)
(* to the dialog's first read may come after a change made in it.          *)
(***************************************************************************)
EXTENDS Naturals, FiniteSets

CONSTANTS
  Account,      \* accounts
  Superadmin,   \* those with the superadmin role
  Cluster,      \* the binding to the whole cluster
  AppBinding,   \* bindings to an application or an environment
  None,         \* no account
  Known,        \* accounts that exist at first
  Limit,        \* the rows asked for: 100
  MaxLoad,      \* bound on the loads of the list
  MaxOther,     \* bound on other administrators' changes and lost answers
  OtherAccount, \* the accounts they change
  OtherBinding  \* the bindings they change

Binding == {Cluster} \cup AppBinding

ASSUME UsersAssumption ==
  /\ None \notin Account /\ Superadmin \subseteq Known /\ Known \subseteq Account
  /\ Cluster \notin AppBinding
  /\ Limit \in Nat \ {0} /\ MaxLoad \in Nat \ {0} /\ MaxOther \in Nat /\ OtherAccount \subseteq Account \ Superadmin
  /\ OtherBinding \subseteq Binding

VARIABLES
  status,         \* server: account to "absent", "enabled" or "disabled"
  bound,          \* server: account to its bindings
  others,         \* changes by other administrators and lost answers
  mounted, requestSeq, loads, loading,
  users,          \* the list shown: account to status
  error,          \* an error is shown in place of the list
  domainOptions,  \* applications and environments on offer; None while asked for
  dialog,         \* the open dialog and its target
  accessBindings, \* the bindings shown
  readOf,         \* history: the account they were read from
  accessLoading,
  opening,        \* the dialog's first read
  submitting,
  task,           \* the change in flight
  own             \* history: status by the page's last acknowledged change

serverVars == <<status, bound, others>>
listVars == <<requestSeq, loads, loading, users, error>>
accessVars == <<accessBindings, readOf, accessLoading, opening>>
vars == <<serverVars, listVars, accessVars, mounted, domainOptions, dialog, submitting, task, own>>

NoUsers == [a \in Account |-> "absent"]
NoDialog == [kind |-> "none", account |-> None]
Dialog(kind, a) == [kind |-> kind, account |-> a]
IdleTask == [pc |-> "idle", kind |-> "none", account |-> None, binding |-> Cluster, load |-> 0]
NoOpening == [pc |-> "none", account |-> None, got |-> {}]

isSuperadminUser(a) == a \in Superadmin
isUserDisabled(a) == users[a] = "disabled"

Init ==
  /\ status = [a \in Account |-> IF a \in Known THEN "enabled" ELSE "absent"]
  /\ bound = [a \in Account |-> {}] /\ others = 0
  /\ mounted = TRUE
  /\ requestSeq = 1 /\ loads = {[id |-> 1, got |-> FALSE, rows |-> NoUsers]} /\ loading = TRUE
  /\ users = NoUsers /\ error = FALSE
  /\ domainOptions = None
  /\ dialog = NoDialog
  /\ accessBindings = {} /\ readOf = None /\ accessLoading = FALSE /\ opening = NoOpening
  /\ submitting = FALSE /\ task = IdleTask
  /\ own = [a \in Account |-> "unknown"]

-----------------------------------------------------------------------------
(* The list *)

loadUsers ==
  /\ requestSeq' = requestSeq + 1 /\ loading' = TRUE
  /\ loads' = loads \cup {[id |-> requestSeq + 1, got |-> FALSE, rows |-> NoUsers]}

Listed(rows) == {a \in Account : rows[a] # "absent"}

\* The accounts of the one page that is asked for: all, if it has room for them.
IsPage(S) ==
  /\ S \subseteq Listed(status)
  /\ IF Cardinality(Listed(status)) <= Limit THEN S = Listed(status) ELSE Cardinality(S) = Limit

\* The server reads the users for a load.
requestUsers(l) ==
  /\ ~l.got
  /\ \E S \in SUBSET Account :
       /\ IsPage(S)
       /\ loads' = (loads \ {l}) \cup
            {[l EXCEPT !.got = TRUE, !.rows = [a \in Account |-> IF a \in S THEN status[a] ELSE "absent"]]}
  /\ UNCHANGED <<serverVars, accessVars, mounted, requestSeq, loading, users, error,
                 domainOptions, dialog, submitting, task, own>>

\* Mutant: any answer counts.
isLatestAny(l) == mounted

isLatest(l) == l.id = requestSeq

\* A change that awaits this load is over.
endTask(l) ==
  IF task.pc = "reload" /\ task.load = l.id THEN task' = IdleTask /\ submitting' = FALSE
  ELSE UNCHANGED <<task, submitting>>

usersLoaded(l) ==
  /\ l.got
  /\ loads' = loads \ {l}
  /\ IF isLatest(l)
     THEN users' = l.rows /\ error' = FALSE /\ loading' = FALSE
     ELSE UNCHANGED <<users, error, loading>>
  /\ endTask(l)
  /\ UNCHANGED <<serverVars, accessVars, mounted, requestSeq, domainOptions, dialog, own>>

usersFailed(l) ==
  /\ loads' = loads \ {l}
  /\ IF isLatest(l)
     THEN users' = NoUsers /\ error' = TRUE /\ loading' = FALSE
     ELSE UNCHANGED <<users, error, loading>>
  /\ endTask(l)
  /\ UNCHANGED <<serverVars, accessVars, mounted, requestSeq, domainOptions, dialog, own>>

\* The applications and environments arrive, or an error: then only the
\* cluster is on offer, and the list is hidden until the error is cleared.
loadDomainOptions ==
  /\ mounted /\ domainOptions = None
  /\ \/ domainOptions' = AppBinding /\ UNCHANGED error
     \/ domainOptions' = {} /\ error' = TRUE
  /\ UNCHANGED <<serverVars, accessVars, requestSeq, loads, loading, users, mounted,
                 dialog, submitting, task, own>>

-----------------------------------------------------------------------------
(* Dialogs, which cover the page *)

tableShown == mounted /\ ~loading /\ ~error /\ dialog = NoDialog /\ ~submitting

openDialog(d) ==
  /\ dialog' = d
  /\ UNCHANGED <<serverVars, requestSeq, loads, loading, users, mounted, domainOptions,
                 submitting, task, own>>

openCreate ==
  /\ mounted /\ dialog = NoDialog /\ ~submitting
  /\ openDialog(Dialog("create", None)) /\ UNCHANGED <<accessVars, error>>

chooseDisable(a) ==
  /\ tableShown /\ users[a] # "absent" /\ ~isUserDisabled(a) /\ ~isSuperadminUser(a)
  /\ openDialog(Dialog("disable", a)) /\ UNCHANGED <<accessVars, error>>

chooseReset(a) ==
  /\ tableShown /\ users[a] # "absent" /\ ~isSuperadminUser(a)
  /\ openDialog(Dialog("reset", a)) /\ UNCHANGED <<accessVars, error>>

handleOpenAccess(a) ==
  /\ tableShown /\ users[a] # "absent" /\ ~isSuperadminUser(a)
  /\ openDialog(Dialog("access", a))
  /\ accessLoading' = TRUE
  /\ opening' = [pc |-> "asked", account |-> a, got |-> {}]
  /\ error' = FALSE
  /\ UNCHANGED <<accessBindings, readOf>>

\* The dialogs that add, disable and reset, and the one about a user's access.
dialogShown(kind) == mounted /\ dialog.kind = kind
accessShown == mounted /\ dialog.kind = "access"

\* closeCreateDialog, closeDisableDialog, closeResetDialog
closeDialog ==
  /\ \E kind \in {"create", "disable", "reset"} : dialogShown(kind)
  /\ ~submitting
  /\ openDialog(NoDialog) /\ UNCHANGED <<accessVars, error>>

\* Mutant: the dialog can be closed while it loads.
closeAccessDialogEarly ==
  /\ accessShown /\ ~submitting
  /\ openDialog(NoDialog)
  /\ accessBindings' = {} /\ readOf' = None
  /\ UNCHANGED <<accessLoading, opening, error>>

closeAccessDialog ==
  /\ accessShown /\ ~submitting /\ ~accessLoading
  /\ openDialog(NoDialog)
  /\ accessBindings' = {} /\ readOf' = None
  /\ UNCHANGED <<accessLoading, opening, error>>

requestUserAccess ==
  /\ opening.pc = "asked"
  /\ opening' = [opening EXCEPT !.pc = "read", !.got = bound[opening.account]]
  /\ UNCHANGED <<serverVars, listVars, mounted, domainOptions, dialog, accessBindings, readOf,
                 accessLoading, submitting, task, own>>

\* handleOpenAccess goes on: the bindings arrive, or an error.
accessOpened ==
  /\ \/ /\ opening.pc = "read"
        /\ accessBindings' = opening.got /\ readOf' = opening.account /\ UNCHANGED error
     \/ /\ opening.pc \in {"asked", "read"}
        /\ error' = TRUE /\ UNCHANGED <<accessBindings, readOf>>
  /\ accessLoading' = FALSE /\ opening' = NoOpening
  /\ UNCHANGED <<serverVars, requestSeq, loads, loading, users, mounted, domainOptions, dialog,
                 submitting, task, own>>

-----------------------------------------------------------------------------
(* Changes *)

start(t) ==
  /\ ~submitting
  /\ requestSeq < MaxLoad  \* every change that succeeds loads the list
  /\ task' = t /\ submitting' = TRUE /\ error' = FALSE
  /\ UNCHANGED <<serverVars, requestSeq, loads, loading, users, accessVars, mounted, domainOptions,
                 dialog, own>>

Task(kind, a) == [IdleTask EXCEPT !.pc = "post", !.kind = kind, !.account = a]

handleAddUser(a) == dialogShown("create") /\ start(Task("add", a))
handleDisableUser == dialogShown("disable") /\ start(Task("disable", dialog.account))
handleResetPassword == dialogShown("reset") /\ start(Task("reset", dialog.account))

\* buildDomain: the cluster, or a domain of the options.
buildDomain == {Cluster} \cup (IF domainOptions = None THEN {} ELSE domainOptions)

\* Open while the dialog still loads.
handleAddBinding(b) ==
  /\ accessShown /\ b \in buildDomain
  /\ start([Task("assign", dialog.account) EXCEPT !.binding = b])

handleRevokeBinding(b) ==
  /\ accessShown /\ ~accessLoading /\ b \in accessBindings
  /\ start([Task("revoke", dialog.account) EXCEPT !.binding = b])

\* The server accepts a change: a reset enables the user again.
accepted ==
  LET a == task.account IN
  \/ task.kind = "add" /\ status[a] = "absent"
     /\ status' = [status EXCEPT ![a] = "enabled"] /\ UNCHANGED bound
  \/ task.kind \in {"disable", "reset"} /\ status[a] # "absent" /\ ~isSuperadminUser(a)
     /\ status' = [status EXCEPT ![a] = IF task.kind = "reset" THEN "enabled" ELSE "disabled"]
     /\ UNCHANGED bound
  \/ task.kind = "assign" /\ bound' = [bound EXCEPT ![a] = @ \cup {task.binding}] /\ UNCHANGED status
  \/ task.kind = "revoke" /\ bound' = [bound EXCEPT ![a] = @ \ {task.binding}] /\ UNCHANGED status

\* The answer closes the dialog and the list is loaded; a changed binding is
\* read back first and the dialog stays.
taskAnswered ==
  /\ task.pc = "post"
  /\ accepted
  /\ IF ~mounted
     THEN task' = IdleTask /\ UNCHANGED <<listVars, dialog, submitting, own>>
     ELSE IF task.kind \in {"assign", "revoke"}
     THEN /\ task' = [task EXCEPT !.pc = "refresh"]
          /\ UNCHANGED <<listVars, dialog, submitting, own>>
     ELSE /\ dialog' = NoDialog
          /\ own' = [own EXCEPT ![task.account] = status'[task.account]]
          /\ loadUsers
          /\ task' = [task EXCEPT !.pc = "reload", !.load = requestSeq + 1]
          /\ UNCHANGED <<users, error, submitting>>
  /\ UNCHANGED <<accessVars, others, mounted, domainOptions>>

\* Refused, or done with the answer lost.
taskFailed ==
  /\ task.pc = "post"
  /\ \/ UNCHANGED <<serverVars, own>>
     \/ /\ accepted /\ own' = [own EXCEPT ![task.account] = "unknown"]
        /\ others < MaxOther /\ others' = others + 1
  /\ task' = IdleTask /\ submitting' = FALSE
  /\ UNCHANGED <<listVars, accessVars, mounted, domainOptions, dialog>>

\* Mutant: the page stays locked when the bindings cannot be read back.
refreshAccessBindingsThrows ==
  /\ task.pc = "refresh"
  /\ accessBindings' = bound[task.account] /\ readOf' = task.account
  /\ task' = IdleTask
  /\ loadUsers
  /\ UNCHANGED <<serverVars, mounted, users, error, domainOptions, dialog, accessLoading,
                 opening, own, submitting>>

\* The bindings are read back, or that fails; the list is loaded in any case, not awaited.
refreshAccessBindings ==
  /\ task.pc = "refresh"
  /\ \/ accessBindings' = bound[task.account] /\ readOf' = task.account
     \/ UNCHANGED <<accessBindings, readOf>>
  /\ task' = IdleTask /\ submitting' = FALSE
  /\ loadUsers
  /\ UNCHANGED <<serverVars, mounted, users, error, domainOptions, dialog, accessLoading,
                 opening, own>>

\* The page goes; a change that was sent still reaches the server.
leave ==
  /\ mounted
  /\ mounted' = FALSE
  /\ requestSeq' = 1 /\ loads' = {} /\ loading' = FALSE /\ users' = NoUsers /\ error' = FALSE
  /\ accessBindings' = {} /\ readOf' = None /\ accessLoading' = FALSE /\ opening' = NoOpening
  /\ dialog' = NoDialog /\ domainOptions' = {} /\ submitting' = FALSE
  /\ task' = IF task.pc = "post" THEN task ELSE IdleTask
  /\ own' = [a \in Account |-> "unknown"]
  /\ UNCHANGED serverVars

OtherChange ==
  /\ mounted /\ others < MaxOther
  /\ others' = others + 1
  /\ \E a \in OtherAccount :
       /\ \/ \E s \in {"enabled", "disabled"} \ {status[a]} :
               /\ status[a] = "absent" => s = "enabled"
               /\ status' = [status EXCEPT ![a] = s] /\ UNCHANGED bound
          \/ \E b \in OtherBinding :
               bound' = [bound EXCEPT ![a] = (@ \ {b}) \cup ({b} \ @)] /\ UNCHANGED status
       /\ own' = [own EXCEPT ![a] = "unknown"]
  /\ UNCHANGED <<listVars, accessVars, mounted, domainOptions, dialog, submitting, task>>

ListStep == \E l \in loads : requestUsers(l) \/ usersLoaded(l) \/ usersFailed(l)
AccessStep == requestUserAccess \/ accessOpened
TaskStep == taskAnswered \/ taskFailed \/ refreshAccessBindings

Next ==
  \/ ListStep \/ AccessStep \/ TaskStep \/ loadDomainOptions
  \/ openCreate \/ closeDialog \/ closeAccessDialog \/ leave
  \/ \E a \in Account : chooseDisable(a) \/ chooseReset(a) \/ handleOpenAccess(a) \/ handleAddUser(a)
  \/ handleDisableUser \/ handleResetPassword
  \/ \E b \in Binding : handleAddBinding(b) \/ handleRevokeBinding(b)
  \/ OtherChange

Spec == Init /\ [][Next]_vars

\* Requests are answered or fail.
FairSpec == Spec /\ WF_vars(ListStep) /\ WF_vars(AccessStep) /\ WF_vars(TaskStep)
-----------------------------------------------------------------------------
(* Properties *)

Status == {"absent", "enabled", "disabled"}

\* Every variable of the page and the server keeps its type (UsersPage's state
\* hooks and refs).
TypeOK ==
  /\ status \in [Account -> Status] /\ bound \in [Account -> SUBSET Binding] /\ others \in 0..MaxOther
  /\ mounted \in BOOLEAN /\ requestSeq \in 1..MaxLoad /\ loading \in BOOLEAN
  /\ loads \subseteq [id : 1..MaxLoad, got : BOOLEAN, rows : [Account -> Status]]
  /\ users \in [Account -> Status] /\ error \in BOOLEAN
  /\ domainOptions \in (SUBSET AppBinding) \cup {None}
  /\ dialog \in [kind : {"none", "create", "disable", "reset", "access"}, account : Account \cup {None}]
  /\ accessBindings \subseteq Binding /\ readOf \in Account \cup {None} /\ accessLoading \in BOOLEAN
  /\ opening \in [pc : {"none", "asked", "read"}, account : Account \cup {None}, got : SUBSET Binding]
  /\ submitting \in BOOLEAN
  /\ task \in [pc : {"idle", "post", "refresh", "reload"}, account : Account \cup {None}, binding : Binding,
               kind : {"none", "add", "disable", "reset", "assign", "revoke"}, load : 0..MaxLoad]
  /\ own \in [Account -> Status \cup {"unknown"}]

Settled == mounted /\ ~loading

\* The bindings shown in the access dialog were read for its user, so a revoke
\* never takes another user's binding: a late first answer cannot reach the
\* dialog of the next user (closeAccessDialog, handleOpenAccess without a
\* sequence number).
BindingsBelongToTarget ==
  /\ dialog.kind = "access" => readOf \in {None, dialog.account}
  /\ dialog.kind # "access" => accessBindings = {} /\ opening = NoOpening

\* Once no load is awaited, the list, unless its load failed, shows every change
\* of this page that the server acknowledged and nobody changed since, in
\* whatever order the loads were answered (requestSeq in loadUsers).  Only an
\* account beyond the page of 100 rows is not shown: requestUsers asks for no
\* more, so a user just added may be missing from a full list.
OwnShown(rows) ==
  \A a \in Account : own[a] # "unknown" =>
    rows[a] = own[a] \/ (rows[a] = "absent" /\ Cardinality(Listed(rows)) = Limit)
OwnChangesShown == Settled /\ users # NoUsers => OwnShown(users)

\* The page never stays locked by its flags, or it is left (the finally blocks
\* of the handlers and of loadUsers).
NeverLocked ==
  (submitting \/ accessLoading \/ loading) ~> (~mounted \/ ~(submitting \/ accessLoading \/ loading))
=============================================================================
