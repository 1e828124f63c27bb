-------------------------- MODULE UsersPageProofs --------------------------
(***************************************************************************)
(* Proofs about the page of users: its type invariant, that the bindings   *)
(* shown belong to the user of the dialog, and that the list shows the     *)
(* page's own changes once it has settled.                                 *)
(***************************************************************************)
EXTENDS UsersPage, TLAPS

Row == [id : 1..MaxLoad, got : BOOLEAN, rows : [Account -> Status]]
Target == Account \cup {None}
DialogType == [kind : {"none", "create", "disable", "reset", "access"}, account : Target]
OpeningType == [pc : {"none", "asked", "read"}, account : Target, got : SUBSET Binding]
TaskType == [pc : {"idle", "post", "refresh", "reload"}, account : Target, binding : Binding,
             kind : {"none", "add", "disable", "reset", "assign", "revoke"}, load : 0..MaxLoad]

\* The open dialog, its first read and the change in flight are about one
\* account: a dialog is closed only when neither is under way.
DialogInv ==
  /\ dialog.kind \in {"disable", "reset", "access"} => dialog.account \in Account
  /\ opening.pc = "none" => opening = NoOpening
  /\ opening.pc # "none" => /\ accessLoading /\ dialog.kind = "access"
                            /\ opening.account = dialog.account
  /\ dialog.kind # "access" => accessBindings = {} /\ readOf = None
  /\ dialog.kind = "access" => readOf \in {None, dialog.account}

\* A change is in flight exactly while the page is locked, unless it was left,
\* and the load that follows it is within the bound.
TaskInv ==
  /\ task.pc # "idle" => task.account \in Account
  /\ mounted /\ task.pc # "idle" => submitting
  /\ task.pc \in {"refresh", "reload"} => mounted
  /\ mounted /\ task.pc \in {"post", "refresh"} => requestSeq < MaxLoad
  /\ mounted /\ task.pc \in {"post", "refresh"} /\ task.kind \in {"assign", "revoke"}
       => dialog.kind = "access" /\ dialog.account = task.account
  /\ mounted /\ task.pc = "post" /\ task.kind \notin {"assign", "revoke"} => dialog.kind # "access"
  /\ task.pc = "refresh" => task.kind \in {"assign", "revoke"}

\* The type invariant in four parts.
ServerOK ==
  /\ status \in [Account -> Status] /\ bound \in [Account -> SUBSET Binding] /\ others \in 0..MaxOther
  /\ own \in [Account -> Status \cup {"unknown"}]
ListOK ==
  /\ mounted \in BOOLEAN /\ requestSeq \in 1..MaxLoad /\ loading \in BOOLEAN /\ loads \subseteq Row
  /\ users \in [Account -> Status] /\ error \in BOOLEAN
  /\ domainOptions \in (SUBSET AppBinding) \cup {None}
AccessOK ==
  /\ dialog \in DialogType /\ opening \in OpeningType /\ accessBindings \subseteq Binding
  /\ readOf \in Target /\ accessLoading \in BOOLEAN
TaskOK == submitting \in BOOLEAN /\ task \in TaskType

Typed == ServerOK /\ ListOK /\ AccessOK /\ TaskOK

PageInv == Typed /\ DialogInv /\ TaskInv

\* The steps that open and close dialogs, and those that start a change.
DialogStep ==
  \/ openCreate \/ closeDialog \/ closeAccessDialog
  \/ \E a \in Account : chooseDisable(a) \/ chooseReset(a) \/ handleOpenAccess(a)
StartStep ==
  \/ \E a \in Account : handleAddUser(a)
  \/ handleDisableUser \/ handleResetPassword
  \/ \E b \in Binding : handleAddBinding(b) \/ handleRevokeBinding(b)

LEMMA Shapes ==
  /\ NoDialog \in DialogType /\ NoDialog.kind = "none"
  /\ NoOpening \in OpeningType /\ NoOpening.pc = "none"
  /\ NoUsers \in [Account -> Status]
  /\ IdleTask \in TaskType /\ IdleTask.pc = "idle"
BY UsersAssumption DEF NoDialog, DialogType, NoOpening, OpeningType, NoUsers, IdleTask, TaskType,
   Target, Binding, Status

\* What a task, a load, a dialog and its first read are made of.
LEMMA TaskShape ==
  ASSUME NEW kind \in {"add", "disable", "reset", "assign", "revoke"}, NEW a \in Account
  PROVE  /\ Task(kind, a) \in TaskType
         /\ Task(kind, a).pc = "post" /\ Task(kind, a).kind = kind /\ Task(kind, a).account = a
<1>1. IdleTask \in TaskType /\ a \in Target
  BY Shapes DEF Target
<1> QED
  BY <1>1 DEF Task, TaskType

LEMMA BindingShape ==
  ASSUME NEW kind \in {"assign", "revoke"}, NEW a \in Account, NEW b \in Binding
  PROVE  /\ [Task(kind, a) EXCEPT !.binding = b] \in TaskType
         /\ [Task(kind, a) EXCEPT !.binding = b].pc = "post"
         /\ [Task(kind, a) EXCEPT !.binding = b].kind = kind
         /\ [Task(kind, a) EXCEPT !.binding = b].account = a
BY TaskShape DEF TaskType

LEMMA InitInv == Init => PageInv
<1> SUFFICES ASSUME Init PROVE PageInv
  OBVIOUS
<1>1. Typed
  <2>1. 1 \in 1..MaxLoad /\ 0 \in 0..MaxOther
    BY UsersAssumption
  <2>2. [id |-> 1, got |-> FALSE, rows |-> NoUsers] \in Row
    BY <2>1, Shapes DEF Row
  <2>3. ServerOK
    BY <2>1 DEF Init, ServerOK, Status
  <2>4. ListOK
    <3>1. loads \subseteq Row /\ requestSeq \in 1..MaxLoad
      BY <2>1, <2>2 DEF Init
    <3>2. mounted = TRUE /\ loading = TRUE /\ users = NoUsers /\ error = FALSE /\ domainOptions = None
      BY DEF Init
    <3>3. mounted \in BOOLEAN /\ loading \in BOOLEAN /\ error \in BOOLEAN
      BY <3>2
    <3>4. users \in [Account -> Status]
      <4>1. users = NoUsers
        BY <3>2
      <4> QED
        BY <4>1, Shapes
    <3>5. domainOptions \in (SUBSET AppBinding) \cup {None}
      BY <3>2
    <3> QED
      BY <3>1, <3>3, <3>4, <3>5 DEF ListOK
  <2>5. AccessOK /\ TaskOK
    BY Shapes DEF Init, AccessOK, TaskOK, Target
  <2> QED
    BY <2>3, <2>4, <2>5 DEF Typed
<1>2. DialogInv
  BY Shapes DEF Init, DialogInv
<1>3. TaskInv
  BY Shapes DEF Init, TaskInv
<1> QED
  BY <1>1, <1>2, <1>3 DEF PageInv

\* The rows of the page that holds the accounts S.
Page(S) == [a \in Account |-> IF a \in S THEN status[a] ELSE "absent"]

\* Answers to loads of the list.
LEMMA ListStepInv == ASSUME PageInv, ListStep PROVE PageInv'
<1>1. PICK l \in loads : requestUsers(l) \/ usersLoaded(l) \/ usersFailed(l)
  BY DEF ListStep
<1>2. CASE requestUsers(l)
  <2>0. PICK S \in SUBSET Account : loads' = (loads \ {l}) \cup {[l EXCEPT !.got = TRUE, !.rows = Page(S)]}
    BY <1>2 DEF requestUsers, Page
  <2>1. [l EXCEPT !.got = TRUE, !.rows = Page(S)] \in Row
    <3>1. Page(S) \in [Account -> Status]
      BY DEF PageInv, Typed, ServerOK, Page, Status
    <3> QED
      BY <3>1 DEF PageInv, Typed, ListOK, Row
  <2>2. Typed'
    BY <1>2, <2>0, <2>1 DEF PageInv, Typed, ServerOK, ListOK, AccessOK, TaskOK, requestUsers, serverVars, accessVars
  <2>3. DialogInv' /\ TaskInv'
    BY <1>2 DEF PageInv, DialogInv, TaskInv, requestUsers, serverVars, accessVars
  <2> QED
    BY <2>2, <2>3 DEF PageInv
<1>3. CASE usersLoaded(l) \/ usersFailed(l)
  <2>1. /\ loads' = loads \ {l} /\ users' \in {users, l.rows, NoUsers} /\ error' \in {error, TRUE, FALSE}
        /\ loading' \in {loading, FALSE} /\ endTask(l)
        /\ UNCHANGED <<serverVars, accessVars, mounted, requestSeq, domainOptions, dialog, own>>
    BY <1>3 DEF usersLoaded, usersFailed
  <2>2. \/ task' = IdleTask /\ submitting' = FALSE
        \/ UNCHANGED <<task, submitting>>
    BY <2>1 DEF endTask
  <2>0. l.rows \in [Account -> Status]
    BY DEF PageInv, Typed, ListOK, Row
  <2>3. Typed'
    BY <2>0, <2>1, <2>2, Shapes DEF PageInv, Typed, ServerOK, ListOK, AccessOK, TaskOK, serverVars, accessVars
  <2>4. DialogInv' /\ TaskInv'
    BY <2>1, <2>2, Shapes DEF PageInv, DialogInv, TaskInv, serverVars, accessVars
  <2> QED
    BY <2>3, <2>4 DEF PageInv
<1> QED
  BY <1>1, <1>2, <1>3

\* Dialogs open and close; a close is refused while a change or a read is under way.
LEMMA DialogStepInv == ASSUME PageInv, DialogStep PROVE PageInv'
<1> USE Shapes
<1>1. CASE openCreate \/ closeDialog \/ \E a \in Account : chooseDisable(a) \/ chooseReset(a)
  <2>1. ~submitting /\ dialog.kind # "access" /\ UNCHANGED <<accessVars, error>>
    BY <1>1 DEF openCreate, closeDialog, chooseDisable, chooseReset, tableShown, dialogShown
  <2>2. PICK d \in DialogType :
          /\ openDialog(d) /\ d.kind # "access"
          /\ d.kind \in {"disable", "reset"} => d.account \in Account
    <3>1. CASE openCreate
      BY <3>1 DEF openCreate, Dialog, DialogType, Target
    <3>2. CASE closeDialog
      BY <3>2 DEF closeDialog
    <3>3. ASSUME NEW a \in Account, chooseDisable(a) \/ chooseReset(a)
          PROVE  \E d \in DialogType : /\ openDialog(d) /\ d.kind # "access"
                                       /\ d.kind \in {"disable", "reset"} => d.account \in Account
      BY <3>3 DEF chooseDisable, chooseReset, Dialog, DialogType, Target
    <3> QED
      BY <1>1, <3>1, <3>2, <3>3
  <2>3. Typed'
    BY <2>1, <2>2 DEF PageInv, Typed, ServerOK, ListOK, AccessOK, TaskOK, openDialog, serverVars, accessVars
  <2>4. DialogInv'
    BY <2>1, <2>2 DEF PageInv, DialogInv, openDialog, accessVars
  <2>5. TaskInv'
    BY <2>1, <2>2 DEF PageInv, Typed, ServerOK, ListOK, AccessOK, TaskOK, TaskInv, openDialog
  <2> QED
    BY <2>3, <2>4, <2>5 DEF PageInv
<1>2. CASE closeAccessDialog
  <2>1. Typed'
    BY <1>2 DEF closeAccessDialog, PageInv, Typed, ServerOK, ListOK, AccessOK, TaskOK, openDialog, serverVars, Target
  <2>2. opening.pc = "none"
    BY <1>2 DEF closeAccessDialog, PageInv, DialogInv
  <2>3. DialogInv'
    BY <1>2, <2>2 DEF closeAccessDialog, PageInv, DialogInv, openDialog
  <2>4. TaskInv'
    BY <1>2 DEF closeAccessDialog, PageInv, Typed, ServerOK, ListOK, AccessOK, TaskOK, TaskInv, openDialog
  <2> QED
    BY <2>1, <2>3, <2>4 DEF PageInv
<1>3. ASSUME NEW a \in Account, handleOpenAccess(a) PROVE PageInv'
  <2>1. /\ ~submitting /\ dialog.kind # "access" /\ openDialog(Dialog("access", a))
        /\ accessLoading' = TRUE /\ opening' = [pc |-> "asked", account |-> a, got |-> {}]
        /\ error' = FALSE /\ UNCHANGED <<accessBindings, readOf>>
    BY <1>3 DEF handleOpenAccess, tableShown
  <2>2. dialog' \in DialogType /\ dialog'.kind = "access" /\ dialog'.account = a
    BY <2>1 DEF openDialog, Dialog, DialogType, Target
  <2>3. opening' \in OpeningType /\ opening'.pc = "asked" /\ opening'.account = a
    BY <2>1 DEF OpeningType, Target
  <2>4. Typed'
    BY <2>1, <2>2, <2>3 DEF PageInv, Typed, ServerOK, ListOK, AccessOK, TaskOK, openDialog, serverVars
  <2>5. DialogInv'
    BY <2>1, <2>2, <2>3 DEF PageInv, DialogInv
  <2>6. TaskInv'
    BY <2>1 DEF PageInv, Typed, ServerOK, ListOK, AccessOK, TaskOK, TaskInv, openDialog
  <2> QED
    BY <2>4, <2>5, <2>6 DEF PageInv
<1> QED
  BY <1>1, <1>2, <1>3 DEF DialogStep

\* The first read of the access dialog, and the options for a binding.
LEMMA AccessStepInv == ASSUME PageInv, AccessStep \/ loadDomainOptions PROVE PageInv'
<1> USE Shapes
<1>1. CASE requestUserAccess
  <2>1. opening.account \in Account
    BY <1>1 DEF requestUserAccess, PageInv, DialogInv
  <2>2. /\ opening' \in OpeningType /\ opening'.pc = "read" /\ opening'.account = opening.account
    BY <1>1, <2>1 DEF requestUserAccess, PageInv, Typed, ServerOK, ListOK, AccessOK, TaskOK, OpeningType, Target
  <2>3. Typed'
    BY <1>1, <2>2 DEF requestUserAccess, PageInv, Typed, ServerOK, ListOK, AccessOK, TaskOK, serverVars, listVars
  <2>4. DialogInv' /\ TaskInv'
    BY <1>1, <2>2 DEF requestUserAccess, PageInv, DialogInv, TaskInv, listVars
  <2> QED
    BY <2>3, <2>4 DEF PageInv
<1>2. CASE accessOpened
  <2>1. /\ opening.pc # "none"
        /\ \/ accessBindings' = opening.got /\ readOf' = opening.account /\ error' = error
           \/ accessBindings' = accessBindings /\ readOf' = readOf /\ error' = TRUE
        /\ accessLoading' = FALSE /\ opening' = NoOpening
        /\ UNCHANGED <<serverVars, requestSeq, loads, loading, users, mounted, domainOptions, dialog,
                       submitting, task, own>>
    BY <1>2 DEF accessOpened
  <2>2. dialog.kind = "access" /\ opening.account = dialog.account
    BY <2>1 DEF PageInv, DialogInv
  <2>0. opening.got \subseteq Binding /\ opening.account \in Target
    BY DEF PageInv, Typed, AccessOK, OpeningType
  <2>3. Typed'
    BY <2>0, <2>1 DEF PageInv, Typed, ServerOK, ListOK, AccessOK, TaskOK, serverVars
  <2>4. DialogInv' /\ TaskInv'
    BY <2>1, <2>2 DEF PageInv, DialogInv, TaskInv
  <2> QED
    BY <2>3, <2>4 DEF PageInv
<1>3. CASE loadDomainOptions
  <2>1. Typed'
    BY <1>3 DEF loadDomainOptions, PageInv, Typed, ServerOK, ListOK, AccessOK, TaskOK, serverVars, accessVars
  <2>2. DialogInv' /\ TaskInv'
    BY <1>3 DEF loadDomainOptions, PageInv, DialogInv, TaskInv, accessVars
  <2> QED
    BY <2>1, <2>2 DEF PageInv
<1> QED
  BY <1>1, <1>2, <1>3 DEF AccessStep

\* A change is started for the target of its dialog.
LEMMA StartInv == ASSUME PageInv, StartStep PROVE PageInv'
<1>1. \E t \in TaskType :
        /\ start(t) /\ mounted /\ t.pc = "post" /\ t.account \in Account
        /\ t.kind \in {"assign", "revoke"} => dialog.kind = "access" /\ dialog.account = t.account
        /\ t.kind \notin {"assign", "revoke"} => dialog.kind # "access"
  <2>1. CASE \E a \in Account : handleAddUser(a)
    <3>1. PICK a \in Account : handleAddUser(a)
      BY <2>1
    <3>2. /\ Task("add", a) \in TaskType /\ Task("add", a).pc = "post"
          /\ Task("add", a).kind = "add" /\ Task("add", a).account = a
      BY <3>1, TaskShape
    <3>3. start(Task("add", a)) /\ mounted /\ dialog.kind # "access"
      BY <3>1 DEF handleAddUser, dialogShown
    <3> QED
      BY <3>1, <3>2, <3>3
  <2>2. CASE handleDisableUser
    <3>1. dialog.account \in Account
      BY <2>2 DEF handleDisableUser, dialogShown, PageInv, DialogInv
    <3>2. /\ Task("disable", dialog.account) \in TaskType /\ Task("disable", dialog.account).pc = "post"
          /\ Task("disable", dialog.account).kind = "disable" /\ Task("disable", dialog.account).account = dialog.account
      BY <3>1, TaskShape
    <3>3. start(Task("disable", dialog.account)) /\ mounted /\ dialog.kind # "access"
      BY <2>2 DEF handleDisableUser, dialogShown
    <3> QED
      BY <3>1, <3>2, <3>3
  <2>3. CASE handleResetPassword
    <3>1. dialog.account \in Account
      BY <2>3 DEF handleResetPassword, dialogShown, PageInv, DialogInv
    <3>2. /\ Task("reset", dialog.account) \in TaskType /\ Task("reset", dialog.account).pc = "post"
          /\ Task("reset", dialog.account).kind = "reset" /\ Task("reset", dialog.account).account = dialog.account
      BY <3>1, TaskShape
    <3>3. start(Task("reset", dialog.account)) /\ mounted /\ dialog.kind # "access"
      BY <2>3 DEF handleResetPassword, dialogShown
    <3> QED
      BY <3>1, <3>2, <3>3
  <2>4. CASE \E b \in Binding : handleAddBinding(b) \/ handleRevokeBinding(b)
    <3>1. dialog.kind = "access" /\ mounted /\ dialog.account \in Account
      BY <2>4 DEF handleAddBinding, handleRevokeBinding, accessShown, PageInv, DialogInv
    <3>2. PICK b \in Binding, kind \in {"assign", "revoke"} :
            start([Task(kind, dialog.account) EXCEPT !.binding = b])
      BY <2>4 DEF handleAddBinding, handleRevokeBinding
    <3> DEFINE t == [Task(kind, dialog.account) EXCEPT !.binding = b]
    <3>3. t \in TaskType /\ t.pc = "post" /\ t.kind = kind /\ t.account = dialog.account
      BY <3>1, BindingShape
    <3> HIDE DEF t
    <3>4. start(t)
      BY <3>2 DEF t
    <3> QED
      BY <3>1, <3>3, <3>4
  <2> QED
    BY <2>1, <2>2, <2>3, <2>4 DEF StartStep
<1>2. PICK t \in TaskType :
        /\ start(t) /\ mounted /\ t.pc = "post" /\ t.account \in Account
        /\ t.kind \in {"assign", "revoke"} => dialog.kind = "access" /\ dialog.account = t.account
        /\ t.kind \notin {"assign", "revoke"} => dialog.kind # "access"
  BY <1>1
<1>3. Typed'
  BY <1>2 DEF start, PageInv, Typed, ServerOK, ListOK, AccessOK, TaskOK, serverVars, accessVars
<1>4. DialogInv'
  BY <1>2 DEF start, PageInv, DialogInv, accessVars
<1>5. TaskInv'
  BY <1>2 DEF start, PageInv, TaskInv
<1> QED
  BY <1>3, <1>4, <1>5 DEF PageInv

\* What the server does with a change it accepts.
LEMMA AcceptedShape ==
  ASSUME PageInv, task.pc = "post", accepted
  PROVE  /\ status' \in [Account -> Status] /\ bound' \in [Account -> SUBSET Binding]
         /\ \A a \in Account : a # task.account => status'[a] = status[a]
         /\ task.kind \in {"assign", "revoke"} => status' = status
<1>1. task.account \in Account /\ task.binding \in Binding
  BY DEF PageInv, TaskInv, Typed, TaskOK, TaskType
<1>2. \/ status' = status /\ bound' = [bound EXCEPT ![task.account] = @ \cup {task.binding}]
      \/ status' = status /\ bound' = [bound EXCEPT ![task.account] = @ \ {task.binding}]
      \/ /\ \E s \in Status : status' = [status EXCEPT ![task.account] = s]
         /\ bound' = bound /\ task.kind \notin {"assign", "revoke"}
  BY DEF accepted, Status
<1> QED
  BY <1>1, <1>2 DEF PageInv, Typed, ServerOK, ListOK, AccessOK, TaskOK

\* A new load of the list, within the bound.
LEMMA LoadShape ==
  ASSUME Typed, loadUsers, requestSeq < MaxLoad
  PROVE  /\ requestSeq' \in 1..MaxLoad /\ requestSeq' = requestSeq + 1 /\ loading' = TRUE
         /\ loads' \subseteq Row
         /\ \A l \in loads' : l \in loads \/ (l.id = requestSeq + 1 /\ ~l.got)
<1>1. requestSeq + 1 \in 1..MaxLoad
  BY UsersAssumption DEF Typed, ServerOK, ListOK, AccessOK, TaskOK
<1>2. [id |-> requestSeq + 1, got |-> FALSE, rows |-> NoUsers] \in Row
  BY <1>1, Shapes DEF Row
<1>3. /\ requestSeq' = requestSeq + 1 /\ loading' = TRUE
      /\ loads' = loads \cup {[id |-> requestSeq + 1, got |-> FALSE, rows |-> NoUsers]}
  BY DEF loadUsers
<1>4. loads' \subseteq Row
  BY <1>2, <1>3 DEF Typed, ListOK
<1>5. \A l \in loads' : l \in loads \/ (l.id = requestSeq + 1 /\ ~l.got)
  <2> DEFINE r == [id |-> requestSeq + 1, got |-> FALSE, rows |-> NoUsers]
  <2>1. r.id = requestSeq + 1 /\ ~r.got
    OBVIOUS
  <2>2. loads' = loads \cup {r}
    BY <1>3
  <2> HIDE DEF r
  <2> SUFFICES ASSUME NEW l \in loads', l \notin loads PROVE l.id = requestSeq + 1 /\ ~l.got
    OBVIOUS
  <2>3. l = r
    BY <2>2
  <2> QED
    BY <2>1, <2>3
<1> QED
  BY <1>1, <1>3, <1>4, <1>5

\* The answer to a change, and the bindings read back after it.
LEMMA TaskStepInv == ASSUME PageInv, TaskStep PROVE PageInv'
<1> USE Shapes
<1>1. CASE taskAnswered /\ ~mounted
  <2>1. Typed'
    BY <1>1, AcceptedShape
       DEF taskAnswered, PageInv, Typed, ServerOK, ListOK, AccessOK, TaskOK, listVars, accessVars
  <2>2. DialogInv' /\ TaskInv'
    BY <1>1 DEF taskAnswered, PageInv, DialogInv, TaskInv, listVars, accessVars
  <2> QED
    BY <2>1, <2>2 DEF PageInv
<1>2. CASE taskAnswered /\ mounted /\ task.kind \in {"assign", "revoke"}
  <2>1. /\ task' \in TaskType /\ task'.pc = "refresh" /\ task'.kind = task.kind
        /\ task'.account = task.account
    BY <1>2 DEF taskAnswered, PageInv, Typed, ServerOK, ListOK, AccessOK, TaskOK, TaskType, Target
  <2>2. Typed'
    BY <1>2, <2>1, AcceptedShape
       DEF taskAnswered, PageInv, Typed, ServerOK, ListOK, AccessOK, TaskOK, listVars, accessVars
  <2>3. DialogInv'
    BY <1>2 DEF taskAnswered, PageInv, DialogInv, listVars, accessVars
  <2>4. TaskInv'
    BY <1>2, <2>1 DEF taskAnswered, PageInv, TaskInv, listVars, accessVars
  <2> QED
    BY <2>2, <2>3, <2>4 DEF PageInv
<1>3. CASE taskAnswered /\ mounted /\ task.kind \notin {"assign", "revoke"}
  <2>1. /\ task.pc = "post" /\ accepted /\ dialog' = NoDialog /\ loadUsers
        /\ own' = [own EXCEPT ![task.account] = status'[task.account]]
        /\ task' = [task EXCEPT !.pc = "reload", !.load = requestSeq + 1]
        /\ UNCHANGED <<users, error, submitting, accessVars, others, mounted, domainOptions>>
    BY <1>3 DEF taskAnswered
  <2>2. requestSeq < MaxLoad /\ task.account \in Account /\ submitting
    BY <1>3, <2>1 DEF PageInv, TaskInv
  <2>3. /\ requestSeq' \in 1..MaxLoad /\ requestSeq' = requestSeq + 1 /\ loads' \subseteq Row
        /\ loading' = TRUE
    BY <2>1, <2>2, LoadShape DEF PageInv
  <2>4. task' \in TaskType /\ task'.pc = "reload" /\ task'.account = task.account
    <3>1. requestSeq + 1 \in 0..MaxLoad
      BY <2>3
    <3> QED
      BY <2>1, <3>1 DEF PageInv, Typed, TaskOK, TaskType
  <2>5. own' \in [Account -> Status \cup {"unknown"}]
    BY <2>1, <2>2, AcceptedShape DEF PageInv, Typed, ServerOK, ListOK, AccessOK, TaskOK
  <2>6. Typed'
    BY <2>1, <2>3, <2>4, <2>5, AcceptedShape
       DEF PageInv, Typed, ServerOK, ListOK, AccessOK, TaskOK, accessVars
  <2>7. DialogInv'
    BY <1>3, <2>1 DEF PageInv, DialogInv, TaskInv, accessVars
  <2>8. TaskInv'
    BY <1>3, <2>1, <2>2, <2>4 DEF PageInv, TaskInv
  <2> QED
    BY <2>6, <2>7, <2>8 DEF PageInv
<1>4. CASE taskFailed
  <2>1. /\ task.pc = "post" /\ task' = IdleTask /\ submitting' = FALSE
        /\ UNCHANGED <<listVars, accessVars, mounted, domainOptions, dialog>>
    BY <1>4 DEF taskFailed
  <2>2. /\ status' \in [Account -> Status] /\ bound' \in [Account -> SUBSET Binding]
        /\ others' \in 0..MaxOther /\ own' \in [Account -> Status \cup {"unknown"}]
    <3>1. CASE UNCHANGED <<serverVars, own>>
      BY <3>1 DEF PageInv, Typed, ServerOK, ListOK, AccessOK, TaskOK, serverVars
    <3>2. CASE accepted /\ own' = [own EXCEPT ![task.account] = "unknown"]
               /\ others < MaxOther /\ others' = others + 1
      <4>1. others' \in 0..MaxOther
        BY <3>2, UsersAssumption DEF PageInv, Typed, ServerOK
      <4>2. own' \in [Account -> Status \cup {"unknown"}]
        BY <3>2 DEF PageInv, Typed, ServerOK
      <4> QED
        BY <2>1, <3>2, <4>1, <4>2, AcceptedShape
    <3> QED
      BY <1>4, <3>1, <3>2 DEF taskFailed
  <2>3. Typed'
    BY <2>1, <2>2 DEF PageInv, Typed, ServerOK, ListOK, AccessOK, TaskOK, listVars, accessVars
  <2>4. DialogInv' /\ TaskInv'
    BY <2>1 DEF PageInv, DialogInv, TaskInv, listVars, accessVars
  <2> QED
    BY <2>3, <2>4 DEF PageInv
<1>5. CASE refreshAccessBindings
  <2>1. /\ task.pc = "refresh" /\ task' = IdleTask /\ submitting' = FALSE /\ loadUsers
        /\ \/ accessBindings' = bound[task.account] /\ readOf' = task.account
           \/ UNCHANGED <<accessBindings, readOf>>
        /\ UNCHANGED <<serverVars, mounted, users, error, domainOptions, dialog, accessLoading,
                       opening, own>>
    BY <1>5 DEF refreshAccessBindings
  <2>2. /\ mounted /\ requestSeq < MaxLoad /\ task.account \in Account
        /\ dialog.kind = "access" /\ dialog.account = task.account
    BY <2>1 DEF PageInv, TaskInv
  <2>3. requestSeq' \in 1..MaxLoad /\ loads' \subseteq Row /\ loading' = TRUE
    BY <2>1, <2>2, LoadShape DEF PageInv
  <2>4. Typed'
    <3>1. bound[task.account] \subseteq Binding
      BY <2>2 DEF PageInv, Typed, ServerOK
    <3> QED
      BY <2>1, <2>2, <2>3, <3>1 DEF PageInv, Typed, ServerOK, ListOK, AccessOK, TaskOK, serverVars, Target
  <2>5. DialogInv' /\ TaskInv'
    BY <2>1, <2>2 DEF PageInv, DialogInv, TaskInv
  <2> QED
    BY <2>4, <2>5 DEF PageInv
<1> QED
  BY <1>1, <1>2, <1>3, <1>4, <1>5 DEF TaskStep

\* The page is left, or another administrator makes a change.
LEMMA OutsideStepInv == ASSUME PageInv, leave \/ OtherChange PROVE PageInv'
<1> USE Shapes
<1>1. CASE leave
  <2>1. requestSeq' \in 1..MaxLoad
    BY <1>1, UsersAssumption DEF leave
  <2>2. \/ task' = task /\ task.pc = "post"
        \/ task' = IdleTask
    BY <1>1 DEF leave
  <2>3. Typed'
    <3>1. ServerOK'
      BY <1>1 DEF leave, PageInv, Typed, ServerOK, serverVars
    <3>2. ListOK'
      BY <1>1, <2>1 DEF leave, ListOK
    <3>3. AccessOK'
      BY <1>1 DEF leave, AccessOK, Target
    <3>4. TaskOK'
      BY <1>1, <2>2 DEF leave, PageInv, Typed, TaskOK
    <3> QED
      BY <3>1, <3>2, <3>3, <3>4 DEF Typed
  <2>4. DialogInv' /\ TaskInv'
    BY <1>1, <2>2 DEF leave, PageInv, DialogInv, TaskInv
  <2> QED
    BY <2>3, <2>4 DEF PageInv
<1>2. CASE OtherChange
  <2>1. PICK a \in Account :
          /\ \/ /\ \E s \in Status : status' = [status EXCEPT ![a] = s]
                /\ bound' = bound
             \/ /\ \E b \in Binding : bound' = [bound EXCEPT ![a] = (@ \ {b}) \cup ({b} \ @)]
                /\ status' = status
          /\ own' = [own EXCEPT ![a] = "unknown"]
    BY <1>2, UsersAssumption DEF OtherChange, Status
  <2>2. others' \in 0..MaxOther
    BY <1>2, UsersAssumption DEF OtherChange, PageInv, Typed, ServerOK, ListOK, AccessOK, TaskOK
  <2>3. /\ status' \in [Account -> Status] /\ bound' \in [Account -> SUBSET Binding]
        /\ own' \in [Account -> Status \cup {"unknown"}]
    BY <2>1 DEF PageInv, Typed, ServerOK, ListOK, AccessOK, TaskOK
  <2>4. Typed'
    BY <1>2, <2>2, <2>3 DEF OtherChange, PageInv, Typed, ServerOK, ListOK, AccessOK, TaskOK, listVars, accessVars
  <2>5. DialogInv' /\ TaskInv'
    BY <1>2 DEF OtherChange, PageInv, DialogInv, TaskInv, listVars, accessVars
  <2> QED
    BY <2>4, <2>5 DEF PageInv
<1> QED
  BY <1>1, <1>2

LEMMA StutterInv == ASSUME PageInv, UNCHANGED vars PROVE PageInv'
BY DEF PageInv, Typed, ServerOK, ListOK, AccessOK, TaskOK, DialogInv, TaskInv, vars, serverVars, listVars, accessVars

\* Every step preserves the page's invariant.
LEMMA NextInv == ASSUME PageInv, [Next]_vars PROVE PageInv'
<1>1. CASE ListStep
  BY <1>1, ListStepInv
<1>2. CASE AccessStep \/ loadDomainOptions
  BY <1>2, AccessStepInv
<1>3. CASE TaskStep
  BY <1>3, TaskStepInv
<1>4. CASE leave \/ OtherChange
  BY <1>4, OutsideStepInv
<1>5. CASE DialogStep
  BY <1>5, DialogStepInv
<1>6. CASE StartStep
  BY <1>6, StartInv
<1>7. CASE UNCHANGED vars
  BY <1>7, StutterInv
<1> QED
  BY <1>1, <1>2, <1>3, <1>4, <1>5, <1>6, <1>7 DEF Next, DialogStep, StartStep

LEMMA PageInvariant == Spec => []PageInv
<1>1. PageInv /\ [Next]_vars => PageInv'
  BY NextInv
<1> QED
  BY <1>1, InitInv, PTL DEF Spec

\* Every variable of the page and of the server keeps its type: the bound on the
\* loads is respected because a change reserves the load that follows it.
THEOREM TypeCorrect == Spec => []TypeOK
<1>1. PageInv => TypeOK
  BY DEF PageInv, Typed, TypeOK, ServerOK, ListOK, AccessOK, TaskOK, Row, Target, DialogType, OpeningType, TaskType
<1> QED
  BY <1>1, PageInvariant, PTL

\* The bindings shown in the access dialog are those of its user, however late
\* the dialog's first read or a read back is answered.
THEOREM BindingsAreTheTargets == Spec => []BindingsBelongToTarget
<1>1. PageInv => BindingsBelongToTarget
  BY DEF PageInv, DialogInv, BindingsBelongToTarget
<1> QED
  BY <1>1, PageInvariant, PTL

-----------------------------------------------------------------------------
(* The page's own changes *)

\* The server still has what the page was told it has, and an answer to the
\* latest load was read after the last such change.
OwnInv ==
  /\ ~mounted => \A a \in Account : own[a] = "unknown"
  /\ \A a \in Account : own[a] # "unknown" => status[a] = own[a]
  /\ \A l \in loads : l.id <= requestSeq
  /\ \A l \in loads : l.got /\ l.id = requestSeq =>
       OwnShown(l.rows)
  /\ OwnChangesShown

LEMMA OwnInit == Init => OwnInv
BY DEF Init, OwnInv, OwnChangesShown, Settled

\* Answers to loads: only the latest is shown.
LEMMA OwnList == ASSUME PageInv, OwnInv, ListStep PROVE OwnInv'
<1>1. PICK l \in loads : requestUsers(l) \/ usersLoaded(l) \/ usersFailed(l)
  BY DEF ListStep
<1>2. CASE requestUsers(l)
  <2>0. PICK S \in SUBSET Account :
          IsPage(S) /\ loads' = (loads \ {l}) \cup {[l EXCEPT !.got = TRUE, !.rows = Page(S)]}
    BY <1>2 DEF requestUsers, Page
  <2> DEFINE r == [l EXCEPT !.got = TRUE, !.rows = Page(S)]
  <2>1. r.id = l.id /\ r.rows = Page(S)
    BY DEF PageInv, Typed, ListOK, Row
  <2>2. /\ loads' = (loads \ {l}) \cup {r}
        /\ UNCHANGED <<status, mounted, requestSeq, loading, users, own>>
    BY <1>2, <2>0 DEF requestUsers, serverVars
  <2> HIDE DEF r
  <2>3. OwnShown(Page(S))
    <3>1. Listed(Page(S)) = S /\ \A a \in S : Page(S)[a] = status[a]
      BY <2>0 DEF Listed, IsPage, Page
    <3>2. \A a \in Account \ S : Page(S)[a] = "absent" /\ (status[a] # "absent" => Cardinality(S) = Limit)
      BY <2>0 DEF Listed, IsPage, Page
    <3> QED
      BY <3>1, <3>2 DEF OwnShown, OwnInv
  <2>4. \A x : OwnShown(x) => OwnShown(x)'
    BY <2>2 DEF OwnShown
  <2> QED
    BY <2>1, <2>2, <2>3, <2>4 DEF OwnInv, OwnChangesShown, Settled
<1>3. CASE usersLoaded(l)
  <2>1. /\ l.got /\ loads' = loads \ {l}
        /\ UNCHANGED <<status, mounted, requestSeq, own>>
        /\ l.id = requestSeq => users' = l.rows
        /\ l.id # requestSeq => UNCHANGED <<users, loading>>
    BY <1>3 DEF usersLoaded, isLatest, serverVars
  <2>2. OwnChangesShown'
    <3>1. CASE l.id = requestSeq
      BY <2>1, <3>1 DEF OwnInv, OwnShown, OwnChangesShown
    <3>2. CASE l.id # requestSeq
      BY <2>1, <3>2 DEF OwnInv, OwnShown, OwnChangesShown, Settled, NoUsers
    <3> QED
      BY <3>1, <3>2
  <2> QED
    BY <2>1, <2>2 DEF OwnInv, OwnShown
<1>4. CASE usersFailed(l)
  <2>1. /\ loads' = loads \ {l}
        /\ UNCHANGED <<status, mounted, requestSeq, own>>
        /\ users' = NoUsers \/ UNCHANGED <<users, loading>>
    BY <1>4 DEF usersFailed, isLatest, serverVars
  <2>2. OwnChangesShown'
    BY <2>1 DEF OwnInv, OwnShown, OwnChangesShown, Settled, NoUsers
  <2> QED
    BY <2>1, <2>2 DEF OwnInv, OwnShown
<1> QED
  BY <1>1, <1>2, <1>3, <1>4

\* The steps that neither load the list nor change what the server holds.
LEMMA OwnKept ==
  ASSUME OwnInv, UNCHANGED <<status, mounted, requestSeq, loads, loading, users, own>>
  PROVE  OwnInv'
BY DEF OwnInv, OwnShown, OwnChangesShown, Settled, NoUsers

\* A change of the page, answered or with its answer lost.
LEMMA OwnTask == ASSUME PageInv, OwnInv, TaskStep PROVE OwnInv'
<1>1. CASE taskAnswered /\ ~mounted
  <2>1. UNCHANGED <<mounted, requestSeq, loads, loading, users, own>>
    BY <1>1 DEF taskAnswered, listVars
  <2> QED
    BY <1>1, <2>1 DEF OwnInv, OwnShown, OwnChangesShown, Settled, NoUsers
<1>2. CASE taskAnswered /\ mounted /\ task.kind \in {"assign", "revoke"}
  <2>1. UNCHANGED <<mounted, requestSeq, loads, loading, users, own>> /\ status' = status
    BY <1>2, AcceptedShape DEF taskAnswered, listVars
  <2> QED
    BY <2>1, OwnKept
<1>3. CASE taskAnswered /\ mounted /\ task.kind \notin {"assign", "revoke"}
  <2>1. /\ task.pc = "post" /\ accepted /\ loadUsers /\ mounted' = mounted
        /\ own' = [own EXCEPT ![task.account] = status'[task.account]]
    BY <1>3 DEF taskAnswered
  <2>2. requestSeq < MaxLoad /\ task.account \in Account
    BY <1>3, <2>1 DEF PageInv, TaskInv
  <2>3. /\ requestSeq' = requestSeq + 1 /\ loading' = TRUE
        /\ \A l \in loads' : l \in loads \/ (l.id = requestSeq + 1 /\ ~l.got)
    BY <2>1, <2>2, LoadShape DEF PageInv
  <2>4. \A a \in Account : own'[a] # "unknown" => status'[a] = own'[a]
    BY <2>1, <2>2, AcceptedShape DEF PageInv, Typed, ServerOK, ListOK, AccessOK, TaskOK, OwnInv
  <2>5. \A l \in loads : l.id \in Nat /\ l.id <= requestSeq /\ requestSeq \in Nat
    BY DEF PageInv, Typed, ListOK, Row, OwnInv
  <2>6. \A l \in loads' : l.id <= requestSeq' /\ (l.id = requestSeq' => ~l.got)
    BY <2>3, <2>5 DEF PageInv, Typed, ServerOK, ListOK, AccessOK, TaskOK
  <2> QED
    BY <1>3, <2>1, <2>3, <2>4, <2>6 DEF OwnInv, OwnShown, OwnChangesShown, Settled
<1>4. CASE taskFailed
  <2>1. task.pc = "post" /\ UNCHANGED <<mounted, requestSeq, loads, loading, users>>
    BY <1>4 DEF taskFailed, listVars
  <2>2. CASE UNCHANGED <<serverVars, own>>
    BY <2>1, <2>2, OwnKept DEF serverVars
  <2>3. CASE accepted /\ own' = [own EXCEPT ![task.account] = "unknown"]
    <3>1. \A a \in Account : own'[a] # "unknown" => own'[a] = own[a] /\ status'[a] = status[a]
      BY <2>1, <2>3, AcceptedShape DEF PageInv, Typed, ServerOK, ListOK, AccessOK, TaskOK
    <3>2. \A a \in Account : own[a] = "unknown" => own'[a] = "unknown"
      BY <2>3 DEF PageInv, Typed, ServerOK, ListOK, AccessOK, TaskOK
    <3> QED
      BY <2>1, <3>1, <3>2 DEF OwnInv, OwnShown, OwnChangesShown, Settled, NoUsers
  <2> QED
    BY <1>4, <2>2, <2>3 DEF taskFailed
<1>5. CASE refreshAccessBindings
  <2>1. /\ task.pc = "refresh" /\ loadUsers /\ UNCHANGED <<status, mounted, users, own>>
    BY <1>5 DEF refreshAccessBindings, serverVars
  <2>2. mounted /\ requestSeq < MaxLoad
    BY <2>1 DEF PageInv, TaskInv
  <2>3. /\ requestSeq' = requestSeq + 1 /\ loading' = TRUE
        /\ \A l \in loads' : l \in loads \/ (l.id = requestSeq + 1 /\ ~l.got)
    BY <2>1, <2>2, LoadShape DEF PageInv
  <2>4. \A l \in loads : l.id \in Nat /\ l.id <= requestSeq /\ requestSeq \in Nat
    BY DEF PageInv, Typed, ListOK, Row, OwnInv
  <2>5. \A l \in loads' : l.id <= requestSeq' /\ (l.id = requestSeq' => ~l.got)
    BY <2>3, <2>4 DEF PageInv, Typed, ServerOK, ListOK, AccessOK, TaskOK
  <2> QED
    BY <2>1, <2>2, <2>3, <2>5 DEF OwnInv, OwnShown, OwnChangesShown, Settled
<1> QED
  BY <1>1, <1>2, <1>3, <1>4, <1>5 DEF TaskStep

\* The page is left, or another administrator makes a change.
LEMMA OwnOutside == ASSUME PageInv, OwnInv, leave \/ OtherChange PROVE OwnInv'
<1>1. CASE leave
  BY <1>1 DEF leave, OwnInv, OwnShown, OwnChangesShown, Settled
<1>2. CASE OtherChange
  <2>1. UNCHANGED <<mounted, requestSeq, loads, loading, users>>
    BY <1>2 DEF OtherChange, listVars
  <2>2. PICK a \in OtherAccount :
          /\ status' = status \/ \E s \in Status : status' = [status EXCEPT ![a] = s]
          /\ own' = [own EXCEPT ![a] = "unknown"]
    BY <1>2 DEF OtherChange, Status
  <2>3. \A x \in Account : own'[x] # "unknown" => own'[x] = own[x] /\ status'[x] = status[x]
    BY <2>2 DEF PageInv, Typed, ServerOK, ListOK, AccessOK, TaskOK
  <2>4. \A x \in Account : own[x] = "unknown" => own'[x] = "unknown"
    BY <2>2 DEF PageInv, Typed, ServerOK, ListOK, AccessOK, TaskOK
  <2> QED
    BY <2>1, <2>3, <2>4 DEF OwnInv, OwnShown, OwnChangesShown, Settled, NoUsers
<1> QED
  BY <1>1, <1>2

\* Every step preserves it.
LEMMA OwnNext == ASSUME PageInv, OwnInv, [Next]_vars PROVE OwnInv'
<1>1. CASE ListStep
  BY <1>1, OwnList
<1>2. CASE AccessStep \/ loadDomainOptions
  BY <1>2, OwnKept DEF AccessStep, requestUserAccess, accessOpened, loadDomainOptions, serverVars, listVars
<1>3. CASE TaskStep
  BY <1>3, OwnTask
<1>4. CASE leave \/ OtherChange
  BY <1>4, OwnOutside
<1>5. CASE DialogStep
  BY <1>5, OwnKept DEF DialogStep, openCreate, closeDialog, closeAccessDialog, chooseDisable,
     chooseReset, handleOpenAccess, openDialog, serverVars
<1>6. CASE StartStep
  BY <1>6, OwnKept DEF StartStep, handleAddUser, handleDisableUser, handleResetPassword,
     handleAddBinding, handleRevokeBinding, start, serverVars
<1>7. CASE UNCHANGED vars
  BY <1>7, OwnKept DEF vars, serverVars, listVars
<1> QED
  BY <1>1, <1>2, <1>3, <1>4, <1>5, <1>6, <1>7 DEF Next, DialogStep, StartStep

\* Once no load is awaited, the list shows every change of the page that the
\* server acknowledged and nobody changed since, for any number of loads in
\* flight and any order of their answers, but for accounts that a full page
\* leaves out.
THEOREM OwnChangesAreShown == Spec => []OwnChangesShown
<1>1. PageInv /\ OwnInv /\ [Next]_vars => OwnInv'
  BY OwnNext
<1>2. OwnInv => OwnChangesShown
  BY DEF OwnInv
<1> QED
  BY <1>1, <1>2, OwnInit, PageInvariant, PTL DEF Spec
=============================================================================
