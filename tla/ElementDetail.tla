---------------------------- MODULE ElementDetail ----------------------------
(***************************************************************************)
(* The console's page of one element: what it shows, the dialog in which a *)
(* new version is written, and its two ways out: save it as a draft, or    *)
(* publish it directly (update, read back, publish: three requests).  The  *)
(* page stays mounted when the location changes to another element, and    *)
(* what is in flight goes on.                                              *)
(***************************************************************************)
EXTENDS ElementStore

CONSTANTS
  Invalid,   \* contents that validateContent refuses
  Seed,      \* the elements when the page is opened
  MaxLoad    \* bound on the loads of the page

ASSUME DetailAssumption ==
  /\ Invalid \subseteq Raw /\ MaxLoad \in Nat \ {0} /\ Key # {}
  /\ Seed \in [Key -> [latest : 0..MaxVersion, unpublished : 0..MaxVersion,
                       using : 0..MaxVersion, ver : [Version -> VersionRecord], life : {0}]]
  /\ \A k \in Key : Seed[k].unpublished \in {0, Seed[k].latest}

VARIABLES
  mounted, key, requestSeq,
  element,       \* the element shown: whose it is and what its metadata said
  editRaw,       \* the content in the editor
  editOf,        \* history: the element whose content the editor was filled with
  newVersionOpen, confirmOpen, loading, saving,
  loads,         \* loads of the page in flight
  save           \* the save in flight

dialogVars == <<editRaw, editOf, newVersionOpen, confirmOpen>>
pageVars == <<mounted, key, requestSeq, element, loading, saving>>
vars == <<storeVars, dialogVars, pageVars, loads, save>>

NoKey == "none"
NoElement == [of |-> NoKey, latest |-> 0, unpublished |-> 0, raw |-> NoRaw]
IdleSave == [pc |-> "idle", direct |-> FALSE, key |-> NoKey, raw |-> NoRaw, previous |-> 0,
             version |-> 0, made |-> 0, life |-> 0, load |-> 0]

\* Checked by both ways out; the editor's own check lags behind and is left out.
validateContent(r) == r \notin Invalid

shownRaw(e) == IF e.using = 0 THEN NoRaw ELSE e.ver[e.using].raw

Init ==
  /\ store = Seed /\ others = 0
  /\ mounted = TRUE /\ key \in Key
  /\ requestSeq = 1 /\ loads = {[id |-> 1, key |-> key]}
  /\ element = NoElement /\ loading = TRUE /\ saving = FALSE
  /\ editRaw = NoRaw /\ editOf = NoKey
  /\ newVersionOpen = FALSE /\ confirmOpen = FALSE
  /\ save = IdleSave

-----------------------------------------------------------------------------
(* Loading *)

\* loadPage takes a number and captures the location it was called for.
loadPage(k) ==
  /\ requestSeq < MaxLoad
  /\ requestSeq' = requestSeq + 1
  /\ loads' = loads \cup {[id |-> requestSeq + 1, key |-> k]}

\* The location changes; dialogs, editor and element stay until the load answers.
navigate(k) ==
  /\ mounted /\ k # key
  /\ key' = k
  /\ loadPage(k)
  /\ UNCHANGED <<storeVars, dialogVars, mounted, element, loading, saving, save>>

\* Mutant: any answer counts.
isLatestAny(l) == TRUE

isLatest(l) == l.id = requestSeq

\* A save that waits for this load goes on with clearing the flag.
endSave(l) ==
  IF save.pc = "reload" /\ save.load = l.id THEN save' = IdleSave /\ saving' = FALSE
  ELSE UNCHANGED <<save, saving>>

\* Element, versions and operations arrive.
loadAnswered(l) ==
  LET e == store[l.key] IN
  /\ Exists(e)
  /\ loads' = loads \ {l}
  /\ IF isLatest(l)
     THEN /\ element' = [of |-> l.key, latest |-> e.latest, unpublished |-> e.unpublished,
                         raw |-> shownRaw(e)]
          /\ editRaw' = shownRaw(e) /\ editOf' = l.key
          /\ newVersionOpen' = FALSE /\ loading' = FALSE
     ELSE UNCHANGED <<element, editRaw, editOf, newVersionOpen, loading>>
  /\ endSave(l)
  /\ UNCHANGED <<storeVars, mounted, key, requestSeq, confirmOpen>>

loadFailed(l) ==
  /\ loads' = loads \ {l}
  /\ IF isLatest(l)
     THEN /\ element' = NoElement
          /\ editRaw' = NoRaw /\ editOf' = l.key
          /\ newVersionOpen' = FALSE /\ loading' = FALSE
     ELSE UNCHANGED <<element, editRaw, editOf, newVersionOpen, loading>>
  /\ endSave(l)
  /\ UNCHANGED <<storeVars, mounted, key, requestSeq, confirmOpen>>

\* The page's state goes with it; a save in flight still reaches the server.
leave ==
  /\ mounted
  /\ mounted' = FALSE /\ loads' = {}
  /\ element' = NoElement /\ loading' = FALSE /\ saving' = FALSE
  /\ editRaw' = NoRaw /\ editOf' = NoKey
  /\ newVersionOpen' = FALSE /\ confirmOpen' = FALSE
  /\ save' = IF save.pc \in {"get", "reload"} THEN IdleSave ELSE save
  /\ UNCHANGED <<storeVars, key, requestSeq>>

-----------------------------------------------------------------------------
(* The dialogs *)

handleOpenNewVersion ==
  /\ mounted /\ ~newVersionOpen /\ ~confirmOpen
  /\ element.unpublished = 0
  /\ editRaw' = element.raw /\ editOf' = element.of
  /\ newVersionOpen' = TRUE
  /\ UNCHANGED <<storeVars, pageVars, confirmOpen, loads, save>>

edit(r) ==
  /\ mounted /\ newVersionOpen /\ ~confirmOpen /\ ~saving
  /\ editRaw' = r
  /\ UNCHANGED <<storeVars, pageVars, editOf, newVersionOpen, confirmOpen, loads, save>>

closeNewVersionDialog ==
  /\ mounted /\ newVersionOpen /\ ~confirmOpen /\ ~saving
  /\ newVersionOpen' = FALSE
  /\ UNCHANGED <<storeVars, pageVars, editRaw, editOf, confirmOpen, loads, save>>

openConfirm ==
  /\ mounted /\ newVersionOpen /\ ~confirmOpen /\ ~saving
  /\ confirmOpen' = TRUE
  /\ UNCHANGED <<storeVars, pageVars, editRaw, editOf, newVersionOpen, loads, save>>

closeConfirm ==
  /\ mounted /\ confirmOpen /\ ~saving
  /\ confirmOpen' = FALSE
  /\ UNCHANGED <<storeVars, pageVars, editRaw, editOf, newVersionOpen, loads, save>>

-----------------------------------------------------------------------------
(* Saving *)

startSave(direct) ==
  /\ save' = [IdleSave EXCEPT !.pc = "put", !.direct = direct, !.key = key, !.raw = editRaw,
                              !.previous = element.latest]
  /\ saving' = TRUE
  /\ UNCHANGED <<storeVars, mounted, key, requestSeq, element, loading, loads,
                 editRaw, editOf, newVersionOpen, confirmOpen>>

handleSubmitNewVersion ==
  /\ mounted /\ newVersionOpen /\ ~confirmOpen /\ ~saving
  /\ validateContent(editRaw)
  /\ startSave(FALSE)

handlePublishDirectly ==
  /\ mounted /\ confirmOpen /\ ~saving
  /\ validateContent(editRaw)
  /\ startSave(TRUE)

canApplyMutationResult == mounted /\ key = save.key

\* Mutant: the flag is cleared only where the save was started.
finishedHere == save' = IdleSave /\ saving' = IF canApplyMutationResult THEN FALSE ELSE saving

\* The finally blocks.
finished == save' = IdleSave /\ saving' = FALSE

\* Done: the dialogs close and the page is loaded again.
reload ==
  /\ newVersionOpen' = FALSE
  /\ confirmOpen' = IF save.direct THEN FALSE ELSE confirmOpen
  /\ loading' = TRUE
  /\ loadPage(key)
  /\ save' = [save EXCEPT !.pc = "reload", !.load = requestSeq + 1]
  /\ UNCHANGED <<saving, editRaw, editOf>>

giveUp ==
  /\ finished
  /\ UNCHANGED <<dialogVars, loading, requestSeq, loads>>

\* PUT: the server adds the version; it refuses an empty content.
putAnswered ==
  LET e == updated(store[save.key], save.raw) IN
  /\ save.pc = "put" /\ save.raw # NoRaw /\ CanUpdate(store[save.key])
  /\ store' = [store EXCEPT ![save.key] = e]
  /\ IF ~canApplyMutationResult THEN giveUp
     ELSE IF save.direct
     THEN /\ save' = [save EXCEPT !.pc = "get", !.made = e.latest, !.life = e.life]
          /\ UNCHANGED <<dialogVars, loading, saving, requestSeq, loads>>
     ELSE reload
  /\ UNCHANGED <<others, mounted, key, element>>

\* A request of the save is refused or fails, or its answer is lost.
saveFailed ==
  /\ save.pc \in {"put", "get", "publish"}
  /\ \/ UNCHANGED store
     \/ /\ save.pc = "put" /\ save.raw # NoRaw /\ CanUpdate(store[save.key])
        /\ store' = [store EXCEPT ![save.key] = updated(@, save.raw)]
     \/ /\ save.pc = "publish" /\ CanPublish(store[save.key], save.version)
        /\ store' = [store EXCEPT ![save.key] = published(@, save.version)]
  /\ giveUp
  /\ UNCHANGED <<others, mounted, key, element>>

\* Mutant: the version is the latest one the page had shown.
publishableStale(e) == save.previous

\* The version to publish: the draft, or a version newer than the page knew of.
publishable(e) ==
  IF e.unpublished # 0 THEN e.unpublished
  ELSE IF e.latest > save.previous THEN e.latest ELSE 0

\* GET: the element is read back.
getAnswered ==
  LET e == store[save.key] IN
  /\ save.pc = "get" /\ Exists(e)
  /\ IF canApplyMutationResult /\ publishable(e) # 0
     THEN /\ save' = [save EXCEPT !.pc = "publish", !.version = publishable(e)]
          /\ UNCHANGED <<dialogVars, loading, saving, requestSeq, loads>>
     ELSE giveUp
  /\ UNCHANGED <<storeVars, mounted, key, element>>

\* POST publish.
publishAnswered ==
  /\ save.pc = "publish" /\ CanPublish(store[save.key], save.version)
  /\ store' = [store EXCEPT ![save.key] = published(@, save.version)]
  /\ IF canApplyMutationResult THEN reload ELSE giveUp
  /\ UNCHANGED <<others, mounted, key, element>>

Other ==
  /\ mounted
  /\ \E k \in Key : OtherRequest(k)
  /\ UNCHANGED <<dialogVars, pageVars, loads, save>>

SaveStep == putAnswered \/ saveFailed \/ getAnswered \/ publishAnswered
LoadStep == \E l \in loads : loadAnswered(l) \/ loadFailed(l)

Next ==
  \/ \E k \in Key : navigate(k)
  \/ leave \/ handleOpenNewVersion \/ closeNewVersionDialog
  \/ \E r \in Raw : edit(r)
  \/ openConfirm \/ closeConfirm
  \/ handleSubmitNewVersion \/ handlePublishDirectly
  \/ LoadStep \/ SaveStep \/ Other

Spec == Init /\ [][Next]_vars

\* Requests are answered or fail.
FairSpec == Spec /\ WF_vars(LoadStep) /\ WF_vars(SaveStep)
-----------------------------------------------------------------------------
(* Properties *)

RawOrNone == Raw \cup {NoRaw}
KeyOrNone == Key \cup {NoKey}

\* Every variable of the page and the save in flight keeps its type
\* (ElementDetailPage's state hooks and refs).
TypeOK ==
  /\ StoreType
  /\ mounted \in BOOLEAN /\ key \in Key /\ requestSeq \in 1..MaxLoad
  /\ element \in [of : KeyOrNone, latest : 0..MaxVersion, unpublished : 0..MaxVersion, raw : RawOrNone]
  /\ editRaw \in RawOrNone /\ editOf \in KeyOrNone
  /\ newVersionOpen \in BOOLEAN /\ confirmOpen \in BOOLEAN
  /\ loading \in BOOLEAN /\ saving \in BOOLEAN
  /\ loads \subseteq [id : 1..MaxLoad, key : Key]
  /\ save \in [pc : {"idle", "put", "get", "publish", "reload"}, direct : BOOLEAN, key : KeyOrNone,
               raw : RawOrNone, previous : 0..MaxVersion, version : 0..MaxVersion,
               made : 0..MaxVersion, life : Nat, load : 0..MaxLoad]

Settled == mounted /\ ~\E l \in loads : l.id = requestSeq

\* Once the last load has answered, the page shows the element of its
\* location and the editor holds content of it, whatever order the answers
\* to earlier loads came in and however often the location changed.
PageMatchesLocation ==
  Settled => element.of \in {key, NoKey} /\ editOf \in {key, NoKey}

\* Publishing directly publishes the content that was in the editor, in the
\* version its own update added, unless someone updated or deleted the element
\* between the three requests (handlePublishDirectly).
PublishesOwnDraft ==
  [][LET e == store[save.key] IN
     publishAnswered /\ e.life = save.life /\ e.latest = save.made =>
       store'[save.key].using = save.made /\ e.ver[save.made].raw = save.raw]_vars

\* The page never stays locked: saving and loading end, or it is left, also
\* when the location changed under a save (the finally blocks).
NeverLocked == (saving \/ loading) ~> (~mounted \/ ~(saving \/ loading))
=============================================================================
