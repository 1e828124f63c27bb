--------------------------- MODULE PublishWizard ---------------------------
(***************************************************************************)
(* The console's publish wizard: choose a version, a strategy and its      *)
(* targets, review the difference to the version in use, confirm.  The     *)
(* list of versions is read once; nothing is read again before publishing. *)
(***************************************************************************)
EXTENDS ElementStore

CONSTANTS
  elementKey,    \* the element (the wizard is keyed by it)
  Target,        \* agents and instances the wizard lists
  VersionLimit   \* versions per listing

VARIABLE pub     \* the wizard's state

NoDiff == [base |-> NoRaw, compare |-> NoRaw, shown |-> FALSE]
element == store[elementKey]

\* request: what the wizard waits for.  seen and life are the
\* listing's first half, the element's incarnation then, and what the
\* wizard's own requests published.
Initial ==
  [mounted |-> TRUE, activeStep |-> 0, version |-> 0, options |-> NoVersions, usingVersion |-> 0,
   targets |-> {}, publishMode |-> 2, diffPair |-> NoDiff,
   currentVersion |-> 0, diffLoading |-> FALSE, optionsLoading |-> TRUE, submitting |-> FALSE,
   request |-> "metadata", seen |-> 0, life |-> 0]

\* What is left of the wizard when its page is gone: its answers change nothing.
Gone == [Initial EXCEPT !.mounted = FALSE, !.optionsLoading = FALSE, !.request = "none"]
answered(w) == IF pub.mounted THEN w ELSE Gone

\* Mutant: the version in use can be chosen.
isPublishVersionDisabledBelow(v) ==
  IF pub.usingVersion = 0 THEN pub.options[v].published ELSE v < pub.usingVersion

isPublishVersionDisabled(v) ==
  IF pub.usingVersion = 0 THEN pub.options[v].published ELSE v <= pub.usingVersion

versionIsValid ==
  /\ pub.version # 0 /\ pub.options[pub.version] # NoVersion
  /\ ~isPublishVersionDisabled(pub.version)

grayTargetsAreValid == pub.publishMode = 1 => pub.targets # {}

-----------------------------------------------------------------------------
(* Loading the options *)

\* requestVersionOptions: the server reads the metadata, then the versions.
readMetadata ==
  /\ pub.request = "metadata"
  /\ pub' = [pub EXCEPT !.request = "versions", !.seen = element.using, !.life = element.life]
  /\ UNCHANGED storeVars

\* toVersionOptions: the listing stops at its limit, in the order of the names.
toVersionOptions(e) ==
  {[v \in Version |-> IF v \in S THEN e.ver[v] ELSE NoVersion] :
     S \in {T \in SUBSET Stored(e) :
              Cardinality(T) = VersionLimit
              \/ (T = Stored(e) /\ Cardinality(T) <= VersionLimit)}}

\* The version in use comes with the first element listed.
getUsingVersion(options) == IF options = NoVersions THEN 0 ELSE pub.seen

loadOptions ==
  /\ pub.request = "versions"
  /\ \E options \in toVersionOptions(element) :
       pub' = [pub EXCEPT !.request = "none", !.options = options, !.seen = 0,
                          !.usingVersion = getUsingVersion(options), !.version = 0,
                          !.targets = {}, !.optionsLoading = FALSE]
  /\ UNCHANGED storeVars

loadOptionsFailed ==
  /\ pub.request \in {"metadata", "versions"}
  /\ pub' = [pub EXCEPT !.request = "none", !.options = NoVersions, !.usingVersion = 0,
                     !.optionsLoading = FALSE]
  /\ UNCHANGED storeVars

-----------------------------------------------------------------------------
(* The administrator's choices *)

selectVersion(v) ==
  /\ pub.mounted /\ pub.activeStep = 0
  /\ ~pub.submitting /\ ~pub.diffLoading /\ ~pub.optionsLoading
  /\ pub.options[v] # NoVersion /\ ~isPublishVersionDisabled(v)
  /\ pub' = [pub EXCEPT !.version = v, !.diffPair = NoDiff, !.currentVersion = 0]
  /\ UNCHANGED storeVars

chooseStrategy(mode) ==
  /\ pub.mounted /\ pub.activeStep = 1
  /\ pub' = [pub EXCEPT !.publishMode = mode, !.targets = IF mode = 2 THEN {} ELSE @]
  /\ UNCHANGED storeVars

chooseTargets(T) ==
  /\ pub.mounted /\ pub.activeStep = 2 /\ pub.publishMode = 1
  /\ ~pub.submitting /\ ~pub.diffLoading
  /\ pub' = [pub EXCEPT !.targets = T]
  /\ UNCHANGED storeVars

handleBack ==
  /\ pub.mounted /\ pub.activeStep \in 1..4
  /\ ~pub.submitting /\ ~pub.diffLoading
  /\ pub' = [pub EXCEPT !.activeStep = @ - 1]
  /\ UNCHANGED storeVars

-----------------------------------------------------------------------------
(* Next: the review, the confirmation and the request *)

nextDisabled ==
  \/ pub.submitting \/ pub.diffLoading
  \/ pub.activeStep = 0 /\ (pub.optionsLoading \/ ~versionIsValid)
  \/ pub.activeStep = 2 /\ ~grayTargetsAreValid
  \/ pub.activeStep = 3 /\ ~pub.diffPair.shown

\* Mutant: old and new are swapped.
compareSwapped(base) ==
  [base |-> pub.options[pub.version].raw, compare |-> base, shown |-> TRUE]

compare(base) ==
  [base |-> base, compare |-> pub.options[pub.version].raw, shown |-> TRUE]

\* The version in use is compared from the list, as nothing before the first
\* publish, or asked for when the list does not hold it.
handleLoadDiffAndAdvance ==
  /\ versionIsValid
  /\ pub' =
       IF pub.usingVersion # 0 /\ pub.options[pub.usingVersion] # NoVersion
       THEN [pub EXCEPT !.currentVersion = pub.usingVersion, !.activeStep = 3,
                        !.diffPair = compare(pub.options[pub.usingVersion].raw)]
       ELSE IF pub.usingVersion = 0
       THEN [pub EXCEPT !.currentVersion = 0, !.activeStep = 3, !.diffPair = compare(NoRaw)]
       ELSE [pub EXCEPT !.currentVersion = 0, !.diffPair = NoDiff, !.diffLoading = TRUE,
                        !.request = "diff"]

handlePublish ==
  /\ versionIsValid /\ grayTargetsAreValid /\ ~pub.submitting
  /\ pub' = [pub EXCEPT !.submitting = TRUE, !.request = "publish"]

handleNext ==
  /\ pub.mounted /\ ~nextDisabled
  /\ \/ pub.activeStep \in {0, 1, 3} /\ pub' = [pub EXCEPT !.activeStep = @ + 1]
     \/ pub.activeStep = 2 /\ handleLoadDiffAndAdvance
     \/ pub.activeStep = 4 /\ handlePublish
     \/ pub.activeStep = 5 /\ pub' = Gone
  /\ UNCHANGED storeVars

\* requestComparisonElement answers with the version in use as listed.
diffAnswered ==
  /\ pub.request = "diff" /\ pub.usingVersion \in Stored(element)
  /\ pub' = [pub EXCEPT !.request = "none", !.diffLoading = FALSE, !.activeStep = 3,
                             !.currentVersion = pub.usingVersion,
                             !.diffPair = compare(element.ver[pub.usingVersion].raw)]
  /\ UNCHANGED storeVars

\* Mutant: the loading flag stays.
diffFailedSilently ==
  /\ pub.request = "diff"
  /\ pub' = [pub EXCEPT !.request = "none"]
  /\ UNCHANGED storeVars

diffFailed ==
  /\ pub.request = "diff"
  /\ pub' = [pub EXCEPT !.request = "none", !.diffLoading = FALSE]
  /\ UNCHANGED storeVars

\* The server publishes and answers; leaving the wizard does not stop it.
publishAnswered ==
  /\ pub.request = "publish" /\ CanPublish(element, pub.version)
  /\ store' = [store EXCEPT ![elementKey] = published(element, pub.version)]
  /\ pub' = answered([pub EXCEPT !.request = "none", !.submitting = FALSE,
                                    !.activeStep = 5])
  /\ UNCHANGED others

\* The request was refused or failed, or the answer to it was lost.
publishFailed ==
  /\ pub.request = "publish"
  /\ \/ /\ pub' = answered([pub EXCEPT !.request = "none", !.submitting = FALSE])
        /\ UNCHANGED store
     \/ /\ CanPublish(element, pub.version)
        /\ store' = [store EXCEPT ![elementKey] = published(element, pub.version)]
        /\ pub' = answered([pub EXCEPT !.request = "none", !.submitting = FALSE])
  /\ UNCHANGED others

\* Cancel is confirmed, or another page is opened.
leave ==
  /\ pub.mounted
  /\ pub' = IF pub.request = "publish" THEN [pub EXCEPT !.mounted = FALSE] ELSE Gone
  /\ UNCHANGED storeVars

Next ==
  \/ readMetadata \/ loadOptions \/ loadOptionsFailed
  \/ \E v \in Version : selectVersion(v)
  \/ \E mode \in {1, 2} : chooseStrategy(mode)
  \/ \E T \in SUBSET Target : chooseTargets(T)
  \/ handleBack \/ handleNext \/ leave
  \/ diffAnswered \/ diffFailed \/ publishAnswered \/ publishFailed

\* The steps that do not wait for an administrator.
Answer == readMetadata \/ loadOptions \/ diffAnswered \/ diffFailed \/ publishAnswered \/ publishFailed
=============================================================================
