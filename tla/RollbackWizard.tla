--------------------------- MODULE RollbackWizard ---------------------------
(***************************************************************************)
(* The console's rollback wizard: choose an older published version,       *)
(* review the difference to the version in use, confirm.                   *)
(***************************************************************************)
EXTENDS ElementStore

CONSTANTS
  elementKey,    \* the element (the wizard is keyed by it)
  VersionLimit   \* versions per listing

VARIABLE rb      \* the wizard's state

NoDiff == [base |-> NoRaw, compare |-> NoRaw, shown |-> FALSE]
element == store[elementKey]

\* seen and life as in PublishWizard.
Initial ==
  [mounted |-> TRUE, activeStep |-> 0, version |-> 0, options |-> NoVersions, usingVersion |-> 0,
   diffPair |-> NoDiff, currentVersion |-> 0, diffLoading |-> FALSE, optionsLoading |-> TRUE,
   submitting |-> FALSE, request |-> "metadata", seen |-> 0, life |-> 0]

\* What is left of the wizard when its page is gone: its answers change nothing.
Gone == [Initial EXCEPT !.mounted = FALSE, !.optionsLoading = FALSE, !.request = "none"]
answered(w) == IF rb.mounted THEN w ELSE Gone

isRollbackVersionDisabled(v) ==
  ~rb.options[v].published \/ (rb.usingVersion # 0 /\ v >= rb.usingVersion)

versionIsValid ==
  /\ rb.version # 0 /\ rb.options[rb.version] # NoVersion
  /\ ~isRollbackVersionDisabled(rb.version)

readMetadata ==
  /\ rb.request = "metadata"
  /\ rb' = [rb EXCEPT !.request = "versions", !.seen = element.using, !.life = element.life]
  /\ UNCHANGED storeVars

\* The listing stops at its limit, in the order of the names.
requestVersionOptions(e) ==
  {[v \in Version |-> IF v \in S THEN e.ver[v] ELSE NoVersion] :
     S \in {T \in SUBSET Stored(e) :
              Cardinality(T) = VersionLimit
              \/ (T = Stored(e) /\ Cardinality(T) <= VersionLimit)}}

loadOptions ==
  /\ rb.request = "versions"
  /\ \E options \in requestVersionOptions(element) :
       rb' = [rb EXCEPT !.request = "none", !.options = options, !.seen = 0, !.version = 0,
                             !.usingVersion = IF options = NoVersions THEN 0 ELSE rb.seen,
                             !.optionsLoading = FALSE]
  /\ UNCHANGED storeVars

loadOptionsFailed ==
  /\ rb.request \in {"metadata", "versions"}
  /\ rb' = [rb EXCEPT !.request = "none", !.options = NoVersions, !.usingVersion = 0,
                           !.optionsLoading = FALSE]
  /\ UNCHANGED storeVars

selectVersion(v) ==
  /\ rb.mounted /\ rb.activeStep = 0
  /\ ~rb.submitting /\ ~rb.diffLoading /\ ~rb.optionsLoading
  /\ rb.options[v] # NoVersion /\ ~isRollbackVersionDisabled(v)
  /\ rb' = [rb EXCEPT !.version = v, !.diffPair = NoDiff, !.currentVersion = 0]
  /\ UNCHANGED storeVars

handleBack ==
  /\ rb.mounted /\ rb.activeStep \in {1, 2}
  /\ ~rb.submitting /\ ~rb.diffLoading
  /\ rb' = [rb EXCEPT !.activeStep = @ - 1]
  /\ UNCHANGED storeVars

nextDisabled ==
  \/ rb.submitting \/ rb.diffLoading
  \/ rb.activeStep = 0 /\ (rb.optionsLoading \/ ~versionIsValid)
  \/ rb.activeStep = 1 /\ ~rb.diffPair.shown

compare(base) ==
  [base |-> base, compare |-> rb.options[rb.version].raw, shown |-> TRUE]

\* Nothing in use: there is nothing to compare with, and the wizard stays.
handleLoadDiffAndAdvance ==
  /\ versionIsValid
  /\ rb' =
       IF rb.usingVersion = 0
       THEN [rb EXCEPT !.diffPair = NoDiff, !.currentVersion = 0]
       ELSE IF rb.options[rb.usingVersion] # NoVersion
       THEN [rb EXCEPT !.currentVersion = rb.usingVersion, !.activeStep = 1,
                       !.diffPair = compare(rb.options[rb.usingVersion].raw)]
       ELSE [rb EXCEPT !.currentVersion = 0, !.diffPair = NoDiff, !.diffLoading = TRUE,
                       !.request = "diff"]

handleRollback ==
  /\ versionIsValid /\ ~rb.submitting
  /\ rb' = [rb EXCEPT !.submitting = TRUE, !.request = "rollback"]

handleNext ==
  /\ rb.mounted /\ ~nextDisabled
  /\ \/ rb.activeStep = 0 /\ handleLoadDiffAndAdvance
     \/ rb.activeStep = 1 /\ rb' = [rb EXCEPT !.activeStep = 2]
     \/ rb.activeStep = 2 /\ handleRollback
     \/ rb.activeStep = 3 /\ rb' = Gone
  /\ UNCHANGED storeVars

diffAnswered ==
  /\ rb.request = "diff" /\ rb.usingVersion \in Stored(element)
  /\ rb' = [rb EXCEPT !.request = "none", !.diffLoading = FALSE, !.activeStep = 1,
                           !.currentVersion = rb.usingVersion,
                           !.diffPair = compare(element.ver[rb.usingVersion].raw)]
  /\ UNCHANGED storeVars

diffFailed ==
  /\ rb.request = "diff"
  /\ rb' = [rb EXCEPT !.request = "none", !.diffLoading = FALSE]
  /\ UNCHANGED storeVars

rollbackAnswered ==
  /\ rb.request = "rollback" /\ CanRollback(element, rb.version)
  /\ store' = [store EXCEPT ![elementKey] = rolledBack(element, rb.version)]
  /\ rb' = answered([rb EXCEPT !.request = "none", !.submitting = FALSE,
                                    !.activeStep = 3])
  /\ UNCHANGED others

\* The request was refused or failed, or the answer to it was lost.
rollbackFailed ==
  /\ rb.request = "rollback"
  /\ \/ /\ rb' = answered([rb EXCEPT !.request = "none", !.submitting = FALSE])
        /\ UNCHANGED store
     \/ /\ CanRollback(element, rb.version)
        /\ store' = [store EXCEPT ![elementKey] = rolledBack(element, rb.version)]
        /\ rb' = answered([rb EXCEPT !.request = "none", !.submitting = FALSE])
  /\ UNCHANGED others

leave ==
  /\ rb.mounted
  /\ rb' = IF rb.request = "rollback" THEN [rb EXCEPT !.mounted = FALSE] ELSE Gone
  /\ UNCHANGED storeVars

Next ==
  \/ readMetadata \/ loadOptions \/ loadOptionsFailed
  \/ \E v \in Version : selectVersion(v)
  \/ handleBack \/ handleNext \/ leave
  \/ diffAnswered \/ diffFailed \/ rollbackAnswered \/ rollbackFailed

\* The steps that do not wait for an administrator.
Answer == readMetadata \/ loadOptions \/ diffAnswered \/ diffFailed \/ rollbackAnswered \/ rollbackFailed
=============================================================================
