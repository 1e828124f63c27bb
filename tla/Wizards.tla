------------------------------ MODULE Wizards ------------------------------
(***************************************************************************)
(* Two administrators work on one element, one in the publish wizard, one  *)
(* in the rollback wizard, while others update, publish, delete and create *)
(* it and retention compacts it.                                           *)
(***************************************************************************)
EXTENDS ElementStore

CONSTANTS
  elementKey,    \* the element
  Target,        \* agents and instances
  VersionLimit,  \* versions per listing
  Seed           \* the element when the wizards are opened

ASSUME WizardAssumption ==
  /\ elementKey \in Key
  /\ VersionLimit \in Nat \ {0}
  /\ Seed \in [latest : 0..MaxVersion, unpublished : 0..MaxVersion, using : 0..MaxVersion,
               ver : [Version -> VersionRecord], life : {0}]
  /\ Seed.using <= Seed.latest
  /\ \A v \in Version : Seed.ver[v] # NoVersion => v <= Seed.latest

VARIABLES pub, rb

vars == <<storeVars, pub, rb>>

P == INSTANCE PublishWizard
R == INSTANCE RollbackWizard

Init ==
  /\ store = [k \in Key |-> Seed] /\ others = 0
  /\ pub = P!Initial /\ rb = R!Initial

OtherStep == pub.mounted \/ rb.mounted

Next ==
  \/ P!Next /\ UNCHANGED rb
  \/ R!Next /\ UNCHANGED pub
  \/ OtherStep /\ OtherRequest(elementKey) /\ UNCHANGED <<pub, rb>>

Spec == Init /\ [][Next]_vars

\* Every request is answered or fails.
FairSpec == Spec /\ WF_vars(P!Answer /\ UNCHANGED rb) /\ WF_vars(R!Answer /\ UNCHANGED pub)
-----------------------------------------------------------------------------
(* Properties *)

Diff == [base : Raw \cup {NoRaw}, compare : Raw \cup {NoRaw}, shown : BOOLEAN]
Wizard(w, lastStep, last) ==
  /\ w.mounted \in BOOLEAN /\ w.activeStep \in 0..lastStep /\ w.version \in 0..MaxVersion
  /\ w.options \in [Version -> VersionRecord] /\ w.usingVersion \in 0..MaxVersion
  /\ w.diffPair \in Diff /\ w.currentVersion \in 0..MaxVersion
  /\ w.diffLoading \in BOOLEAN /\ w.optionsLoading \in BOOLEAN /\ w.submitting \in BOOLEAN
  /\ w.request \in {"none", "metadata", "versions", "diff", last}
  /\ w.seen \in 0..MaxVersion /\ w.life \in Nat

\* Every field of the two wizards and the element keeps its type, and no step
\* is beyond the last one (stepKeys of both wizards).
TypeOK ==
  /\ StoreType
  /\ Wizard(pub, 5, "publish") /\ Wizard(rb, 3, "rollback")
  /\ pub.publishMode \in {1, 2} /\ pub.targets \subseteq Target

E == store[elementKey]

\* The review shows what it says, as long as the element was not deleted since
\* the listing: the new side is the chosen version's content and the old side
\* the content of the version labelled as current (handleLoadDiffAndAdvance).
ReviewIsAccurate ==
  \A w \in {pub, rb} : w.diffPair.shown /\ E.life = w.life =>
    /\ w.version \in Stored(E) => w.diffPair.compare = E.ver[w.version].raw
    /\ w.currentVersion \in Stored(E) => w.diffPair.base = E.ver[w.currentVersion].raw
    /\ w.currentVersion = w.usingVersion

\* Whatever a wizard puts in use was reviewed: the content served afterwards is
\* the new side of the difference it shows, unless the element was deleted
\* meanwhile and its version numbers were given out again (handlePublish, handleRollback).
ServedWasReviewed ==
  [][\A w \in {pub, rb} :
       LET served == (w = pub /\ P!publishAnswered) \/ (w = rb /\ R!rollbackAnswered)
       IN served /\ E.life = w.life =>
            w.diffPair.shown /\ E'.ver[E'.using].raw = w.diffPair.compare]_vars

\* A publish request that finds the version in use it was reviewed against
\* moves it forward, a rollback always moves it back, and to a version that
\* was published before (isPublishVersionDisabled, isRollbackVersionDisabled
\* and the server's own check of a rollback).
Direction ==
  [][/\ P!publishAnswered /\ E.life = pub.life /\ E.using = pub.usingVersion => E'.using > E.using
     /\ R!rollbackAnswered => /\ E'.using < E.using
                              /\ E.life = rb.life => E.ver[E'.using].published]_vars

\* A wizard does not stay locked: what it waits for ends, or it is left
\* (the finally blocks that clear diffLoading and submitting).
NeverLocked ==
  /\ (pub.diffLoading \/ pub.submitting \/ pub.optionsLoading)
       ~> (~pub.mounted \/ ~(pub.diffLoading \/ pub.submitting \/ pub.optionsLoading))
  /\ (rb.diffLoading \/ rb.submitting \/ rb.optionsLoading)
       ~> (~rb.mounted \/ ~(rb.diffLoading \/ rb.submitting \/ rb.optionsLoading))
=============================================================================
