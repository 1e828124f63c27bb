---------------------------- MODULE WizardsProofs ----------------------------
(***************************************************************************)
(* Proofs about the publish and the rollback wizard at work on one element *)
(* at the same time: the review is accurate, what is put in use was        *)
(* reviewed, and a publish moves forward, a rollback back.                 *)
(***************************************************************************)
EXTENDS Wizards, TLAPS

-----------------------------------------------------------------------------
(* The element service *)

\* What every request keeps: no version is beyond the latest one.
Sound(e) ==
  /\ e \in Element /\ e.using <= e.latest
  /\ \A v \in Version : e.ver[v] # NoVersion => v <= e.latest

\* What a request may do to an element as long as it lives: its latest version
\* never falls, and a version that was given out keeps its content, and that it
\* was published, or is gone for good.
Evolves(e, f) ==
  /\ e.life <= f.life
  /\ e.life = f.life =>
       /\ e.latest <= f.latest
       /\ \A v \in 1..e.latest :
            /\ e.ver[v] = NoVersion => f.ver[v] = NoVersion
            /\ \/ f.ver[v] = NoVersion
               \/ f.ver[v].raw = e.ver[v].raw /\ (e.ver[v].published => f.ver[v].published)

LEMMA NoVersionType == NoVersion \in VersionRecord
BY DEF NoVersion, VersionRecord

\* The fields of an element.
LEMMA ElementFields ==
  ASSUME NEW e \in Element
  PROVE  /\ e.latest \in 0..MaxVersion /\ e.unpublished \in 0..MaxVersion /\ e.using \in 0..MaxVersion
         /\ e.ver \in [Version -> VersionRecord] /\ e.life \in Nat
BY DEF Element

\* One version of a living element is added beyond its latest, removed, or
\* marked as published.
LEMMA OneVersion ==
  ASSUME NEW e, Sound(e), NEW f \in Element, f.life = e.life, e.latest <= f.latest, f.using <= f.latest,
         NEW v \in Version, NEW x \in VersionRecord, f.ver = [e.ver EXCEPT ![v] = x],
         v <= f.latest \/ x = NoVersion,
         v <= e.latest => \/ x = NoVersion
                          \/ /\ e.ver[v] # NoVersion /\ x.raw = e.ver[v].raw
                             /\ e.ver[v].published => x.published
  PROVE  Sound(f) /\ Evolves(e, f)
<1>1. e.ver \in [Version -> VersionRecord] /\ e.latest \in 0..MaxVersion /\ f.latest \in 0..MaxVersion
      /\ e.life \in Nat
  BY DEF Sound, Element
<1>2. \A u \in 1..e.latest : u \in Version
  BY <1>1, StoreAssumption DEF Version
<1>3. \A u \in Version : f.ver[u] = IF u = v THEN x ELSE e.ver[u]
  BY <1>1
<1>4. \A u \in Version : e.ver[u] # NoVersion => u <= e.latest
  BY DEF Sound
<1>5. ASSUME NEW u \in Version, f.ver[u] # NoVersion PROVE u <= f.latest
  <2>1. CASE u = v
    BY <1>3, <1>5, <2>1
  <2>2. CASE u # v
    BY <1>1, <1>3, <1>4, <1>5, <2>2 DEF Version
  <2> QED
    BY <2>1, <2>2
<1>6. Sound(f)
  BY <1>5 DEF Sound
<1>7. ASSUME NEW u \in 1..e.latest
      PROVE  /\ e.ver[u] = NoVersion => f.ver[u] = NoVersion
             /\ \/ f.ver[u] = NoVersion
                \/ f.ver[u].raw = e.ver[u].raw /\ (e.ver[u].published => f.ver[u].published)
  <2>1. CASE u = v
    BY <1>1, <1>2, <1>3, <2>1
  <2>2. CASE u # v
    BY <1>2, <1>3, <2>2
  <2> QED
    BY <2>1, <2>2
<1>8. Evolves(e, f)
  BY <1>1, <1>7 DEF Evolves
<1> QED
  BY <1>6, <1>8

LEMMA CreateSound ==
  ASSUME NEW e, Sound(e), NEW r \in Raw, CanCreate(e)
  PROVE  Sound(created(e, r)) /\ Evolves(e, created(e, r))
<1> DEFINE f == created(e, r)
           x == [raw |-> r, published |-> FALSE]
<1>1. e.latest = 0 /\ 1 \in Version /\ 1 \in 0..MaxVersion /\ x \in VersionRecord
  BY StoreAssumption DEF CanCreate, Exists, Version, VersionRecord
<1>2. /\ f.latest = 1 /\ f.using = e.using /\ f.life = e.life
      /\ f.ver = [e.ver EXCEPT ![1] = x]
  BY DEF created, Sound, Element
<1>3. f \in Element
  BY <1>1 DEF created, Sound, Element
<1>4. e.using <= 0 /\ e.using \in Nat
  BY <1>1 DEF Sound, Element
<1> HIDE DEF f, x
<1>5. e.latest <= f.latest /\ f.using <= f.latest /\ 1 <= f.latest /\ ~(1 <= e.latest)
  BY <1>1, <1>2, <1>4
<1> QED
  BY <1>1, <1>2, <1>3, <1>5, OneVersion DEF f

LEMMA UpdateSound ==
  ASSUME NEW e, Sound(e), NEW r \in Raw, CanUpdate(e)
  PROVE  Sound(updated(e, r)) /\ Evolves(e, updated(e, r))
<1> DEFINE n == e.latest + 1
           f == updated(e, r)
           x == [raw |-> r, published |-> FALSE]
<1>1. /\ n \in Version /\ n \in 0..MaxVersion /\ e.latest \in 0..MaxVersion /\ x \in VersionRecord
      /\ e.using \in 0..MaxVersion /\ e.using <= e.latest
  BY StoreAssumption DEF CanUpdate, Version, Sound, Element, VersionRecord
<1>2. /\ f.latest = n /\ f.using = e.using /\ f.life = e.life
      /\ f.ver = [e.ver EXCEPT ![n] = x]
  BY DEF updated, Sound, Element
<1>3. f \in Element
  BY <1>1 DEF updated, Sound, Element
<1> HIDE DEF f, x
<1>4. e.latest <= f.latest /\ f.using <= f.latest /\ n <= f.latest /\ ~(n <= e.latest)
  BY <1>1, <1>2
<1> HIDE DEF n
<1> QED
  BY <1>1, <1>2, <1>3, <1>4, OneVersion DEF f

LEMMA PublishSound ==
  ASSUME NEW e, Sound(e), NEW v, CanPublish(e, v)
  PROVE  /\ Sound(published(e, v)) /\ Evolves(e, published(e, v))
         /\ published(e, v).using = v /\ published(e, v).life = e.life
         /\ published(e, v).ver[v].raw = e.ver[v].raw
<1> DEFINE f == published(e, v)
           x == [e.ver[v] EXCEPT !.published = TRUE]
<1>1. v \in Version /\ v \in 0..MaxVersion /\ e.ver[v] # NoVersion
  BY StoreAssumption DEF CanPublish, Stored, Version
<1>2. e.ver \in [Version -> VersionRecord] /\ e.latest \in 0..MaxVersion /\ v <= e.latest
  BY <1>1 DEF Sound, Element
<1>3. x \in VersionRecord /\ x.raw = e.ver[v].raw /\ x.published
  BY <1>1, <1>2 DEF VersionRecord
<1>4. /\ f.latest = e.latest /\ f.using = v /\ f.life = e.life
      /\ f.ver = [e.ver EXCEPT ![v] = x]
  BY DEF published, Sound, Element
<1> HIDE DEF x
<1>5. f \in Element
  <2> DEFINE vs == [e.ver EXCEPT ![v] = x]
  <2>1. vs \in [Version -> VersionRecord]
    BY <1>1, <1>2, <1>3
  <2>2. f = [e EXCEPT !.using = v, !.unpublished = 0, !.ver = vs]
    BY DEF published, x
  <2> HIDE DEF vs, f
  <2>3. [e EXCEPT !.using = v, !.unpublished = 0, !.ver = vs] \in Element
    <3>1. e \in Element /\ 0 \in 0..MaxVersion
      BY StoreAssumption DEF Sound
    <3> QED
      BY <1>1, <2>1, <3>1 DEF Element
  <2> QED
    BY <2>2, <2>3
<1> HIDE DEF f
<1>6. e.latest <= f.latest /\ f.using <= f.latest /\ v <= f.latest
  BY <1>2, <1>4
<1>7. Sound(f) /\ Evolves(e, f)
  BY <1>1, <1>3, <1>4, <1>5, <1>6, OneVersion
<1>8. f.ver[v].raw = e.ver[v].raw
  BY <1>1, <1>2, <1>3, <1>4
<1> QED
  BY <1>4, <1>7, <1>8 DEF f

LEMMA RollbackSound ==
  ASSUME NEW e, Sound(e), NEW v, CanRollback(e, v)
  PROVE  /\ Sound(rolledBack(e, v)) /\ Evolves(e, rolledBack(e, v))
         /\ rolledBack(e, v).using = v /\ rolledBack(e, v).life = e.life
         /\ rolledBack(e, v).ver = e.ver
<1> DEFINE f == rolledBack(e, v)
<1>1. v \in 0..MaxVersion /\ v \in Version /\ e.ver[v] # NoVersion
  BY StoreAssumption DEF CanRollback, Stored, Version
<1>2. /\ f.latest = e.latest /\ f.using = v /\ f.life = e.life /\ f.ver = e.ver
      /\ f \in Element
  BY <1>1 DEF rolledBack, Sound, Element
<1> HIDE DEF f
<1>3. v <= e.latest /\ e.latest \in Nat /\ e.life \in Nat
  BY <1>1 DEF Sound, Element
<1>4. Sound(f)
  BY <1>2, <1>3 DEF Sound
<1>5. Evolves(e, f)
  BY <1>2, <1>3 DEF Evolves
<1> QED
  BY <1>2, <1>4, <1>5 DEF f

LEMMA DeleteSound ==
  ASSUME NEW e, Sound(e)
  PROVE  Sound(deleted(e)) /\ Evolves(e, deleted(e))
<1>1. NoVersions \in [Version -> VersionRecord] /\ e.life \in Nat
  BY NoVersionType DEF NoVersions, Sound, Element
<1>2. /\ deleted(e) \in Element /\ deleted(e).using = 0 /\ deleted(e).latest = 0
      /\ deleted(e).life = e.life + 1 /\ deleted(e).ver = NoVersions
  BY <1>1, StoreAssumption DEF deleted, Absent, Element
<1>3. \A v \in Version : NoVersions[v] = NoVersion
  BY DEF NoVersions
<1>4. Sound(deleted(e))
  BY <1>2, <1>3 DEF Sound
<1> QED
  BY <1>1, <1>2, <1>4 DEF Evolves

LEMMA CompactSound ==
  ASSUME NEW e, Sound(e), NEW v, CanCompact(e, v)
  PROVE  Sound(compacted(e, v)) /\ Evolves(e, compacted(e, v))
<1> DEFINE f == compacted(e, v)
<1>1. /\ v \in Version /\ e.latest \in 0..MaxVersion
      /\ e.using <= e.latest
  BY DEF CanCompact, Stored, Sound, Element
<1>2. /\ f.latest = e.latest /\ f.using = e.using /\ f.life = e.life
      /\ f.ver = [e.ver EXCEPT ![v] = NoVersion]
  BY DEF compacted, Sound, Element
<1>3. f \in Element
  BY <1>1, NoVersionType DEF compacted, Sound, Element
<1> HIDE DEF f
<1>4. e.latest <= f.latest /\ f.using <= f.latest
  BY <1>1, <1>2
<1> QED
  BY <1>1, <1>2, <1>3, <1>4, NoVersionType, OneVersion DEF f

LEMMA OtherSound ==
  ASSUME NEW e, Sound(e), NEW f \in OtherResults(e)
  PROVE  Sound(f) /\ Evolves(e, f)
<1>1. \/ \E r \in Raw : CanCreate(e) /\ f = created(e, r)
      \/ \E r \in Raw : CanUpdate(e) /\ f = updated(e, r)
      \/ \E v : CanPublish(e, v) /\ f = published(e, v)
      \/ \E v : CanRollback(e, v) /\ f = rolledBack(e, v)
      \/ f = deleted(e)
      \/ \E v : CanCompact(e, v) /\ f = compacted(e, v)
  BY DEF OtherResults
<1> QED
  BY <1>1, CreateSound, UpdateSound, PublishSound, RollbackSound, DeleteSound, CompactSound

-----------------------------------------------------------------------------
(* What both wizards keep *)

PubType ==
  [mounted : BOOLEAN, activeStep : 0..5, version : 0..MaxVersion, options : [Version -> VersionRecord],
   usingVersion : 0..MaxVersion, targets : SUBSET Target, publishMode : {1, 2}, diffPair : Diff,
   currentVersion : 0..MaxVersion, diffLoading : BOOLEAN, optionsLoading : BOOLEAN,
   submitting : BOOLEAN, request : {"none", "metadata", "versions", "diff", "publish"},
   seen : 0..MaxVersion, life : Nat]
RbType ==
  [mounted : BOOLEAN, activeStep : 0..3, version : 0..MaxVersion, options : [Version -> VersionRecord],
   usingVersion : 0..MaxVersion, diffPair : Diff,
   currentVersion : 0..MaxVersion, diffLoading : BOOLEAN, optionsLoading : BOOLEAN,
   submitting : BOOLEAN, request : {"none", "metadata", "versions", "diff", "rollback"},
   seen : 0..MaxVersion, life : Nat]

\* A listed version of a living element has the listed content or is gone.
Listed(w, e) ==
  /\ \A v \in Version : w.options[v] # NoVersion =>
       /\ v <= e.latest
       /\ \/ e.ver[v] = NoVersion
          \/ /\ e.ver[v].raw = w.options[v].raw
             /\ w.options[v].published => e.ver[v].published
  /\ w.usingVersion <= e.latest /\ w.seen <= e.latest

\* The old side of the difference is the content of the version labelled current.
Based(w, e) ==
  w.diffPair.shown /\ w.currentVersion \in Stored(e) => w.diffPair.base = e.ver[w.currentVersion].raw

\* What a wizard has of the element: its listing and the difference it shows.
Known(w, e) ==
  /\ w.life <= e.life
  /\ e.life = w.life => Listed(w, e) /\ Based(w, e)

\* What it holds when nothing is listed yet, and when a difference is shown.
Held(w) ==
  /\ w.request \in {"metadata", "versions"} =>
       /\ w.options = NoVersions /\ w.usingVersion = 0 /\ ~w.diffPair.shown
       /\ w.optionsLoading /\ w.activeStep = 0
  /\ w.diffPair.shown => /\ w.version \in Version /\ w.options[w.version] # NoVersion
                         /\ w.diffPair.compare = w.options[w.version].raw
                         /\ w.currentVersion = w.usingVersion

\* A version that may be published, and one that may be rolled back to.
PubValid(w) ==
  /\ w.version \in Version /\ w.options[w.version] # NoVersion
  /\ w.usingVersion # 0 => w.version > w.usingVersion
RbValid(w) ==
  w.version \in Version /\ w.options[w.version] # NoVersion /\ w.options[w.version].published

\* The order of the steps: from the review on there is a difference, and a
\* request is made from the confirmation only.
PubOrder(w) ==
  /\ w.activeStep \in {3, 4, 5} => w.diffPair.shown
  /\ w.request = "publish" => w.activeStep = 4 /\ w.submitting /\ PubValid(w)
  /\ w.request = "diff" => w.diffLoading /\ PubValid(w)
RbOrder(w) ==
  /\ w.activeStep \in {1, 2, 3} => w.diffPair.shown
  /\ w.request = "rollback" => w.activeStep = 2 /\ w.submitting /\ RbValid(w)
  /\ w.request = "diff" => w.diffLoading /\ RbValid(w)

PubInv(w, e) == w \in PubType /\ Known(w, e) /\ Held(w) /\ PubOrder(w)
RbInv(w, e) == w \in RbType /\ Known(w, e) /\ Held(w) /\ RbOrder(w)
StoreInv == store \in [Key -> Element] /\ others \in 0..MaxOther /\ Sound(E)
WizardInv == StoreInv /\ PubInv(pub, E) /\ RbInv(rb, E)

\* The wizards' own names for the element service are the composition's.
LEMMA PNames ==
  /\ P!NoVersion = NoVersion /\ P!NoVersions = NoVersions /\ P!Version = Version
  /\ P!element = E /\ P!storeVars = storeVars
  /\ \A e, v : /\ P!CanPublish(e, v) <=> CanPublish(e, v)
               /\ P!published(e, v) = published(e, v)
  /\ \A e : P!Stored(e) = Stored(e)
BY DEF P!NoVersion, NoVersion, P!NoVersions, NoVersions, P!Version, Version, P!element, E,
   P!storeVars, storeVars, P!CanPublish, CanPublish, P!published, published, P!Stored, Stored

LEMMA RNames ==
  /\ R!NoVersion = NoVersion /\ R!NoVersions = NoVersions /\ R!Version = Version
  /\ R!element = E /\ R!storeVars = storeVars
  /\ \A e, v : /\ R!CanRollback(e, v) <=> CanRollback(e, v)
               /\ R!rolledBack(e, v) = rolledBack(e, v)
  /\ \A e : R!Stored(e) = Stored(e)
BY DEF R!NoVersion, NoVersion, R!NoVersions, NoVersions, R!Version, Version, R!element, E,
   R!storeVars, storeVars, R!CanRollback, CanRollback, R!rolledBack, rolledBack, R!Stored, Stored

LEMMA NoVersionsShape ==
  NoVersions \in [Version -> VersionRecord] /\ \A v \in Version : NoVersions[v] = NoVersion
BY NoVersionType DEF NoVersions

\* A request changes the element: what a wizard knows of it stays true.
LEMMA KnownKept ==
  ASSUME NEW w, NEW e, NEW f, Sound(e), Sound(f), Evolves(e, f), Known(w, e),
         w.life \in Nat, w.usingVersion \in Nat, w.seen \in Nat, Held(w)
  PROVE  Known(w, f)
<1>1. e.latest \in Nat /\ f.latest \in Nat /\ e.life \in Nat /\ f.life \in Nat
  BY DEF Sound, Element
<1>2. w.life <= f.life
  BY <1>1 DEF Known, Evolves
<1>3. ASSUME f.life = w.life PROVE Listed(w, f) /\ Based(w, f)
  <2>1. e.life = w.life /\ e.life = f.life
    BY <1>1, <1>3 DEF Known, Evolves
  <2>2. Listed(w, e) /\ Based(w, e)
    BY <2>1 DEF Known
  <2>3. /\ e.latest <= f.latest
        /\ \A v \in 1..e.latest :
             /\ e.ver[v] = NoVersion => f.ver[v] = NoVersion
             /\ \/ f.ver[v] = NoVersion
                \/ f.ver[v].raw = e.ver[v].raw /\ (e.ver[v].published => f.ver[v].published)
    BY <2>1 DEF Evolves
  <2>4. ASSUME NEW v \in Version, w.options[v] # NoVersion
        PROVE  /\ v <= f.latest
               /\ \/ f.ver[v] = NoVersion
                  \/ /\ f.ver[v].raw = w.options[v].raw
                     /\ w.options[v].published => f.ver[v].published
    <3>1. /\ v <= e.latest
          /\ \/ e.ver[v] = NoVersion
             \/ /\ e.ver[v].raw = w.options[v].raw
                /\ w.options[v].published => e.ver[v].published
      BY <2>2, <2>4 DEF Listed
    <3>2. v \in 1..e.latest /\ v <= f.latest
      BY <1>1, <2>3, <3>1 DEF Version
    <3> QED
      BY <2>3, <3>1, <3>2
  <2>5. w.usingVersion <= e.latest /\ w.seen <= e.latest
    BY <2>2 DEF Listed
  <2>6. w.usingVersion <= f.latest /\ w.seen <= f.latest
    BY <1>1, <2>3, <2>5
  <2>7. Listed(w, f)
    BY <2>4, <2>6 DEF Listed
  <2>8. ASSUME w.diffPair.shown, w.currentVersion \in Stored(f)
        PROVE  w.diffPair.base = f.ver[w.currentVersion].raw
    <3>1. w.currentVersion = w.usingVersion /\ w.currentVersion \in Version
          /\ f.ver[w.currentVersion] # NoVersion
      BY <2>8 DEF Held, Stored
    <3>2. w.currentVersion \in 1..e.latest
      BY <1>1, <2>5, <3>1 DEF Version
    <3>3. /\ f.ver[w.currentVersion].raw = e.ver[w.currentVersion].raw
          /\ e.ver[w.currentVersion] # NoVersion
      BY <2>3, <3>1, <3>2
    <3> QED
      BY <2>2, <2>8, <3>1, <3>3 DEF Based, Stored
  <2> QED
    BY <2>7, <2>8 DEF Based
<1> QED
  BY <1>2, <1>3 DEF Known

\* A wizard that has listed nothing and shows nothing knows nothing wrong.
LEMMA KnownEmpty ==
  ASSUME NEW w, NEW e, Sound(e), w.life <= e.life, w.options = NoVersions, w.usingVersion = 0,
         w.seen \in Nat, w.seen = 0 \/ (e.life = w.life => w.seen <= e.latest), ~w.diffPair.shown
  PROVE  Known(w, e)
<1>1. e.latest \in Nat
  BY DEF Sound, Element
<1> QED
  BY <1>1, NoVersionsShape DEF Known, Listed, Based

\* The listing, of whatever versions fit in it.
LEMMA KnownListing ==
  ASSUME NEW w, NEW e, Sound(e), w.life <= e.life, ~w.diffPair.shown,
         e.life = w.life => w.usingVersion <= e.latest /\ w.seen <= e.latest,
         \A v \in Version : w.options[v] \in {e.ver[v], NoVersion}
  PROVE  Known(w, e)
BY DEF Known, Listed, Based, Sound

\* The difference: the old side from the listing or from the element itself.
LEMMA KnownDifference ==
  ASSUME NEW w, NEW u, NEW e, Sound(e), Known(w, e), u.life = w.life, u.options = w.options,
         u.usingVersion = w.usingVersion, u.seen = w.seen,
         \/ ~u.diffPair.shown
         \/ u.diffPair = w.diffPair /\ u.currentVersion = w.currentVersion
         \/ u.currentVersion = 0
         \/ /\ u.currentVersion \in Version /\ u.options[u.currentVersion] # NoVersion
            /\ u.diffPair.base = u.options[u.currentVersion].raw
         \/ u.diffPair.base = e.ver[u.currentVersion].raw
  PROVE  Known(u, e)
<1>1. u.life <= e.life
  BY DEF Known
<1>2. ASSUME e.life = u.life PROVE Listed(u, e) /\ Based(u, e)
  <2>1. Listed(w, e) /\ Based(w, e)
    BY <1>2 DEF Known
  <2>2. Listed(u, e)
    BY <2>1 DEF Listed
  <2>3. Based(u, e)
    BY <2>1, <2>2, StoreAssumption DEF Based, Listed, Stored, Version
  <2> QED
    BY <2>2, <2>3
<1> QED
  BY <1>1, <1>2 DEF Known

-----------------------------------------------------------------------------
(* The publish wizard *)

LEMMA PubShapes ==
  /\ P!NoDiff \in Diff /\ ~P!NoDiff.shown
  /\ P!Initial \in PubType /\ P!Gone \in PubType
  /\ \A w \in {P!Initial, P!Gone} :
       /\ w.life = 0 /\ w.options = NoVersions /\ w.usingVersion = 0 /\ w.seen = 0
       /\ w.diffPair = P!NoDiff /\ w.activeStep = 0
  /\ P!Initial.request = "metadata" /\ P!Initial.optionsLoading /\ P!Gone.request = "none"
<1>1. P!NoDiff \in Diff /\ ~P!NoDiff.shown
  BY DEF P!NoDiff, Diff
<1>2. 0 \in 0..MaxVersion /\ 0 \in 0..5 /\ P!NoVersions = NoVersions
      /\ NoVersions \in [Version -> VersionRecord]
  BY StoreAssumption, PNames, NoVersionsShape
<1>3. /\ P!Initial \in PubType /\ P!Initial.life = 0 /\ P!Initial.options = NoVersions
      /\ P!Initial.usingVersion = 0 /\ P!Initial.seen = 0 /\ P!Initial.diffPair = P!NoDiff
      /\ P!Initial.activeStep = 0 /\ P!Initial.request = "metadata" /\ P!Initial.optionsLoading
  BY <1>1, <1>2 DEF P!Initial, PubType
<1>4. /\ P!Gone \in PubType /\ P!Gone.life = 0 /\ P!Gone.options = NoVersions
      /\ P!Gone.usingVersion = 0 /\ P!Gone.seen = 0 /\ P!Gone.diffPair = P!NoDiff
      /\ P!Gone.activeStep = 0 /\ P!Gone.request = "none"
  BY <1>3 DEF P!Gone, PubType
<1> QED
  BY <1>1, <1>3, <1>4

LEMMA PubEmpty ==
  ASSUME NEW e, Sound(e), NEW w \in {P!Initial, P!Gone}
  PROVE  PubInv(w, e)
<1>1. /\ w \in PubType /\ w.life = 0 /\ w.options = NoVersions /\ w.usingVersion = 0 /\ w.seen = 0
      /\ ~w.diffPair.shown /\ w.activeStep = 0
      /\ w.request = "none" \/ (w.request = "metadata" /\ w.optionsLoading)
  BY PubShapes
<1>2. w.life <= e.life
  BY <1>1 DEF Sound, Element
<1>3. Known(w, e)
  BY <1>1, <1>2, KnownEmpty
<1> QED
  BY <1>1, <1>3 DEF PubInv, Held, PubOrder

\* The options are read: the metadata, then the versions.
LEMMA PubReadMetadata == ASSUME WizardInv, P!readMetadata PROVE PubInv(pub', E)
<1>1. /\ pub.request = "metadata"
      /\ pub' = [pub EXCEPT !.request = "versions", !.seen = E.using, !.life = E.life]
  BY PNames DEF P!readMetadata
<1>2. /\ pub \in PubType /\ Sound(E) /\ pub.options = NoVersions /\ pub.usingVersion = 0
      /\ ~pub.diffPair.shown /\ pub.optionsLoading /\ pub.activeStep = 0
  BY <1>1 DEF WizardInv, StoreInv, PubInv, Held
<1>3. E.using \in 0..MaxVersion /\ E.life \in Nat /\ E.using <= E.latest
  BY <1>2, ElementFields DEF Sound
<1>4. /\ pub' \in PubType /\ pub'.request = "versions" /\ pub'.seen = E.using /\ pub'.life = E.life
      /\ pub'.options = pub.options /\ pub'.usingVersion = pub.usingVersion
      /\ pub'.diffPair = pub.diffPair /\ pub'.optionsLoading = pub.optionsLoading
      /\ pub'.activeStep = pub.activeStep
  BY <1>1, <1>2, <1>3 DEF PubType
<1>5. pub'.life <= E.life /\ pub'.seen \in Nat
  BY <1>3, <1>4
<1>6. Known(pub', E)
  BY <1>2, <1>3, <1>4, <1>5, KnownEmpty
<1> QED
  BY <1>2, <1>4, <1>6 DEF PubInv, Held, PubOrder

LEMMA OptionsShape ==
  ASSUME NEW e, Sound(e), NEW options \in P!toVersionOptions(e) \cup R!requestVersionOptions(e)
  PROVE  /\ options \in [Version -> VersionRecord]
         /\ \A v \in Version : options[v] \in {e.ver[v], NoVersion}
<1>1. e.ver \in [Version -> VersionRecord]
  BY DEF Sound, Element
<1>2. PICK S : options = [v \in Version |-> IF v \in S THEN e.ver[v] ELSE NoVersion]
  BY PNames, RNames DEF P!toVersionOptions, R!requestVersionOptions
<1> QED
  BY <1>1, <1>2, NoVersionType

LEMMA PubLoadOptions == ASSUME WizardInv, P!loadOptions PROVE PubInv(pub', E)
<1>1. PICK options \in P!toVersionOptions(E) :
        pub' = [pub EXCEPT !.request = "none", !.options = options, !.seen = 0,
                           !.usingVersion = P!getUsingVersion(options), !.version = 0,
                           !.targets = {}, !.optionsLoading = FALSE]
  BY PNames DEF P!loadOptions
<1>2. pub.request = "versions"
  BY DEF P!loadOptions
<1>3. pub \in PubType /\ Sound(E) /\ Known(pub, E) /\ ~pub.diffPair.shown /\ pub.activeStep = 0
  BY <1>2 DEF WizardInv, StoreInv, PubInv, Held
<1>4. /\ options \in [Version -> VersionRecord]
      /\ \A v \in Version : options[v] \in {E.ver[v], NoVersion}
  BY <1>3, OptionsShape
<1>5. P!getUsingVersion(options) \in {0, pub.seen} /\ pub.seen \in 0..MaxVersion /\ 0 \in 0..MaxVersion
  BY <1>3, StoreAssumption DEF P!getUsingVersion, PubType
<1>6. /\ pub' \in PubType /\ pub'.request = "none" /\ pub'.options = options /\ pub'.seen = 0
      /\ pub'.usingVersion \in {0, pub.seen} /\ pub'.diffPair = pub.diffPair /\ pub'.life = pub.life
      /\ pub'.activeStep = pub.activeStep
  BY <1>1, <1>3, <1>4, <1>5, ZenonT(40) DEF PubType
<1>7. pub'.life <= E.life /\ (E.life = pub'.life => pub'.usingVersion <= E.latest /\ pub'.seen <= E.latest)
  BY <1>3, <1>5, <1>6 DEF Known, Listed, Sound, Element
<1>8. Known(pub', E)
  BY <1>3, <1>4, <1>6, <1>7, KnownListing
<1> QED
  BY <1>3, <1>6, <1>8 DEF PubInv, Held, PubOrder

LEMMA PubLoadFailed == ASSUME WizardInv, P!loadOptionsFailed PROVE PubInv(pub', E)
<1>1. /\ pub.request \in {"metadata", "versions"}
      /\ pub' = [pub EXCEPT !.request = "none", !.options = NoVersions, !.usingVersion = 0,
                            !.optionsLoading = FALSE]
  BY PNames DEF P!loadOptionsFailed
<1>2. pub \in PubType /\ Sound(E) /\ Known(pub, E) /\ ~pub.diffPair.shown /\ pub.activeStep = 0
  BY <1>1 DEF WizardInv, StoreInv, PubInv, Held
<1>3. /\ pub' \in PubType /\ pub'.request = "none" /\ pub'.options = NoVersions /\ pub'.seen = pub.seen
      /\ pub'.usingVersion = 0 /\ pub'.diffPair = pub.diffPair /\ pub'.life = pub.life
      /\ pub'.activeStep = pub.activeStep
  <2>1. 0 \in 0..MaxVersion /\ NoVersions \in [Version -> VersionRecord]
    BY NoVersionsShape, StoreAssumption
  <2> QED
    BY <1>1, <1>2, <2>1, ZenonT(40) DEF PubType
<1>4. /\ pub'.life <= E.life /\ pub'.seen \in Nat
      /\ E.life = pub'.life => pub'.seen <= E.latest
  BY <1>2, <1>3 DEF Known, Listed, PubType
<1>5. Known(pub', E)
  BY <1>2, <1>3, <1>4, KnownEmpty
<1> QED
  BY <1>2, <1>3, <1>5 DEF PubInv, Held, PubOrder

\* Steps that leave the listing, the choice and the difference alone.
LEMMA PubSame ==
  ASSUME NEW e, Sound(e), PubInv(pub, e), NEW w \in PubType,
         w.life = pub.life, w.options = pub.options, w.usingVersion = pub.usingVersion,
         w.seen = pub.seen, w.version = pub.version, w.diffPair = pub.diffPair,
         w.currentVersion = pub.currentVersion, w.optionsLoading = pub.optionsLoading,
         PubOrder(w), w.request \in {"metadata", "versions"} => w.request = pub.request,
         w.request \in {"metadata", "versions"} => w.activeStep = pub.activeStep
  PROVE  PubInv(w, e)
<1>1. Known(w, e)
  BY KnownDifference DEF PubInv
<1>2. Held(w)
  BY DEF PubInv, Held
<1> QED
  BY <1>1, <1>2 DEF PubInv

LEMMA PubSelect == ASSUME WizardInv, NEW v \in Version, P!selectVersion(v) PROVE PubInv(pub', E)
<1>1. /\ pub.activeStep = 0 /\ ~pub.submitting /\ ~pub.diffLoading /\ ~pub.optionsLoading
      /\ pub' = [pub EXCEPT !.version = v, !.diffPair = P!NoDiff, !.currentVersion = 0]
  BY DEF P!selectVersion
<1>2. pub \in PubType /\ Sound(E) /\ PubInv(pub, E) /\ v \in 0..MaxVersion
  BY StoreAssumption DEF WizardInv, StoreInv, PubInv, Version
<1>3. pub.request = "none"
  BY <1>1, <1>2 DEF PubInv, Held, PubOrder, PubType
<1>4. /\ pub' \in PubType /\ pub'.request = "none" /\ pub'.options = pub.options /\ pub'.seen = pub.seen
      /\ pub'.usingVersion = pub.usingVersion /\ ~pub'.diffPair.shown /\ pub'.life = pub.life
      /\ pub'.activeStep = 0
  <2>1. P!NoDiff \in Diff /\ ~P!NoDiff.shown /\ 0 \in 0..MaxVersion
    BY PubShapes, StoreAssumption
  <2> QED
    BY <1>1, <1>2, <1>3, <2>1 DEF PubType
<1>5. Known(pub', E)
  BY <1>2, <1>4, KnownDifference DEF PubInv
<1> QED
  BY <1>4, <1>5 DEF PubInv, Held, PubOrder

\* Strategy, targets and the step back.
LEMMA PubChoose ==
  ASSUME WizardInv, \/ \E mode \in {1, 2} : P!chooseStrategy(mode)
                    \/ \E T \in SUBSET Target : P!chooseTargets(T)
                    \/ P!handleBack
  PROVE  PubInv(pub', E)
<1>0. pub \in PubType /\ Sound(E) /\ PubInv(pub, E)
  BY DEF WizardInv, StoreInv, PubInv
<1>1. ASSUME NEW mode \in {1, 2}, P!chooseStrategy(mode) PROVE PubInv(pub', E)
  <2>1. pub' = [pub EXCEPT !.publishMode = mode, !.targets = IF mode = 2 THEN {} ELSE @]
    BY <1>1 DEF P!chooseStrategy
  <2>2. /\ pub' \in PubType /\ pub'.request = pub.request /\ pub'.options = pub.options
        /\ pub'.usingVersion = pub.usingVersion /\ pub'.diffPair = pub.diffPair
        /\ pub'.life = pub.life /\ pub'.seen = pub.seen /\ pub'.version = pub.version
        /\ pub'.currentVersion = pub.currentVersion /\ pub'.activeStep = pub.activeStep
        /\ pub'.optionsLoading = pub.optionsLoading /\ pub'.submitting = pub.submitting
        /\ pub'.diffLoading = pub.diffLoading
    BY <1>0, <2>1 DEF PubType
  <2>3. PubOrder(pub')
    BY <1>0, <2>2 DEF PubInv, PubOrder, PubValid
  <2> QED
    BY <1>0, <2>2, <2>3, PubSame
<1>2. ASSUME NEW T \in SUBSET Target, P!chooseTargets(T) PROVE PubInv(pub', E)
  <2>1. pub' = [pub EXCEPT !.targets = T]
    BY <1>2 DEF P!chooseTargets
  <2>2. /\ pub' \in PubType /\ pub'.request = pub.request /\ pub'.options = pub.options
        /\ pub'.usingVersion = pub.usingVersion /\ pub'.diffPair = pub.diffPair
        /\ pub'.life = pub.life /\ pub'.seen = pub.seen /\ pub'.version = pub.version
        /\ pub'.currentVersion = pub.currentVersion /\ pub'.activeStep = pub.activeStep
        /\ pub'.optionsLoading = pub.optionsLoading /\ pub'.submitting = pub.submitting
        /\ pub'.diffLoading = pub.diffLoading
    BY <1>0, <2>1 DEF PubType
  <2>3. PubOrder(pub')
    BY <1>0, <2>2 DEF PubInv, PubOrder, PubValid
  <2> QED
    BY <1>0, <2>2, <2>3, PubSame
<1>3. CASE P!handleBack
  <2>1. /\ pub.activeStep \in 1..4 /\ ~pub.submitting /\ ~pub.diffLoading
        /\ pub' = [pub EXCEPT !.activeStep = pub.activeStep - 1]
    BY <1>3 DEF P!handleBack
  <2>2. pub.activeStep - 1 \in 0..5 /\ pub.request = "none"
    BY <1>0, <2>1 DEF PubInv, Held, PubOrder, PubType
  <2>3. /\ pub' \in PubType /\ pub'.request = pub.request /\ pub'.options = pub.options
        /\ pub'.usingVersion = pub.usingVersion /\ pub'.diffPair = pub.diffPair
        /\ pub'.life = pub.life /\ pub'.seen = pub.seen /\ pub'.version = pub.version
        /\ pub'.currentVersion = pub.currentVersion /\ pub'.activeStep = pub.activeStep - 1
        /\ pub'.optionsLoading = pub.optionsLoading
    BY <1>0, <2>1, <2>2 DEF PubType
  <2>4. pub'.activeStep \in {3, 4, 5} => pub.activeStep \in {3, 4, 5}
    BY <2>1, <2>3
  <2>5. PubOrder(pub')
    BY <1>0, <2>2, <2>3, <2>4 DEF PubInv, PubOrder
  <2> QED
    BY <1>0, <2>2, <2>3, <2>5, PubSame
<1> QED
  BY <1>1, <1>2, <1>3

LEMMA PubValidMeans == ASSUME WizardInv, P!versionIsValid PROVE PubValid(pub)
<1>1. pub \in PubType /\ pub.version # 0 /\ pub.options[pub.version] # NoVersion
  BY PNames DEF WizardInv, PubInv, P!versionIsValid
<1>2. pub.version \in Version /\ pub.version \in Nat /\ pub.usingVersion \in Nat
  BY <1>1, StoreAssumption DEF PubType, Version
<1>3. pub.usingVersion # 0 => ~(pub.version <= pub.usingVersion)
  BY DEF P!versionIsValid, P!isPublishVersionDisabled
<1> QED
  BY <1>1, <1>2, <1>3 DEF PubValid

\* A difference that is shown: its new side is the chosen version as listed.
LEMMA PubCompare ==
  ASSUME WizardInv, PubValid(pub), NEW base \in Raw \cup {NoRaw}
  PROVE  /\ P!compare(base) \in Diff /\ P!compare(base).shown
         /\ P!compare(base).base = base
         /\ P!compare(base).compare = pub.options[pub.version].raw
<1>1. pub.options[pub.version].raw \in Raw \cup {NoRaw}
  BY DEF PubValid, WizardInv, PubInv, PubType, VersionRecord
<1> QED
  BY <1>1 DEF P!compare, Diff

LEMMA PubReview ==
  ASSUME WizardInv, PubValid(pub), NEW base \in Raw \cup {NoRaw}, NEW w \in PubType,
         w.life = pub.life, w.options = pub.options, w.usingVersion = pub.usingVersion,
         w.seen = pub.seen, w.version = pub.version, w.diffPair = P!compare(base),
         w.currentVersion = pub.usingVersion, w.activeStep = 3, w.request = "none",
         \/ pub.usingVersion = 0
         \/ /\ pub.options[pub.usingVersion] # NoVersion
            /\ base = pub.options[pub.usingVersion].raw
         \/ base = E.ver[pub.usingVersion].raw
  PROVE  PubInv(w, E)
<1>1. /\ w.diffPair.shown /\ w.diffPair.base = base
      /\ w.diffPair.compare = pub.options[pub.version].raw
  BY PubCompare
<1>2. Sound(E) /\ Known(pub, E)
  BY DEF WizardInv, StoreInv, PubInv
<1>3. \/ w.currentVersion = 0
      \/ /\ w.currentVersion \in Version /\ w.options[w.currentVersion] # NoVersion
         /\ w.diffPair.base = w.options[w.currentVersion].raw
      \/ w.diffPair.base = E.ver[w.currentVersion].raw
  <2>1. w.currentVersion = 0 \/ w.currentVersion \in Version
    BY StoreAssumption DEF PubType, Version
  <2> QED
    BY <1>1, <2>1
<1>4. Known(w, E)
  BY <1>2, <1>3, KnownDifference
<1>5. Held(w)
  BY <1>1 DEF Held, PubValid
<1>6. PubOrder(w)
  BY <1>1 DEF PubOrder
<1> QED
  BY <1>4, <1>5, <1>6 DEF PubInv

LEMMA PubLoadDiff ==
  ASSUME WizardInv, pub.request = "none", pub.activeStep = 2, P!handleLoadDiffAndAdvance
  PROVE  PubInv(pub', E)
<1>1. PubValid(pub)
  BY PubValidMeans DEF P!handleLoadDiffAndAdvance
<1>2. pub \in PubType /\ Sound(E) /\ Known(pub, E) /\ PubInv(pub, E)
  BY DEF WizardInv, StoreInv, PubInv
<1>3. CASE pub.usingVersion # 0 /\ pub.options[pub.usingVersion] # NoVersion
  <2> DEFINE d == P!compare(pub.options[pub.usingVersion].raw)
  <2>1. pub.options[pub.usingVersion].raw \in Raw \cup {NoRaw}
    BY <1>2, <1>3, StoreAssumption DEF PubType, VersionRecord, Version
  <2>2. d \in Diff
    BY <1>1, <2>1, PubCompare
  <2>3. pub' = [pub EXCEPT !.currentVersion = pub.usingVersion, !.activeStep = 3, !.diffPair = d]
    BY <1>3, PNames DEF P!handleLoadDiffAndAdvance
  <2> HIDE DEF d
  <2>4. /\ pub' \in PubType /\ pub'.life = pub.life /\ pub'.options = pub.options
        /\ pub'.usingVersion = pub.usingVersion /\ pub'.seen = pub.seen /\ pub'.version = pub.version
        /\ pub'.diffPair = d /\ pub'.currentVersion = pub.usingVersion /\ pub'.activeStep = 3
        /\ pub'.request = pub.request
    <3>1. 3 \in 0..5 /\ pub.usingVersion \in 0..MaxVersion
      BY <1>2 DEF PubType
    <3> QED
      BY <1>2, <2>2, <2>3, <3>1 DEF PubType
  <2> QED
    BY <1>1, <1>3, <2>1, <2>4, PubReview DEF d
<1>4. CASE pub.usingVersion = 0
  <2> DEFINE d == P!compare(NoRaw)
  <2>2. d \in Diff
    BY <1>1, PubCompare
  <2>3. pub' = [pub EXCEPT !.currentVersion = 0, !.activeStep = 3, !.diffPair = d]
    BY <1>4 DEF P!handleLoadDiffAndAdvance
  <2> HIDE DEF d
  <2>4. /\ pub' \in PubType /\ pub'.life = pub.life /\ pub'.options = pub.options
        /\ pub'.usingVersion = pub.usingVersion /\ pub'.seen = pub.seen /\ pub'.version = pub.version
        /\ pub'.diffPair = d /\ pub'.currentVersion = pub.usingVersion /\ pub'.activeStep = 3
        /\ pub'.request = pub.request
    <3>1. 3 \in 0..5 /\ 0 \in 0..MaxVersion
      BY StoreAssumption
    <3> QED
      BY <1>2, <1>4, <2>2, <2>3, <3>1, ZenonT(40) DEF PubType
  <2> QED
    BY <1>1, <1>4, <2>4, PubReview DEF d
<1>5. CASE pub.usingVersion # 0 /\ pub.options[pub.usingVersion] = NoVersion
  <2>1. pub' = [pub EXCEPT !.currentVersion = 0, !.diffPair = P!NoDiff, !.diffLoading = TRUE,
                           !.request = "diff"]
    BY <1>5, PNames DEF P!handleLoadDiffAndAdvance
  <2>2. P!NoDiff \in Diff /\ ~P!NoDiff.shown /\ 0 \in 0..MaxVersion
    BY PubShapes, StoreAssumption
  <2>3. /\ pub' \in PubType /\ pub'.life = pub.life /\ pub'.options = pub.options
        /\ pub'.usingVersion = pub.usingVersion /\ pub'.seen = pub.seen /\ pub'.version = pub.version
        /\ pub'.diffPair = P!NoDiff /\ pub'.activeStep = 2 /\ pub'.request = "diff" /\ pub'.diffLoading
    BY <1>2, <2>1, <2>2 DEF PubType
  <2>4. Known(pub', E)
    BY <1>2, <2>2, <2>3, KnownDifference
  <2> QED
    BY <1>1, <2>2, <2>3, <2>4 DEF PubInv, Held, PubOrder, PubValid
<1> QED
  BY <1>3, <1>4, <1>5

\* The next button, in each step of the wizard.
LEMMA PubNext == ASSUME WizardInv, P!handleNext PROVE PubInv(pub', E)
<1>1. pub \in PubType /\ Sound(E) /\ PubInv(pub, E)
  BY DEF WizardInv, StoreInv, PubInv
<1>2. /\ ~pub.submitting /\ ~pub.diffLoading
      /\ pub.activeStep = 0 => ~pub.optionsLoading
      /\ pub.activeStep = 3 => pub.diffPair.shown
  BY DEF P!handleNext, P!nextDisabled
<1>3. pub.request = "none"
  BY <1>1, <1>2 DEF PubInv, Held, PubOrder, PubType
<1>4. CASE pub.activeStep \in {0, 1, 3} /\ pub' = [pub EXCEPT !.activeStep = pub.activeStep + 1]
  <2>1. pub.activeStep + 1 \in 0..5 /\ (pub.activeStep + 1 \in {3, 4, 5} => pub.activeStep = 3)
    BY <1>4
  <2>2. /\ pub' \in PubType /\ pub'.request = pub.request /\ pub'.options = pub.options
        /\ pub'.usingVersion = pub.usingVersion /\ pub'.diffPair = pub.diffPair
        /\ pub'.life = pub.life /\ pub'.seen = pub.seen /\ pub'.version = pub.version
        /\ pub'.currentVersion = pub.currentVersion /\ pub'.activeStep = pub.activeStep + 1
        /\ pub'.optionsLoading = pub.optionsLoading
    BY <1>1, <1>4, <2>1 DEF PubType
  <2>3. PubOrder(pub')
    BY <1>2, <1>3, <2>1, <2>2 DEF PubOrder
  <2> QED
    BY <1>1, <1>3, <2>2, <2>3, PubSame
<1>5. CASE pub.activeStep = 2 /\ P!handleLoadDiffAndAdvance
  BY <1>3, <1>5, PubLoadDiff
<1>6. CASE pub.activeStep = 4 /\ P!handlePublish
  <2>1. PubValid(pub) /\ pub' = [pub EXCEPT !.submitting = TRUE, !.request = "publish"]
    BY <1>6, PubValidMeans DEF P!handlePublish
  <2>2. /\ pub' \in PubType /\ pub'.request = "publish" /\ pub'.options = pub.options
        /\ pub'.usingVersion = pub.usingVersion /\ pub'.diffPair = pub.diffPair
        /\ pub'.life = pub.life /\ pub'.seen = pub.seen /\ pub'.version = pub.version
        /\ pub'.currentVersion = pub.currentVersion /\ pub'.activeStep = pub.activeStep
        /\ pub'.optionsLoading = pub.optionsLoading /\ pub'.submitting
    BY <1>1, <2>1 DEF PubType
  <2>3. PubOrder(pub')
    BY <1>1, <1>6, <2>1, <2>2 DEF PubInv, PubOrder, PubValid
  <2> QED
    BY <1>1, <2>2, <2>3, PubSame
<1>7. CASE pub.activeStep = 5 /\ pub' = P!Gone
  BY <1>1, <1>7, PubEmpty
<1> QED
  BY <1>4, <1>5, <1>6, <1>7 DEF P!handleNext

LEMMA PubDiff == ASSUME WizardInv, P!diffAnswered \/ P!diffFailed PROVE PubInv(pub', E)
<1>1. pub \in PubType /\ Sound(E) /\ PubInv(pub, E)
  BY DEF WizardInv, StoreInv, PubInv
<1>2. pub.request = "diff"
  BY DEF P!diffAnswered, P!diffFailed
<1>3. PubValid(pub)
  BY <1>1, <1>2 DEF PubInv, PubOrder
<1>4. CASE P!diffAnswered
  <2> DEFINE d == P!compare(E.ver[pub.usingVersion].raw)
  <2>1. pub.usingVersion \in Version
    BY <1>4, PNames DEF P!diffAnswered, Stored
  <2>2. E.ver[pub.usingVersion].raw \in Raw \cup {NoRaw}
    BY <1>1, <2>1 DEF Sound, Element, VersionRecord
  <2>3. d \in Diff
    BY <1>3, <2>2, PubCompare
  <2>4. pub' = [pub EXCEPT !.request = "none", !.diffLoading = FALSE, !.activeStep = 3,
                           !.currentVersion = pub.usingVersion, !.diffPair = d]
    BY <1>4, PNames DEF P!diffAnswered
  <2> HIDE DEF d
  <2>5. /\ pub' \in PubType /\ pub'.life = pub.life /\ pub'.options = pub.options
        /\ pub'.usingVersion = pub.usingVersion /\ pub'.seen = pub.seen /\ pub'.version = pub.version
        /\ pub'.diffPair = d /\ pub'.currentVersion = pub.usingVersion /\ pub'.activeStep = 3
        /\ pub'.request = "none"
    <3>1. 3 \in 0..5 /\ pub.usingVersion \in 0..MaxVersion
      BY <1>1 DEF PubType
    <3> QED
      BY <1>1, <2>3, <2>4, <3>1 DEF PubType
  <2> QED
    BY <1>3, <2>2, <2>5, PubReview DEF d
<1>5. CASE P!diffFailed
  <2>1. pub' = [pub EXCEPT !.request = "none", !.diffLoading = FALSE]
    BY <1>5 DEF P!diffFailed
  <2>2. /\ pub' \in PubType /\ pub'.request = "none" /\ pub'.options = pub.options
        /\ pub'.usingVersion = pub.usingVersion /\ pub'.diffPair = pub.diffPair
        /\ pub'.life = pub.life /\ pub'.seen = pub.seen /\ pub'.version = pub.version
        /\ pub'.currentVersion = pub.currentVersion /\ pub'.activeStep = pub.activeStep
        /\ pub'.optionsLoading = pub.optionsLoading
    BY <1>1, <2>1 DEF PubType
  <2>3. PubOrder(pub')
    BY <1>1, <2>2 DEF PubInv, PubOrder
  <2> QED
    BY <1>1, <2>2, <2>3, PubSame
<1> QED
  BY <1>4, <1>5

LEMMA PubLeave == ASSUME WizardInv, P!leave PROVE PubInv(pub', E)
<1>1. pub \in PubType /\ Sound(E) /\ PubInv(pub, E)
  BY DEF WizardInv, StoreInv, PubInv
<1>2. CASE pub' = P!Gone
  BY <1>1, <1>2, PubEmpty
<1>3. CASE pub' = [pub EXCEPT !.mounted = FALSE]
  <2>1. /\ pub' \in PubType /\ pub'.request = pub.request /\ pub'.options = pub.options
        /\ pub'.usingVersion = pub.usingVersion /\ pub'.diffPair = pub.diffPair
        /\ pub'.life = pub.life /\ pub'.seen = pub.seen /\ pub'.version = pub.version
        /\ pub'.currentVersion = pub.currentVersion /\ pub'.activeStep = pub.activeStep
        /\ pub'.optionsLoading = pub.optionsLoading /\ pub'.submitting = pub.submitting
        /\ pub'.diffLoading = pub.diffLoading
    BY <1>1, <1>3 DEF PubType
  <2>2. PubOrder(pub')
    BY <1>1, <2>1 DEF PubInv, PubOrder, PubValid
  <2> QED
    BY <1>1, <2>1, <2>2, PubSame
<1> QED
  BY <1>2, <1>3 DEF P!leave

\* The end of a publish, whatever became of it.
LEMMA PubEnd ==
  ASSUME NEW e, Sound(e), PubInv(pub, e), pub.request = "publish", NEW s \in {4, 5},
         NEW w, w \in {P!Gone, [pub EXCEPT !.request = "none", !.submitting = FALSE, !.activeStep = s],
                       [pub EXCEPT !.request = "none", !.submitting = FALSE]}
  PROVE  PubInv(w, e)
<1>1. CASE w = P!Gone
  BY <1>1, PubEmpty
<1>2. CASE w # P!Gone
  <2>1. pub \in PubType /\ pub.activeStep = 4
    BY DEF PubInv, PubOrder
  <2>2. /\ w \in PubType /\ w.request = "none" /\ w.options = pub.options
        /\ w.usingVersion = pub.usingVersion /\ w.diffPair = pub.diffPair
        /\ w.life = pub.life /\ w.seen = pub.seen /\ w.version = pub.version
        /\ w.currentVersion = pub.currentVersion /\ w.optionsLoading = pub.optionsLoading
    <3>1. s \in 0..5
      OBVIOUS
    <3>2. CASE w = [pub EXCEPT !.request = "none", !.submitting = FALSE, !.activeStep = s]
      BY <2>1, <3>1, <3>2 DEF PubType
    <3>3. CASE w = [pub EXCEPT !.request = "none", !.submitting = FALSE]
      BY <2>1, <3>3 DEF PubType
    <3> QED
      BY <1>2, <3>2, <3>3
  <2>3. pub.diffPair.shown
    BY <2>1 DEF PubInv, PubOrder
  <2>4. PubOrder(w)
    BY <2>2, <2>3 DEF PubOrder
  <2> QED
    BY <2>2, <2>4, PubSame
<1> QED
  BY <1>1, <1>2

-----------------------------------------------------------------------------
(* The rollback wizard, along the same lines *)

LEMMA RbShapes ==
  /\ R!NoDiff \in Diff /\ ~R!NoDiff.shown
  /\ R!Initial \in RbType /\ R!Gone \in RbType
  /\ \A w \in {R!Initial, R!Gone} :
       /\ w.life = 0 /\ w.options = NoVersions /\ w.usingVersion = 0 /\ w.seen = 0
       /\ w.diffPair = R!NoDiff /\ w.activeStep = 0
  /\ R!Initial.request = "metadata" /\ R!Initial.optionsLoading /\ R!Gone.request = "none"
<1>1. R!NoDiff \in Diff /\ ~R!NoDiff.shown
  BY DEF R!NoDiff, Diff
<1>2. 0 \in 0..MaxVersion /\ 0 \in 0..3 /\ R!NoVersions = NoVersions
      /\ NoVersions \in [Version -> VersionRecord]
  BY StoreAssumption, RNames, NoVersionsShape
<1>3. /\ R!Initial \in RbType /\ R!Initial.life = 0 /\ R!Initial.options = NoVersions
      /\ R!Initial.usingVersion = 0 /\ R!Initial.seen = 0 /\ R!Initial.diffPair = R!NoDiff
      /\ R!Initial.activeStep = 0 /\ R!Initial.request = "metadata" /\ R!Initial.optionsLoading
  BY <1>1, <1>2 DEF R!Initial, RbType
<1>4. /\ R!Gone \in RbType /\ R!Gone.life = 0 /\ R!Gone.options = NoVersions
      /\ R!Gone.usingVersion = 0 /\ R!Gone.seen = 0 /\ R!Gone.diffPair = R!NoDiff
      /\ R!Gone.activeStep = 0 /\ R!Gone.request = "none"
  BY <1>3 DEF R!Gone, RbType
<1> QED
  BY <1>1, <1>3, <1>4

LEMMA RbEmpty ==
  ASSUME NEW e, Sound(e), NEW w \in {R!Initial, R!Gone}
  PROVE  RbInv(w, e)
<1>1. /\ w \in RbType /\ w.life = 0 /\ w.options = NoVersions /\ w.usingVersion = 0 /\ w.seen = 0
      /\ ~w.diffPair.shown /\ w.activeStep = 0
      /\ w.request = "none" \/ (w.request = "metadata" /\ w.optionsLoading)
  BY RbShapes
<1>2. w.life <= e.life
  BY <1>1 DEF Sound, Element
<1>3. Known(w, e)
  BY <1>1, <1>2, KnownEmpty
<1> QED
  BY <1>1, <1>3 DEF RbInv, Held, RbOrder

LEMMA RbReadMetadata == ASSUME WizardInv, R!readMetadata PROVE RbInv(rb', E)
<1>1. /\ rb.request = "metadata"
      /\ rb' = [rb EXCEPT !.request = "versions", !.seen = E.using, !.life = E.life]
  BY RNames DEF R!readMetadata
<1>2. /\ rb \in RbType /\ Sound(E) /\ rb.options = NoVersions /\ rb.usingVersion = 0
      /\ ~rb.diffPair.shown /\ rb.optionsLoading /\ rb.activeStep = 0
  BY <1>1 DEF WizardInv, StoreInv, RbInv, Held
<1>3. E.using \in 0..MaxVersion /\ E.life \in Nat /\ E.using <= E.latest
  BY <1>2, ElementFields DEF Sound
<1>4. /\ rb' \in RbType /\ rb'.request = "versions" /\ rb'.seen = E.using /\ rb'.life = E.life
      /\ rb'.options = rb.options /\ rb'.usingVersion = rb.usingVersion
      /\ rb'.diffPair = rb.diffPair /\ rb'.optionsLoading = rb.optionsLoading
      /\ rb'.activeStep = rb.activeStep
  BY <1>1, <1>2, <1>3 DEF RbType
<1>5. rb'.life <= E.life /\ rb'.seen \in Nat
  BY <1>3, <1>4
<1>6. Known(rb', E)
  BY <1>2, <1>3, <1>4, <1>5, KnownEmpty
<1> QED
  BY <1>2, <1>4, <1>6 DEF RbInv, Held, RbOrder

LEMMA RbLoadOptions == ASSUME WizardInv, R!loadOptions PROVE RbInv(rb', E)
<1>1. PICK options \in R!requestVersionOptions(E) :
        rb' = [rb EXCEPT !.request = "none", !.options = options, !.seen = 0, !.version = 0,
                          !.usingVersion = IF options = NoVersions THEN 0 ELSE rb.seen,
                          !.optionsLoading = FALSE]
  BY RNames DEF R!loadOptions
<1>2. rb.request = "versions"
  BY DEF R!loadOptions
<1>3. rb \in RbType /\ Sound(E) /\ Known(rb, E) /\ ~rb.diffPair.shown /\ rb.activeStep = 0
  BY <1>2 DEF WizardInv, StoreInv, RbInv, Held
<1>4. /\ options \in [Version -> VersionRecord]
      /\ \A v \in Version : options[v] \in {E.ver[v], NoVersion}
  BY <1>3, OptionsShape
<1>5. (IF options = NoVersions THEN 0 ELSE rb.seen) \in {0, rb.seen} /\ rb.seen \in 0..MaxVersion /\ 0 \in 0..MaxVersion
  BY <1>3, StoreAssumption DEF RbType
<1>6. /\ rb' \in RbType /\ rb'.request = "none" /\ rb'.options = options /\ rb'.seen = 0
      /\ rb'.usingVersion \in {0, rb.seen} /\ rb'.diffPair = rb.diffPair /\ rb'.life = rb.life
      /\ rb'.activeStep = rb.activeStep
  BY <1>1, <1>3, <1>4, <1>5, ZenonT(40) DEF RbType
<1>7. rb'.life <= E.life /\ (E.life = rb'.life => rb'.usingVersion <= E.latest /\ rb'.seen <= E.latest)
  BY <1>3, <1>5, <1>6 DEF Known, Listed, Sound, Element
<1>8. Known(rb', E)
  BY <1>3, <1>4, <1>6, <1>7, KnownListing
<1> QED
  BY <1>3, <1>6, <1>8 DEF RbInv, Held, RbOrder

LEMMA RbLoadFailed == ASSUME WizardInv, R!loadOptionsFailed PROVE RbInv(rb', E)
<1>1. /\ rb.request \in {"metadata", "versions"}
      /\ rb' = [rb EXCEPT !.request = "none", !.options = NoVersions, !.usingVersion = 0,
                            !.optionsLoading = FALSE]
  BY RNames DEF R!loadOptionsFailed
<1>2. rb \in RbType /\ Sound(E) /\ Known(rb, E) /\ ~rb.diffPair.shown /\ rb.activeStep = 0
  BY <1>1 DEF WizardInv, StoreInv, RbInv, Held
<1>3. /\ rb' \in RbType /\ rb'.request = "none" /\ rb'.options = NoVersions /\ rb'.seen = rb.seen
      /\ rb'.usingVersion = 0 /\ rb'.diffPair = rb.diffPair /\ rb'.life = rb.life
      /\ rb'.activeStep = rb.activeStep
  <2>1. 0 \in 0..MaxVersion /\ NoVersions \in [Version -> VersionRecord]
    BY NoVersionsShape, StoreAssumption
  <2> QED
    BY <1>1, <1>2, <2>1 DEF RbType
<1>4. /\ rb'.life <= E.life /\ rb'.seen \in Nat
      /\ E.life = rb'.life => rb'.seen <= E.latest
  BY <1>2, <1>3 DEF Known, Listed, RbType
<1>5. Known(rb', E)
  BY <1>2, <1>3, <1>4, KnownEmpty
<1> QED
  BY <1>2, <1>3, <1>5 DEF RbInv, Held, RbOrder

\* Steps that leave the listing, the choice and the difference alone.
LEMMA RbSame ==
  ASSUME NEW e, Sound(e), RbInv(rb, e), NEW w \in RbType,
         w.life = rb.life, w.options = rb.options, w.usingVersion = rb.usingVersion,
         w.seen = rb.seen, w.version = rb.version, w.diffPair = rb.diffPair,
         w.currentVersion = rb.currentVersion, w.optionsLoading = rb.optionsLoading,
         RbOrder(w), w.request \in {"metadata", "versions"} => w.request = rb.request,
         w.request \in {"metadata", "versions"} => w.activeStep = rb.activeStep
  PROVE  RbInv(w, e)
<1>1. Known(w, e)
  BY KnownDifference DEF RbInv
<1>2. Held(w)
  BY DEF RbInv, Held
<1> QED
  BY <1>1, <1>2 DEF RbInv

LEMMA RbSelect == ASSUME WizardInv, NEW v \in Version, R!selectVersion(v) PROVE RbInv(rb', E)
<1>1. /\ rb.activeStep = 0 /\ ~rb.submitting /\ ~rb.diffLoading /\ ~rb.optionsLoading
      /\ rb' = [rb EXCEPT !.version = v, !.diffPair = R!NoDiff, !.currentVersion = 0]
  BY DEF R!selectVersion
<1>2. rb \in RbType /\ Sound(E) /\ RbInv(rb, E) /\ v \in 0..MaxVersion
  BY StoreAssumption DEF WizardInv, StoreInv, RbInv, Version
<1>3. rb.request = "none"
  BY <1>1, <1>2 DEF RbInv, Held, RbOrder, RbType
<1>4. /\ rb' \in RbType /\ rb'.request = "none" /\ rb'.options = rb.options /\ rb'.seen = rb.seen
      /\ rb'.usingVersion = rb.usingVersion /\ ~rb'.diffPair.shown /\ rb'.life = rb.life
      /\ rb'.activeStep = 0
  <2>1. R!NoDiff \in Diff /\ ~R!NoDiff.shown /\ 0 \in 0..MaxVersion
    BY RbShapes, StoreAssumption
  <2> QED
    BY <1>1, <1>2, <1>3, <2>1 DEF RbType
<1>5. Known(rb', E)
  BY <1>2, <1>4, KnownDifference DEF RbInv
<1> QED
  BY <1>4, <1>5 DEF RbInv, Held, RbOrder

LEMMA RbBack == ASSUME WizardInv, R!handleBack PROVE RbInv(rb', E)
<1>1. rb \in RbType /\ Sound(E) /\ RbInv(rb, E)
  BY DEF WizardInv, StoreInv, RbInv
<1>2. /\ rb.activeStep \in {1, 2} /\ ~rb.submitting /\ ~rb.diffLoading
      /\ rb' = [rb EXCEPT !.activeStep = rb.activeStep - 1]
  BY DEF R!handleBack
<1>3. rb.activeStep - 1 \in 0..3 /\ rb.request = "none" /\ rb.diffPair.shown
  BY <1>1, <1>2 DEF RbInv, Held, RbOrder, RbType
<1>4. /\ rb' \in RbType /\ rb'.request = rb.request /\ rb'.options = rb.options
      /\ rb'.usingVersion = rb.usingVersion /\ rb'.diffPair = rb.diffPair
      /\ rb'.life = rb.life /\ rb'.seen = rb.seen /\ rb'.version = rb.version
      /\ rb'.currentVersion = rb.currentVersion /\ rb'.optionsLoading = rb.optionsLoading
  BY <1>1, <1>2, <1>3 DEF RbType
<1>5. RbOrder(rb')
  BY <1>3, <1>4 DEF RbOrder
<1> QED
  BY <1>1, <1>3, <1>4, <1>5, RbSame

LEMMA RbValidMeans == ASSUME WizardInv, R!versionIsValid PROVE RbValid(rb)
<1>1. rb \in RbType /\ rb.version # 0 /\ rb.options[rb.version] # NoVersion
  BY RNames DEF WizardInv, RbInv, R!versionIsValid
<1>2. rb.version \in Version
  BY <1>1, StoreAssumption DEF RbType, Version
<1>3. rb.options[rb.version].published
  BY DEF R!versionIsValid, R!isRollbackVersionDisabled
<1> QED
  BY <1>1, <1>2, <1>3 DEF RbValid

LEMMA RbCompare ==
  ASSUME WizardInv, RbValid(rb), NEW base \in Raw \cup {NoRaw}
  PROVE  /\ R!compare(base) \in Diff /\ R!compare(base).shown
         /\ R!compare(base).base = base
         /\ R!compare(base).compare = rb.options[rb.version].raw
<1>1. rb.options[rb.version].raw \in Raw \cup {NoRaw}
  BY DEF RbValid, WizardInv, RbInv, RbType, VersionRecord
<1> QED
  BY <1>1 DEF R!compare, Diff

LEMMA RbReview ==
  ASSUME WizardInv, RbValid(rb), NEW base \in Raw \cup {NoRaw}, NEW w \in RbType,
         w.life = rb.life, w.options = rb.options, w.usingVersion = rb.usingVersion,
         w.seen = rb.seen, w.version = rb.version, w.diffPair = R!compare(base),
         w.currentVersion = rb.usingVersion, w.activeStep = 1, w.request = "none",
         \/ rb.usingVersion = 0
         \/ /\ rb.options[rb.usingVersion] # NoVersion
            /\ base = rb.options[rb.usingVersion].raw
         \/ base = E.ver[rb.usingVersion].raw
  PROVE  RbInv(w, E)
<1>1. /\ w.diffPair.shown /\ w.diffPair.base = base
      /\ w.diffPair.compare = rb.options[rb.version].raw
  BY RbCompare
<1>2. Sound(E) /\ Known(rb, E)
  BY DEF WizardInv, StoreInv, RbInv
<1>3. \/ w.currentVersion = 0
      \/ /\ w.currentVersion \in Version /\ w.options[w.currentVersion] # NoVersion
         /\ w.diffPair.base = w.options[w.currentVersion].raw
      \/ w.diffPair.base = E.ver[w.currentVersion].raw
  <2>1. w.currentVersion = 0 \/ w.currentVersion \in Version
    BY StoreAssumption DEF RbType, Version
  <2> QED
    BY <1>1, <2>1
<1>4. Known(w, E)
  BY <1>2, <1>3, KnownDifference
<1>5. Held(w)
  BY <1>1 DEF Held, RbValid
<1>6. RbOrder(w)
  BY <1>1 DEF RbOrder
<1> QED
  BY <1>4, <1>5, <1>6 DEF RbInv

LEMMA RbLoadDiff ==
  ASSUME WizardInv, rb.request = "none", rb.activeStep = 0, R!handleLoadDiffAndAdvance
  PROVE  RbInv(rb', E)
<1>1. RbValid(rb)
  BY RbValidMeans DEF R!handleLoadDiffAndAdvance
<1>2. rb \in RbType /\ Sound(E) /\ Known(rb, E) /\ RbInv(rb, E)
  BY DEF WizardInv, StoreInv, RbInv
<1>3. CASE rb.usingVersion # 0 /\ rb.options[rb.usingVersion] # NoVersion
  <2> DEFINE d == R!compare(rb.options[rb.usingVersion].raw)
  <2>1. rb.options[rb.usingVersion].raw \in Raw \cup {NoRaw}
    BY <1>2, <1>3, StoreAssumption DEF RbType, VersionRecord, Version
  <2>2. d \in Diff
    BY <1>1, <2>1, RbCompare
  <2>3. rb' = [rb EXCEPT !.currentVersion = rb.usingVersion, !.activeStep = 1, !.diffPair = d]
    BY <1>3, RNames DEF R!handleLoadDiffAndAdvance
  <2> HIDE DEF d
  <2>4. /\ rb' \in RbType /\ rb'.life = rb.life /\ rb'.options = rb.options
        /\ rb'.usingVersion = rb.usingVersion /\ rb'.seen = rb.seen /\ rb'.version = rb.version
        /\ rb'.diffPair = d /\ rb'.currentVersion = rb.usingVersion /\ rb'.activeStep = 1
        /\ rb'.request = rb.request
    <3>1. 1 \in 0..3 /\ rb.usingVersion \in 0..MaxVersion
      BY <1>2 DEF RbType
    <3> QED
      BY <1>2, <2>2, <2>3, <3>1 DEF RbType
  <2> QED
    BY <1>1, <1>3, <2>1, <2>4, RbReview DEF d
<1>4. CASE rb.usingVersion = 0
  <2>1. rb' = [rb EXCEPT !.diffPair = R!NoDiff, !.currentVersion = 0]
    BY <1>4 DEF R!handleLoadDiffAndAdvance
  <2>2. R!NoDiff \in Diff /\ ~R!NoDiff.shown /\ 0 \in 0..MaxVersion
    BY RbShapes, StoreAssumption
  <2>3. /\ rb' \in RbType /\ rb'.life = rb.life /\ rb'.options = rb.options
        /\ rb'.usingVersion = rb.usingVersion /\ rb'.seen = rb.seen /\ rb'.version = rb.version
        /\ rb'.diffPair = R!NoDiff /\ rb'.activeStep = 0 /\ rb'.request = "none"
    BY <1>2, <2>1, <2>2 DEF RbType
  <2>4. Known(rb', E)
    BY <1>2, <2>2, <2>3, KnownDifference
  <2> QED
    BY <2>2, <2>3, <2>4 DEF RbInv, Held, RbOrder
<1>5. CASE rb.usingVersion # 0 /\ rb.options[rb.usingVersion] = NoVersion
  <2>1. rb' = [rb EXCEPT !.currentVersion = 0, !.diffPair = R!NoDiff, !.diffLoading = TRUE,
                           !.request = "diff"]
    BY <1>5, RNames DEF R!handleLoadDiffAndAdvance
  <2>2. R!NoDiff \in Diff /\ ~R!NoDiff.shown /\ 0 \in 0..MaxVersion
    BY RbShapes, StoreAssumption
  <2>3. /\ rb' \in RbType /\ rb'.life = rb.life /\ rb'.options = rb.options
        /\ rb'.usingVersion = rb.usingVersion /\ rb'.seen = rb.seen /\ rb'.version = rb.version
        /\ rb'.diffPair = R!NoDiff /\ rb'.activeStep = 0 /\ rb'.request = "diff" /\ rb'.diffLoading
    BY <1>2, <2>1, <2>2 DEF RbType
  <2>4. Known(rb', E)
    BY <1>2, <2>2, <2>3, KnownDifference
  <2> QED
    BY <1>1, <2>2, <2>3, <2>4 DEF RbInv, Held, RbOrder, RbValid
<1> QED
  BY <1>3, <1>4, <1>5

\* The next button, in each step of the wizard.
LEMMA RbNext == ASSUME WizardInv, R!handleNext PROVE RbInv(rb', E)
<1>1. rb \in RbType /\ Sound(E) /\ RbInv(rb, E)
  BY DEF WizardInv, StoreInv, RbInv
<1>2. /\ ~rb.submitting /\ ~rb.diffLoading
      /\ rb.activeStep = 0 => ~rb.optionsLoading
      /\ rb.activeStep = 1 => rb.diffPair.shown
  BY DEF R!handleNext, R!nextDisabled
<1>3. rb.request = "none"
  BY <1>1, <1>2 DEF RbInv, Held, RbOrder, RbType
<1>4. CASE rb.activeStep = 1 /\ rb' = [rb EXCEPT !.activeStep = 2]
  <2>1. 2 \in 0..3
    OBVIOUS
  <2>2. /\ rb' \in RbType /\ rb'.request = rb.request /\ rb'.options = rb.options
        /\ rb'.usingVersion = rb.usingVersion /\ rb'.diffPair = rb.diffPair
        /\ rb'.life = rb.life /\ rb'.seen = rb.seen /\ rb'.version = rb.version
        /\ rb'.currentVersion = rb.currentVersion /\ rb'.activeStep = 2
        /\ rb'.optionsLoading = rb.optionsLoading
    BY <1>1, <1>4, <2>1 DEF RbType
  <2>3. RbOrder(rb')
    BY <1>2, <1>3, <1>4, <2>2 DEF RbOrder
  <2> QED
    BY <1>1, <1>3, <2>2, <2>3, RbSame
<1>5. CASE rb.activeStep = 0 /\ R!handleLoadDiffAndAdvance
  BY <1>3, <1>5, RbLoadDiff
<1>6. CASE rb.activeStep = 2 /\ R!handleRollback
  <2>1. RbValid(rb) /\ rb' = [rb EXCEPT !.submitting = TRUE, !.request = "rollback"]
    BY <1>6, RbValidMeans DEF R!handleRollback
  <2>2. /\ rb' \in RbType /\ rb'.request = "rollback" /\ rb'.options = rb.options
        /\ rb'.usingVersion = rb.usingVersion /\ rb'.diffPair = rb.diffPair
        /\ rb'.life = rb.life /\ rb'.seen = rb.seen /\ rb'.version = rb.version
        /\ rb'.currentVersion = rb.currentVersion /\ rb'.activeStep = rb.activeStep
        /\ rb'.optionsLoading = rb.optionsLoading /\ rb'.submitting
    BY <1>1, <2>1 DEF RbType
  <2>3. RbOrder(rb')
    BY <1>1, <1>6, <2>1, <2>2 DEF RbInv, RbOrder, RbValid
  <2> QED
    BY <1>1, <2>2, <2>3, RbSame
<1>7. CASE rb.activeStep = 3 /\ rb' = R!Gone
  BY <1>1, <1>7, RbEmpty
<1> QED
  BY <1>4, <1>5, <1>6, <1>7 DEF R!handleNext

LEMMA RbDiff == ASSUME WizardInv, R!diffAnswered \/ R!diffFailed PROVE RbInv(rb', E)
<1>1. rb \in RbType /\ Sound(E) /\ RbInv(rb, E)
  BY DEF WizardInv, StoreInv, RbInv
<1>2. rb.request = "diff"
  BY DEF R!diffAnswered, R!diffFailed
<1>3. RbValid(rb)
  BY <1>1, <1>2 DEF RbInv, RbOrder
<1>4. CASE R!diffAnswered
  <2> DEFINE d == R!compare(E.ver[rb.usingVersion].raw)
  <2>1. rb.usingVersion \in Version
    BY <1>4, RNames DEF R!diffAnswered, Stored
  <2>2. E.ver[rb.usingVersion].raw \in Raw \cup {NoRaw}
    BY <1>1, <2>1 DEF Sound, Element, VersionRecord
  <2>3. d \in Diff
    BY <1>3, <2>2, RbCompare
  <2>4. rb' = [rb EXCEPT !.request = "none", !.diffLoading = FALSE, !.activeStep = 1,
                           !.currentVersion = rb.usingVersion, !.diffPair = d]
    BY <1>4, RNames DEF R!diffAnswered
  <2> HIDE DEF d
  <2>5. /\ rb' \in RbType /\ rb'.life = rb.life /\ rb'.options = rb.options
        /\ rb'.usingVersion = rb.usingVersion /\ rb'.seen = rb.seen /\ rb'.version = rb.version
        /\ rb'.diffPair = d /\ rb'.currentVersion = rb.usingVersion /\ rb'.activeStep = 1
        /\ rb'.request = "none"
    <3>1. 1 \in 0..3 /\ rb.usingVersion \in 0..MaxVersion
      BY <1>1 DEF RbType
    <3> QED
      BY <1>1, <2>3, <2>4, <3>1 DEF RbType
  <2> QED
    BY <1>3, <2>2, <2>5, RbReview DEF d
<1>5. CASE R!diffFailed
  <2>1. rb' = [rb EXCEPT !.request = "none", !.diffLoading = FALSE]
    BY <1>5 DEF R!diffFailed
  <2>2. /\ rb' \in RbType /\ rb'.request = "none" /\ rb'.options = rb.options
        /\ rb'.usingVersion = rb.usingVersion /\ rb'.diffPair = rb.diffPair
        /\ rb'.life = rb.life /\ rb'.seen = rb.seen /\ rb'.version = rb.version
        /\ rb'.currentVersion = rb.currentVersion /\ rb'.activeStep = rb.activeStep
        /\ rb'.optionsLoading = rb.optionsLoading
    BY <1>1, <2>1 DEF RbType
  <2>3. RbOrder(rb')
    BY <1>1, <2>2 DEF RbInv, RbOrder
  <2> QED
    BY <1>1, <2>2, <2>3, RbSame
<1> QED
  BY <1>4, <1>5

LEMMA RbLeave == ASSUME WizardInv, R!leave PROVE RbInv(rb', E)
<1>1. rb \in RbType /\ Sound(E) /\ RbInv(rb, E)
  BY DEF WizardInv, StoreInv, RbInv
<1>2. CASE rb' = R!Gone
  BY <1>1, <1>2, RbEmpty
<1>3. CASE rb' = [rb EXCEPT !.mounted = FALSE]
  <2>1. /\ rb' \in RbType /\ rb'.request = rb.request /\ rb'.options = rb.options
        /\ rb'.usingVersion = rb.usingVersion /\ rb'.diffPair = rb.diffPair
        /\ rb'.life = rb.life /\ rb'.seen = rb.seen /\ rb'.version = rb.version
        /\ rb'.currentVersion = rb.currentVersion /\ rb'.activeStep = rb.activeStep
        /\ rb'.optionsLoading = rb.optionsLoading /\ rb'.submitting = rb.submitting
        /\ rb'.diffLoading = rb.diffLoading
    BY <1>1, <1>3 DEF RbType
  <2>2. RbOrder(rb')
    BY <1>1, <2>1 DEF RbInv, RbOrder, RbValid
  <2> QED
    BY <1>1, <2>1, <2>2, RbSame
<1> QED
  BY <1>2, <1>3 DEF R!leave

\* The end of a rollback, whatever became of it.
LEMMA RbEnd ==
  ASSUME NEW e, Sound(e), RbInv(rb, e), rb.request = "rollback", NEW s \in {2, 3},
         NEW w, w \in {R!Gone, [rb EXCEPT !.request = "none", !.submitting = FALSE, !.activeStep = s],
                       [rb EXCEPT !.request = "none", !.submitting = FALSE]}
  PROVE  RbInv(w, e)
<1>1. CASE w = R!Gone
  BY <1>1, RbEmpty
<1>2. CASE w # R!Gone
  <2>1. rb \in RbType /\ rb.activeStep = 2
    BY DEF RbInv, RbOrder
  <2>2. /\ w \in RbType /\ w.request = "none" /\ w.options = rb.options
        /\ w.usingVersion = rb.usingVersion /\ w.diffPair = rb.diffPair
        /\ w.life = rb.life /\ w.seen = rb.seen /\ w.version = rb.version
        /\ w.currentVersion = rb.currentVersion /\ w.optionsLoading = rb.optionsLoading
    <3>1. s \in 0..3
      OBVIOUS
    <3>2. CASE w = [rb EXCEPT !.request = "none", !.submitting = FALSE, !.activeStep = s]
      BY <2>1, <3>1, <3>2 DEF RbType
    <3>3. CASE w = [rb EXCEPT !.request = "none", !.submitting = FALSE]
      BY <2>1, <3>3 DEF RbType
    <3> QED
      BY <1>2, <3>2, <3>3
  <2>3. rb.diffPair.shown
    BY <2>1 DEF RbInv, RbOrder
  <2>4. RbOrder(w)
    BY <2>2, <2>3 DEF RbOrder
  <2> QED
    BY <2>2, <2>4, RbSame
<1> QED
  BY <1>1, <1>2

-----------------------------------------------------------------------------
(* The composition *)

\* The element of the wizards is replaced by what a request makes of it.
LEMMA StoreStep ==
  ASSUME WizardInv, NEW f, Sound(f), Evolves(E, f), store' = [store EXCEPT ![elementKey] = f],
         others' \in 0..MaxOther
  PROVE  StoreInv' /\ E' = f /\ PubInv(pub, f) /\ RbInv(rb, f)
<1>1. store \in [Key -> Element] /\ Sound(E) /\ f \in Element
  BY DEF WizardInv, StoreInv, Sound
<1>2. E' = f
  BY <1>1, WizardAssumption DEF E
<1>3. store' \in [Key -> Element]
  BY <1>1
<1>4. StoreInv'
  BY <1>2, <1>3 DEF StoreInv
<1>5. PubInv(pub, E) /\ RbInv(rb, E)
  BY DEF WizardInv
<1>6. pub.life \in Nat /\ pub.usingVersion \in Nat /\ pub.seen \in Nat
  BY <1>5 DEF PubInv, PubType
<1>7. rb.life \in Nat /\ rb.usingVersion \in Nat /\ rb.seen \in Nat
  BY <1>5 DEF RbInv, RbType
<1>8. Known(pub, f)
  BY <1>1, <1>5, <1>6, KnownKept DEF PubInv
<1>9. Known(rb, f)
  BY <1>1, <1>5, <1>7, KnownKept DEF RbInv
<1> QED
  BY <1>2, <1>4, <1>5, <1>8, <1>9 DEF PubInv, RbInv

LEMMA InitInv == Init => WizardInv
<1> SUFFICES ASSUME Init PROVE WizardInv
  OBVIOUS
<1>1. Sound(Seed)
  BY WizardAssumption DEF Sound, Element
<1>2. store \in [Key -> Element] /\ E = Seed /\ others \in 0..MaxOther
  BY <1>1, WizardAssumption, StoreAssumption DEF Init, E, Sound
<1>3. PubInv(pub, E) /\ RbInv(rb, E)
  BY <1>1, <1>2, PubEmpty, RbEmpty DEF Init
<1> QED
  BY <1>1, <1>2, <1>3 DEF WizardInv, StoreInv

\* A step of one wizard that does not change the element.
LEMMA QuietStep ==
  ASSUME WizardInv, UNCHANGED storeVars, PubInv(pub', E), RbInv(rb', E)
  PROVE  WizardInv'
<1>1. E' = E /\ StoreInv'
  BY DEF WizardInv, StoreInv, E, storeVars
<1> QED
  BY <1>1 DEF WizardInv

\* A publish or a rollback that the server runs.
LEMMA PubServed ==
  ASSUME WizardInv, P!publishAnswered \/ P!publishFailed, rb' = rb
  PROVE  WizardInv'
<1>1. PubInv(pub, E) /\ RbInv(rb, E) /\ Sound(E) /\ pub.request = "publish" /\ others' = others
  BY DEF WizardInv, StoreInv, P!publishAnswered, P!publishFailed
<1>2. pub' \in {P!Gone, [pub EXCEPT !.request = "none", !.submitting = FALSE, !.activeStep = 5],
                [pub EXCEPT !.request = "none", !.submitting = FALSE]}
  BY DEF P!publishAnswered, P!publishFailed, P!answered
<1>3. \/ store' = store
      \/ /\ CanPublish(E, pub.version)
         /\ store' = [store EXCEPT ![elementKey] = published(E, pub.version)]
  BY PNames DEF P!publishAnswered, P!publishFailed
<1>4. CASE store' = store
  <2>1. PubInv(pub', E)
    BY <1>1, <1>2, PubEnd
  <2> QED
    BY <1>1, <1>4, <2>1, QuietStep DEF storeVars
<1>5. CASE /\ CanPublish(E, pub.version)
           /\ store' = [store EXCEPT ![elementKey] = published(E, pub.version)]
  <2> DEFINE f == published(E, pub.version)
  <2>1. Sound(f) /\ Evolves(E, f)
    BY <1>1, <1>5, PublishSound
  <2>2. others' \in 0..MaxOther
    BY <1>1 DEF WizardInv, StoreInv
  <2> HIDE DEF f
  <2>3. StoreInv' /\ E' = f /\ PubInv(pub, f) /\ RbInv(rb, f)
    BY <1>5, <2>1, <2>2, StoreStep DEF f
  <2>4. PubInv(pub', f)
    BY <1>1, <1>2, <2>1, <2>3, PubEnd
  <2> QED
    BY <2>3, <2>4 DEF WizardInv
<1> QED
  BY <1>3, <1>4, <1>5

LEMMA RbServed ==
  ASSUME WizardInv, R!rollbackAnswered \/ R!rollbackFailed, pub' = pub
  PROVE  WizardInv'
<1>1. PubInv(pub, E) /\ RbInv(rb, E) /\ Sound(E) /\ rb.request = "rollback" /\ others' = others
  BY DEF WizardInv, StoreInv, R!rollbackAnswered, R!rollbackFailed
<1>2. rb' \in {R!Gone, [rb EXCEPT !.request = "none", !.submitting = FALSE, !.activeStep = 3],
               [rb EXCEPT !.request = "none", !.submitting = FALSE]}
  BY DEF R!rollbackAnswered, R!rollbackFailed, R!answered
<1>3. \/ store' = store
      \/ /\ CanRollback(E, rb.version)
         /\ store' = [store EXCEPT ![elementKey] = rolledBack(E, rb.version)]
  BY RNames DEF R!rollbackAnswered, R!rollbackFailed
<1>4. CASE store' = store
  <2>1. RbInv(rb', E)
    BY <1>1, <1>2, RbEnd
  <2> QED
    BY <1>1, <1>4, <2>1, QuietStep DEF storeVars
<1>5. CASE /\ CanRollback(E, rb.version)
           /\ store' = [store EXCEPT ![elementKey] = rolledBack(E, rb.version)]
  <2> DEFINE f == rolledBack(E, rb.version)
  <2>1. Sound(f) /\ Evolves(E, f)
    BY <1>1, <1>5, RollbackSound
  <2>2. others' \in 0..MaxOther
    BY <1>1 DEF WizardInv, StoreInv
  <2> HIDE DEF f
  <2>3. StoreInv' /\ E' = f /\ PubInv(pub, f) /\ RbInv(rb, f)
    BY <1>5, <2>1, <2>2, StoreStep DEF f
  <2>4. RbInv(rb', f)
    BY <1>1, <1>2, <2>1, <2>3, RbEnd
  <2> QED
    BY <2>3, <2>4 DEF WizardInv
<1> QED
  BY <1>3, <1>4, <1>5

LEMMA PubStep == ASSUME WizardInv, P!Next, rb' = rb PROVE WizardInv'
<1>1. CASE P!publishAnswered \/ P!publishFailed
  BY <1>1, PubServed
<1>2. CASE ~(P!publishAnswered \/ P!publishFailed)
  <2>1. UNCHANGED storeVars
    BY <1>2 DEF P!storeVars, storeVars, P!Next, P!readMetadata, P!loadOptions, P!loadOptionsFailed, P!selectVersion,
       P!chooseStrategy, P!chooseTargets, P!handleBack, P!handleNext, P!leave, P!diffAnswered, P!diffFailed
  <2>2. PubInv(pub', E)
    BY <1>2, PNames, PubReadMetadata, PubLoadOptions, PubLoadFailed, PubSelect, PubChoose, PubNext,
       PubLeave, PubDiff DEF P!Next
  <2>3. RbInv(rb', E)
    BY DEF WizardInv
  <2> QED
    BY <2>1, <2>2, <2>3, QuietStep
<1> QED
  BY <1>1, <1>2

LEMMA RbStep == ASSUME WizardInv, R!Next, pub' = pub PROVE WizardInv'
<1>1. CASE R!rollbackAnswered \/ R!rollbackFailed
  BY <1>1, RbServed
<1>2. CASE ~(R!rollbackAnswered \/ R!rollbackFailed)
  <2>1. UNCHANGED storeVars
    BY <1>2 DEF R!storeVars, storeVars, R!Next, R!readMetadata, R!loadOptions, R!loadOptionsFailed, R!selectVersion,
       R!handleBack, R!handleNext, R!leave, R!diffAnswered, R!diffFailed
  <2>2. RbInv(rb', E)
    BY <1>2, RNames, RbReadMetadata, RbLoadOptions, RbLoadFailed, RbSelect, RbBack, RbNext,
       RbLeave, RbDiff DEF R!Next
  <2>3. PubInv(pub', E)
    BY DEF WizardInv
  <2> QED
    BY <2>1, <2>2, <2>3, QuietStep
<1> QED
  BY <1>1, <1>2

LEMMA OtherInv ==
  ASSUME WizardInv, OtherRequest(elementKey), UNCHANGED <<pub, rb>>
  PROVE  WizardInv'
<1>1. PICK f \in OtherResults(E) : store' = [store EXCEPT ![elementKey] = f]
  BY DEF OtherRequest, E
<1>2. others' \in 0..MaxOther
  BY StoreAssumption DEF OtherRequest, WizardInv, StoreInv
<1>3. Sound(f) /\ Evolves(E, f)
  BY OtherSound DEF WizardInv, StoreInv
<1>4. StoreInv' /\ E' = f /\ PubInv(pub, f) /\ RbInv(rb, f)
  BY <1>1, <1>2, <1>3, StoreStep
<1> QED
  BY <1>4 DEF WizardInv

LEMMA NextInv == ASSUME WizardInv, [Next]_vars PROVE WizardInv'
<1>1. CASE UNCHANGED vars
  BY <1>1, QuietStep DEF vars, storeVars, WizardInv
<1>2. CASE Next
  BY <1>2, PubStep, RbStep, OtherInv DEF Next
<1> QED
  BY <1>1, <1>2

LEMMA WizardInvariant == Spec => []WizardInv
<1>1. WizardInv /\ [Next]_vars => WizardInv'
  BY NextInv
<1> QED
  BY <1>1, InitInv, PTL DEF Spec

-----------------------------------------------------------------------------
(* Theorems *)

\* Every field of the two wizards and the element keeps its type.
THEOREM TypeCorrect == Spec => []TypeOK
<1>1. WizardInv => TypeOK
  <2> SUFFICES ASSUME WizardInv PROVE TypeOK
    OBVIOUS
  <2>1. StoreType
    BY DEF WizardInv, StoreInv, StoreType
  <2>2. Wizard(pub, 5, "publish") /\ pub.publishMode \in {1, 2} /\ pub.targets \subseteq Target
    BY DEF WizardInv, PubInv, PubType, Wizard
  <2>3. Wizard(rb, 3, "rollback")
    BY DEF WizardInv, RbInv, RbType, Wizard
  <2> QED
    BY <2>1, <2>2, <2>3 DEF TypeOK
<1> QED
  BY <1>1, WizardInvariant, PTL

\* A difference that is shown is accurate for an element that lives.
LEMMA KnownIsAccurate ==
  ASSUME NEW w, Known(w, E), Held(w), w.diffPair.shown, E.life = w.life
  PROVE  /\ w.version \in Stored(E) => w.diffPair.compare = E.ver[w.version].raw
         /\ w.currentVersion \in Stored(E) => w.diffPair.base = E.ver[w.currentVersion].raw
         /\ w.currentVersion = w.usingVersion
BY DEF Known, Listed, Based, Held, Stored

\* The review of both wizards shows the content of the chosen version and of
\* the version labelled as current, for any listing limit and whatever other
\* administrators and the retention do between the listing and the review.
THEOREM ReviewAccurate == Spec => []ReviewIsAccurate
<1>1. WizardInv => ReviewIsAccurate
  BY KnownIsAccurate DEF WizardInv, PubInv, RbInv, ReviewIsAccurate
<1> QED
  BY <1>1, WizardInvariant, PTL

\* What the server makes of a publish or a rollback.
LEMMA PublishedThere ==
  ASSUME WizardInv, P!publishAnswered
  PROVE  /\ CanPublish(E, pub.version) /\ E'.using = pub.version
         /\ E'.ver[pub.version].raw = E.ver[pub.version].raw
         /\ pub.diffPair.shown /\ PubValid(pub)
<1>1. /\ CanPublish(E, pub.version) /\ pub.request = "publish"
      /\ store' = [store EXCEPT ![elementKey] = published(E, pub.version)]
  BY PNames DEF P!publishAnswered
<1>2. E' = published(E, pub.version)
  BY <1>1, WizardAssumption DEF WizardInv, StoreInv, E
<1>3. /\ published(E, pub.version).using = pub.version
      /\ published(E, pub.version).ver[pub.version].raw = E.ver[pub.version].raw
  BY <1>1, PublishSound DEF WizardInv, StoreInv
<1>4. pub.diffPair.shown /\ PubValid(pub)
  BY <1>1 DEF WizardInv, PubInv, PubOrder
<1> QED
  BY <1>1, <1>2, <1>3, <1>4

LEMMA RolledBackThere ==
  ASSUME WizardInv, R!rollbackAnswered
  PROVE  /\ CanRollback(E, rb.version) /\ E'.using = rb.version /\ E'.ver = E.ver
         /\ rb.diffPair.shown /\ RbValid(rb)
<1>1. /\ CanRollback(E, rb.version) /\ rb.request = "rollback"
      /\ store' = [store EXCEPT ![elementKey] = rolledBack(E, rb.version)]
  BY RNames DEF R!rollbackAnswered
<1>2. E' = rolledBack(E, rb.version)
  BY <1>1, WizardAssumption DEF WizardInv, StoreInv, E
<1>3. rolledBack(E, rb.version).using = rb.version /\ rolledBack(E, rb.version).ver = E.ver
  BY <1>1, RollbackSound DEF WizardInv, StoreInv
<1>4. rb.diffPair.shown /\ RbValid(rb)
  BY <1>1 DEF WizardInv, RbInv, RbOrder
<1> QED
  BY <1>1, <1>2, <1>3, <1>4

\* Whatever a wizard puts in use is the new side of the difference it shows,
\* unless the element was deleted since the listing.
THEOREM ServedIsReviewed == Spec => ServedWasReviewed
<1> DEFINE Reviewed ==
      \A w \in {pub, rb} :
        LET served == (w = pub /\ P!publishAnswered) \/ (w = rb /\ R!rollbackAnswered)
        IN served /\ E.life = w.life =>
             w.diffPair.shown /\ E'.ver[E'.using].raw = w.diffPair.compare
<1>1. ASSUME WizardInv PROVE Reviewed
  <2>1. ASSUME P!publishAnswered, E.life = pub.life
        PROVE  pub.diffPair.shown /\ E'.ver[E'.using].raw = pub.diffPair.compare
    <3>1. pub.version \in Stored(E)
      BY <1>1, <2>1, PublishedThere DEF CanPublish
    <3>2. pub.diffPair.compare = E.ver[pub.version].raw
      BY <1>1, <2>1, <3>1, PublishedThere, KnownIsAccurate DEF WizardInv, PubInv
    <3> QED
      BY <1>1, <2>1, <3>2, PublishedThere
  <2>2. ASSUME R!rollbackAnswered, E.life = rb.life
        PROVE  rb.diffPair.shown /\ E'.ver[E'.using].raw = rb.diffPair.compare
    <3>1. rb.version \in Stored(E)
      BY <1>1, <2>2, RolledBackThere DEF CanRollback
    <3>2. rb.diffPair.compare = E.ver[rb.version].raw
      BY <1>1, <2>2, <3>1, RolledBackThere, KnownIsAccurate DEF WizardInv, RbInv
    <3> QED
      BY <1>1, <2>2, <3>2, RolledBackThere
  <2> QED
    BY <2>1, <2>2
<1>2. WizardInv /\ [Next]_vars => [Reviewed]_vars
  BY <1>1
<1> QED
  BY <1>2, WizardInvariant, PTL DEF Spec, ServedWasReviewed

\* A publish that finds the version in use it was reviewed against moves it
\* forward, a rollback moves it back, to a version that was published before.
THEOREM DirectionIsKept == Spec => Direction
<1> DEFINE Kept ==
      /\ P!publishAnswered /\ E.life = pub.life /\ E.using = pub.usingVersion => E'.using > E.using
      /\ R!rollbackAnswered => /\ E'.using < E.using
                               /\ E.life = rb.life => E.ver[E'.using].published
<1>1. ASSUME WizardInv PROVE Kept
  <2>1. ASSUME P!publishAnswered, E.using = pub.usingVersion PROVE E'.using > E.using
    <3>1. E'.using = pub.version /\ PubValid(pub)
      BY <1>1, <2>1, PublishedThere
    <3>2. pub.version \in Version /\ (pub.usingVersion # 0 => pub.version > pub.usingVersion)
      BY <3>1 DEF PubValid
    <3> QED
      BY <2>1, <3>1, <3>2 DEF Version
  <2>2. ASSUME R!rollbackAnswered
        PROVE  E'.using < E.using /\ (E.life = rb.life => E.ver[E'.using].published)
    <3>1. CanRollback(E, rb.version) /\ E'.using = rb.version /\ RbValid(rb)
      BY <1>1, <2>2, RolledBackThere
    <3>2. rb.version < E.using /\ E.ver[rb.version] # NoVersion
      BY <3>1 DEF CanRollback, Stored
    <3>3. E.life = rb.life => E.ver[rb.version].published
      BY <1>1, <3>1, <3>2 DEF WizardInv, RbInv, Known, Listed, RbValid
    <3> QED
      BY <3>1, <3>2, <3>3
  <2> QED
    BY <2>1, <2>2
<1>2. WizardInv /\ [Next]_vars => [Kept]_vars
  BY <1>1
<1> QED
  BY <1>2, WizardInvariant, PTL DEF Spec, Direction
=============================================================================
