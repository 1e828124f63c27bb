------------------------- MODULE ElementDetailProofs -------------------------
(***************************************************************************)
(* Proofs about the page of one element: its type invariant, that what it  *)
(* shows belongs to its location, and that publishing directly publishes   *)
(* the content that was written.                                           *)
(***************************************************************************)
EXTENDS ElementDetail, TLAPS

-----------------------------------------------------------------------------
(* The element service *)

\* What every request keeps: the only draft is the latest version.
Sound(e) == e \in Element /\ e.unpublished \in {0, e.latest}

\* What a request may do to an element as long as it lives: its latest version
\* never falls, and a version that was given out keeps its content or is gone
\* for good.
Evolves(e, f) ==
  /\ e.life <= f.life
  /\ e.life = f.life /\ e.latest # 0 =>
       /\ e.latest <= f.latest
       /\ \A v \in 1..e.latest : /\ f.ver[v] = NoVersion \/ f.ver[v].raw = e.ver[v].raw
                                 /\ e.ver[v] = NoVersion => f.ver[v] = NoVersion

LEMMA NoVersionType == NoVersion \in VersionRecord
BY DEF NoVersion, VersionRecord

\* The fields of an element.
LEMMA ElementFields ==
  ASSUME NEW e \in Element
  PROVE  /\ e.latest \in 0..MaxVersion /\ e.unpublished \in 0..MaxVersion /\ e.using \in 0..MaxVersion
         /\ e.ver \in [Version -> VersionRecord] /\ e.life \in Nat
BY DEF Element

\* An element that lives on, with versions beyond its latest added, others
\* removed or marked as published.
LEMMA LivesOn ==
  ASSUME NEW e, NEW f, Sound(e), Sound(f), f.life = e.life, e.latest <= f.latest \/ e.latest = 0,
         \A v \in 1..e.latest : \/ f.ver[v] = e.ver[v] \/ f.ver[v] = NoVersion
                                \/ f.ver[v].raw = e.ver[v].raw /\ e.ver[v] # NoVersion
  PROVE  Evolves(e, f)
BY DEF Evolves, Sound, Element

LEMMA CreateSound ==
  ASSUME NEW e, Sound(e), NEW r \in Raw, CanCreate(e)
  PROVE  Sound(created(e, r)) /\ Evolves(e, created(e, r))
<1> DEFINE f == created(e, r)
           x == [raw |-> r, published |-> FALSE]
<1>1. e.latest = 0 /\ 1 \in Version /\ 1 \in 0..MaxVersion /\ x \in VersionRecord
  BY StoreAssumption DEF CanCreate, Exists, Version, VersionRecord
<1>2. /\ f.latest = 1 /\ f.unpublished = 1 /\ f.using = e.using /\ f.life = e.life
      /\ f.ver = [e.ver EXCEPT ![1] = x]
  BY DEF created, Sound, Element
<1>3. f \in Element
  BY <1>1 DEF created, Sound, Element
<1> HIDE DEF f
<1>4. Sound(f)
  BY <1>2, <1>3 DEF Sound
<1> QED
  BY <1>1, <1>2, <1>4, LivesOn DEF Sound, f

LEMMA UpdateSound ==
  ASSUME NEW e, Sound(e), NEW r \in Raw, CanUpdate(e)
  PROVE  /\ Sound(updated(e, r)) /\ Evolves(e, updated(e, r))
         /\ updated(e, r).latest = e.latest + 1 /\ updated(e, r).life = e.life
         /\ e.latest + 1 \in Version
         /\ updated(e, r).ver[e.latest + 1].raw = r
<1> DEFINE n == e.latest + 1
           f == updated(e, r)
           x == [raw |-> r, published |-> FALSE]
<1>1. n \in Version /\ n \in 0..MaxVersion /\ e.latest \in 0..MaxVersion /\ e.latest < n
  BY StoreAssumption DEF CanUpdate, Version, Sound, Element
<1>2. x \in VersionRecord /\ x.raw = r
  BY DEF VersionRecord
<1> HIDE DEF x
<1>3. /\ f.latest = n /\ f.unpublished = n /\ f.using = e.using /\ f.life = e.life
      /\ f.ver = [e.ver EXCEPT ![n] = x]
  BY DEF updated, Sound, Element, x
<1>4. f \in Element
  BY <1>1, <1>2 DEF updated, Sound, Element, x
<1> HIDE DEF f
<1>5. Sound(f)
  BY <1>3, <1>4 DEF Sound
<1>6. e.ver \in [Version -> VersionRecord]
  BY DEF Sound, Element
<1>7. /\ e.latest <= f.latest
      /\ \A v \in 1..e.latest : v \in Version /\ v # n
  BY <1>1, <1>3, StoreAssumption DEF Version
<1>8. \A v \in 1..e.latest : f.ver[v] = e.ver[v]
  BY <1>3, <1>6, <1>7
<1>9. Evolves(e, f)
  BY <1>3, <1>5, <1>7, <1>8, LivesOn
<1>10. f.ver[n].raw = r
  BY <1>1, <1>2, <1>3, <1>6
<1> QED
  BY <1>1, <1>3, <1>5, <1>9, <1>10 DEF f, n

LEMMA PublishSound ==
  ASSUME NEW e, Sound(e), NEW v, CanPublish(e, v)
  PROVE  /\ Sound(published(e, v)) /\ Evolves(e, published(e, v))
         /\ published(e, v).using = v
<1> DEFINE f == published(e, v)
           x == [e.ver[v] EXCEPT !.published = TRUE]
<1>1. v \in Version /\ v \in 0..MaxVersion /\ e.ver[v] # NoVersion
  BY StoreAssumption DEF CanPublish, Stored, Version
<1>2. e.ver \in [Version -> VersionRecord]
  BY DEF Sound, Element
<1>3. x \in VersionRecord /\ x.raw = e.ver[v].raw
  BY <1>1, <1>2 DEF VersionRecord
<1>4. /\ f.latest = e.latest /\ f.unpublished = 0 /\ f.using = v /\ f.life = e.life
      /\ f.ver = [e.ver EXCEPT ![v] = x]
  BY DEF published, Sound, Element
<1> HIDE DEF x
<1>5. f \in Element
  <2> DEFINE vs == [e.ver EXCEPT ![v] = x]
  <2>1. vs \in [Version -> VersionRecord]
    BY <1>1, <1>2, <1>3
  <2>2. f = [e EXCEPT !.using = v, !.unpublished = 0, !.ver = vs]
    BY DEF published, x
  <2> HIDE DEF vs, f
  <2>3. [e EXCEPT !.using = v, !.unpublished = 0, !.ver = vs] \in Element
    <3>1. e \in Element /\ 0 \in 0..MaxVersion
      BY StoreAssumption DEF Sound
    <3> QED
      BY <1>1, <2>1, <3>1 DEF Element
  <2> QED
    BY <2>2, <2>3
<1> HIDE DEF f
<1>6. Sound(f)
  BY <1>4, <1>5 DEF Sound
<1>7. \A u \in 1..e.latest : u \in Version
  BY StoreAssumption DEF Sound, Element, Version
<1>8. \A u \in 1..e.latest : f.ver[u] = e.ver[u] \/ (f.ver[u].raw = e.ver[u].raw /\ e.ver[u] # NoVersion)
  BY <1>1, <1>2, <1>3, <1>4, <1>7
<1>9. e.latest <= f.latest
  BY <1>4 DEF Sound, Element
<1>10. Evolves(e, f)
  BY <1>4, <1>6, <1>8, <1>9, LivesOn
<1> QED
  BY <1>4, <1>6, <1>10 DEF f

LEMMA RollbackSound ==
  ASSUME NEW e, Sound(e), NEW v, CanRollback(e, v)
  PROVE  Sound(rolledBack(e, v)) /\ Evolves(e, rolledBack(e, v))
<1> DEFINE f == rolledBack(e, v)
<1>1. v \in 0..MaxVersion
  BY StoreAssumption DEF CanRollback, Stored, Version
<1>2. /\ f.latest = e.latest /\ f.unpublished = e.unpublished /\ f.life = e.life /\ f.ver = e.ver
      /\ f \in Element
  BY <1>1 DEF rolledBack, Sound, Element
<1> HIDE DEF f
<1>3. Sound(f) /\ e.latest <= f.latest
  BY <1>2 DEF Sound, Element
<1> QED
  BY <1>2, <1>3, LivesOn DEF f

LEMMA DeleteSound ==
  ASSUME NEW e, Sound(e)
  PROVE  Sound(deleted(e)) /\ Evolves(e, deleted(e))
<1>1. NoVersions \in [Version -> VersionRecord] /\ e.life \in Nat
  BY NoVersionType DEF NoVersions, Sound, Element
<1>2. deleted(e) \in Element /\ deleted(e).unpublished = 0 /\ deleted(e).life = e.life + 1
  BY <1>1, StoreAssumption DEF deleted, Absent, Element
<1> QED
  BY <1>1, <1>2 DEF Sound, Evolves

LEMMA CompactSound ==
  ASSUME NEW e, Sound(e), NEW v, CanCompact(e, v)
  PROVE  Sound(compacted(e, v)) /\ Evolves(e, compacted(e, v))
<1> DEFINE f == compacted(e, v)
<1>1. v \in Version /\ e.ver \in [Version -> VersionRecord] /\ e.latest \in 0..MaxVersion
  BY DEF CanCompact, Stored, Sound, Element
<1>2. /\ f.latest = e.latest /\ f.unpublished = e.unpublished /\ f.life = e.life
      /\ f.ver = [e.ver EXCEPT ![v] = NoVersion]
  BY DEF compacted, Sound, Element
<1>3. f \in Element
  BY <1>1, NoVersionType DEF compacted, Sound, Element
<1> HIDE DEF f
<1>4. Sound(f) /\ e.latest <= f.latest
  BY <1>1, <1>2, <1>3 DEF Sound
<1>5. \A u \in 1..e.latest : u \in Version
  BY <1>1, StoreAssumption DEF Version
<1>6. \A u \in 1..e.latest : f.ver[u] = e.ver[u] \/ f.ver[u] = NoVersion
  BY <1>1, <1>2, <1>5
<1> QED
  BY <1>2, <1>4, <1>6, LivesOn DEF f

LEMMA OtherSound ==
  ASSUME NEW e, Sound(e), NEW f \in OtherResults(e)
  PROVE  Sound(f) /\ Evolves(e, f)
<1>1. \/ \E r \in Raw : CanCreate(e) /\ f = created(e, r)
      \/ \E r \in Raw : CanUpdate(e) /\ f = updated(e, r)
      \/ \E v : CanPublish(e, v) /\ f = published(e, v)
      \/ \E v : CanRollback(e, v) /\ f = rolledBack(e, v)
      \/ f = deleted(e)
      \/ \E v : CanCompact(e, v) /\ f = compacted(e, v)
  BY DEF OtherResults
<1> QED
  BY <1>1, CreateSound, UpdateSound, PublishSound, RollbackSound, DeleteSound, CompactSound

-----------------------------------------------------------------------------
(* The page *)

Shown == [of : KeyOrNone, latest : 0..MaxVersion, unpublished : 0..MaxVersion, raw : RawOrNone]
Load == [id : 1..MaxLoad, key : Key]
SaveType == [pc : {"idle", "put", "get", "publish", "reload"}, direct : BOOLEAN, key : KeyOrNone,
             raw : RawOrNone, previous : 0..MaxVersion, version : 0..MaxVersion,
             made : 0..MaxVersion, life : Nat, load : 0..MaxLoad]

\* The type invariant in parts; the only draft of an element is its latest version.
StoreOK == store \in [Key -> Element] /\ others \in 0..MaxOther /\ \A k \in Key : Sound(store[k])
DialogOK ==
  /\ editRaw \in RawOrNone /\ editOf \in KeyOrNone
  /\ newVersionOpen \in BOOLEAN /\ confirmOpen \in BOOLEAN
PageOK ==
  /\ mounted \in BOOLEAN /\ key \in Key /\ requestSeq \in 1..MaxLoad
  /\ element \in Shown /\ loading \in BOOLEAN /\ saving \in BOOLEAN /\ loads \subseteq Load
SaveOK == save \in SaveType /\ (save.pc # "idle" => save.key \in Key)
DetailOK == StoreOK /\ DialogOK /\ PageOK /\ SaveOK

\* A load is one of the page's, and the latest one is for its location.
LoadInv ==
  /\ \A l \in loads : l.id <= requestSeq /\ (l.id = requestSeq => l.key = key)
  /\ PageMatchesLocation

\* What a save that has added its version knows of the element e it was added
\* to: as long as e lives, the version is there with the content that was
\* written or is gone; and a version chosen to be published is that one unless
\* a later one was added.
OwnVersion(s, e) ==
  /\ s.made \in Version /\ s.life <= e.life
  /\ e.life = s.life =>
       /\ s.made <= e.latest
       /\ e.ver[s.made] = NoVersion \/ e.ver[s.made].raw = s.raw
       /\ s.pc = "publish" /\ e.latest = s.made => s.version = s.made
SaveInv == save.pc \in {"get", "publish"} => OwnVersion(save, store[save.key])

DetailInv == DetailOK /\ LoadInv /\ SaveInv

LEMMA Shapes ==
  /\ NoElement \in Shown /\ NoElement.of = NoKey
  /\ IdleSave \in SaveType /\ IdleSave.pc = "idle"
BY DetailAssumption, StoreAssumption
   DEF NoElement, Shown, IdleSave, SaveType, KeyOrNone, RawOrNone

LEMMA InitInv == Init => DetailInv
<1> SUFFICES ASSUME Init PROVE DetailInv
  OBVIOUS
<1>1. StoreOK
  <2>1. ASSUME NEW k \in Key PROVE Sound(Seed[k])
    BY DetailAssumption DEF Sound, Element
  <2>2. Seed \in [Key -> Element]
    BY <2>1, DetailAssumption DEF Sound
  <2> QED
    BY <2>1, <2>2, StoreAssumption DEF Init, StoreOK
<1>2. DialogOK
  BY DEF Init, DialogOK, RawOrNone, KeyOrNone
<1>3. PageOK
  <2>1. 1 \in 1..MaxLoad /\ key \in Key /\ requestSeq = 1 /\ loads = {[id |-> 1, key |-> key]}
    BY DetailAssumption DEF Init
  <2>2. loads \subseteq Load
    BY <2>1 DEF Load
  <2>3. mounted = TRUE /\ element = NoElement /\ loading = TRUE /\ saving = FALSE
    BY DEF Init
  <2> QED
    BY <2>1, <2>2, <2>3, Shapes DEF PageOK
<1>4. SaveOK /\ SaveInv
  BY Shapes DEF Init, SaveOK, SaveInv
<1>5. LoadInv
  BY DEF Init, LoadInv, PageMatchesLocation, Settled
<1> QED
  BY <1>1, <1>2, <1>3, <1>4, <1>5 DEF DetailInv, DetailOK

\* The elements change by requests only.
LEMMA OwnVersionKept ==
  ASSUME NEW s \in SaveType, NEW e, NEW f, Sound(e), Sound(f), OwnVersion(s, e), Evolves(e, f)
  PROVE  OwnVersion(s, f)
<1>1. e.latest \in Nat /\ f.latest \in Nat /\ e.life \in Nat /\ f.life \in Nat /\ s.life \in Nat
      /\ s.made \in Nat /\ s.made # 0
  BY DEF Sound, Element, SaveType, OwnVersion, Version
<1>2. s.life <= f.life
  BY <1>1 DEF OwnVersion, Evolves
<1>3. ASSUME f.life = s.life
      PROVE  /\ s.made <= f.latest
             /\ f.ver[s.made] = NoVersion \/ f.ver[s.made].raw = s.raw
             /\ s.pc = "publish" /\ f.latest = s.made => s.version = s.made
  <2>1. e.life = s.life
    BY <1>1, <1>3 DEF OwnVersion, Evolves
  <2>2. s.made <= e.latest /\ s.made \in 1..e.latest /\ e.latest # 0
    BY <1>1, <2>1 DEF OwnVersion
  <2>3. /\ e.latest <= f.latest
        /\ f.ver[s.made] = NoVersion \/ f.ver[s.made].raw = e.ver[s.made].raw
        /\ e.ver[s.made] = NoVersion => f.ver[s.made] = NoVersion
    BY <1>3, <2>1, <2>2 DEF Evolves
  <2>4. f.ver[s.made] = NoVersion \/ f.ver[s.made].raw = s.raw
    BY <2>1, <2>3 DEF OwnVersion
  <2>5. s.made <= f.latest
    BY <1>1, <2>2, <2>3
  <2>6. f.latest = s.made => e.latest = s.made
    BY <1>1, <2>2, <2>3
  <2> QED
    BY <2>1, <2>4, <2>5, <2>6 DEF OwnVersion
<1> QED
  BY <1>2, <1>3 DEF OwnVersion

\* One element of the store is replaced by what a request makes of it.
LEMMA StoreStep ==
  ASSUME DetailInv, NEW k \in Key, NEW f, Sound(f), Evolves(store[k], f),
         store' = [store EXCEPT ![k] = f], others' \in 0..MaxOther
  PROVE  StoreOK' /\ (save' = save => SaveInv')
<1>1. f \in Element /\ store \in [Key -> Element] /\ \A j \in Key : Sound(store[j])
  BY DEF DetailInv, DetailOK, StoreOK, Sound
<1>2. \A j \in Key : store'[j] = IF j = k THEN f ELSE store[j]
  BY <1>1
<1>3. StoreOK'
  BY <1>1, <1>2 DEF StoreOK
<1>4. ASSUME save' = save, save.pc \in {"get", "publish"} PROVE OwnVersion(save, store'[save.key])
  <2>1. save.key \in Key /\ save \in SaveType /\ OwnVersion(save, store[save.key])
    BY <1>4 DEF DetailInv, DetailOK, SaveOK, SaveInv
  <2>2. CASE save.key = k
    BY <1>1, <1>2, <2>1, <2>2, OwnVersionKept
  <2>3. CASE save.key # k
    BY <1>2, <2>1, <2>3
  <2> QED
    BY <2>2, <2>3
<1>5. ASSUME save' = save PROVE SaveInv'
  BY <1>4, <1>5 DEF SaveInv
<1> QED
  BY <1>3, <1>5

-----------------------------------------------------------------------------
(* Steps *)

\* Loading the page again, for location k.
LEMMA LoadShape ==
  ASSUME DetailInv, NEW k \in Key, loadPage(k)
  PROVE  /\ requestSeq' \in 1..MaxLoad /\ requestSeq' = requestSeq + 1 /\ loads' \subseteq Load
         /\ \A l \in loads' : l.id <= requestSeq' /\ (l.id = requestSeq' => l.key = k)
         /\ \E l \in loads' : l.id = requestSeq'
<1> DEFINE l0 == [id |-> requestSeq + 1, key |-> k]
<1>1. requestSeq \in Nat /\ requestSeq + 1 \in 1..MaxLoad
  BY DetailAssumption DEF DetailInv, DetailOK, PageOK, loadPage
<1>2. l0 \in Load /\ l0.id = requestSeq + 1 /\ l0.key = k
  BY <1>1 DEF Load
<1>3. requestSeq' = requestSeq + 1 /\ loads' = loads \cup {l0}
  BY DEF loadPage
<1> HIDE DEF l0
<1>4. loads' \subseteq Load
  BY <1>2, <1>3 DEF DetailInv, DetailOK, PageOK
<1>5. \A l \in loads : l.id \in Nat /\ l.id <= requestSeq
  BY DEF DetailInv, DetailOK, PageOK, Load, LoadInv
<1>6. ASSUME NEW l \in loads' PROVE l.id <= requestSeq' /\ (l.id = requestSeq' => l.key = k)
  <2>1. CASE l \in loads
    BY <1>1, <1>3, <1>5, <2>1
  <2>2. CASE l = l0
    BY <1>1, <1>2, <1>3, <2>2
  <2> QED
    BY <1>3, <2>1, <2>2
<1> QED
  BY <1>1, <1>2, <1>3, <1>4, <1>6

LEMMA NavigateInv == ASSUME DetailInv, NEW k \in Key, navigate(k) PROVE DetailInv'
<1>1. /\ key' = k /\ loadPage(k)
      /\ UNCHANGED <<storeVars, dialogVars, mounted, element, loading, saving, save>>
  BY DEF navigate
<1>2. /\ requestSeq' \in 1..MaxLoad /\ loads' \subseteq Load
      /\ \A l \in loads' : l.id <= requestSeq' /\ (l.id = requestSeq' => l.key = k)
      /\ \E l \in loads' : l.id = requestSeq'
  BY <1>1, LoadShape
<1>3. DetailOK'
  BY <1>1, <1>2
     DEF DetailInv, DetailOK, StoreOK, DialogOK, PageOK, SaveOK, storeVars, dialogVars
<1>4. LoadInv'
  BY <1>1, <1>2 DEF LoadInv, PageMatchesLocation, Settled
<1>5. SaveInv'
  BY <1>1 DEF DetailInv, SaveInv, storeVars
<1> QED
  BY <1>3, <1>4, <1>5 DEF DetailInv

\* The answer to a load, or its failure.
LEMMA LoadStepInv == ASSUME DetailInv, LoadStep PROVE DetailInv'
<1>1. PICK l \in loads : loadAnswered(l) \/ loadFailed(l)
  BY DEF LoadStep
<1>2. l.key \in Key /\ Sound(store[l.key])
  BY DEF DetailInv, DetailOK, PageOK, StoreOK, Load
<1>3. /\ loads' = loads \ {l} /\ endSave(l)
      /\ UNCHANGED <<storeVars, mounted, key, requestSeq, confirmOpen>>
  BY <1>1 DEF loadAnswered, loadFailed
<1>4. \/ /\ l.id = requestSeq /\ element'.of \in {l.key, NoKey} /\ editOf' = l.key
         /\ element' \in Shown /\ editRaw' \in RawOrNone
         /\ newVersionOpen' = FALSE /\ loading' = FALSE
      \/ l.id # requestSeq /\ UNCHANGED <<element, editRaw, editOf, newVersionOpen, loading>>
  <2>1. CASE loadAnswered(l)
    <3> DEFINE e == store[l.key]
               r == shownRaw(e)
               x == [of |-> l.key, latest |-> e.latest, unpublished |-> e.unpublished, raw |-> r]
    <3>1. e.latest \in 0..MaxVersion /\ e.unpublished \in 0..MaxVersion
      BY <1>2, ElementFields DEF Sound
    <3>2. r \in RawOrNone
      <4>1. e.using \in 0..MaxVersion /\ e.ver \in [Version -> VersionRecord]
        BY <1>2, ElementFields DEF Sound
      <4>2. e.using # 0 => e.ver[e.using] \in VersionRecord
        BY <4>1, StoreAssumption DEF Version
      <4> QED
        BY <4>2 DEF shownRaw, VersionRecord, RawOrNone
    <3>3. \/ /\ l.id = requestSeq /\ element' = x /\ editRaw' = r /\ editOf' = l.key
             /\ newVersionOpen' = FALSE /\ loading' = FALSE
          \/ l.id # requestSeq /\ UNCHANGED <<element, editRaw, editOf, newVersionOpen, loading>>
      BY <2>1 DEF loadAnswered, isLatest
    <3> HIDE DEF r
    <3>4. x \in Shown /\ x.of = l.key
      BY <1>2, <3>1, <3>2 DEF Shown, KeyOrNone
    <3> HIDE DEF x
    <3> QED
      BY <3>2, <3>3, <3>4
  <2>2. CASE loadFailed(l)
    BY <2>2, Shapes DEF loadFailed, isLatest, RawOrNone
  <2> QED
    BY <1>1, <2>1, <2>2
<1>5. \/ save' = IdleSave /\ saving' = FALSE
      \/ UNCHANGED <<save, saving>>
  BY <1>3 DEF endSave
<1>6. DetailOK'
  <2>1. StoreOK'
    BY <1>3 DEF DetailInv, DetailOK, StoreOK, storeVars
  <2>2. DialogOK'
    BY <1>2, <1>3, <1>4 DEF DetailInv, DetailOK, DialogOK, KeyOrNone
  <2>3. PageOK'
    BY <1>3, <1>4, <1>5 DEF DetailInv, DetailOK, PageOK
  <2>4. SaveOK'
    BY <1>5, Shapes DEF DetailInv, DetailOK, SaveOK
  <2> QED
    BY <2>1, <2>2, <2>3, <2>4 DEF DetailOK
<1>7. LoadInv'
  <2>1. \A m \in loads' : m.id <= requestSeq' /\ (m.id = requestSeq' => m.key = key')
    BY <1>3 DEF DetailInv, LoadInv
  <2>2. CASE l.id = requestSeq
    <3>1. l.key = key
      BY <2>2 DEF DetailInv, LoadInv
    <3> QED
      BY <1>3, <1>4, <2>1, <2>2, <3>1 DEF LoadInv, PageMatchesLocation
  <2>3. CASE l.id # requestSeq
    <3>1. Settled' => Settled
      BY <1>3, <2>3 DEF Settled
    <3> QED
      BY <1>3, <1>4, <2>1, <2>3, <3>1 DEF DetailInv, LoadInv, PageMatchesLocation
  <2> QED
    BY <2>2, <2>3
<1>8. SaveInv'
  BY <1>3, <1>5, Shapes DEF DetailInv, SaveInv, storeVars
<1> QED
  BY <1>6, <1>7, <1>8 DEF DetailInv

LEMMA LeaveInv == ASSUME DetailInv, leave PROVE DetailInv'
<1>1. /\ mounted' = FALSE /\ loads' = {} /\ element' = NoElement /\ loading' = FALSE /\ saving' = FALSE
      /\ editRaw' = NoRaw /\ editOf' = NoKey /\ newVersionOpen' = FALSE /\ confirmOpen' = FALSE
      /\ save' = IdleSave \/ save' = save
      /\ UNCHANGED <<storeVars, key, requestSeq>>
  BY DEF leave
<1>2. StoreOK' /\ DialogOK'
  BY <1>1 DEF DetailInv, DetailOK, StoreOK, DialogOK, storeVars, RawOrNone, KeyOrNone
<1>3. PageOK'
  BY <1>1, Shapes DEF DetailInv, DetailOK, PageOK
<1>4. SaveOK' /\ SaveInv'
  BY <1>1, Shapes DEF DetailInv, DetailOK, SaveOK, SaveInv, storeVars
<1>5. LoadInv'
  BY <1>1 DEF LoadInv, PageMatchesLocation, Settled
<1> QED
  BY <1>2, <1>3, <1>4, <1>5 DEF DetailInv, DetailOK

\* The dialogs, and the start of a save.
EditStep ==
  \/ handleOpenNewVersion \/ closeNewVersionDialog \/ openConfirm \/ closeConfirm
  \/ \E r \in Raw : edit(r)
StartStep == handleSubmitNewVersion \/ handlePublishDirectly

LEMMA EditInv == ASSUME DetailInv, EditStep PROVE DetailInv'
<1>1. UNCHANGED <<storeVars, pageVars, loads, save>>
  BY DEF EditStep, handleOpenNewVersion, closeNewVersionDialog, openConfirm, closeConfirm, edit
<1>2. /\ editRaw' \in RawOrNone /\ editOf' \in {editOf, element.of}
      /\ newVersionOpen' \in BOOLEAN /\ confirmOpen' \in BOOLEAN
  <2>1. element.raw \in RawOrNone
    BY DEF DetailInv, DetailOK, PageOK, Shown
  <2> QED
    BY <2>1 DEF EditStep, handleOpenNewVersion, closeNewVersionDialog, openConfirm, closeConfirm, edit,
       DetailInv, DetailOK, DialogOK, RawOrNone
<1>3. element.of \in KeyOrNone
  BY DEF DetailInv, DetailOK, PageOK, Shown
<1>4. DetailOK'
  BY <1>1, <1>2, <1>3 DEF DetailInv, DetailOK, StoreOK, DialogOK, PageOK, SaveOK, storeVars, pageVars
<1>5. LoadInv'
  BY <1>1, <1>2 DEF DetailInv, LoadInv, PageMatchesLocation, Settled, pageVars
<1>6. SaveInv'
  BY <1>1 DEF DetailInv, SaveInv, storeVars
<1> QED
  BY <1>4, <1>5, <1>6 DEF DetailInv

LEMMA StartInv == ASSUME DetailInv, StartStep PROVE DetailInv'
<1>1. PICK direct \in BOOLEAN : startSave(direct)
  BY DEF StartStep, handleSubmitNewVersion, handlePublishDirectly
<1>2. saving' = TRUE /\ UNCHANGED <<storeVars, mounted, key, requestSeq, element, loading, loads,
                                    editRaw, editOf, newVersionOpen, confirmOpen>>
  BY <1>1 DEF startSave
<1>3. save' \in SaveType /\ save'.pc = "put" /\ save'.key = key
  <2>1. key \in KeyOrNone /\ editRaw \in RawOrNone /\ element.latest \in 0..MaxVersion
    BY DEF DetailInv, DetailOK, PageOK, DialogOK, Shown, KeyOrNone
  <2> QED
    BY <1>1, <2>1, Shapes DEF startSave, SaveType
<1>4. DetailOK'
  BY <1>2, <1>3 DEF DetailInv, DetailOK, StoreOK, DialogOK, PageOK, SaveOK, storeVars
<1>5. LoadInv'
  BY <1>2 DEF DetailInv, LoadInv, PageMatchesLocation, Settled
<1>6. SaveInv'
  BY <1>3 DEF SaveInv
<1> QED
  BY <1>4, <1>5, <1>6 DEF DetailInv

\* A save that ends, and one that goes on by loading the page again.
LEMMA FinishedInv ==
  ASSUME DetailInv, StoreOK', giveUp, UNCHANGED <<mounted, key, element>>
  PROVE  DetailInv'
<1>1. save' = IdleSave /\ saving' = FALSE /\ UNCHANGED <<dialogVars, loading, requestSeq, loads>>
  BY DEF giveUp, finished
<1>2. DetailOK'
  BY <1>1, Shapes DEF DetailInv, DetailOK, DialogOK, PageOK, SaveOK, dialogVars
<1>3. LoadInv'
  BY <1>1 DEF DetailInv, LoadInv, PageMatchesLocation, Settled, dialogVars
<1>4. SaveInv'
  BY <1>1, Shapes DEF SaveInv
<1> QED
  BY <1>2, <1>3, <1>4 DEF DetailInv

LEMMA ReloadInv ==
  ASSUME DetailInv, StoreOK', save.pc # "idle", reload, UNCHANGED <<mounted, key, element>>
  PROVE  DetailInv'
<1>1. key \in Key
  BY DEF DetailInv, DetailOK, PageOK
<1>2. /\ newVersionOpen' = FALSE /\ confirmOpen' \in {FALSE, confirmOpen} /\ loading' = TRUE
      /\ loadPage(key) /\ save' = [save EXCEPT !.pc = "reload", !.load = requestSeq + 1]
      /\ UNCHANGED <<saving, editRaw, editOf>>
  BY DEF reload
<1>3. /\ requestSeq' \in 1..MaxLoad /\ requestSeq' = requestSeq + 1 /\ loads' \subseteq Load
      /\ \A l \in loads' : l.id <= requestSeq' /\ (l.id = requestSeq' => l.key = key)
      /\ \E l \in loads' : l.id = requestSeq'
  BY <1>1, <1>2, LoadShape
<1>4. requestSeq + 1 \in 0..MaxLoad
  BY <1>3
<1>5. save' \in SaveType /\ save'.pc = "reload" /\ save'.key = save.key
  BY <1>2, <1>4 DEF DetailInv, DetailOK, SaveOK, SaveType
<1>6. DetailOK'
  BY <1>2, <1>3, <1>5 DEF DetailInv, DetailOK, DialogOK, PageOK, SaveOK
<1>7. LoadInv'
  BY <1>3 DEF LoadInv, PageMatchesLocation, Settled
<1>8. SaveInv'
  BY <1>5 DEF SaveInv
<1> QED
  BY <1>6, <1>7, <1>8 DEF DetailInv

\* The update.
LEMMA PutInv == ASSUME DetailInv, putAnswered PROVE DetailInv'
<1> DEFINE e == store[save.key]
           f == updated(e, save.raw)
<1>1. /\ save.pc = "put" /\ save.raw # NoRaw /\ CanUpdate(e)
      /\ store' = [store EXCEPT ![save.key] = f]
      /\ UNCHANGED <<others, mounted, key, element>>
  BY DEF putAnswered
<1>2. /\ save.key \in Key /\ save \in SaveType /\ save.raw \in Raw /\ Sound(e)
      /\ store \in [Key -> Element] /\ others' \in 0..MaxOther
  BY <1>1 DEF DetailInv, DetailOK, SaveOK, StoreOK, SaveType, RawOrNone
<1>3. /\ Sound(f) /\ Evolves(e, f) /\ f.latest = e.latest + 1 /\ f.life = e.life
      /\ e.latest + 1 \in Version /\ f.ver[e.latest + 1].raw = save.raw
  BY <1>1, <1>2, UpdateSound
<1>4. \/ giveUp
      \/ /\ save' = [save EXCEPT !.pc = "get", !.made = f.latest, !.life = f.life]
         /\ UNCHANGED <<dialogVars, loading, saving, requestSeq, loads>>
      \/ reload
  BY DEF putAnswered
<1>5. store'[save.key] = f
  BY <1>1, <1>2
<1> HIDE DEF f, e
<1>6. StoreOK'
  BY <1>1, <1>2, <1>3, StoreStep DEF e
<1>7. CASE giveUp
  BY <1>1, <1>6, <1>7, FinishedInv
<1>8. CASE reload
  BY <1>1, <1>6, <1>8, ReloadInv
<1>9. CASE /\ save' = [save EXCEPT !.pc = "get", !.made = f.latest, !.life = f.life]
           /\ UNCHANGED <<dialogVars, loading, saving, requestSeq, loads>>
  <2>1. f.latest \in 0..MaxVersion /\ f.life \in Nat /\ f.latest \in Version /\ f.latest <= f.latest
    BY <1>3, ElementFields DEF Sound
  <2>2. /\ save' \in SaveType /\ save'.pc = "get" /\ save'.key = save.key /\ save'.made = f.latest
        /\ save'.life = f.life /\ save'.raw = save.raw
    BY <1>2, <1>9, <2>1 DEF SaveType
  <2>3. DetailOK'
    BY <1>1, <1>2, <1>6, <1>9, <2>2 DEF DetailInv, DetailOK, DialogOK, PageOK, SaveOK, dialogVars
  <2>4. LoadInv'
    BY <1>1, <1>9 DEF DetailInv, LoadInv, PageMatchesLocation, Settled, dialogVars
  <2>5. OwnVersion(save', f)
    BY <1>3, <2>1, <2>2 DEF OwnVersion
  <2>6. SaveInv'
    BY <1>5, <2>2, <2>5 DEF SaveInv
  <2> QED
    BY <2>3, <2>4, <2>6 DEF DetailInv
<1> QED
  BY <1>4, <1>7, <1>8, <1>9

\* A request that fails, its effect there or not.
LEMMA SaveFailedInv == ASSUME DetailInv, saveFailed PROVE DetailInv'
<1>1. /\ save.pc # "idle" /\ giveUp /\ UNCHANGED <<others, mounted, key, element>>
      /\ \/ UNCHANGED store
         \/ /\ save.raw # NoRaw /\ CanUpdate(store[save.key])
            /\ store' = [store EXCEPT ![save.key] = updated(store[save.key], save.raw)]
         \/ /\ CanPublish(store[save.key], save.version)
            /\ store' = [store EXCEPT ![save.key] = published(store[save.key], save.version)]
  BY DEF saveFailed
<1>2. /\ save.key \in Key /\ save.raw \in RawOrNone /\ Sound(store[save.key])
      /\ others' \in 0..MaxOther
  BY <1>1 DEF DetailInv, DetailOK, SaveOK, StoreOK, SaveType
<1>3. StoreOK'
  <2>1. CASE UNCHANGED store
    BY <1>1, <2>1 DEF DetailInv, DetailOK, StoreOK
  <2>2. CASE /\ save.raw # NoRaw /\ CanUpdate(store[save.key])
             /\ store' = [store EXCEPT ![save.key] = updated(store[save.key], save.raw)]
    <3>1. save.raw \in Raw
      BY <1>2, <2>2 DEF RawOrNone
    <3>2. Sound(updated(store[save.key], save.raw))
          /\ Evolves(store[save.key], updated(store[save.key], save.raw))
      BY <1>2, <2>2, <3>1, UpdateSound
    <3> QED
      BY <1>2, <2>2, <3>2, StoreStep
  <2>3. CASE /\ CanPublish(store[save.key], save.version)
             /\ store' = [store EXCEPT ![save.key] = published(store[save.key], save.version)]
    <3>1. /\ Sound(published(store[save.key], save.version))
          /\ Evolves(store[save.key], published(store[save.key], save.version))
      BY <1>2, <2>3, PublishSound
    <3> QED
      BY <1>2, <2>3, <3>1, StoreStep
  <2> QED
    BY <1>1, <2>1, <2>2, <2>3
<1> QED
  BY <1>1, <1>3, FinishedInv

\* The element is read back and the version to publish is chosen.
LEMMA GetInv == ASSUME DetailInv, getAnswered PROVE DetailInv'
<1> DEFINE e == store[save.key]
<1>1. /\ save.pc = "get" /\ UNCHANGED <<storeVars, mounted, key, element>>
      /\ \/ /\ publishable(e) # 0 /\ save' = [save EXCEPT !.pc = "publish", !.version = publishable(e)]
            /\ UNCHANGED <<dialogVars, loading, saving, requestSeq, loads>>
         \/ giveUp
  BY DEF getAnswered
<1>2. StoreOK'
  BY <1>1 DEF DetailInv, DetailOK, StoreOK, storeVars
<1>3. CASE giveUp
  BY <1>1, <1>2, <1>3, FinishedInv
<1>4. CASE /\ publishable(e) # 0 /\ save' = [save EXCEPT !.pc = "publish", !.version = publishable(e)]
           /\ UNCHANGED <<dialogVars, loading, saving, requestSeq, loads>>
  <2>1. save.key \in Key /\ save \in SaveType /\ Sound(e) /\ OwnVersion(save, e)
    BY <1>1 DEF DetailInv, DetailOK, SaveOK, StoreOK, SaveInv
  <2>2. publishable(e) \in 0..MaxVersion /\ publishable(e) = e.latest
    BY <1>4, <2>1 DEF publishable, Sound, Element
  <2>3. /\ save' \in SaveType /\ save'.pc = "publish" /\ save'.version = e.latest
        /\ save'.key = save.key /\ save'.made = save.made /\ save'.life = save.life /\ save'.raw = save.raw
    BY <1>4, <2>1, <2>2 DEF SaveType
  <2>4. DetailOK'
    BY <1>1, <1>2, <1>4, <2>1, <2>3 DEF DetailInv, DetailOK, DialogOK, PageOK, SaveOK, dialogVars
  <2>5. LoadInv'
    BY <1>1, <1>4 DEF DetailInv, LoadInv, PageMatchesLocation, Settled, dialogVars
  <2>6. OwnVersion(save', e)
    BY <2>1, <2>3 DEF OwnVersion
  <2>7. SaveInv'
    BY <1>1, <2>3, <2>6 DEF SaveInv, storeVars
  <2> QED
    BY <2>4, <2>5, <2>7 DEF DetailInv
<1> QED
  BY <1>1, <1>3, <1>4

LEMMA PublishInv == ASSUME DetailInv, publishAnswered PROVE DetailInv'
<1>1. /\ save.pc = "publish" /\ CanPublish(store[save.key], save.version)
      /\ store' = [store EXCEPT ![save.key] = published(store[save.key], save.version)]
      /\ reload \/ giveUp
      /\ UNCHANGED <<others, mounted, key, element>>
  BY DEF publishAnswered
<1>2. save.key \in Key /\ Sound(store[save.key]) /\ others' \in 0..MaxOther
  BY <1>1 DEF DetailInv, DetailOK, SaveOK, StoreOK
<1>3. StoreOK'
  <2>1. /\ Sound(published(store[save.key], save.version))
        /\ Evolves(store[save.key], published(store[save.key], save.version))
    BY <1>1, <1>2, PublishSound
  <2> QED
    BY <1>1, <1>2, <2>1, StoreStep
<1> QED
  BY <1>1, <1>3, FinishedInv, ReloadInv

LEMMA OtherInv == ASSUME DetailInv, Other PROVE DetailInv'
<1>1. PICK k \in Key : OtherRequest(k)
  BY DEF Other
<1>2. UNCHANGED <<dialogVars, pageVars, loads, save>>
  BY DEF Other
<1>3. PICK f \in OtherResults(store[k]) : store' = [store EXCEPT ![k] = f]
  BY <1>1 DEF OtherRequest
<1>4. others' \in 0..MaxOther
  BY <1>1, StoreAssumption DEF OtherRequest, DetailInv, DetailOK, StoreOK
<1>5. Sound(f) /\ Evolves(store[k], f)
  BY OtherSound DEF DetailInv, DetailOK, StoreOK
<1>6. StoreOK' /\ SaveInv'
  BY <1>2, <1>3, <1>4, <1>5, StoreStep
<1>7. DialogOK' /\ PageOK' /\ SaveOK'
  BY <1>2 DEF DetailInv, DetailOK, DialogOK, PageOK, SaveOK, dialogVars, pageVars
<1>8. LoadInv'
  BY <1>2 DEF DetailInv, LoadInv, PageMatchesLocation, Settled, dialogVars, pageVars
<1> QED
  BY <1>6, <1>7, <1>8 DEF DetailInv, DetailOK

LEMMA StutterInv == ASSUME DetailInv, UNCHANGED vars PROVE DetailInv'
BY DEF DetailInv, DetailOK, StoreOK, DialogOK, PageOK, SaveOK, LoadInv, PageMatchesLocation, Settled,
   SaveInv, vars, storeVars, dialogVars, pageVars

\* Every step preserves the invariant.
LEMMA NextInv == ASSUME DetailInv, [Next]_vars PROVE DetailInv'
<1>1. CASE \E k \in Key : navigate(k)
  BY <1>1, NavigateInv
<1>2. CASE leave
  BY <1>2, LeaveInv
<1>3. CASE EditStep
  BY <1>3, EditInv
<1>4. CASE StartStep
  BY <1>4, StartInv
<1>5. CASE LoadStep
  BY <1>5, LoadStepInv
<1>6. CASE SaveStep
  BY <1>6, PutInv, SaveFailedInv, GetInv, PublishInv DEF SaveStep
<1>7. CASE Other
  BY <1>7, OtherInv
<1>8. CASE UNCHANGED vars
  BY <1>8, StutterInv
<1> QED
  BY <1>1, <1>2, <1>3, <1>4, <1>5, <1>6, <1>7, <1>8 DEF Next, EditStep, StartStep

LEMMA DetailInvariant == Spec => []DetailInv
<1>1. DetailInv /\ [Next]_vars => DetailInv'
  BY NextInv
<1> QED
  BY <1>1, InitInv, PTL DEF Spec

-----------------------------------------------------------------------------
(* Theorems *)

\* Every variable of the page, of the save in flight and of the store keeps its
\* type, for any elements, contents and number of loads.
THEOREM TypeCorrect == Spec => []TypeOK
<1>1. DetailInv => TypeOK
  BY DEF DetailInv, DetailOK, StoreOK, DialogOK, PageOK, SaveOK, TypeOK, StoreType, Shown, Load, SaveType
<1> QED
  BY <1>1, DetailInvariant, PTL

\* Once the latest load has answered, the page and its editor hold the element
\* of the location, for any number of locations and loads in flight.
THEOREM PageIsOfLocation == Spec => []PageMatchesLocation
<1>1. DetailInv => PageMatchesLocation
  BY DEF DetailInv, LoadInv
<1> QED
  BY <1>1, DetailInvariant, PTL

\* Publishing directly publishes the content that was written, in the version
\* the update added, unless the element was updated or deleted between the
\* three requests.
THEOREM DirectPublishIsOwn == Spec => PublishesOwnDraft
<1> DEFINE e == store[save.key]
           Own == publishAnswered /\ e.life = save.life /\ e.latest = save.made =>
                    store'[save.key].using = save.made /\ e.ver[save.made].raw = save.raw
<1>1. ASSUME DetailInv PROVE Own
  <2> SUFFICES ASSUME publishAnswered, e.life = save.life, e.latest = save.made
               PROVE  store'[save.key].using = save.made /\ e.ver[save.made].raw = save.raw
    OBVIOUS
  <2>1. /\ save.pc = "publish" /\ CanPublish(e, save.version)
        /\ store' = [store EXCEPT ![save.key] = published(e, save.version)]
    BY DEF publishAnswered
  <2>2. /\ save.key \in Key /\ Sound(e) /\ store \in [Key -> Element] /\ OwnVersion(save, e)
    BY <1>1, <2>1 DEF DetailInv, DetailOK, SaveOK, StoreOK, SaveInv
  <2>3. save.version = save.made /\ (e.ver[save.made] = NoVersion \/ e.ver[save.made].raw = save.raw)
    BY <2>1, <2>2 DEF OwnVersion
  <2>4. e.ver[save.version] # NoVersion
    BY <2>1 DEF CanPublish, Stored
  <2>5. published(e, save.version).using = save.version
    BY <2>1, <2>2, PublishSound
  <2>6. store'[save.key] = published(e, save.version)
    BY <2>1, <2>2
  <2> QED
    BY <2>3, <2>4, <2>5, <2>6
<1>2. DetailInv /\ [Next]_vars => [Own]_vars
  BY <1>1
<1> QED
  BY <1>2, DetailInvariant, PTL DEF Spec, PublishesOwnDraft
=============================================================================
