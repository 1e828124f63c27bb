--------------------------- MODULE ConsoleProofs ---------------------------
(***************************************************************************)
(* Proofs about Console, for any names, collections, page sizes, searches, *)
(* topologies and bounds: what a page shows once its last load is answered *)
(* is what its controls ask for, its own changes included; paging neither  *)
(* repeats nor disorders rows; the graph is that of the topology.          *)
(*                                                                         *)
(* The server comes first: what a listing contains.  Then, page by page,   *)
(* an invariant of the page's record and one lemma for each of its steps.  *)
(* The pages share the collections on the server, and a page that is not   *)
(* open may still have a change under way; OnePage says why no two pages   *)
(* disturb each other.                                                     *)
(***************************************************************************)
EXTENDS Console, FiniteSetTheorems, SequenceTheorems, WellFoundedInduction, TLAPS

\* A sequence of names in order.
Ascends(s) == \A i, j \in DOMAIN s : i < j => s[i] < s[j]

\* A set of names has a least one.
LEMMA LeastNatural ==
  ASSUME NEW S \in SUBSET Nat, S # {}
  PROVE  \E m \in S : \A x \in S : m <= x
  <1>1. PICK m \in S : \A x \in S : ~(<<x, m>> \in OpToRel(<, Nat))
    BY WFMin, NatLessThanWellFounded
  <1>2. \A x \in S : ~(x < m)
    BY <1>1 DEF OpToRel
  <1>3. QED
    BY <1>2

\* A sequence with a new first element.
Prefixed(m, s, n) == [i \in 1..n |-> IF i = 1 THEN m ELSE s[i - 1]]

\* The least name before the others in order is all of them in order.
LEMMA PrefixedAscends ==
  ASSUME NEW S \in SUBSET Nat, NEW m \in S, \A x \in S : m <= x,
         NEW n \in Nat \ {0}, NEW s \in [1..(n - 1) -> S \ {m}], Ascends(s)
  PROVE  Prefixed(m, s, n) \in [1..n -> S] /\ Ascends(Prefixed(m, s, n))
  <1> DEFINE t == Prefixed(m, s, n)
  <1>1. \A i \in 2..n : i - 1 \in 1..(n - 1)
    OBVIOUS
  <1>2. \A i \in 2..n : s[i - 1] \in S \ {m}
    BY <1>1
  <1>3. t \in [1..n -> S]
    BY <1>2 DEF Prefixed
  <1>4. ASSUME NEW i \in 1..n, NEW j \in 1..n, i < j PROVE t[i] < t[j]
    <2>1. j \in 2..n /\ t[j] = s[j - 1]
      BY <1>4 DEF Prefixed
    <2>2. CASE i = 1
      <3>1. t[i] = m
        BY <2>2 DEF Prefixed
      <3>2. s[j - 1] \in S /\ s[j - 1] # m
        BY <2>1, <1>2
      <3>3. m <= s[j - 1] /\ m \in Nat /\ s[j - 1] \in Nat
        BY <3>2
      <3> QED BY <3>1, <3>2, <3>3, <2>1
    <2>3. CASE i # 1
      <3>1. i \in 2..n /\ t[i] = s[i - 1]
        BY <2>3 DEF Prefixed
      <3>2. i - 1 \in 1..(n - 1) /\ j - 1 \in 1..(n - 1) /\ i - 1 < j - 1
        BY <1>4, <1>1, <2>1, <3>1
      <3> QED BY <3>1, <3>2, <2>1 DEF Ascends
    <2> QED BY <2>2, <2>3
  <1>5. DOMAIN t = 1..n
    BY DEF Prefixed
  <1> QED BY <1>3, <1>4, <1>5 DEF Ascends

\* The cardinalities of the sets that cannot be put in order.
Unordered ==
  {n \in Nat : \E S \in SUBSET Nat :
     IsFiniteSet(S) /\ Cardinality(S) = n /\ ~\E s \in [1..n -> S] : Ascends(s)}

\* There are none: a least one has a least element, and without it is in order.
LEMMA AllOrdered == Unordered = {}
  <1> SUFFICES ASSUME Unordered # {} PROVE FALSE
    OBVIOUS
  <1>1. PICK n \in Unordered : \A k \in Unordered : n <= k
    BY LeastNatural DEF Unordered
  <1>2. n \in Nat
    BY DEF Unordered
  <1>3. PICK S \in SUBSET Nat :
          IsFiniteSet(S) /\ Cardinality(S) = n /\ ~\E s \in [1..n -> S] : Ascends(s)
    BY DEF Unordered
  <1>4. CASE n = 0
    <2> DEFINE e == [i \in 1..n |-> 0]
    <2>1. 1..n = {}
      BY <1>4
    <2>2. e \in [1..n -> S]
      BY <2>1
    <2>3. Ascends(e)
      BY <2>1 DEF Ascends
    <2> QED BY <2>2, <2>3, <1>3
  <1>5. CASE n # 0
    <2>1. S # {}
      BY <1>3, <1>5, FS_EmptySet
    <2>2. PICK m \in S : \A x \in S : m <= x
      BY <2>1, LeastNatural
    <2>3. IsFiniteSet(S \ {m}) /\ Cardinality(S \ {m}) = n - 1
      BY <1>3, <2>2, FS_RemoveElement
    <2>4. n - 1 \in Nat /\ n - 1 \notin Unordered
      BY <1>1, <1>2, <1>5
    <2>5. PICK s \in [1..(n - 1) -> S \ {m}] : Ascends(s)
      BY <2>3, <2>4 DEF Unordered
    <2>6. n \in Nat \ {0}
      BY <1>2, <1>5
    <2> QED BY <2>2, <2>5, <2>6, <1>3, PrefixedAscends
  <1> QED BY <1>4, <1>5

\* What ascending returns: every element of the set once, in order.
LEMMA AscendingSpec ==
  ASSUME NEW S \in SUBSET Nat, IsFiniteSet(S)
  PROVE  /\ ascending(S) \in [1..Cardinality(S) -> S]
         /\ Ascends(ascending(S))
         /\ \A x \in S : \E i \in 1..Cardinality(S) : ascending(S)[i] = x
  <1>1. Cardinality(S) \in Nat
    BY FS_CardinalityType
  <1>2. PICK n \in Nat : n = Cardinality(S)
    BY <1>1
  <1>3. \E s \in [1..n -> S] : Ascends(s)
    BY <1>2, AllOrdered DEF Unordered
  <1>4. ascending(S) \in [1..n -> S] /\ Ascends(ascending(S))
    BY <1>2, <1>3 DEF ascending, Ascends
  <1>5. ascending(S) \in Injection(1..n, S)
    <2>1. ASSUME NEW i \in 1..n, NEW j \in 1..n, ascending(S)[i] = ascending(S)[j] PROVE i = j
      <3>1. DOMAIN ascending(S) = 1..n /\ ascending(S)[i] \in Nat /\ ascending(S)[j] \in Nat
        BY <1>4
      <3>2. i < j => ascending(S)[i] < ascending(S)[j]
        BY <1>4, <3>1 DEF Ascends
      <3>3. j < i => ascending(S)[j] < ascending(S)[i]
        BY <1>4, <3>1 DEF Ascends
      <3> QED BY <2>1, <3>1, <3>2, <3>3
    <2> QED BY <1>4, <2>1 DEF Injection, IsInjective
  <1>6. Cardinality(1..n) = n
    BY FS_Interval
  <1>7. ascending(S) \in Surjection(1..n, S)
    BY <1>2, <1>5, <1>6, FS_Injection
  <1>8. \A x \in S : \E i \in 1..n : ascending(S)[i] = x
    BY <1>7 DEF Surjection
  <1> QED BY <1>2, <1>4, <1>8

-----------------------------------------------------------------------------
(* What the server lists *)

\* The names a request is about.
Found(p, q, s) == {i \in items[p] \cap Match[q] : i >= s}

\* What a page of at most n of the names in S promises: names of S in order, all
\* of them up to where the next page starts.
PageOf(page, S, n) ==
  /\ page \in PageType
  /\ Ascends(page.rows)
  /\ Rows(page) \subseteq S
  /\ \A i \in S : (page.hasMore => i < page.nextSeek) => i \in Rows(page)
  /\ page.hasMore => /\ page.nextSeek \in S /\ Len(page.rows) = n
                     /\ \A i \in Rows(page) : i < page.nextSeek

\* The first n of a sequence of names in order, and the one after them.
Cut(found, n) ==
  [rows |-> IF Len(found) > n THEN SubSeq(found, 1, n) ELSE found,
   hasMore |-> Len(found) > n, nextSeek |-> IF Len(found) > n THEN found[n + 1] ELSE 0]

\* Cutting an ordered list after n rows leaves a page of the set it lists.
LEMMA CutSpec ==
  ASSUME NEW S \in SUBSET Item, NEW found \in Seq(S), Ascends(found),
         \A x \in S : \E i \in 1..Len(found) : found[i] = x,
         NEW n \in Nat \ {0}
  PROVE  PageOf(Cut(found, n), S, n)
  <1> DEFINE page == Cut(found, n)
  <1>0. Len(found) \in Nat /\ DOMAIN found = 1..Len(found) /\ \A i \in 1..Len(found) : found[i] \in S
    OBVIOUS
  <1>1. /\ page.rows = IF Len(found) > n THEN SubSeq(found, 1, n) ELSE found
        /\ page.hasMore = (Len(found) > n)
        /\ page.nextSeek = IF Len(found) > n THEN found[n + 1] ELSE 0
    BY DEF Cut
  <1>2. CASE ~(Len(found) > n)
    <2>1. page.rows = found /\ ~page.hasMore /\ page.nextSeek = 0
      BY <1>1, <1>2
    <2>2. page \in PageType
      <3>1. found \in Seq(Item)
        BY <1>0
      <3> QED BY <1>2, <3>1, <1>0 DEF Cut, PageType
    <2>3. Rows(page) = {found[i] : i \in 1..Len(found)}
      BY <2>1, <1>0 DEF Rows, ToSet
    <2> HIDE DEF page
    <2>4. Rows(page) \subseteq S /\ \A i \in S : i \in Rows(page)
      BY <2>3, <1>0
    <2>5. PageOf(page, S, n)
      BY <2>1, <2>2, <2>4 DEF PageOf
    <2> QED BY <2>5 DEF page
  <1>3. CASE Len(found) > n
    <2> DEFINE r == SubSeq(found, 1, n)
    <2>1. page.rows = r /\ page.hasMore /\ page.nextSeek = found[n + 1]
      BY <1>1, <1>3
    <2>2. /\ r \in Seq(S) /\ Len(r) = n /\ \A i \in 1..n : r[i] = found[i]
          /\ DOMAIN r = 1..n
      <3>1. 1 \in 1..(Len(found) + 1) /\ n \in 0..Len(found)
        BY <1>0, <1>3
      <3> QED BY <1>0, <1>3, <3>1
    <2>3. n + 1 \in 1..Len(found) /\ found[n + 1] \in S
      BY <1>0, <1>3
    <2>4. page \in PageType
      <3>1. r \in Seq(Item)
        BY <2>2
      <3> HIDE DEF r
      <3>2. page = [rows |-> r, hasMore |-> TRUE, nextSeek |-> found[n + 1]]
        BY <1>3, <1>0 DEF Cut, r
      <3> QED BY <3>1, <3>2, <2>3 DEF PageType
    <2> HIDE DEF page, r
    <2>5. Rows(page) = {r[i] : i \in 1..n}
      BY <2>1, <2>2 DEF Rows, ToSet
    <2>6. Ascends(r)
      <3>1. \A i \in 1..n : i \in 1..Len(found)
        BY <1>0, <1>3
      <3> QED BY <2>2, <3>1, <1>0 DEF Ascends
    <2>7. Rows(page) \subseteq S
      BY <2>5, <2>2
    <2>8. ASSUME NEW x \in Rows(page) PROVE x < page.nextSeek
      <3>1. PICK i \in 1..n : x = found[i]
        BY <2>5, <2>2, ZenonT(40)
      <3>2. i \in DOMAIN found /\ n + 1 \in DOMAIN found /\ i < n + 1
        BY <1>0, <2>3, <1>3
      <3> QED BY <3>1, <3>2, <2>1 DEF Ascends
    <2>9. ASSUME NEW x \in S, x < page.nextSeek PROVE x \in Rows(page)
      <3>1. PICK i \in 1..Len(found) : x = found[i]
        OBVIOUS
      <3>2. x \in Nat /\ found[n + 1] \in Nat
        BY <2>3, CollectionsAssumption
      <3>3. ~(n + 1 < i)
        <4> SUFFICES ASSUME n + 1 < i PROVE FALSE
          OBVIOUS
        <4>1. found[n + 1] < found[i]
          BY <1>0, <2>3 DEF Ascends
        <4> QED BY <4>1, <3>1, <3>2, <2>9, <2>1
      <3>4. i # n + 1
        BY <3>1, <3>2, <2>9, <2>1
      <3>5. i \in 1..n
        BY <3>3, <3>4, <1>0
      <3> QED BY <3>1, <3>5, <2>5, <2>2
    <2>10. PageOf(page, S, n)
      BY <2>1, <2>2, <2>3, <2>4, <2>6, <2>7, <2>8, <2>9 DEF PageOf
    <2> QED BY <2>10 DEF page
  <1> QED BY <1>2, <1>3

\* The server's answer to a request.
LEMMA ListedSpec ==
  ASSUME ServerType, NEW p \in Place, IsFiniteSet(items[p]), NEW q \in Query,
         NEW n \in Nat \ {0}, NEW s \in Nat
  PROVE  PageOf(listed(p, q, n, s), Found(p, q, s), n)
  <1> DEFINE S == Found(p, q, s)
             found == ascending(S)
  <1>1. S \in SUBSET Item /\ S \in SUBSET items[p]
    BY DEF Found, ServerType
  <1>2. S \in SUBSET Nat /\ IsFiniteSet(S)
    BY <1>1, FS_Subset, CollectionsAssumption
  <1> HIDE DEF S
  <1>3. /\ found \in [1..Cardinality(S) -> S] /\ Ascends(found)
        /\ \A x \in S : \E i \in 1..Cardinality(S) : found[i] = x
    BY <1>2, AscendingSpec
  <1>4. Cardinality(S) \in Nat
    BY <1>2, FS_CardinalityType
  <1> HIDE DEF found
  <1>5. found \in Seq(S) /\ Len(found) = Cardinality(S)
    BY <1>3, <1>4
  <1>6. PageOf(Cut(found, n), S, n)
    BY <1>1, <1>3, <1>5, CutSpec
  <1>7. listed(p, q, n, s) = Cut(found, n)
    BY DEF listed, Cut, found, S, Found
  <1> QED BY <1>6, <1>7 DEF S

-----------------------------------------------------------------------------
(* The server *)

\* Names are positive numbers and page sizes are positive.
LEMMA Names ==
  /\ Item \subseteq Nat /\ 0 \notin Item /\ \A s \in Item \cup {0} : s \in Nat
  /\ PageSize \subseteq Nat \ {0} /\ 0 \in Query
  BY CollectionsAssumption

\* The collections are typed and finite: a listing has an end.
ServerInv == ServerType /\ \A p \in Place : IsFiniteSet(items[p])

\* A change accepted, a change by others and no change keep the server so.
LEMMA ServerStep ==
  ASSUME ServerInv, NEW p \in Place, NEW i \in Item, others' \in 0..MaxOther,
         \/ accepted("create", p, i) \/ accepted("delete", p, i)
         \/ items' = [items EXCEPT ![p] = (@ \ {i}) \cup ({i} \ @)] \/ items' = items
  PROVE  ServerInv'
  <1>1. IsFiniteSet(items[p])
    BY DEF ServerInv
  <1>2. IsFiniteSet(items[p] \cup {i}) /\ IsFiniteSet(items[p] \ {i})
    BY <1>1, FS_AddElement, FS_RemoveElement
  <1>3. \E S \in SUBSET Item : IsFiniteSet(S) /\ items' = [items EXCEPT ![p] = S]
    <2>1. CASE accepted("create", p, i)
      BY <1>2, <2>1 DEF accepted, ServerInv, ServerType
    <2>2. CASE accepted("delete", p, i)
      BY <1>2, <2>2 DEF accepted, ServerInv, ServerType
    <2>3. CASE items' = [items EXCEPT ![p] = (@ \ {i}) \cup ({i} \ @)]
      <3>1. (items[p] \ {i}) \cup ({i} \ items[p]) \in {items[p] \cup {i}, items[p] \ {i}}
        OBVIOUS
      <3> QED BY <1>2, <2>3, <3>1 DEF ServerInv, ServerType
    <2>4. CASE items' = items
      BY <1>1, <2>4 DEF ServerInv, ServerType
    <2> QED BY <2>1, <2>2, <2>3, <2>4
  <1> QED BY <1>3 DEF ServerInv, ServerType

\* What the server makes of a change whose answer is an error, or of another
\* administrator's: only what becomes unknown may differ.
LEMMA OneChanges ==
  ASSUME ServerInv, NEW p \in Place, NEW i \in Item,
         \/ \E kind \in {"create", "delete"} : failed(kind, p, i)
         \/ OtherChange(p, i)
  PROVE  /\ ServerInv' /\ \A k \in Item \ {i} : k \in items'[p] <=> k \in items[p]
         /\ \A k \in Place \ {p} : items'[k] = items[k]
  <1>1. /\ others' \in 0..MaxOther
        /\ \/ accepted("create", p, i) \/ accepted("delete", p, i)
           \/ items' = [items EXCEPT ![p] = (@ \ {i}) \cup ({i} \ @)] \/ items' = items
    BY CollectionsAssumption DEF failed, OtherChange, serverVars, ServerInv, ServerType
  <1>2. ServerInv'
    BY <1>1, ServerStep
  <1>3. DOMAIN items = Place
    BY DEF ServerInv, ServerType
  <1> QED BY <1>1, <1>2, <1>3 DEF accepted

\* The page shown before any answer is an empty one.
LEMMA NoPageType == NoPage \in PageType /\ NoPage.hasMore = FALSE /\ NoPage.rows = <<>> /\ Rows(NoPage) = {}
  BY DEF NoPage, PageType, Rows, ToSet

\* What a page shows agrees with this page's own changes.
OwnPage(own, page, q, s) ==
  \A i \in Item :
    /\ own[i] = "out" => i \notin Rows(page)
    /\ (own[i] = "in" /\ i \in Match[q] /\ i >= s /\ (page.hasMore => i < page.nextSeek)) => i \in Rows(page)

\* A page of the server agrees with what is known of its items.
LEMMA OwnListed ==
  ASSUME NEW page, NEW S, NEW q, NEW s, NEW n, NEW own, NEW K \in SUBSET Item,
         PageOf(page, {i \in K \cap Match[q] : i >= s}, n),
         \A i \in Item : (own[i] = "in" => i \in K) /\ (own[i] = "out" => i \notin K)
  PROVE  OwnPage(own, page, q, s)
  BY DEF PageOf, OwnPage

-----------------------------------------------------------------------------
(* The page of applications *)

\* The fields of the page's record.
AppFields ==
  {"mounted", "page", "failed", "loading", "query", "pageSize", "seek", "seekStack", "pageIndex", "submitting",
   "dialog", "task", "seq", "loads", "answerTo", "own"}

\* The types of the page, and the loads it may still need for a change in flight.
AppType(r) ==
  /\ DOMAIN r = AppFields
  /\ r.mounted \in BOOLEAN /\ r.failed \in BOOLEAN /\ r.loading \in BOOLEAN /\ r.submitting \in BOOLEAN
  /\ r.page \in PageType /\ r.query \in Query /\ r.pageSize \in PageSize /\ r.seek \in Item \cup {0}
  /\ r.dialog \in [kind : {"none", "create", "delete"}, item : Item \cup {0}]
  /\ r.dialog.kind = "delete" => r.dialog.item \in Item
  /\ r.own \in [Item -> {"unknown", "in", "out"}]

\* The change under way; one that was sent has loads left for its reload.
AppTaskAt(task, mounted, seq) ==
  /\ task \in [pc : {"idle", "sent", "reload"}, kind : {"none", "create", "delete"},
               item : Item \cup {0}, load : 0..MaxAppLoad]
  /\ seq \in 1..MaxAppLoad
  /\ task.pc = "sent" => /\ task.kind \in {"create", "delete"} /\ task.item \in Item
                         /\ mounted => seq + 2 <= MaxAppLoad

AppTask(r) == AppTaskAt(r.task, r.mounted, r.seq)

\* A load in flight.
AppLoad(l) ==
  /\ DOMAIN l = {"id", "query", "size", "seek", "got", "page"}
  /\ l.id \in Nat /\ l.query \in Query /\ l.size \in PageSize /\ l.seek \in Item \cup {0}
  /\ l.page \in PageType /\ (l.page.hasMore => l.seek <= l.page.nextSeek)

\* The last load asks for what the controls say.
AppLoads(r) ==
  \A l \in r.loads :
    /\ AppLoad(l) /\ l.id <= r.seq
    /\ l.id = r.seq => l.query = r.query /\ l.size = r.pageSize /\ l.seek = r.seek

\* The last load is answered.
AppSettled(r) == r.mounted /\ \A l \in r.loads : l.id # r.seq

\* Then what is shown answers what the controls say.
AppRows(r) ==
  AppSettled(r) /\ ~r.failed => r.answerTo = [query |-> r.query, size |-> r.pageSize, seek |-> r.seek]

\* The cursors lead here, and the page shown never leads back.
AppWay(r) ==
  /\ r.seekStack \in Seq(Item \cup {0}) /\ Len(r.seekStack) <= MaxAppLoad
  /\ LET way == Append(r.seekStack, r.seek)
     IN /\ way[1] = 0
        /\ \A i \in 2..Len(way) : way[i - 1] <= way[i] /\ way[i] # 0
        /\ r.pageIndex = Len(way)
  /\ r.page.hasMore => r.seek <= r.page.nextSeek

\* The part of the invariant that is about this page alone.
AppInv(r) == AppType(r) /\ AppTask(r) /\ AppLoads(r) /\ AppRows(r) /\ AppWay(r)

\* The changes this page knows of are the server's state, the last answer on its
\* way agrees with them, and so does what is shown when none is.
AppOwn(r, S) ==
  r.mounted =>
    /\ \A i \in Item : (r.own[i] = "in" => i \in S) /\ (r.own[i] = "out" => i \notin S)
    /\ \A l \in r.loads : l.id = r.seq /\ l.got => OwnPage(r.own, l.page, l.query, l.seek)
    /\ AppSettled(r) /\ ~r.failed => OwnPage(r.own, r.page, r.query, r.seek)

\* The operators this page instantiates are the server's.
LEMMA AppSame == A!NoPage = NoPage /\ \A page : A!Rows(page) = Rows(page)
  BY DEF A!NoPage, NoPage, A!Rows, Rows, A!ToSet, ToSet

\* A load just sent carries what it was sent with and has no answer.
LEMMA AppLoadFields ==
  ASSUME NEW id \in Nat, NEW q \in Query, NEW n \in PageSize, NEW s \in Item \cup {0}
  PROVE  \E l : /\ l = A!Load(id, q, n, s) /\ AppLoad(l)
                /\ l.id = id /\ l.query = q /\ l.size = n /\ l.seek = s /\ ~l.got
  <1> DEFINE l == A!Load(id, q, n, s)
  <1>1. /\ DOMAIN l = {"id", "query", "size", "seek", "got", "page"}
        /\ l.id = id /\ l.query = q /\ l.size = n /\ l.seek = s /\ l.got = FALSE /\ l.page = NoPage
    BY AppSame DEF A!Load
  <1> HIDE DEF l
  <1>2. AppLoad(l)
    BY <1>1, NoPageType DEF AppLoad
  <1> QED BY <1>1, <1>2 DEF l

\* The page as it is opened.
LEMMA AppOpenedFields ==
  LET n == CHOOSE n \in PageSize : TRUE
      r == A!Opened
  IN /\ DOMAIN r = AppFields /\ n \in PageSize
     /\ r.mounted = TRUE /\ r.page = NoPage /\ r.failed = FALSE /\ r.loading = TRUE /\ r.query = 0
     /\ r.pageSize = n /\ r.seek = 0 /\ r.seekStack = <<>> /\ r.pageIndex = 1 /\ r.submitting = FALSE
     /\ r.dialog = A!NoDialog /\ r.task = A!IdleTask /\ r.seq = 1 /\ r.loads = {A!Load(1, 0, n, 0)}
     /\ r.own = [i \in Item |-> "unknown"]
  <1>1. (CHOOSE n \in PageSize : TRUE) \in PageSize
    BY CollectionsAssumption
  <1> QED BY <1>1, AppSame DEF A!Opened, AppFields

\* The cursors of a page that was just opened or reset.
LEMMA FirstWay ==
  ASSUME NEW r, r.seekStack = <<>>, r.seek = 0, r.pageIndex = 1,
         r.page \in PageType
  PROVE  AppWay(r)
  <1>1. Append(r.seekStack, r.seek) = <<0>> /\ Len(<<0>>) = 1
    OBVIOUS
  <1>2. r.page.hasMore => r.seek <= r.page.nextSeek
    <2>1. r.page.nextSeek \in Item \cup {0}
      BY DEF PageType
    <2>2. r.page.nextSeek \in Nat
      BY <2>1, Names
    <2> QED BY <2>2
  <1>3. MaxAppLoad \in Nat \ {0}
    BY ConsoleAssumption
  <1> QED BY <1>1, <1>2, <1>3 DEF AppWay

\* It satisfies the invariant.
LEMMA AppOpened == AppInv(A!Opened) /\ \A S : AppOwn(A!Opened, S)
  <1> DEFINE r == A!Opened
             n == CHOOSE n \in PageSize : TRUE
  <1>1. /\ DOMAIN r = AppFields /\ n \in PageSize
        /\ r.mounted = TRUE /\ r.page = NoPage /\ r.failed = FALSE /\ r.loading = TRUE /\ r.query = 0
        /\ r.pageSize = n /\ r.seek = 0 /\ r.seekStack = <<>> /\ r.pageIndex = 1 /\ r.submitting = FALSE
        /\ r.dialog = A!NoDialog /\ r.task = A!IdleTask /\ r.seq = 1 /\ r.loads = {A!Load(1, 0, n, 0)}
        /\ r.own = [i \in Item |-> "unknown"]
    BY AppOpenedFields
  <1> HIDE DEF r, n
  <1>2. 0 \in Query /\ MaxAppLoad \in Nat \ {0}
    BY CollectionsAssumption, ConsoleAssumption
  <1>3. AppType(r)
    <2>1. r.mounted \in BOOLEAN /\ r.failed \in BOOLEAN /\ r.loading \in BOOLEAN /\ r.submitting \in BOOLEAN
      BY <1>1
    <2> QED BY <1>1, <1>2, <2>1, NoPageType DEF AppType, A!NoDialog
  <1>4. AppTask(r)
    BY <1>1, <1>2 DEF AppTask, AppTaskAt, A!IdleTask
  <1>5. PICK l : /\ l = A!Load(1, 0, n, 0) /\ AppLoad(l)
                 /\ l.id = 1 /\ l.query = 0 /\ l.size = n /\ l.seek = 0 /\ ~l.got
    <2>1. 1 \in Nat /\ 0 \in Query /\ n \in PageSize /\ 0 \in Item \cup {0}
      BY <1>1, <1>2
    <2> QED BY <2>1, AppLoadFields
  <1>6. AppLoads(r)
    BY <1>1, <1>5 DEF AppLoads
  <1>7. ~AppSettled(r)
    BY <1>1, <1>5 DEF AppSettled
  <1>8. AppWay(r)
    BY <1>1, FirstWay, NoPageType
  <1>9. \A S : AppOwn(r, S)
    BY <1>1, <1>5, <1>7 DEF AppOwn
  <1>10. AppInv(r)
    BY <1>3, <1>4, <1>6, <1>7, <1>8 DEF AppInv, AppRows
  <1> QED BY <1>9, <1>10 DEF r

\* The page is answered by the listing of the server.
LEMMA AppListed == \A p, q, n, s : A!listed(p, q, n, s) = listed(p, q, n, s)
  BY DEF A!listed, listed, A!ascending, ascending, A!Cardinality, Cardinality

\* A page that was left satisfies it too, whatever change is still under way.
LEMMA AppGone ==
  ASSUME NEW task \in [pc : {"idle", "sent", "reload"}, kind : {"none", "create", "delete"},
                       item : Item \cup {0}, load : 0..MaxAppLoad],
         task.pc = "sent" => task.kind \in {"create", "delete"} /\ task.item \in Item
  PROVE  AppInv(A!Gone(task)) /\ \A S : AppOwn(A!Gone(task), S)
  <1> DEFINE r == A!Gone(task)
             n == CHOOSE n \in PageSize : TRUE
  <1>1. /\ DOMAIN r = AppFields /\ n \in PageSize
        /\ r.mounted = FALSE /\ r.page = NoPage /\ r.failed = FALSE /\ r.loading = FALSE /\ r.query = 0
        /\ r.pageSize = n /\ r.seek = 0 /\ r.seekStack = <<>> /\ r.pageIndex = 1 /\ r.submitting = FALSE
        /\ r.dialog = A!NoDialog /\ r.task = task /\ r.seq = 1 /\ r.loads = {}
        /\ r.own = [i \in Item |-> "unknown"]
    BY AppOpenedFields DEF A!Gone, AppFields
  <1> HIDE DEF r, n
  <1>2. 0 \in Query /\ MaxAppLoad \in Nat \ {0}
    BY Names, ConsoleAssumption
  <1>3. AppType(r)
    <2>1. r.mounted \in BOOLEAN /\ r.failed \in BOOLEAN /\ r.loading \in BOOLEAN /\ r.submitting \in BOOLEAN
      BY <1>1
    <2> QED BY <1>1, <1>2, <2>1, NoPageType DEF AppType, A!NoDialog
  <1>4. AppTask(r)
    BY <1>1, <1>2 DEF AppTask, AppTaskAt
  <1>5. AppLoads(r) /\ ~AppSettled(r)
    BY <1>1 DEF AppLoads, AppSettled
  <1>6. AppWay(r)
    BY <1>1, FirstWay, NoPageType
  <1>7. \A S : AppOwn(r, S)
    BY <1>1, <1>5 DEF AppOwn
  <1>8. AppInv(r)
    BY <1>3, <1>4, <1>5, <1>6 DEF AppInv, AppRows
  <1> QED BY <1>7, <1>8 DEF r

\* The server answers a load with the collection as it is now.
LEMMA AppRequest ==
  ASSUME ServerInv, AppInv(ap), AppOwn(ap, items[AppPlace]), NEW l \in ap.loads, A!requestApps(l)
  PROVE  AppInv(ap') /\ AppOwn(ap', items[AppPlace])
  <1> DEFINE page == listed(AppPlace, l.query, l.size, l.seek)
             m == [l EXCEPT !.got = TRUE, !.page = page]
  <1>1. AppPlace \in Place /\ IsFiniteSet(items[AppPlace]) /\ items[AppPlace] \in SUBSET Item
    BY ConsoleAssumption DEF ServerInv, ServerType
  <1>2. AppLoad(l) /\ l.id <= ap.seq /\ l.size \in Nat \ {0} /\ l.seek \in Nat
    BY Names DEF AppInv, AppLoads, AppLoad
  <1>3. PageOf(page, Found(AppPlace, l.query, l.seek), l.size)
    BY <1>1, <1>2, ListedSpec DEF AppLoad, ServerInv
  <1>4. page \in PageType /\ (page.hasMore => l.seek <= page.nextSeek)
    BY <1>3, <1>1, <1>2, Names DEF PageOf, Found
  <1>5. ap' = [ap EXCEPT !.loads = (ap.loads \ {l}) \cup {m}]
    BY AppListed DEF A!requestApps
  <1>6. ap.mounted => OwnPage(ap.own, page, l.query, l.seek)
    BY <1>1, <1>3, OwnListed DEF AppOwn, Found
  <1> HIDE DEF page
  <1>7. /\ AppLoad(m) /\ m.id = l.id /\ m.query = l.query /\ m.size = l.size /\ m.seek = l.seek
        /\ m.page = page
    BY <1>2, <1>4 DEF AppLoad
  <1> HIDE DEF m
  <1>8. DOMAIN ap' = AppFields /\ ap'.loads = (ap.loads \ {l}) \cup {m}
        /\ \A f \in AppFields \ {"loads"} : ap'[f] = ap[f]
    BY <1>5 DEF AppInv, AppType, AppFields
  <1>9. AppType(ap') /\ AppTask(ap')
    BY <1>8 DEF AppInv, AppType, AppTask, AppTaskAt, AppFields
  <1>10. AppLoads(ap')
    BY <1>2, <1>7, <1>8 DEF AppInv, AppLoads, AppFields
  <1>11. AppSettled(ap') => AppSettled(ap)
    BY <1>7, <1>8 DEF AppSettled, AppFields
  <1>12. AppRows(ap') /\ AppWay(ap')
    BY <1>8, <1>11 DEF AppInv, AppRows, AppWay, AppFields
  <1>13. AppOwn(ap', items[AppPlace])
    <2>1. ASSUME ap.mounted, NEW k \in ap'.loads, k.id = ap'.seq, k.got PROVE OwnPage(ap'.own, k.page, k.query, k.seek)
      BY <2>1, <1>6, <1>7, <1>8 DEF AppOwn, AppFields
    <2> QED BY <2>1, <1>8, <1>11 DEF AppOwn, AppFields
  <1> QED BY <1>9, <1>10, <1>12, <1>13 DEF AppInv

\* What the end of a load changes besides what is shown.
LEMMA AppEnded ==
  ASSUME NEW r, DOMAIN r = AppFields, r.submitting \in BOOLEAN, NEW l
  PROVE  LET e == A!ended(r, l)
         IN /\ DOMAIN e = AppFields /\ e.loads = r.loads \ {l}
            /\ e.task \in {r.task, A!IdleTask} /\ e.submitting \in BOOLEAN
            /\ \A f \in AppFields \ {"loads", "task", "submitting"} : e[f] = r[f]
  BY DEF A!ended, AppFields

\* The task that is not under way.
LEMMA AppIdle ==
  /\ A!IdleTask \in [pc : {"idle", "sent", "reload"}, kind : {"none", "create", "delete"},
                     item : Item \cup {0}, load : 0..MaxAppLoad]
  /\ A!IdleTask.pc = "idle"
  BY ConsoleAssumption DEF A!IdleTask

\* An answer is taken over if its load is the last one; r is the page with it.
LEMMA AppAnswer ==
  ASSUME AppInv(ap), NEW l \in ap.loads, NEW r, DOMAIN r = AppFields,
         \A f \in AppFields \ {"page", "failed", "loading", "answerTo"} : r[f] = ap[f],
         r.failed \in BOOLEAN, r.loading \in BOOLEAN, r.page \in PageType,
         r.page.hasMore => r.seek <= r.page.nextSeek,
         l.id = ap.seq => r.failed \/ r.answerTo = [query |-> l.query, size |-> l.size, seek |-> l.seek],
         l.id # ap.seq => r = ap,
         ap' = A!ended(r, l)
  PROVE  /\ AppInv(ap')
         /\ AppOwn(ap, items[AppPlace]) /\ (l.id = ap.seq /\ ap.mounted => r.failed \/ OwnPage(ap.own, r.page, l.query, l.seek))
               => AppOwn(ap', items[AppPlace])
  <1>1. r.submitting \in BOOLEAN
    BY DEF AppInv, AppType, AppFields
  <1>2. /\ DOMAIN ap' = AppFields /\ ap'.loads = r.loads \ {l}
        /\ ap'.task \in {r.task, A!IdleTask} /\ ap'.submitting \in BOOLEAN
        /\ \A f \in AppFields \ {"loads", "task", "submitting"} : ap'[f] = r[f]
    BY <1>1, AppEnded
  <1>3. /\ ap'.loads = ap.loads \ {l} /\ ap'.task \in {ap.task, A!IdleTask}
        /\ ap'.page = r.page /\ ap'.failed = r.failed /\ ap'.loading = r.loading /\ ap'.answerTo = r.answerTo
        /\ \A f \in AppFields \ {"loads", "task", "submitting", "page", "failed", "loading", "answerTo"} :
             ap'[f] = ap[f]
    BY <1>2 DEF AppFields
  <1>4. AppType(ap')
    BY <1>2, <1>3 DEF AppInv, AppType, AppFields
  <1>5. AppTask(ap')
    BY <1>2, <1>3, AppIdle DEF AppInv, AppTask, AppTaskAt, AppFields
  <1>6. AppLoads(ap')
    BY <1>2, <1>3 DEF AppInv, AppLoads, AppFields
  <1>7. l.id # ap.seq => (AppSettled(ap') => AppSettled(ap))
    BY <1>2, <1>3 DEF AppSettled, AppFields
  <1>8. AppRows(ap')
    <2>1. CASE l.id = ap.seq
      <3>1. l.query = ap.query /\ l.size = ap.pageSize /\ l.seek = ap.seek
        BY <2>1 DEF AppInv, AppLoads
      <3> QED BY <2>1, <3>1, <1>3 DEF AppRows, AppFields
    <2>2. CASE l.id # ap.seq
      BY <2>2, <1>3, <1>7 DEF AppInv, AppRows, AppFields
    <2> QED BY <2>1, <2>2
  <1>9. AppWay(ap')
    <2>1. /\ ap'.seekStack = ap.seekStack /\ ap'.seek = ap.seek /\ ap'.pageIndex = ap.pageIndex
          /\ r.seek = ap.seek
      BY <1>3 DEF AppFields
    <2> QED BY <1>3, <2>1 DEF AppInv, AppWay
  <1>10. ASSUME AppOwn(ap, items[AppPlace]),
                l.id = ap.seq /\ ap.mounted => r.failed \/ OwnPage(ap.own, r.page, l.query, l.seek)
         PROVE  AppOwn(ap', items[AppPlace])
    <2>1. CASE l.id = ap.seq
      <3>1. l.query = ap.query /\ l.size = ap.pageSize /\ l.seek = ap.seek
        BY <2>1 DEF AppInv, AppLoads
      <3> QED BY <2>1, <3>1, <1>10, <1>3 DEF AppOwn, AppFields
    <2>2. CASE l.id # ap.seq
      BY <2>2, <1>10, <1>3, <1>7 DEF AppOwn, AppFields
    <2> QED BY <2>1, <2>2
  <1> QED BY <1>4, <1>5, <1>6, <1>8, <1>9, <1>10 DEF AppInv

\* An answer, or a failure, arrives: the last is shown, another ignored.
LEMMA AppLoaded ==
  ASSUME AppInv(ap), AppOwn(ap, items[AppPlace]), NEW l \in ap.loads, A!appsLoaded(l) \/ A!appsFailed(l)
  PROVE  AppInv(ap') /\ AppOwn(ap', items[AppPlace])
  <1>1. DOMAIN ap = AppFields /\ AppLoad(l)
    BY DEF AppInv, AppType, AppLoads
  <1>2. CASE l.id # ap.seq
    <2>1. ap' = A!ended(ap, l)
      BY <1>2 DEF A!appsLoaded, A!appsFailed, A!isLatest
    <2>2. ap.failed \in BOOLEAN /\ ap.loading \in BOOLEAN /\ ap.page \in PageType
      BY DEF AppInv, AppType
    <2>3. ap.page.hasMore => ap.seek <= ap.page.nextSeek
      BY DEF AppInv, AppWay
    <2> QED BY <1>1, <1>2, <2>1, <2>2, <2>3, AppAnswer
  <1>3. CASE l.id = ap.seq /\ A!appsLoaded(l)
    <2> DEFINE r == [ap EXCEPT !.page = l.page, !.failed = FALSE, !.loading = FALSE,
                       !.answerTo = [query |-> l.query, size |-> l.size, seek |-> l.seek]]
    <2>1. ap' = A!ended(r, l) /\ l.got
      BY <1>3 DEF A!appsLoaded, A!isLatest
    <2>2. /\ DOMAIN r = AppFields /\ r.page = l.page /\ r.failed = FALSE /\ r.loading = FALSE
          /\ r.answerTo = [query |-> l.query, size |-> l.size, seek |-> l.seek] /\ r.seek = ap.seek
          /\ \A f \in AppFields \ {"page", "failed", "loading", "answerTo"} : r[f] = ap[f]
      BY <1>1 DEF AppFields
    <2> HIDE DEF r
    <2>3. l.seek = ap.seek
      BY <1>3 DEF AppInv, AppLoads
    <2>4. r.page \in PageType /\ (r.page.hasMore => r.seek <= r.page.nextSeek)
      BY <1>1, <2>2, <2>3 DEF AppLoad
    <2>5. ap.mounted => OwnPage(ap.own, r.page, l.query, l.seek)
      BY <1>3, <2>1, <2>2 DEF AppOwn
    <2>6. r.failed \in BOOLEAN /\ r.loading \in BOOLEAN
      BY <2>2
    <2> QED BY <1>3, <2>1, <2>2, <2>4, <2>5, <2>6, AppAnswer
  <1>4. CASE l.id = ap.seq /\ A!appsFailed(l)
    <2> DEFINE r == [ap EXCEPT !.page = NoPage, !.failed = TRUE, !.loading = FALSE]
    <2>1. ap' = A!ended(r, l)
      BY <1>4, AppSame DEF A!appsFailed, A!isLatest
    <2>2. /\ DOMAIN r = AppFields /\ r.page = NoPage /\ r.failed = TRUE /\ r.loading = FALSE
          /\ \A f \in AppFields \ {"page", "failed", "loading", "answerTo"} : r[f] = ap[f]
      BY <1>1 DEF AppFields
    <2> HIDE DEF r
    <2>3. r.page \in PageType /\ ~r.page.hasMore
      BY <2>2, NoPageType
    <2>4. r.failed /\ r.failed \in BOOLEAN /\ r.loading \in BOOLEAN
      BY <2>2
    <2> QED BY <1>4, <2>1, <2>2, <2>3, <2>4, AppAnswer
  <1> QED BY <1>2, <1>3, <1>4

\* The effect after a render: r is the page with its new controls, and if they
\* ask for something else, the page loads it.
LEMMA AppRendered ==
  ASSUME NEW r, NEW S, AppType(r), AppWay(r), r.seq \in Nat,
         \A l \in r.loads : AppLoad(l) /\ l.id <= r.seq,
         A!loadKey(r) = A!loadKey(ap) => AppInv(r) /\ AppOwn(r, S),
         A!loadKey(r) # A!loadKey(ap) => AppTaskAt(r.task, r.mounted, r.seq + 1),
         r.mounted => \A i \in Item : (r.own[i] = "in" => i \in S) /\ (r.own[i] = "out" => i \notin S)
  PROVE  AppInv(A!rendered(r)) /\ AppOwn(A!rendered(r), S)
  <1>1. CASE A!loadKey(r) = A!loadKey(ap)
    BY <1>1 DEF A!rendered
  <1>2. CASE A!loadKey(r) # A!loadKey(ap)
    <2> DEFINE e == A!rendered(r)
               m == A!Load(r.seq + 1, r.query, r.pageSize, r.seek)
    <2>1. e = A!loadApps(r)
      BY <1>2 DEF A!rendered
    <2>2. /\ DOMAIN e = AppFields /\ e.seq = r.seq + 1 /\ e.loads = r.loads \cup {m}
          /\ \A f \in AppFields \ {"seq", "loads"} : e[f] = r[f]
      BY <2>1 DEF A!loadApps, AppType, AppFields
    <2>3. r.seq + 1 \in Nat /\ r.query \in Query /\ r.pageSize \in PageSize /\ r.seek \in Item \cup {0}
      BY DEF AppType
    <2>4. /\ AppLoad(m) /\ m.id = r.seq + 1 /\ m.query = r.query /\ m.size = r.pageSize
          /\ m.seek = r.seek /\ ~m.got
      BY <2>3, AppLoadFields
    <2> HIDE DEF e, m
    <2>5. AppType(e) /\ AppWay(e)
      BY <2>2 DEF AppType, AppWay, AppFields
    <2>6. AppTask(e)
      BY <1>2, <2>2 DEF AppTask, AppFields
    <2>7. \A l \in e.loads : l.id = e.seq => l = m
      BY <2>2, <2>4 DEF AppLoad
    <2>8. AppLoads(e)
      <3>1. \A l \in e.loads : AppLoad(l) /\ l.id <= e.seq
        BY <2>2, <2>4 DEF AppLoad
      <3> QED BY <3>1, <2>2, <2>4, <2>7 DEF AppLoads, AppFields
    <2>9. ~AppSettled(e)
      BY <2>2, <2>4 DEF AppSettled
    <2>10. AppOwn(e, S)
      BY <2>2, <2>4, <2>7, <2>9 DEF AppOwn, AppFields
    <2> QED BY <2>5, <2>6, <2>8, <2>9, <2>10 DEF AppInv, AppRows, e
  <1> QED BY <1>1, <1>2

\* A change of the query, the page size or the cursor.
LEMMA AppControls ==
  ASSUME AppInv(ap), AppOwn(ap, items[AppPlace]), A!CanLoad, NEW r, DOMAIN r = AppFields,
         \A f \in AppFields \ {"query", "pageSize", "seek", "seekStack", "pageIndex"} : r[f] = ap[f],
         r.query \in Query, r.pageSize \in PageSize, r.seek \in Item \cup {0}, AppWay(r),
         ap' = A!rendered(r)
  PROVE  AppInv(ap') /\ AppOwn(ap', items[AppPlace])
  <1>1. /\ r.mounted = ap.mounted /\ r.page = ap.page /\ r.failed = ap.failed /\ r.loading = ap.loading
        /\ r.submitting = ap.submitting /\ r.dialog = ap.dialog /\ r.task = ap.task /\ r.seq = ap.seq
        /\ r.loads = ap.loads /\ r.answerTo = ap.answerTo /\ r.own = ap.own
    BY DEF AppFields
  <1>2. AppType(r)
    BY <1>1 DEF AppInv, AppType
  <1>3. r.seq \in Nat /\ r.seq <= MaxAppLoad /\ MaxAppLoad \in Nat
    BY <1>1, ConsoleAssumption DEF AppInv, AppTask, AppTaskAt
  <1>4. AppTaskAt(r.task, r.mounted, r.seq + 1)
    <2>1. ap.seq + (IF ap.task.pc = "sent" THEN 2 ELSE 0) < MaxAppLoad
      BY DEF A!CanLoad
    <2> QED BY <2>1, <1>1, <1>3 DEF AppInv, AppTask, AppTaskAt
  <1>5. \A l \in r.loads : AppLoad(l) /\ l.id <= r.seq
    BY <1>1 DEF AppInv, AppLoads
  <1>6. ASSUME A!loadKey(r) = A!loadKey(ap) PROVE AppInv(r) /\ AppOwn(r, items[AppPlace])
    <2>1. r.query = ap.query /\ r.pageSize = ap.pageSize /\ r.seek = ap.seek
      BY <1>6 DEF A!loadKey
    <2>2. AppSettled(r) = AppSettled(ap)
      BY <1>1 DEF AppSettled
    <2>3. AppLoads(r) /\ AppTask(r)
      BY <1>1, <2>1 DEF AppInv, AppLoads, AppTask
    <2>4. AppRows(r)
      BY <1>1, <2>1, <2>2 DEF AppInv, AppRows
    <2>5. AppOwn(r, items[AppPlace])
      BY <1>1, <2>1, <2>2 DEF AppOwn
    <2> QED BY <1>2, <2>3, <2>4, <2>5 DEF AppInv
  <1>7. r.mounted => \A i \in Item : /\ r.own[i] = "in" => i \in items[AppPlace]
                                     /\ r.own[i] = "out" => i \notin items[AppPlace]
    BY <1>1 DEF AppOwn
  <1> QED BY <1>2, <1>3, <1>4, <1>5, <1>6, <1>7, AppRendered

\* "Next" adds the cursor to the way back.
LEMMA NextWay ==
  ASSUME AppWay(ap), ap.seek \in Item \cup {0}, NEW s \in Item, ap.seek <= s,
         Len(ap.seekStack) < MaxAppLoad, NEW r,
         r.seekStack = Append(ap.seekStack, ap.seek), r.seek = s, r.pageIndex = ap.pageIndex + 1,
         r.page.hasMore => s <= r.page.nextSeek
  PROVE  AppWay(r)
  <1> DEFINE way == Append(ap.seekStack, ap.seek)
             on == Append(way, s)
  <1>1. /\ ap.seekStack \in Seq(Item \cup {0}) /\ way[1] = 0 /\ ap.pageIndex = Len(way)
        /\ \A i \in 2..Len(way) : way[i - 1] <= way[i] /\ way[i] # 0
    BY DEF AppWay
  <1>2. /\ way \in Seq(Item \cup {0}) /\ Len(way) = Len(ap.seekStack) + 1 /\ way[Len(way)] = ap.seek
        /\ Len(ap.seekStack) \in Nat
    BY <1>1
  <1> HIDE DEF way
  <1>3. /\ on \in Seq(Item \cup {0}) /\ Len(on) = Len(way) + 1 /\ on[Len(on)] = s
        /\ \A i \in 1..Len(way) : on[i] = way[i]
    BY <1>2
  <1>4. on[1] = 0
    BY <1>1, <1>2, <1>3
  <1>5. ASSUME NEW i \in 2..Len(on) PROVE on[i - 1] <= on[i] /\ on[i] # 0
    <2>1. CASE i = Len(on)
      <3>1. i - 1 = Len(way) /\ Len(way) \in 1..Len(way)
        BY <1>2, <1>3, <2>1
      <3>2. on[i - 1] = ap.seek /\ on[i] = s
        BY <1>2, <1>3, <2>1, <3>1
      <3> QED BY <3>2, Names
    <2>2. CASE i # Len(on)
      <3>1. i \in 2..Len(way) /\ i \in 1..Len(way) /\ i - 1 \in 1..Len(way)
        BY <1>2, <1>3, <2>2
      <3> QED BY <1>1, <1>3, <3>1
    <2> QED BY <2>1, <2>2
  <1>6. MaxAppLoad \in Nat
    BY ConsoleAssumption
  <1> HIDE DEF on
  <1>7. r.seekStack = way /\ Append(r.seekStack, r.seek) = on
    BY DEF way, on
  <1>8. r.pageIndex = Len(on)
    BY <1>1, <1>2, <1>3
  <1>9. Len(way) <= MaxAppLoad
    BY <1>2, <1>6
  <1> QED BY <1>2, <1>4, <1>5, <1>7, <1>8, <1>9 DEF AppWay

\* "Previous" takes the last cursor off the way back.
LEMMA PreviousWay ==
  ASSUME AppWay(ap), ap.seek \in Item \cup {0}, ap.seekStack # <<>>, NEW r,
         r.seekStack = A!Front(ap.seekStack), r.seek = A!Last(ap.seekStack),
         r.pageIndex = (IF ap.pageIndex > 1 THEN ap.pageIndex - 1 ELSE 1), r.page = ap.page, ap.page \in PageType
  PROVE  AppWay(r) /\ r.seek \in Item \cup {0}
  <1> DEFINE stack == ap.seekStack
             way == Append(ap.seekStack, ap.seek)
  <1>1. /\ stack \in Seq(Item \cup {0}) /\ way[1] = 0 /\ ap.pageIndex = Len(way) /\ Len(stack) <= MaxAppLoad
        /\ \A i \in 2..Len(way) : way[i - 1] <= way[i] /\ way[i] # 0
    BY DEF AppWay
  <1>2. Len(stack) \in Nat /\ Len(stack) # 0
    BY <1>1
  <1>3. /\ Len(way) = Len(stack) + 1 /\ way[Len(way)] = ap.seek
        /\ \A i \in 1..Len(stack) : way[i] = stack[i]
    BY <1>1
  <1>4. PICK n \in Nat : n = Len(stack) - 1
    <2>1. PICK k \in Nat : k = Len(stack) /\ k # 0
      BY <1>2
    <2>2. k - 1 \in Nat
      BY <2>1
    <2> HIDE DEF stack
    <2> QED BY <2>1, <2>2
  <1>5. r.seekStack = SubSeq(stack, 1, n) /\ r.seek = stack[n + 1]
    BY <1>2, <1>4 DEF A!Front, A!Last
  <1>6. /\ SubSeq(stack, 1, n) \in Seq(Item \cup {0}) /\ Len(SubSeq(stack, 1, n)) = n
        /\ \A i \in 1..n : SubSeq(stack, 1, n)[i] = stack[i]
    BY <1>1, <1>2, <1>4
  <1>7. stack[n + 1] \in Item \cup {0} /\ stack[n + 1] = way[n + 1] /\ stack[n + 1] <= ap.seek
    <2>1. n + 1 \in 1..Len(stack) /\ n + 2 \in 2..Len(way) /\ n + 2 = Len(way) /\ (n + 2) - 1 = n + 1
      BY <1>2, <1>3, <1>4
    <2>2. way[n + 1] <= way[n + 2]
      BY <1>1, <2>1
    <2> QED BY <1>1, <1>3, <2>1, <2>2
  <1> HIDE DEF way, stack
  <1> DEFINE back == Append(r.seekStack, r.seek)
  <1>8. /\ Len(back) = n + 1 /\ \A i \in 1..(n + 1) : back[i] = way[i]
    <2>1. r.seekStack \in Seq(Item \cup {0}) /\ Len(r.seekStack) = n
      BY <1>5, <1>6
    <2>2. /\ Len(back) = n + 1 /\ back[n + 1] = r.seek /\ \A i \in 1..n : back[i] = r.seekStack[i]
      BY <2>1
    <2>3. ASSUME NEW i \in 1..(n + 1) PROVE back[i] = way[i]
      <3>1. CASE i = n + 1
        BY <3>1, <2>2, <1>5, <1>7
      <3>2. CASE i # n + 1
        <4>1. i \in 1..n /\ i \in 1..Len(stack)
          BY <3>2, <1>4
        <4> QED BY <4>1, <2>2, <1>3, <1>5, <1>6
      <3> QED BY <3>1, <3>2
    <2> QED BY <2>2, <2>3
  <1> HIDE DEF back
  <1>9. back[1] = 0
    BY <1>1, <1>8
  <1>10. ASSUME NEW i \in 2..Len(back) PROVE back[i - 1] <= back[i] /\ back[i] # 0
    <2>1. i \in 1..(n + 1) /\ i - 1 \in 1..(n + 1) /\ i \in 2..Len(way)
      BY <1>3, <1>4, <1>8
    <2> QED BY <2>1, <1>1, <1>8
  <1>11. r.pageIndex = Len(back)
    BY <1>1, <1>2, <1>3, <1>4, <1>8
  <1>12. r.page.hasMore => r.seek <= r.page.nextSeek
    <2>1. ap.page.hasMore => ap.seek <= ap.page.nextSeek
      BY DEF AppWay
    <2>2. ap.page.nextSeek \in Item \cup {0}
      BY DEF PageType
    <2>3. ap.page.nextSeek \in Nat /\ ap.seek \in Nat /\ stack[n + 1] \in Nat
      BY <2>2, <1>7, Names
    <2> QED BY <1>5, <1>7, <2>1, <2>3
  <1>13. r.seekStack \in Seq(Item \cup {0}) /\ Len(r.seekStack) <= MaxAppLoad
    <2>1. MaxAppLoad \in Nat
      BY ConsoleAssumption
    <2> QED BY <2>1, <1>1, <1>2, <1>4, <1>5, <1>6
  <1> QED BY <1>5, <1>7, <1>9, <1>10, <1>11, <1>12, <1>13 DEF AppWay, back

\* The controls of the list.
LEMMA AppUser ==
  ASSUME AppInv(ap), AppOwn(ap, items[AppPlace]),
         \/ \E q \in Query : A!handleSearch(q)
         \/ \E n \in PageSize : A!handlePageSizeChange(n)
         \/ A!handleClearSearch \/ A!handleNextPage \/ A!handlePreviousPage
  PROVE  AppInv(ap') /\ AppOwn(ap', items[AppPlace])
  <1>1. AppType(ap) /\ AppWay(ap) /\ DOMAIN ap = AppFields
    BY DEF AppInv, AppType
  <1>2. ASSUME NEW q \in Query, NEW n \in PageSize, A!CanLoad, NEW b, DOMAIN b = AppFields,
               \A f \in AppFields \ {"query", "pageSize"} : b[f] = ap[f], b.query = q, b.pageSize = n,
               ap' = A!rendered(A!resetPaging(b))
        PROVE  AppInv(ap') /\ AppOwn(ap', items[AppPlace])
    <2> DEFINE r == A!resetPaging(b)
    <2>1. /\ DOMAIN r = AppFields /\ r.query = q /\ r.pageSize = n /\ r.seek = 0 /\ r.seekStack = <<>>
          /\ r.pageIndex = 1 /\ r.page = ap.page
          /\ \A f \in AppFields \ {"query", "pageSize", "seek", "seekStack", "pageIndex"} : r[f] = ap[f]
      BY <1>2 DEF A!resetPaging, AppFields
    <2> HIDE DEF r
    <2>2. AppWay(r)
      BY <2>1, <1>1, FirstWay DEF AppType
    <2>3. ap' = A!rendered(r)
      BY <1>2 DEF r
    <2> QED BY <1>2, <2>1, <2>2, <2>3, AppControls
  <1>3. ASSUME NEW q \in Query, A!handleSearch(q) PROVE AppInv(ap') /\ AppOwn(ap', items[AppPlace])
    <2> DEFINE b == [ap EXCEPT !.query = q]
    <2>1. /\ DOMAIN b = AppFields /\ b.query = q /\ b.pageSize = ap.pageSize
          /\ \A f \in AppFields \ {"query", "pageSize"} : b[f] = ap[f]
      BY <1>1 DEF AppFields
    <2>2. A!CanLoad /\ ap' = A!rendered(A!resetPaging(b))
      BY <1>3 DEF A!handleSearch, A!Free
    <2>3. ap.pageSize \in PageSize
      BY <1>1 DEF AppType
    <2> HIDE DEF b
    <2> QED BY <1>2, <2>1, <2>2, <2>3
  <1>4. CASE A!handleClearSearch
    <2>1. A!handleSearch(0)
      BY <1>4 DEF A!handleClearSearch, A!handleSearch
    <2> QED BY <1>3, <2>1, Names
  <1>5. ASSUME NEW n \in PageSize, A!handlePageSizeChange(n) PROVE AppInv(ap') /\ AppOwn(ap', items[AppPlace])
    <2> DEFINE b == [ap EXCEPT !.pageSize = n]
    <2>1. /\ DOMAIN b = AppFields /\ b.query = ap.query /\ b.pageSize = n
          /\ \A f \in AppFields \ {"query", "pageSize"} : b[f] = ap[f]
      BY <1>1 DEF AppFields
    <2>2. A!CanLoad /\ ap' = A!rendered(A!resetPaging(b))
      BY <1>5 DEF A!handlePageSizeChange, A!Free
    <2>3. ap.query \in Query
      BY <1>1 DEF AppType
    <2> HIDE DEF b
    <2> QED BY <1>2, <2>1, <2>2, <2>3
  <1>6. CASE A!handleNextPage
    <2> DEFINE r == [ap EXCEPT !.seekStack = Append(ap.seekStack, ap.seek), !.seek = ap.page.nextSeek,
                               !.pageIndex = ap.pageIndex + 1]
    <2>1. /\ A!CanLoad /\ ap.page.hasMore /\ ap.page.nextSeek # 0 /\ Len(ap.seekStack) < MaxAppLoad
          /\ ap' = A!rendered(r)
      BY <1>6 DEF A!handleNextPage, A!Free
    <2>2. /\ DOMAIN r = AppFields /\ r.query = ap.query /\ r.pageSize = ap.pageSize /\ r.page = ap.page
          /\ r.seekStack = Append(ap.seekStack, ap.seek) /\ r.seek = ap.page.nextSeek
          /\ r.pageIndex = ap.pageIndex + 1
          /\ \A f \in AppFields \ {"query", "pageSize", "seek", "seekStack", "pageIndex"} : r[f] = ap[f]
      BY <1>1 DEF AppFields
    <2> HIDE DEF r
    <2>3. ap.page.nextSeek \in Item /\ ap.seek \in Item \cup {0} /\ ap.query \in Query /\ ap.pageSize \in PageSize
      BY <1>1, <2>1 DEF AppType, PageType
    <2>4. ap.seek <= ap.page.nextSeek /\ ap.page.nextSeek <= ap.page.nextSeek
      <3>1. ap.page.nextSeek \in Nat
        BY <2>3, Names
      <3>2. ap.page.nextSeek <= ap.page.nextSeek
        BY <3>1
      <3> QED BY <1>1, <2>1, <3>2 DEF AppWay
    <2>5. AppWay(r)
      BY <1>1, <2>1, <2>2, <2>3, <2>4, NextWay
    <2> QED BY <2>1, <2>2, <2>3, <2>5, AppControls
  <1>7. CASE A!handlePreviousPage
    <2> DEFINE r == [ap EXCEPT !.seekStack = A!Front(ap.seekStack), !.seek = A!Last(ap.seekStack),
                               !.pageIndex = IF ap.pageIndex > 1 THEN ap.pageIndex - 1 ELSE 1]
    <2>1. A!CanLoad /\ ap.seekStack # <<>> /\ ap' = A!rendered(r)
      BY <1>7 DEF A!handlePreviousPage, A!Free
    <2>2. /\ DOMAIN r = AppFields /\ r.query = ap.query /\ r.pageSize = ap.pageSize /\ r.page = ap.page
          /\ r.seekStack = A!Front(ap.seekStack) /\ r.seek = A!Last(ap.seekStack)
          /\ r.pageIndex = IF ap.pageIndex > 1 THEN ap.pageIndex - 1 ELSE 1
          /\ \A f \in AppFields \ {"query", "pageSize", "seek", "seekStack", "pageIndex"} : r[f] = ap[f]
      BY <1>1 DEF AppFields
    <2> HIDE DEF r
    <2>3. ap.page \in PageType /\ ap.seek \in Item \cup {0} /\ ap.query \in Query /\ ap.pageSize \in PageSize
      BY <1>1 DEF AppType
    <2>4. AppWay(r) /\ r.seek \in Item \cup {0}
      BY <1>1, <2>1, <2>2, <2>3, PreviousWay
    <2> QED BY <2>1, <2>2, <2>3, <2>4, AppControls
  <1> QED BY <1>3, <1>4, <1>5, <1>6, <1>7

\* Dialogs, flags and tasks change, and less may be known of the own changes.
LEMMA AppUpkeep ==
  ASSUME AppInv(ap), AppOwn(ap, items[AppPlace]), DOMAIN ap' = AppFields,
         \A f \in AppFields \ {"dialog", "submitting", "task", "own"} : ap'[f] = ap[f],
         ap'.submitting \in BOOLEAN,
         ap'.dialog \in [kind : {"none", "create", "delete"}, item : Item \cup {0}],
         ap'.dialog.kind = "delete" => ap'.dialog.item \in Item,
         AppTask(ap'), ap'.own \in [Item -> {"unknown", "in", "out"}],
         \A i \in Item : ap'.own[i] \in {ap.own[i], "unknown"},
         \A i \in Item : ap'.own[i] # "unknown" => (i \in items'[AppPlace] <=> i \in items[AppPlace])
  PROVE  AppInv(ap') /\ AppOwn(ap', items'[AppPlace])
  <1>1. /\ ap'.mounted = ap.mounted /\ ap'.page = ap.page /\ ap'.failed = ap.failed /\ ap'.loading = ap.loading
        /\ ap'.query = ap.query /\ ap'.pageSize = ap.pageSize /\ ap'.seek = ap.seek
        /\ ap'.seekStack = ap.seekStack /\ ap'.pageIndex = ap.pageIndex /\ ap'.seq = ap.seq
        /\ ap'.loads = ap.loads /\ ap'.answerTo = ap.answerTo
    BY DEF AppFields
  <1>2. AppType(ap')
    BY <1>1 DEF AppInv, AppType
  <1>3. AppSettled(ap') = AppSettled(ap)
    BY <1>1 DEF AppSettled
  <1>4. AppLoads(ap') /\ AppRows(ap') /\ AppWay(ap')
    BY <1>1, <1>3, SMTT(20) DEF AppInv, AppLoads, AppRows, AppWay
  <1>5. \A page, q, s : OwnPage(ap.own, page, q, s) => OwnPage(ap'.own, page, q, s)
    BY DEF OwnPage
  <1>6. AppOwn(ap', items'[AppPlace])
    <2> SUFFICES ASSUME ap.mounted
                 PROVE  /\ \A i \in Item : /\ ap'.own[i] = "in" => i \in items'[AppPlace]
                                           /\ ap'.own[i] = "out" => i \notin items'[AppPlace]
                        /\ \A l \in ap.loads : l.id = ap.seq /\ l.got => OwnPage(ap'.own, l.page, l.query, l.seek)
                        /\ AppSettled(ap) /\ ~ap.failed => OwnPage(ap'.own, ap.page, ap.query, ap.seek)
      BY <1>1, <1>3 DEF AppOwn
    <2>1. \A i \in Item : /\ ap'.own[i] = "in" => i \in items'[AppPlace]
                          /\ ap'.own[i] = "out" => i \notin items'[AppPlace]
      BY DEF AppOwn
    <2> QED BY <2>1, <1>5 DEF AppOwn
  <1> QED BY <1>2, <1>4, <1>6 DEF AppInv

\* The dialogs, and sending what they ask for, leave rows and loads alone.
LEMMA AppDialog ==
  ASSUME AppInv(ap), AppOwn(ap, items[AppPlace]), items' = items,
         \/ A!openCreate \/ A!closeDialog \/ A!handleDelete
         \/ \E i \in Item : A!chooseDelete(i) \/ A!handleCreate(i)
  PROVE  AppInv(ap') /\ AppOwn(ap', items'[AppPlace])
  <1>1. AppType(ap) /\ AppTask(ap) /\ DOMAIN ap = AppFields
    BY DEF AppInv, AppType
  <1>2. ASSUME NEW d \in [kind : {"none", "create", "delete"}, item : Item \cup {0}],
               d.kind = "delete" => d.item \in Item, ap' = [ap EXCEPT !.dialog = d]
        PROVE  AppInv(ap') /\ AppOwn(ap', items'[AppPlace])
    <2>1. /\ DOMAIN ap' = AppFields /\ ap'.dialog = d /\ ap'.submitting = ap.submitting /\ ap'.task = ap.task
          /\ ap'.own = ap.own /\ ap'.seq = ap.seq /\ ap'.mounted = ap.mounted
          /\ \A f \in AppFields \ {"dialog", "submitting", "task", "own"} : ap'[f] = ap[f]
      BY <1>1, <1>2 DEF AppFields
    <2>2. ap'.submitting \in BOOLEAN /\ AppTask(ap') /\ ap'.own \in [Item -> {"unknown", "in", "out"}]
      BY <1>1, <2>1 DEF AppType, AppTask
    <2> QED BY <1>2, <2>1, <2>2, AppUpkeep
  <1>3. ASSUME NEW kind \in {"create", "delete"}, NEW i \in Item, A!start(kind, i)
        PROVE  AppInv(ap') /\ AppOwn(ap', items'[AppPlace])
    <2> DEFINE t == [pc |-> "sent", kind |-> kind, item |-> i, load |-> 0]
    <2>1. ap.seq + 1 < MaxAppLoad /\ ap' = [ap EXCEPT !.submitting = TRUE, !.task = t]
      BY <1>3 DEF A!start
    <2>2. /\ DOMAIN ap' = AppFields /\ ap'.dialog = ap.dialog /\ ap'.submitting = TRUE /\ ap'.task = t
          /\ ap'.own = ap.own /\ ap'.seq = ap.seq /\ ap'.mounted = ap.mounted
          /\ \A f \in AppFields \ {"dialog", "submitting", "task", "own"} : ap'[f] = ap[f]
      BY <1>1, <2>1 DEF AppFields
    <2>3. MaxAppLoad \in Nat
      BY ConsoleAssumption
    <2>4. AppTask(ap')
      BY <1>1, <2>1, <2>2, <2>3 DEF AppTask, AppTaskAt
    <2>5. /\ ap'.submitting \in BOOLEAN /\ ap'.own \in [Item -> {"unknown", "in", "out"}]
          /\ ap'.dialog \in [kind : {"none", "create", "delete"}, item : Item \cup {0}]
          /\ ap'.dialog.kind = "delete" => ap'.dialog.item \in Item
      BY <1>1, <2>2 DEF AppType
    <2> HIDE DEF t
    <2> QED BY <2>2, <2>4, <2>5, AppUpkeep
  <1>4. CASE A!openCreate
    <2>1. /\ [kind |-> "create", item |-> 0] \in [kind : {"none", "create", "delete"}, item : Item \cup {0}]
          /\ [kind |-> "create", item |-> 0].kind # "delete"
      OBVIOUS
    <2> QED BY <1>2, <1>4, <2>1 DEF A!openCreate
  <1>5. CASE A!closeDialog
    <2>1. /\ A!NoDialog \in [kind : {"none", "create", "delete"}, item : Item \cup {0}]
          /\ A!NoDialog.kind # "delete"
      BY DEF A!NoDialog
    <2> QED BY <1>2, <1>5, <2>1 DEF A!closeDialog
  <1>6. ASSUME NEW i \in Item, A!chooseDelete(i) PROVE AppInv(ap') /\ AppOwn(ap', items'[AppPlace])
    <2> DEFINE d == [kind |-> "delete", item |-> i]
    <2>1. /\ d \in [kind : {"none", "create", "delete"}, item : Item \cup {0}]
          /\ d.item \in Item
      OBVIOUS
    <2>2. ap' = [ap EXCEPT !.dialog = d]
      BY <1>6 DEF A!chooseDelete
    <2> HIDE DEF d
    <2> QED BY <1>2, <2>1, <2>2
  <1>7. CASE A!handleDelete
    <2>1. ap.dialog.kind = "delete" /\ A!start("delete", ap.dialog.item)
      BY <1>7 DEF A!handleDelete, A!dialogShown
    <2>2. ap.dialog.item \in Item
      BY <1>1, <2>1 DEF AppType
    <2> QED BY <1>3, <2>1, <2>2
  <1> QED BY <1>3, <1>4, <1>5, <1>6, <1>7 DEF A!handleCreate

\* A change of the page's own that is acknowledged: the handler loads the list
\* with the old cursor and the effect, if need be, its first page.
LEMMA AppAcknowledged ==
  ASSUME ServerInv, AppInv(ap), AppOwn(ap, items[AppPlace]), A!taskAnswered
  PROVE  AppInv(ap') /\ AppOwn(ap', items'[AppPlace]) /\ ServerInv'
  <1> DEFINE t == ap.task
  <1>1. /\ t.pc = "sent" /\ accepted(t.kind, AppPlace, t.item) /\ UNCHANGED others
        /\ t.kind \in {"create", "delete"} /\ t.item \in Item
        /\ t \in [pc : {"idle", "sent", "reload"}, kind : {"none", "create", "delete"},
                  item : Item \cup {0}, load : 0..MaxAppLoad]
    BY DEF A!taskAnswered, A!accepted, accepted, AppInv, AppTask, AppTaskAt
  <1>2. AppPlace \in Place /\ AppPlace \in DOMAIN items /\ items[AppPlace] \in SUBSET Item
    BY ConsoleAssumption DEF ServerInv, ServerType
  <1>3. ServerInv'
    <2>1. others' \in 0..MaxOther
      BY <1>1 DEF ServerInv, ServerType
    <2> QED BY <1>1, <1>2, <2>1, ServerStep
  <1>4. /\ t.kind = "create" => items'[AppPlace] = items[AppPlace] \cup {t.item}
        /\ t.kind = "delete" => items'[AppPlace] = items[AppPlace] \ {t.item}
    BY <1>1, <1>2 DEF accepted
  <1>5. CASE ~ap.mounted
    <2>1. ap' = A!Gone(A!IdleTask)
      BY <1>5 DEF A!taskAnswered
    <2> QED BY <2>1, <1>3, AppIdle, AppGone
  <1>6. CASE ap.mounted
    <2> DEFINE o == [ap.own EXCEPT ![t.item] = IF t.kind = "create" THEN "in" ELSE "out"]
               b == [ap EXCEPT !.dialog = A!NoDialog, !.own[t.item] = IF t.kind = "create" THEN "in" ELSE "out"]
               old == A!loadApps(b)
               r == A!resetPaging([old EXCEPT !.task.pc = "reload", !.task.load = old.seq])
               m == A!Load(ap.seq + 1, ap.query, ap.pageSize, ap.seek)
    <2>1. ap' = A!rendered(r)
      BY <1>6 DEF A!taskAnswered, A!reloaded
    <2>2. AppType(ap) /\ DOMAIN ap = AppFields
      BY DEF AppInv, AppType
    <2>3. /\ DOMAIN b = AppFields /\ b.own = o /\ b.dialog = A!NoDialog
          /\ \A f \in AppFields \ {"dialog", "own"} : b[f] = ap[f]
      BY <2>2 DEF AppFields
    <2> HIDE DEF b, o
    <2>4. /\ DOMAIN old = AppFields /\ old.seq = ap.seq + 1 /\ old.loads = ap.loads \cup {m}
          /\ \A f \in AppFields \ {"seq", "loads"} : old[f] = b[f]
      BY <2>3 DEF A!loadApps, AppFields
    <2> HIDE DEF old, m
    <2>5. /\ DOMAIN r = AppFields /\ r.seq = ap.seq + 1 /\ r.loads = ap.loads \cup {m}
          /\ r.seek = 0 /\ r.seekStack = <<>> /\ r.pageIndex = 1
          /\ r.task = [t EXCEPT !.pc = "reload", !.load = ap.seq + 1]
          /\ r.own = o /\ r.dialog = A!NoDialog
          /\ r.mounted = ap.mounted /\ r.page = ap.page /\ r.failed = ap.failed /\ r.loading = ap.loading
          /\ r.submitting = ap.submitting /\ r.query = ap.query /\ r.pageSize = ap.pageSize
          /\ r.answerTo = ap.answerTo
      BY <2>3, <2>4 DEF A!resetPaging, AppFields
    <2> HIDE DEF r
    <2>6. ap.seq \in 1..MaxAppLoad /\ ap.seq + 2 <= MaxAppLoad /\ MaxAppLoad \in Nat
      BY <1>1, <1>6, ConsoleAssumption DEF AppInv, AppTask, AppTaskAt
    <2>7. AppType(r)
      <3>1. o \in [Item -> {"unknown", "in", "out"}]
        BY <2>2 DEF AppType, o
      <3> QED BY <2>2, <2>5, <3>1 DEF AppType, A!NoDialog
    <2>8. AppWay(r)
      BY <2>5, <2>7, FirstWay DEF AppType
    <2>9. /\ AppLoad(m) /\ m.id = ap.seq + 1 /\ m.query = ap.query /\ m.size = ap.pageSize
          /\ m.seek = ap.seek /\ ~m.got
      <3>1. ap.seq + 1 \in Nat
        BY <2>6
      <3> QED BY <2>2, <3>1, AppLoadFields DEF AppType, m
    <2>10. \A l \in r.loads : AppLoad(l) /\ l.id <= r.seq /\ (l.id = r.seq => l = m)
      <3>1. \A l \in ap.loads : AppLoad(l) /\ l.id \in Nat /\ l.id <= ap.seq
        BY DEF AppInv, AppLoads, AppLoad
      <3> QED BY <2>5, <2>6, <2>9, <3>1
    <2>11. r.seq \in Nat /\ AppTaskAt(r.task, r.mounted, r.seq) /\ AppTaskAt(r.task, r.mounted, r.seq + 1)
      <3>1. r.seq \in Nat /\ r.seq \in 1..MaxAppLoad /\ r.seq + 1 \in 1..MaxAppLoad /\ ap.seq + 1 \in 0..MaxAppLoad
        BY <2>5, <2>6
      <3>2. /\ r.task.pc = "reload"
            /\ r.task \in [pc : {"idle", "sent", "reload"}, kind : {"none", "create", "delete"},
                          item : Item \cup {0}, load : 0..MaxAppLoad]
        BY <1>1, <2>5, <3>1
      <3> QED BY <3>1, <3>2 DEF AppTaskAt
    <2>12. \A i \in Item : (r.own[i] = "in" => i \in items'[AppPlace]) /\ (r.own[i] = "out" => i \notin items'[AppPlace])
      <3> SUFFICES ASSUME NEW i \in Item
                   PROVE  (o[i] = "in" => i \in items'[AppPlace]) /\ (o[i] = "out" => i \notin items'[AppPlace])
        BY <2>5
      <3>1. (ap.own[i] = "in" => i \in items[AppPlace]) /\ (ap.own[i] = "out" => i \notin items[AppPlace])
        BY <1>6 DEF AppOwn
      <3>2. CASE i = t.item
        <4>1. o[i] = IF t.kind = "create" THEN "in" ELSE "out"
          BY <3>2, <2>2 DEF AppType, o
        <4> QED BY <3>2, <4>1, <1>1, <1>4
      <3>3. CASE i # t.item
        <4>1. o[i] = ap.own[i]
          BY <3>3, <2>2 DEF AppType, o
        <4> QED BY <3>1, <3>3, <4>1, <1>1, <1>4
      <3> QED BY <3>2, <3>3
    <2>13. ASSUME A!loadKey(r) = A!loadKey(ap) PROVE AppInv(r) /\ AppOwn(r, items'[AppPlace])
      <3>1. ap.seek = 0
        BY <2>13, <2>5 DEF A!loadKey
      <3>2. AppLoads(r)
        BY <2>5, <2>9, <2>10, <3>1 DEF AppLoads
      <3>3. ~AppSettled(r)
        BY <2>5, <2>9 DEF AppSettled
      <3>4. AppOwn(r, items'[AppPlace])
        BY <2>9, <2>10, <2>12, <3>3 DEF AppOwn
      <3> QED BY <2>7, <2>8, <2>11, <3>2, <3>3, <3>4 DEF AppInv, AppTask, AppRows
    <2>14. AppInv(A!rendered(r)) /\ AppOwn(A!rendered(r), items'[AppPlace])
      BY <2>7, <2>8, <2>10, <2>11, <2>12, <2>13, AppRendered
    <2> QED BY <1>3, <2>1, <2>14
  <1> QED BY <1>5, <1>6

\* A request of this page is answered as the server's steps say.
LEMMA AppServer ==
  /\ \A kind, p, i : /\ A!failed(kind, p, i) <=> failed(kind, p, i)
                     /\ A!accepted(kind, p, i) <=> accepted(kind, p, i)
  /\ \A p, i : A!OtherChange(p, i) <=> OtherChange(p, i)
  BY DEF A!failed, failed, A!accepted, accepted, A!serverVars, serverVars, A!OtherChange, OtherChange

\* A change that failed may still have been made: its outcome is unknown.
LEMMA AppFailed ==
  ASSUME ServerInv, AppInv(ap), AppOwn(ap, items[AppPlace]), A!taskFailed
  PROVE  AppInv(ap') /\ AppOwn(ap', items'[AppPlace]) /\ ServerInv'
  <1> DEFINE t == ap.task
  <1>1. /\ t.pc = "sent" /\ failed(t.kind, AppPlace, t.item)
        /\ t.kind \in {"create", "delete"} /\ t.item \in Item
    BY AppServer DEF A!taskFailed, AppInv, AppTask, AppTaskAt
  <1>2. AppPlace \in Place
    BY ConsoleAssumption
  <1>3. ServerInv' /\ \A k \in Item \ {t.item} : k \in items'[AppPlace] <=> k \in items[AppPlace]
    BY <1>1, <1>2, OneChanges
  <1>4. CASE ~ap.mounted
    <2>1. ap' = A!Gone(A!IdleTask)
      BY <1>4 DEF A!taskFailed
    <2> QED BY <2>1, <1>3, AppIdle, AppGone
  <1>5. CASE ap.mounted
    <2>1. ap' = [ap EXCEPT !.task = A!IdleTask, !.submitting = FALSE, !.own[t.item] = "unknown"]
      BY <1>5 DEF A!taskFailed
    <2>2. AppType(ap) /\ DOMAIN ap = AppFields /\ AppTask(ap)
      BY DEF AppInv, AppType
    <2>3. /\ DOMAIN ap' = AppFields /\ ap'.task = A!IdleTask /\ ap'.submitting = FALSE
          /\ ap'.own = [ap.own EXCEPT ![t.item] = "unknown"]
          /\ ap'.dialog = ap.dialog /\ ap'.seq = ap.seq /\ ap'.mounted = ap.mounted
          /\ \A f \in AppFields \ {"dialog", "submitting", "task", "own"} : ap'[f] = ap[f]
      BY <2>1, <2>2 DEF AppFields
    <2>4. /\ ap'.submitting \in BOOLEAN
          /\ ap'.dialog \in [kind : {"none", "create", "delete"}, item : Item \cup {0}]
          /\ ap'.dialog.kind = "delete" => ap'.dialog.item \in Item
      BY <2>2, <2>3 DEF AppType
    <2>5. AppTask(ap')
      BY <2>2, <2>3, AppIdle DEF AppTask, AppTaskAt
    <2>6. /\ ap'.own \in [Item -> {"unknown", "in", "out"}]
          /\ \A i \in Item : ap'.own[i] \in {ap.own[i], "unknown"}
          /\ ap'.own[t.item] = "unknown"
      BY <1>1, <2>2, <2>3 DEF AppType
    <2>7. \A i \in Item : ap'.own[i] # "unknown" => (i \in items'[AppPlace] <=> i \in items[AppPlace])
      BY <1>3, <2>6
    <2>8. AppInv(ap') /\ AppOwn(ap', items'[AppPlace])
      BY <2>3, <2>4, <2>5, <2>6, <2>7, AppUpkeep
    <2> QED BY <1>3, <2>8
  <1> QED BY <1>4, <1>5

\* Another administrator changes an item.
LEMMA AppOther ==
  ASSUME ServerInv, AppInv(ap), AppOwn(ap, items[AppPlace]), NEW k \in Item,
         OtherChange(AppPlace, k), ap' = [ap EXCEPT !.own[k] = "unknown"]
  PROVE  AppInv(ap') /\ AppOwn(ap', items'[AppPlace]) /\ ServerInv'
  <1>1. AppPlace \in Place
    BY ConsoleAssumption
  <1>2. ServerInv' /\ \A i \in Item \ {k} : i \in items'[AppPlace] <=> i \in items[AppPlace]
    BY <1>1, OneChanges
  <1>3. AppType(ap) /\ DOMAIN ap = AppFields /\ AppTask(ap)
    BY DEF AppInv, AppType
  <1>4. /\ DOMAIN ap' = AppFields /\ ap'.own = [ap.own EXCEPT ![k] = "unknown"]
        /\ ap'.dialog = ap.dialog /\ ap'.submitting = ap.submitting /\ ap'.task = ap.task
        /\ ap'.seq = ap.seq /\ ap'.mounted = ap.mounted
        /\ \A f \in AppFields \ {"dialog", "submitting", "task", "own"} : ap'[f] = ap[f]
    BY <1>3 DEF AppFields
  <1>5. /\ ap'.submitting \in BOOLEAN
        /\ ap'.dialog \in [kind : {"none", "create", "delete"}, item : Item \cup {0}]
        /\ ap'.dialog.kind = "delete" => ap'.dialog.item \in Item
        /\ AppTask(ap')
    BY <1>3, <1>4 DEF AppType, AppTask
  <1>6. /\ ap'.own \in [Item -> {"unknown", "in", "out"}]
        /\ \A i \in Item : ap'.own[i] \in {ap.own[i], "unknown"}
        /\ ap'.own[k] = "unknown"
    BY <1>3, <1>4 DEF AppType
  <1>7. \A i \in Item : ap'.own[i] # "unknown" => (i \in items'[AppPlace] <=> i \in items[AppPlace])
    BY <1>2, <1>6
  <1>8. AppInv(ap') /\ AppOwn(ap', items'[AppPlace])
    BY <1>4, <1>5, <1>6, <1>7, AppUpkeep
  <1> QED BY <1>2, <1>8

\* Leaving the page forgets everything but the change under way.
LEMMA AppLeave ==
  ASSUME AppInv(ap), A!leave
  PROVE  AppInv(ap') /\ \A S : AppOwn(ap', S)
  <1> DEFINE task == IF ap.task.pc = "sent" THEN ap.task ELSE A!IdleTask
  <1>1. /\ task \in [pc : {"idle", "sent", "reload"}, kind : {"none", "create", "delete"},
                     item : Item \cup {0}, load : 0..MaxAppLoad]
        /\ task.pc = "sent" => task.kind \in {"create", "delete"} /\ task.item \in Item
    BY AppIdle DEF AppInv, AppTask, AppTaskAt
  <1>2. ap' = A!Gone(task)
    BY DEF A!leave
  <1> HIDE DEF task
  <1> QED BY <1>1, <1>2, AppGone

\* Every step of the page keeps its invariant.
LEMMA AppStep ==
  ASSUME ServerInv, AppInv(ap), AppOwn(ap, items[AppPlace]), A!Next
  PROVE  AppInv(ap') /\ AppOwn(ap', items'[AppPlace]) /\ ServerInv'
  <1>1. ASSUME UNCHANGED serverVars PROVE items' = items /\ ServerInv'
    BY <1>1 DEF serverVars, ServerInv, ServerType
  <1>2. CASE A!LoadStep /\ UNCHANGED serverVars
    <2>1. PICK l \in ap.loads : A!requestApps(l) \/ A!appsLoaded(l) \/ A!appsFailed(l)
      BY <1>2 DEF A!LoadStep
    <2> QED BY <1>1, <1>2, <2>1, AppRequest, AppLoaded
  <1>3. CASE A!TaskStep
    BY <1>3, AppAcknowledged, AppFailed DEF A!TaskStep
  <1>4. CASE A!User /\ UNCHANGED serverVars
    <2>1. items' = items /\ ServerInv'
      BY <1>1, <1>4
    <2>2. CASE A!leave
      BY <2>1, <2>2, AppLeave
    <2>3. CASE \/ A!openCreate \/ A!closeDialog \/ A!handleDelete
               \/ \E i \in Item : A!chooseDelete(i) \/ A!handleCreate(i)
      BY <2>1, <2>3, AppDialog
    <2>4. CASE \/ \E q \in Query \ {0} : A!handleSearch(q)
               \/ \E n \in PageSize \ {ap.pageSize} : A!handlePageSizeChange(n)
               \/ A!handleClearSearch \/ A!handleNextPage \/ A!handlePreviousPage
      BY <2>1, <2>4, AppUser
    <2> QED BY <1>4, <2>2, <2>3, <2>4 DEF A!User
  <1>5. CASE \E i \in Item : OtherChange(AppPlace, i) /\ ap' = [ap EXCEPT !.own[i] = "unknown"]
    BY <1>5, AppOther
  <1> QED BY <1>2, <1>3, <1>4, <1>5, AppServer DEF A!Next, A!serverVars, serverVars

-----------------------------------------------------------------------------
(* The page of environments *)

\* The fields of the page's record.
EnvFields ==
  {"mounted", "at", "envs", "failed", "loading", "submitting", "dialog", "task", "copyBusy", "copy", "seq",
   "loads", "shownAt", "byCopy", "own"}

\* A change, or the copy, that is under way.
EnvTask(t) ==
  /\ t \in [pc : {"idle", "sent", "reload"}, kind : {"none", "create", "delete"}, at : Place,
            item : EnvItem \cup {0}, load : Nat]
  /\ t.pc = "sent" => t.kind \in {"create", "delete"} /\ t.item \in EnvItem

\* The types of the page.
EnvType(r) ==
  /\ DOMAIN r = EnvFields
  /\ r.at \in Place /\ r.seq \in Nat /\ EnvTask(r.task) /\ EnvTask(r.copy)
  /\ r.dialog.kind = "delete" => r.dialog.item \in EnvItem
  /\ r.own \in [EnvItem -> {"unknown", "in", "out"}]

\* A load in flight.
EnvLoad(l) == DOMAIN l = {"id", "at", "copy", "got", "page"} /\ l.id \in Nat /\ l.at \in Place

\* The last load is about the page's application, or a copy asked for it.
EnvLoads(r) ==
  \A l \in r.loads : EnvLoad(l) /\ l.id <= r.seq /\ (l.id = r.seq => l.copy \/ l.at = r.at)

\* The last load is answered.
EnvSettled(r) == r.mounted /\ \A l \in r.loads : l.id # r.seq

\* Then the rows are of the page's location, unless the copy dialog loaded them.
EnvRows(r) == EnvSettled(r) /\ ~r.failed => r.byCopy \/ r.shownAt = r.at

\* The part of the invariant that is about this page alone.
EnvInv(r) == EnvType(r) /\ EnvLoads(r) /\ EnvRows(r)

\* Rows that agree with this page's own changes, up to the limit of a request.
OwnRows(own, S) ==
  \A i \in EnvItem :
    /\ own[i] = "out" => i \notin S
    /\ own[i] = "in" => i \in S \/ Cardinality(S) >= 100

\* What the page knows of its own changes is the state of the server.
EnvKnown(own, S) == \A i \in EnvItem : (own[i] = "in" => i \in S) /\ (own[i] = "out" => i \notin S)

\* The changes this page knows of are the server's state, the last answer on its
\* way agrees with them, and so does what is shown when none is.
EnvOwn(r, S) ==
  r.mounted =>
    /\ EnvKnown(r.own, S)
    /\ \A l \in r.loads : l.id = r.seq /\ l.got /\ l.at = r.at => OwnRows(r.own, Rows(l.page))
    /\ EnvSettled(r) /\ ~r.failed /\ r.shownAt = r.at => OwnRows(r.own, r.envs)

\* The operators this page instantiates are the server's.
LEMMA EnvSame ==
  /\ V!NoPage = NoPage /\ (\A page : V!Rows(page) = Rows(page)) /\ V!AllRows = 100
  /\ \A p, q, n, s : V!listed(p, q, n, s) = listed(p, q, n, s)
  <1>1. V!NoPage = NoPage /\ (\A page : V!Rows(page) = Rows(page)) /\ V!AllRows = 100
    BY DEF V!NoPage, NoPage, V!Rows, Rows, V!ToSet, ToSet, V!AllRows
  <1>2. \A p, q, n, s : V!listed(p, q, n, s) = listed(p, q, n, s)
    BY DEF V!listed, listed, V!ascending, ascending, V!Cardinality, Cardinality
  <1> QED BY <1>1, <1>2

\* A request of this page is answered as the server's steps say.
LEMMA EnvServer ==
  /\ \A kind, p, i : /\ V!failed(kind, p, i) <=> failed(kind, p, i)
                     /\ V!accepted(kind, p, i) <=> accepted(kind, p, i)
  /\ \A p, i : V!OtherChange(p, i) <=> OtherChange(p, i)
  BY DEF V!failed, failed, V!accepted, accepted, V!serverVars, serverVars, V!OtherChange, OtherChange

\* The task that is not under way.
LEMMA EnvIdle == EnvTask(V!IdleTask) /\ V!IdleTask.pc = "idle" /\ V!IdleTask.at \in Place
  <1>1. (CHOOSE p \in Place : TRUE) \in Place
    BY ConsoleAssumption
  <1> QED BY <1>1 DEF EnvTask, V!IdleTask

\* A load just sent carries what it was sent with and has no answer.
LEMMA EnvLoadFields ==
  ASSUME NEW id \in Nat, NEW p \in Place, NEW c
  PROVE  \E l : /\ l = V!Load(id, p, c) /\ EnvLoad(l)
                /\ l.id = id /\ l.at = p /\ l.copy = c /\ ~l.got
  <1> DEFINE l == V!Load(id, p, c)
  <1>1. /\ DOMAIN l = {"id", "at", "copy", "got", "page"}
        /\ l.id = id /\ l.at = p /\ l.copy = c /\ l.got = FALSE
    BY DEF V!Load
  <1> HIDE DEF l
  <1> QED BY <1>1 DEF l, EnvLoad

\* A load that just began, with the location and the changes known then: what
\* the rest of the page shows does not matter until it is answered.
LEMMA EnvNewLoad ==
  ASSUME NEW r, NEW S, NEW p \in Place, NEW c, EnvType(r), c = TRUE \/ p = r.at,
         V!Load(r.seq, p, c) \in r.loads,
         \A l \in r.loads : l = V!Load(r.seq, p, c) \/ (EnvLoad(l) /\ l.id < r.seq),
         r.mounted => EnvKnown(r.own, S)
  PROVE  EnvInv(r) /\ EnvOwn(r, S)
  <1>1. r.seq \in Nat
    BY DEF EnvType
  <1>2. PICK m : /\ m = V!Load(r.seq, p, c) /\ EnvLoad(m)
                 /\ m.id = r.seq /\ m.at = p /\ m.copy = c /\ ~m.got
    BY <1>1, EnvLoadFields
  <1>3. \A l \in r.loads : EnvLoad(l) /\ l.id <= r.seq /\ (l.id = r.seq => l = m)
    BY <1>1, <1>2 DEF EnvLoad
  <1>4. m \in r.loads /\ ~EnvSettled(r)
    BY <1>2 DEF EnvSettled
  <1>5. EnvLoads(r)
    BY <1>2, <1>3 DEF EnvLoads
  <1> QED BY <1>2, <1>3, <1>4, <1>5 DEF EnvInv, EnvRows, EnvOwn

\* The page as it is opened.
LEMMA EnvOpenedFields ==
  ASSUME NEW p \in Place
  PROVE  LET r == V!Opened(p)
         IN /\ DOMAIN r = EnvFields
            /\ r.mounted = TRUE /\ r.at = p /\ r.seq = 1 /\ r.task = V!IdleTask /\ r.copy = V!IdleTask
            /\ r.dialog = V!NoDialog /\ r.loads = {V!Load(1, p, FALSE)}
            /\ r.own = [i \in EnvItem |-> "unknown"]
  BY DEF V!Opened, EnvFields

\* It satisfies the invariant.
LEMMA EnvOpened ==
  ASSUME NEW p \in Place
  PROVE  EnvInv(V!Opened(p)) /\ \A S : EnvOwn(V!Opened(p), S)
  <1> DEFINE r == V!Opened(p)
  <1>1. /\ DOMAIN r = EnvFields
        /\ r.mounted = TRUE /\ r.at = p /\ r.seq = 1 /\ r.task = V!IdleTask /\ r.copy = V!IdleTask
        /\ r.dialog = V!NoDialog /\ r.loads = {V!Load(1, p, FALSE)}
        /\ r.own = [i \in EnvItem |-> "unknown"]
    BY EnvOpenedFields
  <1> HIDE DEF r
  <1>2. EnvType(r)
    BY <1>1, EnvIdle DEF EnvType, V!NoDialog
  <1>3. \A S : EnvKnown(r.own, S)
    BY <1>1 DEF EnvKnown
  <1>4. V!Load(r.seq, p, FALSE) \in r.loads /\ \A l \in r.loads : l = V!Load(r.seq, p, FALSE)
    BY <1>1
  <1>5. ASSUME NEW S PROVE EnvInv(r) /\ EnvOwn(r, S)
    <2>1. p = r.at
      BY <1>1
    <2>2. r.mounted => EnvKnown(r.own, S)
      BY <1>3
    <2> QED BY <1>2, <1>4, <2>1, <2>2, EnvNewLoad
  <1> QED BY <1>5 DEF r

\* A page that was left satisfies it too, whatever is still under way.
LEMMA EnvGone ==
  ASSUME NEW task, NEW copy, EnvTask(task), EnvTask(copy)
  PROVE  EnvInv(V!Gone(task, copy)) /\ \A S : EnvOwn(V!Gone(task, copy), S)
  <1> DEFINE r == V!Gone(task, copy)
  <1>1. task.at \in Place
    BY DEF EnvTask
  <1>2. /\ DOMAIN r = EnvFields
        /\ r.mounted = FALSE /\ r.at = task.at /\ r.seq = 1 /\ r.task = task /\ r.copy = copy
        /\ r.dialog = V!NoDialog /\ r.loads = {} /\ r.own = [i \in EnvItem |-> "unknown"]
    BY <1>1, EnvOpenedFields, ZenonT(40) DEF V!Gone, EnvFields
  <1> HIDE DEF r
  <1>3. EnvType(r)
    BY <1>1, <1>2 DEF EnvType, V!NoDialog
  <1>4. EnvLoads(r) /\ ~EnvSettled(r)
    BY <1>2 DEF EnvLoads, EnvSettled
  <1>5. EnvInv(r) /\ \A S : EnvOwn(r, S)
    BY <1>2, <1>3, <1>4 DEF EnvInv, EnvRows, EnvOwn
  <1> QED BY <1>5 DEF r

\* Rows in order are as many names.
LEMMA RowsCount ==
  ASSUME NEW page, NEW n \in Nat, page.rows \in Seq(Item), Len(page.rows) = n, Ascends(page.rows)
  PROVE  Cardinality(Rows(page)) = n
  <1> DEFINE f == page.rows
  <1>1. DOMAIN f = 1..n /\ \A i \in 1..n : f[i] \in Nat
    <2>1. DOMAIN f = 1..n /\ \A i \in 1..n : f[i] \in Item
      OBVIOUS
    <2>2. \A i \in Item : i \in Nat
      BY Names
    <2> QED BY <2>1, <2>2
  <1>2. Rows(page) = {f[i] : i \in 1..n}
    BY <1>1 DEF Rows, ToSet
  <1>3. f \in [1..n -> Rows(page)]
    <2>1. f = [i \in 1..n |-> f[i]]
      BY <1>1
    <2> QED BY <2>1, <1>2
  <1>4. \A i, j \in 1..n : f[i] = f[j] => i = j
    <2>1. \A i, j \in 1..n : i < j => f[i] < f[j]
      BY <1>1 DEF Ascends
    <2> QED BY <1>1, <2>1
  <1> HIDE DEF f
  <1>5. f \in Bijection(1..n, Rows(page))
    <2>1. f \in Surjection(1..n, Rows(page))
      BY <1>2, <1>3 DEF Surjection
    <2> QED BY <1>3, <1>4, <2>1 DEF Bijection, Injection, IsInjective
  <1>6. IsFiniteSet(1..n) /\ Cardinality(1..n) = n
    <2>1. n >= 1 => n - 1 + 1 = n
      OBVIOUS
    <2> QED BY FS_Interval
  <1>7. ExistsBijection(1..n, Rows(page))
    BY <1>5 DEF ExistsBijection
  <1> QED BY <1>6, <1>7, FS_Bijection

\* A page of the server agrees with what is known of its items.
LEMMA EnvListed ==
  ASSUME ServerInv, NEW p \in Place, NEW own, EnvKnown(own, items[p])
  PROVE  OwnRows(own, Rows(listed(p, 0, 100, 0)))
  <1> DEFINE page == listed(p, 0, 100, 0)
             S == Found(p, 0, 0)
  <1>1. IsFiniteSet(items[p]) /\ items[p] \in SUBSET Item /\ Match[0] = Item /\ 0 \in Query
    BY CollectionsAssumption DEF ServerInv, ServerType
  <1>2. PageOf(page, S, 100)
    BY <1>1, ListedSpec DEF ServerInv
  <1>3. S = items[p]
    <2>1. \A i \in Item : i \in Nat
      BY Names
    <2>2. \A i \in items[p] : i \in Match[0] /\ i \in Nat
      BY <1>1, <2>1
    <2>3. \A i \in items[p] : i \in Match[0] /\ i >= 0
      BY <2>2
    <2> QED BY <2>3 DEF Found
  <1>4. EnvItem \subseteq Item
    BY ConsoleAssumption
  <1> HIDE DEF page, S
  <1>5. Rows(page) \subseteq S
    BY <1>2 DEF PageOf
  <1>6. CASE ~page.hasMore
    <2>1. \A i \in S : i \in Rows(page)
      BY <1>2, <1>6 DEF PageOf
    <2>2. OwnRows(own, Rows(page))
      BY <1>3, <1>5, <2>1 DEF EnvKnown, OwnRows
    <2> QED BY <2>2 DEF page
  <1>7. CASE page.hasMore
    <2>1. page.rows \in Seq(Item) /\ Len(page.rows) = 100 /\ Ascends(page.rows)
      BY <1>2, <1>7 DEF PageOf, PageType
    <2>6. Cardinality(Rows(page)) = 100
      <3>1. PICK n \in Nat : n = 100
        OBVIOUS
      <3>2. Len(page.rows) = n
        BY <2>1, <3>1
      <3>3. Cardinality(Rows(page)) = n
        BY ONLY <2>1, <3>2, RowsCount
      <3> QED BY <3>1, <3>3
    <2>7. OwnRows(own, Rows(page))
      BY <1>3, <1>5, <2>6 DEF EnvKnown, OwnRows
    <2> QED BY <2>7 DEF page
  <1> QED BY <1>6, <1>7

\* The server answers a load with the collection as it is now.
LEMMA EnvRequest ==
  ASSUME ServerInv, EnvInv(ev), EnvOwn(ev, items[ev.at]), NEW l \in ev.loads, V!requestEnvs(l)
  PROVE  EnvInv(ev') /\ EnvOwn(ev', items[ev.at]) /\ ev'.at = ev.at
  <1> DEFINE page == listed(l.at, 0, 100, 0)
             m == [l EXCEPT !.got = TRUE, !.page = page]
  <1>1. EnvLoad(l) /\ l.id <= ev.seq /\ (l.id = ev.seq => l.copy \/ l.at = ev.at)
    BY DEF EnvInv, EnvLoads
  <1>2. ev' = [ev EXCEPT !.loads = (ev.loads \ {l}) \cup {m}]
    BY EnvSame DEF V!requestEnvs
  <1>3. ev.mounted /\ l.at = ev.at => OwnRows(ev.own, Rows(page))
    BY EnvListed DEF EnvOwn, EnvInv, EnvType
  <1> HIDE DEF page
  <1>4. EnvLoad(m) /\ m.id = l.id /\ m.at = l.at /\ m.copy = l.copy /\ m.page = page
    BY <1>1 DEF EnvLoad
  <1> HIDE DEF m
  <1>5. /\ DOMAIN ev' = EnvFields /\ ev'.loads = (ev.loads \ {l}) \cup {m}
        /\ ev'.mounted = ev.mounted /\ ev'.at = ev.at /\ ev'.envs = ev.envs /\ ev'.failed = ev.failed
        /\ ev'.dialog = ev.dialog /\ ev'.task = ev.task /\ ev'.copy = ev.copy /\ ev'.seq = ev.seq
        /\ ev'.shownAt = ev.shownAt /\ ev'.byCopy = ev.byCopy /\ ev'.own = ev.own
    BY <1>2 DEF EnvInv, EnvType, EnvFields
  <1>6. EnvType(ev')
    BY <1>5 DEF EnvInv, EnvType
  <1>7. EnvLoads(ev')
    BY <1>1, <1>4, <1>5 DEF EnvInv, EnvLoads
  <1>8. EnvSettled(ev') => EnvSettled(ev)
    BY <1>4, <1>5 DEF EnvSettled
  <1>9. EnvRows(ev')
    BY <1>5, <1>8 DEF EnvInv, EnvRows
  <1>10. EnvOwn(ev', items[ev.at])
    <2>1. ASSUME ev.mounted, NEW k \in ev'.loads, k.id = ev'.seq, k.got, k.at = ev'.at
          PROVE  OwnRows(ev'.own, Rows(k.page))
      BY <2>1, <1>3, <1>4, <1>5 DEF EnvOwn
    <2> QED BY <2>1, <1>5, <1>8 DEF EnvOwn
  <1> QED BY <1>5, <1>6, <1>7, <1>9, <1>10 DEF EnvInv

\* What the end of a load changes besides what is shown.
LEMMA EnvEnded ==
  ASSUME NEW r, DOMAIN r = EnvFields, NEW l
  PROVE  LET e == V!ended(r, l)
         IN /\ DOMAIN e = EnvFields /\ e.loads = r.loads \ {l}
            /\ e.task \in {r.task, V!IdleTask} /\ e.copy \in {r.copy, V!IdleTask}
            /\ e.mounted = r.mounted /\ e.at = r.at /\ e.envs = r.envs /\ e.failed = r.failed
            /\ e.dialog = r.dialog /\ e.seq = r.seq /\ e.shownAt = r.shownAt /\ e.byCopy = r.byCopy
            /\ e.own = r.own
  BY DEF V!ended, EnvFields

\* An answer is taken over if its load is the last one.
LEMMA EnvAnswered ==
  ASSUME EnvInv(ev), EnvOwn(ev, items[ev.at]), NEW l \in ev.loads, V!envsLoaded(l) \/ V!envsFailed(l)
  PROVE  EnvInv(ev') /\ EnvOwn(ev', items[ev.at]) /\ ev'.at = ev.at
  <1>1. DOMAIN ev = EnvFields /\ EnvLoad(l) /\ (l.id = ev.seq => l.copy \/ l.at = ev.at)
    BY DEF EnvInv, EnvType, EnvLoads
  <1>2. \E r : /\ ev' = V!ended(r, l) /\ DOMAIN r = EnvFields
               /\ r.mounted = ev.mounted /\ r.at = ev.at /\ r.dialog = ev.dialog /\ r.task = ev.task
               /\ r.copy = ev.copy /\ r.seq = ev.seq /\ r.loads = ev.loads /\ r.own = ev.own
               /\ \/ /\ l.id # ev.seq
                     /\ r.envs = ev.envs /\ r.failed = ev.failed /\ r.shownAt = ev.shownAt /\ r.byCopy = ev.byCopy
                  \/ l.id = ev.seq /\ r.failed
                  \/ l.id = ev.seq /\ l.got /\ r.envs = Rows(l.page) /\ r.shownAt = l.at /\ r.byCopy = l.copy
    <2>1. CASE l.id # ev.seq
      <3>1. ev' = V!ended(ev, l)
        BY <2>1 DEF V!envsLoaded, V!envsFailed, V!isLatest
      <3> QED BY <1>1, <2>1, <3>1
    <2>2. CASE l.id = ev.seq /\ V!envsLoaded(l)
      <3> DEFINE r == [ev EXCEPT !.envs = Rows(l.page), !.failed = FALSE, !.loading = FALSE,
                                 !.shownAt = l.at, !.byCopy = l.copy]
      <3>1. ev' = V!ended(r, l) /\ l.got
        BY <2>2, EnvSame DEF V!envsLoaded, V!isLatest
      <3>2. /\ DOMAIN r = EnvFields /\ r.envs = Rows(l.page) /\ r.shownAt = l.at /\ r.byCopy = l.copy
            /\ r.mounted = ev.mounted /\ r.at = ev.at /\ r.dialog = ev.dialog /\ r.task = ev.task
            /\ r.copy = ev.copy /\ r.seq = ev.seq /\ r.loads = ev.loads /\ r.own = ev.own
        BY <1>1 DEF EnvFields
      <3> HIDE DEF r
      <3> QED BY <2>2, <3>1, <3>2
    <2>3. CASE l.id = ev.seq /\ V!envsFailed(l)
      <3> DEFINE r == [ev EXCEPT !.envs = {}, !.failed = TRUE, !.loading = FALSE]
      <3>1. ev' = V!ended(r, l)
        BY <2>3 DEF V!envsFailed, V!isLatest
      <3>2. /\ DOMAIN r = EnvFields /\ r.failed = TRUE
            /\ r.mounted = ev.mounted /\ r.at = ev.at /\ r.dialog = ev.dialog /\ r.task = ev.task
            /\ r.copy = ev.copy /\ r.seq = ev.seq /\ r.loads = ev.loads /\ r.own = ev.own
        BY <1>1 DEF EnvFields
      <3> HIDE DEF r
      <3> QED BY <2>3, <3>1, <3>2
    <2> QED BY <2>1, <2>2, <2>3
  <1>3. /\ DOMAIN ev' = EnvFields /\ ev'.loads = ev.loads \ {l}
        /\ ev'.task \in {ev.task, V!IdleTask} /\ ev'.copy \in {ev.copy, V!IdleTask}
        /\ ev'.mounted = ev.mounted /\ ev'.at = ev.at /\ ev'.dialog = ev.dialog /\ ev'.seq = ev.seq
        /\ ev'.own = ev.own
        /\ \/ /\ l.id # ev.seq /\ ev'.envs = ev.envs /\ ev'.failed = ev.failed
              /\ ev'.shownAt = ev.shownAt /\ ev'.byCopy = ev.byCopy
           \/ l.id = ev.seq /\ ev'.failed
           \/ l.id = ev.seq /\ l.got /\ ev'.envs = Rows(l.page) /\ ev'.shownAt = l.at /\ ev'.byCopy = l.copy
    BY <1>2, EnvEnded
  <1>4. EnvType(ev')
    BY <1>3, EnvIdle DEF EnvInv, EnvType
  <1>5. EnvLoads(ev')
    BY <1>3 DEF EnvInv, EnvLoads
  <1>6. l.id # ev.seq => (EnvSettled(ev') => EnvSettled(ev))
    BY <1>3 DEF EnvSettled
  <1>7. EnvRows(ev')
    BY <1>1, <1>3, <1>6 DEF EnvInv, EnvRows
  <1>8. EnvOwn(ev', items[ev.at])
    BY <1>1, <1>3, <1>6 DEF EnvOwn
  <1> QED BY <1>3, <1>4, <1>5, <1>7, <1>8 DEF EnvInv

\* Dialogs, flags and tasks change, and less may be known of the own changes.
LEMMA EnvUpkeep ==
  ASSUME EnvInv(ev), EnvOwn(ev, items[ev.at]), DOMAIN ev' = EnvFields,
         \A f \in EnvFields \ {"dialog", "submitting", "task", "copyBusy", "copy", "own"} : ev'[f] = ev[f],
         ev'.dialog.kind = "delete" => ev'.dialog.item \in EnvItem,
         EnvTask(ev'.task), EnvTask(ev'.copy), ev'.own \in [EnvItem -> {"unknown", "in", "out"}],
         \A i \in EnvItem : ev'.own[i] \in {ev.own[i], "unknown"},
         \A i \in EnvItem : ev'.own[i] # "unknown" => (i \in items'[ev.at] <=> i \in items[ev.at])
  PROVE  EnvInv(ev') /\ EnvOwn(ev', items'[ev'.at])
  <1>1. /\ ev'.mounted = ev.mounted /\ ev'.at = ev.at /\ ev'.envs = ev.envs /\ ev'.failed = ev.failed
        /\ ev'.seq = ev.seq /\ ev'.loads = ev.loads /\ ev'.shownAt = ev.shownAt /\ ev'.byCopy = ev.byCopy
    BY DEF EnvFields
  <1>2. EnvType(ev')
    BY <1>1 DEF EnvInv, EnvType
  <1>3. EnvSettled(ev') = EnvSettled(ev)
    BY <1>1 DEF EnvSettled
  <1>4. EnvLoads(ev') /\ EnvRows(ev')
    BY <1>1, <1>3 DEF EnvInv, EnvLoads, EnvRows
  <1>5. \A S : OwnRows(ev.own, S) => OwnRows(ev'.own, S)
    BY DEF OwnRows
  <1>6. EnvKnown(ev.own, items[ev.at]) => EnvKnown(ev'.own, items'[ev.at])
    BY DEF EnvKnown
  <1>7. EnvOwn(ev', items'[ev'.at])
    BY <1>1, <1>3, <1>5, <1>6 DEF EnvOwn
  <1> QED BY <1>2, <1>4, <1>7 DEF EnvInv

\* The page begins another load.
LEMMA EnvReload ==
  ASSUME EnvInv(ev), EnvType(ev'), NEW S, NEW p \in Place, NEW c, c = TRUE \/ p = ev'.at,
         ev'.seq = ev.seq + 1, ev'.loads = ev.loads \cup {V!Load(ev.seq + 1, p, c)},
         ev'.mounted => EnvKnown(ev'.own, S)
  PROVE  EnvInv(ev') /\ EnvOwn(ev', S)
  <1>1. \A l \in ev.loads : EnvLoad(l) /\ l.id < ev'.seq
    BY DEF EnvInv, EnvLoads, EnvLoad, EnvType
  <1>2. /\ V!Load(ev'.seq, p, c) \in ev'.loads
        /\ \A l \in ev'.loads : l = V!Load(ev'.seq, p, c) \/ (EnvLoad(l) /\ l.id < ev'.seq)
    BY <1>1
  <1> QED BY <1>2, EnvNewLoad

\* The dialogs, and sending what they ask for, leave rows and loads alone.
LEMMA EnvDialog ==
  ASSUME EnvInv(ev), EnvOwn(ev, items[ev.at]), items' = items,
         \/ V!openCreate \/ V!closeDialog \/ V!handleDelete
         \/ \E i \in EnvItem : V!chooseDelete(i) \/ V!handleCreate(i) \/ V!startCopy(i)
  PROVE  EnvInv(ev') /\ EnvOwn(ev', items'[ev'.at])
  <1>1. /\ EnvType(ev) /\ DOMAIN ev = EnvFields /\ EnvTask(ev.task) /\ EnvTask(ev.copy) /\ ev.at \in Place
        /\ ev.own \in [EnvItem -> {"unknown", "in", "out"}]
        /\ ev.dialog.kind = "delete" => ev.dialog.item \in EnvItem
    BY DEF EnvInv, EnvType
  <1>2. ASSUME NEW d, d.kind = "delete" => d.item \in EnvItem, ev' = [ev EXCEPT !.dialog = d]
        PROVE  EnvInv(ev') /\ EnvOwn(ev', items'[ev'.at])
    <2>1. /\ DOMAIN ev' = EnvFields /\ ev'.dialog = d /\ ev'.task = ev.task /\ ev'.copy = ev.copy
          /\ ev'.own = ev.own
          /\ \A f \in EnvFields \ {"dialog", "submitting", "task", "copyBusy", "copy", "own"} : ev'[f] = ev[f]
      BY <1>1, <1>2 DEF EnvFields
    <2> QED BY <1>1, <1>2, <2>1, EnvUpkeep
  <1>3. ASSUME NEW kind \in {"create", "delete"}, NEW i \in EnvItem
        PROVE  EnvTask(V!sent(kind, i))
    BY <1>1 DEF V!sent, EnvTask
  <1>4. ASSUME NEW kind \in {"create", "delete"}, NEW i \in EnvItem, V!start(kind, i)
        PROVE  EnvInv(ev') /\ EnvOwn(ev', items'[ev'.at])
    <2>1. ev' = [ev EXCEPT !.submitting = TRUE, !.task = V!sent(kind, i)]
      BY <1>4 DEF V!start
    <2>2. EnvTask(V!sent(kind, i))
      BY <1>3
    <2>3. /\ DOMAIN ev' = EnvFields /\ ev'.dialog = ev.dialog /\ ev'.task = V!sent(kind, i) /\ ev'.copy = ev.copy
          /\ ev'.own = ev.own
          /\ \A f \in EnvFields \ {"dialog", "submitting", "task", "copyBusy", "copy", "own"} : ev'[f] = ev[f]
      BY <1>1, <2>1 DEF EnvFields
    <2> QED BY <1>1, <2>2, <2>3, EnvUpkeep
  <1>5. CASE V!openCreate
    <2>1. ev' = [ev EXCEPT !.dialog = [kind |-> "create", item |-> 0]]
      BY <1>5 DEF V!openCreate
    <2>2. [kind |-> "create", item |-> 0].kind # "delete"
      OBVIOUS
    <2> QED BY <1>2, <2>1, <2>2
  <1>6. CASE V!closeDialog
    <2>1. ev' = [ev EXCEPT !.dialog = V!NoDialog] /\ V!NoDialog.kind # "delete"
      BY <1>6 DEF V!closeDialog, V!NoDialog
    <2> QED BY <1>2, <2>1
  <1>7. ASSUME NEW i \in EnvItem, V!chooseDelete(i) PROVE EnvInv(ev') /\ EnvOwn(ev', items'[ev'.at])
    <2> DEFINE d == [kind |-> "delete", item |-> i]
    <2>1. ev' = [ev EXCEPT !.dialog = d] /\ d.item \in EnvItem
      BY <1>7 DEF V!chooseDelete
    <2> HIDE DEF d
    <2> QED BY <1>2, <2>1
  <1>8. CASE V!handleDelete
    <2>1. ev.dialog.kind = "delete" /\ V!start("delete", ev.dialog.item)
      BY <1>8 DEF V!handleDelete, V!dialogShown
    <2> QED BY <1>1, <1>4, <2>1
  <1>9. ASSUME NEW i \in EnvItem, V!startCopy(i) PROVE EnvInv(ev') /\ EnvOwn(ev', items'[ev'.at])
    <2>1. ev' = [ev EXCEPT !.copyBusy = TRUE, !.copy = V!sent("create", i)]
      BY <1>9 DEF V!startCopy
    <2>2. EnvTask(V!sent("create", i))
      BY <1>3
    <2>3. /\ DOMAIN ev' = EnvFields /\ ev'.dialog = ev.dialog /\ ev'.task = ev.task
          /\ ev'.copy = V!sent("create", i) /\ ev'.own = ev.own
          /\ \A f \in EnvFields \ {"dialog", "submitting", "task", "copyBusy", "copy", "own"} : ev'[f] = ev[f]
      BY <1>1, <2>1 DEF EnvFields
    <2> QED BY <1>1, <2>2, <2>3, EnvUpkeep
  <1> QED BY <1>4, <1>5, <1>6, <1>7, <1>8, <1>9 DEF V!handleCreate

\* Another application: the page loads anew and knows of no change there.
LEMMA EnvNavigate ==
  ASSUME EnvInv(ev), NEW p \in EnvPlace, V!navigate(p)
  PROVE  EnvInv(ev') /\ \A S : EnvOwn(ev', S)
  <1>1. p \in Place
    BY ConsoleAssumption
  <1>2. EnvType(ev) /\ DOMAIN ev = EnvFields
    BY DEF EnvInv, EnvType
  <1>3. /\ DOMAIN ev' = EnvFields /\ ev'.at = p /\ ev'.own = [i \in EnvItem |-> "unknown"]
        /\ ev'.seq = ev.seq + 1 /\ ev'.loads = ev.loads \cup {V!Load(ev.seq + 1, p, FALSE)}
        /\ ev'.task = ev.task /\ ev'.copy = ev.copy /\ ev'.dialog = ev.dialog
    BY <1>2 DEF V!navigate, V!loadEnvs, EnvFields
  <1>4. EnvType(ev')
    BY <1>1, <1>2, <1>3 DEF EnvType
  <1>5. \A S : EnvKnown(ev'.own, S)
    BY <1>3 DEF EnvKnown
  <1>6. ASSUME NEW S PROVE EnvInv(ev') /\ EnvOwn(ev', S)
    BY <1>1, <1>3, <1>4, <1>5, EnvReload
  <1> QED BY <1>6

\* Leaving the page forgets everything but what is under way.
LEMMA EnvLeave ==
  ASSUME EnvInv(ev), V!leave
  PROVE  EnvInv(ev') /\ \A S : EnvOwn(ev', S)
  <1> DEFINE task == IF ev.task.pc = "sent" THEN ev.task ELSE V!IdleTask
             copy == IF ev.copy.pc = "sent" THEN ev.copy ELSE V!IdleTask
  <1>1. EnvTask(task) /\ EnvTask(copy)
    BY EnvIdle DEF EnvInv, EnvType
  <1>2. ev' = V!Gone(task, copy)
    BY DEF V!leave
  <1> HIDE DEF task, copy
  <1> QED BY <1>1, <1>2, EnvGone

\* What an acknowledged change makes of the items known.
LEMMA EnvAccepted ==
  ASSUME ServerInv, NEW p \in Place, NEW at \in Place, NEW i \in EnvItem, NEW kind \in {"create", "delete"},
         accepted(kind, p, i), UNCHANGED others,
         NEW own, EnvKnown(own, items[at]), own \in [EnvItem -> {"unknown", "in", "out"}]
  PROVE  /\ ServerInv'
         /\ p # at => EnvKnown(own, items'[at])
         /\ p = at => EnvKnown([own EXCEPT ![i] = IF kind = "create" THEN "in" ELSE "out"], items'[at])
  <1>1. i \in Item
    BY ConsoleAssumption
  <1>2. ServerInv'
    <2>1. others' \in 0..MaxOther
      BY DEF ServerInv, ServerType
    <2> QED BY <1>1, <2>1, ServerStep
  <1>3. DOMAIN items = Place
    BY DEF ServerInv, ServerType
  <1>4. p # at => items'[at] = items[at]
    BY <1>3 DEF accepted
  <1>5. ASSUME p = at PROVE EnvKnown([own EXCEPT ![i] = IF kind = "create" THEN "in" ELSE "out"], items'[at])
    <2>1. CASE kind = "create"
      <3>1. items'[at] = items[at] \cup {i}
        BY <1>3, <1>5, <2>1 DEF accepted
      <3> QED BY <2>1, <3>1 DEF EnvKnown
    <2>2. CASE kind = "delete"
      <3>1. items'[at] = items[at] \ {i}
        BY <1>3, <1>5, <2>2 DEF accepted
      <3> QED BY <2>2, <3>1 DEF EnvKnown
    <2> QED BY <2>1, <2>2
  <1> QED BY <1>2, <1>4, <1>5

\* The change was made and the page loads again.
LEMMA EnvAcknowledged ==
  ASSUME ServerInv, EnvInv(ev), EnvOwn(ev, items[ev.at]), V!taskAnswered
  PROVE  EnvInv(ev') /\ EnvOwn(ev', items'[ev'.at]) /\ ServerInv'
  <1> DEFINE t == ev.task
             o == [ev.own EXCEPT ![t.item] = IF t.kind = "create" THEN "in" ELSE "out"]
  <1>1. /\ t.pc = "sent" /\ accepted(t.kind, t.at, t.item) /\ UNCHANGED others
        /\ t.kind \in {"create", "delete"} /\ t.item \in EnvItem /\ t.at \in Place
        /\ EnvTask(t) /\ EnvTask(ev.copy)
    BY EnvServer DEF V!taskAnswered, EnvInv, EnvType, EnvTask
  <1>2. /\ EnvType(ev) /\ DOMAIN ev = EnvFields /\ ev.at \in Place /\ ev.seq \in Nat
        /\ ev.own \in [EnvItem -> {"unknown", "in", "out"}]
    BY DEF EnvInv, EnvType
  <1>3. ServerInv'
    <2>1. t.item \in Item /\ others' \in 0..MaxOther
      BY <1>1, ConsoleAssumption DEF ServerInv, ServerType
    <2> QED BY <1>1, <2>1, ServerStep
  <1>4. ev.mounted => /\ t.at # ev.at => EnvKnown(ev.own, items'[ev.at])
                      /\ t.at = ev.at => EnvKnown(o, items'[ev.at])
    BY <1>1, <1>2, EnvAccepted DEF EnvOwn
  <1>5. CASE ~ev.mounted
    <2>1. ev' = V!Gone(V!IdleTask, ev.copy)
      BY <1>5 DEF V!taskAnswered
    <2> QED BY <1>1, <1>3, <2>1, EnvIdle, EnvGone
  <1>6. CASE ev.mounted /\ t.at # ev.at
    <2>1. ev' = [ev EXCEPT !.task = V!IdleTask, !.submitting = FALSE]
      BY <1>6 DEF V!taskAnswered, V!canApplyMutationResult
    <2>2. /\ DOMAIN ev' = EnvFields /\ ev'.dialog = ev.dialog /\ ev'.task = V!IdleTask /\ ev'.copy = ev.copy
          /\ ev'.own = ev.own
          /\ \A f \in EnvFields \ {"dialog", "submitting", "task", "copyBusy", "copy", "own"} : ev'[f] = ev[f]
      BY <1>2, <2>1 DEF EnvFields
    <2>3. items'[ev.at] = items[ev.at]
      BY <1>1, <1>2, <1>6 DEF accepted, ServerInv, ServerType
    <2>4. ev.dialog.kind = "delete" => ev.dialog.item \in EnvItem
      BY <1>2 DEF EnvType
    <2>5. EnvInv(ev') /\ EnvOwn(ev', items'[ev'.at])
      BY <1>1, <1>2, <2>2, <2>3, <2>4, EnvIdle, EnvUpkeep
    <2> QED BY <1>3, <2>5
  <1>7. CASE ev.mounted /\ t.at = ev.at
    <2> DEFINE b == [ev EXCEPT !.dialog = V!NoDialog, !.own[t.item] = IF t.kind = "create" THEN "in" ELSE "out"]
               r == V!loadEnvs(b, t.at, FALSE)
    <2>1. ev' = [r EXCEPT !.task.pc = "reload", !.task.load = r.seq]
      BY <1>7 DEF V!taskAnswered, V!canApplyMutationResult
    <2>2. /\ DOMAIN b = EnvFields /\ b.own = o /\ b.dialog = V!NoDialog /\ b.at = ev.at /\ b.seq = ev.seq
          /\ b.loads = ev.loads /\ b.task = t /\ b.copy = ev.copy /\ b.mounted = ev.mounted
      BY <1>2 DEF EnvFields
    <2> HIDE DEF b, o
    <2>3. /\ DOMAIN r = EnvFields /\ r.own = o /\ r.dialog = V!NoDialog /\ r.at = ev.at /\ r.seq = ev.seq + 1
          /\ r.loads = ev.loads \cup {V!Load(ev.seq + 1, t.at, FALSE)} /\ r.task = t /\ r.copy = ev.copy
          /\ r.mounted = ev.mounted
      BY <2>2 DEF V!loadEnvs, EnvFields
    <2> HIDE DEF r
    <2>4. /\ DOMAIN ev' = EnvFields /\ ev'.own = o /\ ev'.dialog = V!NoDialog /\ ev'.at = ev.at
          /\ ev'.seq = ev.seq + 1 /\ ev'.loads = ev.loads \cup {V!Load(ev.seq + 1, t.at, FALSE)}
          /\ ev'.task = [t EXCEPT !.pc = "reload", !.load = ev.seq + 1] /\ ev'.copy = ev.copy
          /\ ev'.mounted = ev.mounted
      BY <2>1, <2>3 DEF EnvFields
    <2>5. EnvTask(ev'.task)
      <3>1. ev.seq + 1 \in Nat
        BY <1>2
      <3> QED BY <1>1, <2>4, <3>1 DEF EnvTask
    <2>6. o \in [EnvItem -> {"unknown", "in", "out"}]
      BY <1>2 DEF o
    <2>7. EnvType(ev')
      <3>1. ev.seq + 1 \in Nat
        BY <1>2
      <3> QED BY <1>1, <1>2, <2>4, <2>5, <2>6, <3>1 DEF EnvType, V!NoDialog
    <2>8. EnvKnown(ev'.own, items'[ev.at])
      BY <1>4, <1>7, <2>4
    <2>9. EnvInv(ev') /\ EnvOwn(ev', items'[ev.at])
      BY <1>1, <1>7, <2>4, <2>7, <2>8, EnvReload
    <2> QED BY <1>3, <2>4, <2>9
  <1> QED BY <1>5, <1>6, <1>7

\* The copy has created its environment and the page loads again.
LEMMA EnvCopied ==
  ASSUME ServerInv, EnvInv(ev), EnvOwn(ev, items[ev.at]), V!copyFinished
  PROVE  EnvInv(ev') /\ EnvOwn(ev', items'[ev'.at]) /\ ServerInv'
  <1> DEFINE t == ev.copy
             o == [ev.own EXCEPT ![t.item] = IF t.at = ev.at THEN "in" ELSE @]
  <1>1. /\ t.pc = "sent" /\ accepted("create", t.at, t.item) /\ UNCHANGED others
        /\ t.item \in EnvItem /\ t.at \in Place /\ EnvTask(t) /\ EnvTask(ev.task)
    BY EnvServer DEF V!copyFinished, EnvInv, EnvType, EnvTask
  <1>2. /\ EnvType(ev) /\ DOMAIN ev = EnvFields /\ ev.at \in Place /\ ev.seq \in Nat
        /\ ev.own \in [EnvItem -> {"unknown", "in", "out"}]
    BY DEF EnvInv, EnvType
  <1>3. ServerInv'
    <2>1. t.item \in Item /\ others' \in 0..MaxOther
      BY <1>1, ConsoleAssumption DEF ServerInv, ServerType
    <2> QED BY <1>1, <2>1, ServerStep
  <1>4. ev.mounted => EnvKnown(o, items'[ev.at])
    <2> SUFFICES ASSUME ev.mounted PROVE EnvKnown(o, items'[ev.at])
      OBVIOUS
    <2>1. /\ t.at # ev.at => EnvKnown(ev.own, items'[ev.at])
          /\ t.at = ev.at => EnvKnown([ev.own EXCEPT ![t.item] = IF "create" = "create" THEN "in" ELSE "out"],
                                      items'[ev.at])
      BY <1>1, <1>2, EnvAccepted DEF EnvOwn
    <2>2. t.at # ev.at => o = ev.own
      BY <1>2
    <2>3. t.at = ev.at => o = [ev.own EXCEPT ![t.item] = IF "create" = "create" THEN "in" ELSE "out"]
      BY <1>2
    <2> QED BY <2>1, <2>2, <2>3
  <1>5. CASE ~ev.mounted
    <2>1. ev' = V!Gone(ev.task, V!IdleTask)
      BY <1>5 DEF V!copyFinished
    <2> QED BY <1>1, <1>3, <2>1, EnvIdle, EnvGone
  <1>6. CASE ev.mounted
    <2> DEFINE b == [ev EXCEPT !.own[t.item] = IF t.at = ev.at THEN "in" ELSE @]
               r == V!loadEnvs(b, t.at, TRUE)
    <2>1. ev' = [r EXCEPT !.copy.pc = "reload", !.copy.load = r.seq]
      BY <1>6 DEF V!copyFinished
    <2>2. /\ DOMAIN b = EnvFields /\ b.own = o /\ b.dialog = ev.dialog /\ b.at = ev.at /\ b.seq = ev.seq
          /\ b.loads = ev.loads /\ b.task = ev.task /\ b.copy = t /\ b.mounted = ev.mounted
      BY <1>2 DEF EnvFields
    <2>3. o \in [EnvItem -> {"unknown", "in", "out"}]
      BY <1>2
    <2> HIDE DEF b, o
    <2>4. /\ DOMAIN r = EnvFields /\ r.own = o /\ r.dialog = ev.dialog /\ r.at = ev.at /\ r.seq = ev.seq + 1
          /\ r.loads = ev.loads \cup {V!Load(ev.seq + 1, t.at, TRUE)} /\ r.task = ev.task /\ r.copy = t
          /\ r.mounted = ev.mounted
      BY <2>2 DEF V!loadEnvs, EnvFields
    <2> HIDE DEF r
    <2>5. /\ DOMAIN ev' = EnvFields /\ ev'.own = o /\ ev'.dialog = ev.dialog /\ ev'.at = ev.at
          /\ ev'.seq = ev.seq + 1 /\ ev'.loads = ev.loads \cup {V!Load(ev.seq + 1, t.at, TRUE)}
          /\ ev'.copy = [t EXCEPT !.pc = "reload", !.load = ev.seq + 1] /\ ev'.task = ev.task
          /\ ev'.mounted = ev.mounted
      BY <2>1, <2>4 DEF EnvFields
    <2>6. ev.seq + 1 \in Nat
      BY <1>2
    <2>7. EnvTask(ev'.copy)
      BY <1>1, <2>5, <2>6 DEF EnvTask
    <2>8. EnvType(ev')
      BY <1>1, <1>2, <2>3, <2>5, <2>6, <2>7 DEF EnvType
    <2>9. EnvKnown(ev'.own, items'[ev.at])
      BY <1>4, <1>6, <2>5
    <2>10. EnvInv(ev') /\ EnvOwn(ev', items'[ev.at])
      BY <1>1, <2>5, <2>8, <2>9, EnvReload
    <2> QED BY <1>3, <2>5, <2>10
  <1> QED BY <1>5, <1>6

\* An error of a change or a copy.
LEMMA EnvFailed ==
  ASSUME ServerInv, EnvInv(ev), EnvOwn(ev, items[ev.at]), V!taskFailed \/ V!copyFailed
  PROVE  EnvInv(ev') /\ EnvOwn(ev', items'[ev'.at]) /\ ServerInv'
  <1>1. /\ EnvType(ev) /\ DOMAIN ev = EnvFields /\ ev.at \in Place /\ EnvTask(ev.task) /\ EnvTask(ev.copy)
        /\ ev.own \in [EnvItem -> {"unknown", "in", "out"}]
        /\ ev.dialog.kind = "delete" => ev.dialog.item \in EnvItem
    BY DEF EnvInv, EnvType
  <1>2. ASSUME NEW task, NEW copy, EnvTask(task), EnvTask(copy), NEW p \in Place, NEW i \in EnvItem,
               NEW kind \in {"create", "delete"}, failed(kind, p, i),
               ~ev.mounted => ev' = V!Gone(task, copy),
               ev.mounted =>
                 /\ DOMAIN ev' = EnvFields /\ ev'.dialog = ev.dialog /\ ev'.task = task /\ ev'.copy = copy
                 /\ ev'.own = [ev.own EXCEPT ![i] = "unknown"]
                 /\ \A f \in EnvFields \ {"dialog", "submitting", "task", "copyBusy", "copy", "own"} : ev'[f] = ev[f]
        PROVE  EnvInv(ev') /\ EnvOwn(ev', items'[ev'.at]) /\ ServerInv'
    <2>1. i \in Item /\ EnvItem \subseteq Item
      BY ConsoleAssumption
    <2>2. /\ ServerInv' /\ \A k \in Item \ {i} : k \in items'[p] <=> k \in items[p]
          /\ \A k \in Place \ {p} : items'[k] = items[k]
      BY <1>2, <2>1, OneChanges
    <2>3. CASE ~ev.mounted
      BY <1>2, <2>2, <2>3, EnvGone
    <2>4. CASE ev.mounted
      <3>1. /\ ev'.own \in [EnvItem -> {"unknown", "in", "out"}]
            /\ \A k \in EnvItem : ev'.own[k] \in {ev.own[k], "unknown"}
            /\ ev'.own[i] = "unknown"
        BY <1>1, <1>2, <2>4
      <3>2. \A k \in EnvItem : ev'.own[k] # "unknown" => (k \in items'[ev.at] <=> k \in items[ev.at])
        BY <1>1, <2>1, <2>2, <3>1
      <3>3. EnvInv(ev') /\ EnvOwn(ev', items'[ev'.at])
        BY <1>1, <1>2, <2>4, <3>1, <3>2, EnvUpkeep
      <3> QED BY <2>2, <3>3
    <2> QED BY <2>3, <2>4
  <1>3. CASE V!taskFailed
    <2> DEFINE t == ev.task
    <2>1. /\ failed(t.kind, t.at, t.item) /\ t.kind \in {"create", "delete"}
          /\ t.item \in EnvItem /\ t.at \in Place
      BY <1>1, <1>3, EnvServer DEF V!taskFailed, EnvTask
    <2>2. ~ev.mounted => ev' = V!Gone(V!IdleTask, ev.copy)
      BY <1>3 DEF V!taskFailed
    <2>3. ev.mounted => ev' = [ev EXCEPT !.task = V!IdleTask, !.submitting = FALSE, !.own[t.item] = "unknown"]
      BY <1>3 DEF V!taskFailed
    <2>4. ev.mounted =>
            /\ DOMAIN ev' = EnvFields /\ ev'.dialog = ev.dialog /\ ev'.task = V!IdleTask /\ ev'.copy = ev.copy
            /\ ev'.own = [ev.own EXCEPT ![t.item] = "unknown"]
            /\ \A f \in EnvFields \ {"dialog", "submitting", "task", "copyBusy", "copy", "own"} : ev'[f] = ev[f]
      BY <1>1, <2>3 DEF EnvFields
    <2>5. EnvTask(V!IdleTask)
      BY EnvIdle
    <2> QED BY <1>1, <1>2, <2>1, <2>2, <2>4, <2>5
  <1>4. CASE V!copyFailed
    <2> DEFINE t == ev.copy
    <2>1. failed("create", t.at, t.item) /\ t.item \in EnvItem /\ t.at \in Place
      BY <1>1, <1>4, EnvServer DEF V!copyFailed, EnvTask
    <2>2. ~ev.mounted => ev' = V!Gone(ev.task, V!IdleTask)
      BY <1>4 DEF V!copyFailed
    <2>3. ev.mounted => ev' = [ev EXCEPT !.copy = V!IdleTask, !.copyBusy = FALSE, !.own[t.item] = "unknown"]
      BY <1>4 DEF V!copyFailed
    <2>4. ev.mounted =>
            /\ DOMAIN ev' = EnvFields /\ ev'.dialog = ev.dialog /\ ev'.task = ev.task /\ ev'.copy = V!IdleTask
            /\ ev'.own = [ev.own EXCEPT ![t.item] = "unknown"]
            /\ \A f \in EnvFields \ {"dialog", "submitting", "task", "copyBusy", "copy", "own"} : ev'[f] = ev[f]
      BY <1>1, <2>3 DEF EnvFields
    <2>5. EnvTask(V!IdleTask)
      BY EnvIdle
    <2> QED BY <1>1, <1>2, <2>1, <2>2, <2>4, <2>5
  <1> QED BY <1>3, <1>4

\* Others change an environment: the page no longer knows of it.
LEMMA EnvOther ==
  ASSUME ServerInv, EnvInv(ev), EnvOwn(ev, items[ev.at]), NEW k \in EnvItem,
         OtherChange(ev.at, k), ev' = [ev EXCEPT !.own[k] = "unknown"]
  PROVE  EnvInv(ev') /\ EnvOwn(ev', items'[ev'.at]) /\ ServerInv'
  <1>1. /\ EnvType(ev) /\ DOMAIN ev = EnvFields /\ ev.at \in Place /\ EnvTask(ev.task) /\ EnvTask(ev.copy)
        /\ ev.own \in [EnvItem -> {"unknown", "in", "out"}]
        /\ ev.dialog.kind = "delete" => ev.dialog.item \in EnvItem
    BY DEF EnvInv, EnvType
  <1>2. k \in Item /\ EnvItem \subseteq Item
    BY ConsoleAssumption
  <1>3. ServerInv' /\ \A i \in Item \ {k} : i \in items'[ev.at] <=> i \in items[ev.at]
    BY <1>1, <1>2, OneChanges
  <1>4. /\ DOMAIN ev' = EnvFields /\ ev'.dialog = ev.dialog /\ ev'.task = ev.task /\ ev'.copy = ev.copy
        /\ ev'.own = [ev.own EXCEPT ![k] = "unknown"]
        /\ \A f \in EnvFields \ {"dialog", "submitting", "task", "copyBusy", "copy", "own"} : ev'[f] = ev[f]
    BY <1>1 DEF EnvFields
  <1>5. /\ ev'.own \in [EnvItem -> {"unknown", "in", "out"}]
        /\ \A i \in EnvItem : ev'.own[i] \in {ev.own[i], "unknown"}
        /\ ev'.own[k] = "unknown"
    BY <1>1, <1>4
  <1>6. \A i \in EnvItem : ev'.own[i] # "unknown" => (i \in items'[ev.at] <=> i \in items[ev.at])
    BY <1>2, <1>3, <1>5
  <1>7. EnvInv(ev') /\ EnvOwn(ev', items'[ev'.at])
    BY <1>1, <1>4, <1>5, <1>6, EnvUpkeep
  <1> QED BY <1>3, <1>7

\* Every step of the page keeps its invariant.
LEMMA EnvStep ==
  ASSUME ServerInv, EnvInv(ev), EnvOwn(ev, items[ev.at]), V!Next
  PROVE  EnvInv(ev') /\ EnvOwn(ev', items'[ev'.at]) /\ ServerInv'
  <1>1. ASSUME UNCHANGED serverVars PROVE items' = items /\ ServerInv'
    BY <1>1 DEF serverVars, ServerInv, ServerType
  <1>2. CASE V!LoadStep /\ UNCHANGED serverVars
    <2>1. PICK l \in ev.loads : V!requestEnvs(l) \/ V!envsLoaded(l) \/ V!envsFailed(l)
      BY <1>2 DEF V!LoadStep
    <2>2. EnvInv(ev') /\ EnvOwn(ev', items[ev.at]) /\ ev'.at = ev.at
      BY <2>1, EnvRequest, EnvAnswered
    <2> QED BY <1>1, <1>2, <2>2
  <1>3. CASE V!TaskStep \/ V!CopyStep
    BY <1>3, EnvAcknowledged, EnvCopied, EnvFailed DEF V!TaskStep, V!CopyStep
  <1>4. CASE V!User /\ UNCHANGED serverVars
    <2>1. items' = items /\ ServerInv'
      BY <1>1, <1>4
    <2>2. CASE V!leave
      BY <2>1, <2>2, EnvLeave
    <2>3. CASE \E p \in EnvPlace : V!navigate(p)
      BY <2>1, <2>3, EnvNavigate
    <2>4. CASE \/ V!openCreate \/ V!closeDialog \/ V!handleDelete
               \/ \E i \in EnvItem : V!chooseDelete(i) \/ V!handleCreate(i) \/ V!startCopy(i)
      BY <2>1, <2>4, EnvDialog
    <2> QED BY <1>4, <2>2, <2>3, <2>4 DEF V!User
  <1>5. CASE \E i \in EnvItem : OtherChange(ev.at, i) /\ ev' = [ev EXCEPT !.own[i] = "unknown"]
    BY <1>5, EnvOther
  <1> QED BY <1>2, <1>3, <1>4, <1>5, EnvServer DEF V!Next, V!serverVars, serverVars

-----------------------------------------------------------------------------
(* The page of elements *)

\* The fields of the page's record.
ElFields ==
  {"mounted", "at", "page", "failed", "query", "pageSize", "loading", "loadingMore", "submitting", "dialog",
   "task", "seq", "loads", "base", "stray", "own"}

\* A change that is under way.
ElTask(t) ==
  /\ t \in [pc : {"idle", "sent", "reload"}, kind : {"none", "create", "delete"}, at : Place,
            item : Item \cup {0}, load : Nat]
  /\ t.pc = "sent" => t.kind \in {"create", "delete"} /\ t.item \in Item

\* The types of the page.
ElType(r) ==
  /\ DOMAIN r = ElFields
  /\ r.at \in Place /\ r.seq \in Nat /\ ElTask(r.task) /\ r.query \in Query /\ r.pageSize \in PageSize
  /\ r.dialog.kind = "delete" => r.dialog.item \in Item
  /\ r.own \in [Item -> {"unknown", "in", "out"}]

\* A page from name s on: in order, without repetition, before the next page.
Ordered(page, s) ==
  /\ page \in PageType /\ Ascends(page.rows)
  /\ \A i \in Rows(page) : s <= i /\ (page.hasMore => i < page.nextSeek)
  /\ page.hasMore => s <= page.nextSeek

\* A load in flight.
ElLoad(l) ==
  /\ DOMAIN l = {"id", "at", "query", "size", "seek", "append", "got", "page"}
  /\ l.id \in Nat /\ l.at \in Place /\ l.query \in Query /\ l.size \in PageSize /\ l.seek \in Item \cup {0}
  /\ Ordered(l.page, l.seek)

\* The last load is about the page's environment and query; one that continues
\* the rows begins after them, and they answer the same query.
ElLast(r, l) ==
  /\ l.at = r.at /\ l.query = r.query
  /\ ~l.append => l.seek = 0
  /\ l.append => r.base.query = r.query /\ \A i \in Rows(r.page) : i < l.seek

\* There is one last load, and what is said of it holds.
ElLoads(r) ==
  /\ \A l \in r.loads : ElLoad(l) /\ l.id <= r.seq /\ (l.id = r.seq => ElLast(r, l))
  /\ \A k, l \in r.loads : k.id = r.seq /\ l.id = r.seq => k = l

\* The last load is answered.
ElSettled(r) == r.mounted /\ \A l \in r.loads : l.id # r.seq

\* Rows that can be continued answer the query; rows shown, the location too.
ElBase(r) ==
  /\ r.base = [at |-> r.base.at, query |-> r.base.query]
  /\ r.page.hasMore => r.base.query = r.query
  /\ ElSettled(r) /\ ~r.failed /\ ~r.stray => r.base.at = r.at /\ r.base.query = r.query

\* The part of the invariant that is about this page alone.
ElInv(r) == ElType(r) /\ Ordered(r.page, 0) /\ ElLoads(r) /\ ElBase(r)

\* Rows that agree with this page's own changes as far as name s.
OwnBefore(own, rows, q, s) ==
  \A i \in Item : /\ own[i] = "out" => i \notin rows
                  /\ own[i] = "in" /\ i \in Match[q] /\ i < s => i \in rows

\* What the page knows of its own changes is the state of the server.
Known(own, S) == \A i \in Item : (own[i] = "in" => i \in S) /\ (own[i] = "out" => i \notin S)

\* The rows begin with an answer about the page's environment.
ElHome(r) == ~r.stray /\ r.base.at = r.at

\* The changes this page knows of are the server's state; the last answer on its
\* way agrees with them, with the rows it continues; and so do rows that can be
\* continued, and what is shown when no answer is awaited.
ElOwn(r, S) ==
  r.mounted =>
    /\ Known(r.own, S)
    /\ \A l \in r.loads : l.id = r.seq =>
         /\ l.got => OwnPage(r.own, l.page, l.query, l.seek)
         /\ l.append /\ ElHome(r) => OwnBefore(r.own, Rows(r.page), r.query, l.seek)
    /\ r.page.hasMore /\ ElHome(r) => OwnPage(r.own, r.page, r.query, 0)
    /\ ElSettled(r) /\ ~r.failed /\ ~r.stray => OwnPage(r.own, r.page, r.query, 0)

\* The operators this page instantiates are the server's.
LEMMA ElSame ==
  /\ E!NoPage = NoPage /\ (\A page : E!Rows(page) = Rows(page))
  /\ \A p, q, n, s : E!listed(p, q, n, s) = listed(p, q, n, s)
  <1>1. E!NoPage = NoPage /\ (\A page : E!Rows(page) = Rows(page))
    BY DEF E!NoPage, NoPage, E!Rows, Rows, E!ToSet, ToSet
  <1>2. \A p, q, n, s : E!listed(p, q, n, s) = listed(p, q, n, s)
    BY DEF E!listed, listed, E!ascending, ascending, E!Cardinality, Cardinality
  <1> QED BY <1>1, <1>2

\* A request of this page is answered as the server's steps say.
LEMMA ElServer ==
  /\ \A kind, p, i : /\ E!failed(kind, p, i) <=> failed(kind, p, i)
                     /\ E!accepted(kind, p, i) <=> accepted(kind, p, i)
  /\ \A p, i : E!OtherChange(p, i) <=> OtherChange(p, i)
  BY DEF E!failed, failed, E!accepted, accepted, E!serverVars, serverVars, E!OtherChange, OtherChange

\* The task that is not under way.
LEMMA ElIdle == ElTask(E!IdleTask) /\ E!IdleTask.pc = "idle" /\ E!IdleTask.at \in Place
  <1>1. (CHOOSE p \in Place : TRUE) \in Place
    BY ConsoleAssumption
  <1> QED BY <1>1 DEF ElTask, E!IdleTask

\* A page without rows.
LEMMA Empty ==
  ASSUME NEW page \in PageType, page.rows = <<>>, ~page.hasMore, NEW s
  PROVE  Ordered(page, s) /\ Rows(page) = {}
  <1>1. Rows(page) = {} /\ Ascends(page.rows)
    BY DEF Rows, ToSet, Ascends
  <1> QED BY <1>1 DEF Ordered

\* A load just sent carries what it was sent with and has no answer.
LEMMA ElLoadFields ==
  ASSUME NEW id \in Nat, NEW p \in Place, NEW q \in Query, NEW n \in PageSize, NEW s \in Item \cup {0}, NEW a
  PROVE  LET l == E!Load(id, p, q, n, s, a)
         IN /\ ElLoad(l)
            /\ l.id = id /\ l.at = p /\ l.query = q /\ l.seek = s /\ l.append = a /\ ~l.got
  <1> DEFINE l == E!Load(id, p, q, n, s, a)
  <1>1. /\ DOMAIN l = {"id", "at", "query", "size", "seek", "append", "got", "page"}
        /\ l.id = id /\ l.at = p /\ l.query = q /\ l.size = n /\ l.seek = s /\ l.append = a /\ l.got = FALSE
        /\ l.page = NoPage
    BY ElSame DEF E!Load
  <1> HIDE DEF l
  <1>2. Ordered(l.page, l.seek)
    BY <1>1, NoPageType, Empty
  <1>3. ElLoad(l)
    BY <1>1, <1>2 DEF ElLoad
  <1> QED BY <1>1, <1>3 DEF l

\* A load that just began: what is shown does not matter until it is answered,
\* except for rows that it continues or that can be continued.
LEMMA ElNewLoad ==
  ASSUME NEW r, NEW S, NEW s \in Item \cup {0}, NEW a, ElType(r), Ordered(r.page, 0),
         r.base = [at |-> r.base.at, query |-> r.base.query],
         r.page.hasMore => r.base.query = r.query,
         E!Load(r.seq, r.at, r.query, r.pageSize, s, a) \in r.loads,
         \A l \in r.loads : \/ l = E!Load(r.seq, r.at, r.query, r.pageSize, s, a)
                            \/ ElLoad(l) /\ l.id < r.seq,
         ~a => s = 0,
         a => r.base.query = r.query /\ \A i \in Rows(r.page) : i < s,
         r.mounted => Known(r.own, S),
         r.mounted /\ a /\ ElHome(r) => OwnBefore(r.own, Rows(r.page), r.query, s),
         r.mounted /\ r.page.hasMore /\ ElHome(r) => OwnPage(r.own, r.page, r.query, 0)
  PROVE  ElInv(r) /\ ElOwn(r, S)
  <1>1. r.seq \in Nat /\ r.at \in Place /\ r.query \in Query /\ r.pageSize \in PageSize /\ s \in Item \cup {0}
    BY DEF ElType
  <1> DEFINE m == E!Load(r.seq, r.at, r.query, r.pageSize, s, a)
  <1>2. /\ ElLoad(m)
        /\ m.id = r.seq /\ m.at = r.at /\ m.query = r.query /\ m.seek = s /\ m.append = a /\ ~m.got
    BY <1>1, ElLoadFields
  <1>3. \A l \in r.loads : ElLoad(l) /\ l.id <= r.seq /\ (l.id = r.seq => l = m)
    BY <1>1, <1>2 DEF ElLoad
  <1>4. m \in r.loads /\ ~ElSettled(r)
    BY <1>2 DEF ElSettled
  <1>5. ElLast(r, m)
    BY <1>2 DEF ElLast
  <1>6. ElLoads(r) /\ ElBase(r)
    BY <1>3, <1>4, <1>5 DEF ElLoads, ElBase
  <1>7. ElOwn(r, S)
    BY <1>2, <1>3, <1>4 DEF ElOwn
  <1> QED BY <1>6, <1>7 DEF ElInv

\* The page as it is opened.
LEMMA ElOpenedFields ==
  ASSUME NEW p \in Place
  PROVE  LET n == CHOOSE n \in PageSize : TRUE
             r == E!Opened(p)
         IN /\ DOMAIN r = ElFields /\ n \in PageSize
            /\ r.mounted = TRUE /\ r.at = p /\ r.page = NoPage /\ r.query = 0 /\ r.pageSize = n /\ r.seq = 1
            /\ r.task = E!IdleTask /\ r.dialog = E!NoDialog /\ r.loads = {E!Load(1, p, 0, n, 0, FALSE)}
            /\ r.base = [at |-> p, query |-> 0] /\ r.own = [i \in Item |-> "unknown"]
  <1>1. (CHOOSE n \in PageSize : TRUE) \in PageSize
    BY CollectionsAssumption
  <1> QED BY <1>1, ElSame DEF E!Opened, ElFields

\* It satisfies the invariant.
LEMMA ElOpened ==
  ASSUME NEW p \in Place
  PROVE  ElInv(E!Opened(p)) /\ \A S : ElOwn(E!Opened(p), S)
  <1> DEFINE r == E!Opened(p)
             n == CHOOSE n \in PageSize : TRUE
  <1>1. /\ DOMAIN r = ElFields /\ n \in PageSize
        /\ r.mounted = TRUE /\ r.at = p /\ r.page = NoPage /\ r.query = 0 /\ r.pageSize = n /\ r.seq = 1
        /\ r.task = E!IdleTask /\ r.dialog = E!NoDialog /\ r.loads = {E!Load(1, p, 0, n, 0, FALSE)}
        /\ r.base = [at |-> p, query |-> 0] /\ r.own = [i \in Item |-> "unknown"]
    BY ElOpenedFields
  <1> HIDE DEF r, n
  <1>2. ElType(r)
    BY <1>1, ElIdle, Names DEF ElType, E!NoDialog
  <1>3. Ordered(r.page, 0) /\ ~r.page.hasMore
    BY <1>1, NoPageType, Empty
  <1>4. \A S : Known(r.own, S)
    BY <1>1 DEF Known
  <1>5. /\ r.base = [at |-> r.base.at, query |-> r.base.query]
        /\ E!Load(r.seq, r.at, r.query, r.pageSize, 0, FALSE) \in r.loads
        /\ \A l \in r.loads : l = E!Load(r.seq, r.at, r.query, r.pageSize, 0, FALSE)
    BY <1>1
  <1>6. ASSUME NEW S PROVE ElInv(r) /\ ElOwn(r, S)
    BY <1>2, <1>3, <1>4, <1>5, ElNewLoad
  <1> QED BY <1>6 DEF r

\* A page that was left satisfies it too, whatever is still under way.
LEMMA ElGone ==
  ASSUME NEW task, ElTask(task)
  PROVE  ElInv(E!Gone(task)) /\ \A S : ElOwn(E!Gone(task), S)
  <1> DEFINE r == E!Gone(task)
             n == CHOOSE n \in PageSize : TRUE
  <1>1. task.at \in Place
    BY DEF ElTask
  <1>2. /\ DOMAIN r = ElFields /\ n \in PageSize
        /\ r.mounted = FALSE /\ r.at = task.at /\ r.page = NoPage /\ r.query = 0 /\ r.pageSize = n /\ r.seq = 1
        /\ r.task = task /\ r.dialog = E!NoDialog /\ r.loads = {}
        /\ r.base = [at |-> task.at, query |-> 0] /\ r.own = [i \in Item |-> "unknown"]
    BY <1>1, ElOpenedFields, ZenonT(40) DEF E!Gone, ElFields
  <1> HIDE DEF r, n
  <1>3. ElType(r)
    BY <1>1, <1>2, Names DEF ElType, E!NoDialog
  <1>4. Ordered(r.page, 0) /\ ~r.page.hasMore
    BY <1>2, NoPageType, Empty
  <1>5. ElLoads(r) /\ ~ElSettled(r)
    BY <1>2 DEF ElLoads, ElSettled
  <1>6. ElBase(r)
    BY <1>2, <1>4, <1>5 DEF ElBase
  <1>7. ElInv(r) /\ \A S : ElOwn(r, S)
    BY <1>2, <1>3, <1>4, <1>5, <1>6 DEF ElInv, ElOwn
  <1> QED BY <1>7 DEF r

\* A page continued by the next one.
Joined(new, page, next) ==
  \E rows : /\ rows = page.rows \o next.rows
            /\ new = [rows |-> rows, hasMore |-> next.hasMore, nextSeek |-> next.nextSeek]

\* The answer to "load more" continues the rows.
LEMMA Continued ==
  ASSUME NEW page, NEW next, NEW new, NEW s \in Item \cup {0}, Ordered(page, 0), Ordered(next, s),
         \A i \in Rows(page) : i < s, Joined(new, page, next)
  PROVE  /\ Ordered(new, 0) /\ Rows(new) = Rows(page) \cup Rows(next)
         /\ new.hasMore = next.hasMore /\ new.nextSeek = next.nextSeek
  <1> DEFINE a == page.rows
             b == next.rows
             c == a \o b
  <1>1. /\ a \in Seq(Item) /\ b \in Seq(Item) /\ Ascends(a) /\ Ascends(b)
        /\ next \in [rows : Seq(Item), hasMore : BOOLEAN, nextSeek : Item \cup {0}]
    BY DEF Ordered, PageType
  <1>2. /\ new.rows = c /\ new.hasMore = next.hasMore /\ new.nextSeek = next.nextSeek
        /\ new = [rows |-> c, hasMore |-> next.hasMore, nextSeek |-> next.nextSeek]
    <2>1. PICK rows : rows = c /\ new = [rows |-> rows, hasMore |-> next.hasMore, nextSeek |-> next.nextSeek]
      BY DEF Joined
    <2> HIDE DEF c
    <2> QED BY <2>1
  <1>3. /\ Len(a) \in Nat /\ Len(b) \in Nat /\ DOMAIN a = 1..Len(a) /\ DOMAIN b = 1..Len(b)
        /\ c \in Seq(Item) /\ Len(c) = Len(a) + Len(b) /\ DOMAIN c = 1..(Len(a) + Len(b))
        /\ \A i \in 1..Len(a) : c[i] = a[i]
        /\ \A i \in 1..(Len(a) + Len(b)) : i > Len(a) => c[i] = b[i - Len(a)]
    BY <1>1
  <1>4. Rows(page) = {a[i] : i \in 1..Len(a)} /\ Rows(next) = {b[i] : i \in 1..Len(b)}
    BY <1>3 DEF Rows, ToSet
  <1>5. Rows(new) = {c[i] : i \in 1..(Len(a) + Len(b))}
    BY <1>2, <1>3 DEF Rows, ToSet
  <1>6. new \in PageType
    BY <1>1, <1>2, <1>3 DEF PageType
  <1> HIDE DEF a, b, c
  <1>7. Rows(new) = Rows(page) \cup Rows(next)
    <2>1. ASSUME NEW i \in 1..Len(a) PROVE a[i] \in Rows(new)
      <3>1. i \in 1..(Len(a) + Len(b)) /\ c[i] = a[i]
        BY <1>3
      <3> QED BY <1>5, <3>1
    <2>2. ASSUME NEW i \in 1..Len(b) PROVE b[i] \in Rows(new)
      <3>1. i + Len(a) \in 1..(Len(a) + Len(b)) /\ i + Len(a) > Len(a) /\ (i + Len(a)) - Len(a) = i
        BY <1>3
      <3>2. c[i + Len(a)] = b[i]
        BY <1>3, <3>1
      <3> QED BY <1>5, <3>1, <3>2
    <2>3. ASSUME NEW i \in 1..(Len(a) + Len(b)) PROVE c[i] \in Rows(page) \cup Rows(next)
      <3>1. CASE i <= Len(a)
        BY <1>3, <1>4, <3>1
      <3>2. CASE i > Len(a)
        <4>1. i - Len(a) \in 1..Len(b) /\ c[i] = b[i - Len(a)]
          BY <1>3, <3>2
        <4> QED BY <1>4, <4>1
      <3> QED BY <3>1, <3>2, <1>3
    <2>4. Rows(new) \subseteq Rows(page) \cup Rows(next)
      BY <1>5, <2>3
    <2>5. Rows(page) \cup Rows(next) \subseteq Rows(new)
      BY <1>4, <2>1, <2>2
    <2> QED BY <2>4, <2>5
  <1>8. s \in Nat /\ next.nextSeek \in Nat /\ \A i \in Item : i \in Nat
    <2>1. next.nextSeek \in Item \cup {0}
      BY DEF Ordered, PageType
    <2> QED BY <2>1, Names
  <1>9. /\ \A i \in 1..Len(a) : a[i] \in Nat /\ a[i] < s
        /\ \A i \in 1..Len(b) : b[i] \in Nat /\ s <= b[i]
    <2>1. /\ \A i \in 1..Len(a) : a[i] \in Item /\ a[i] \in Rows(page)
          /\ \A i \in 1..Len(b) : b[i] \in Item /\ b[i] \in Rows(next)
      BY <1>1, <1>3, <1>4
    <2> QED BY <1>8, <2>1 DEF Ordered
  <1>10. Ascends(c)
    <2> SUFFICES ASSUME NEW i \in 1..(Len(a) + Len(b)), NEW j \in 1..(Len(a) + Len(b)), i < j
                 PROVE  c[i] < c[j]
      BY <1>3 DEF Ascends
    <2>1. CASE j <= Len(a)
      <3>1. i \in 1..Len(a) /\ j \in 1..Len(a)
        BY <2>1, <1>3
      <3> QED BY <3>1, <1>1, <1>3 DEF Ascends
    <2>2. CASE j > Len(a) /\ i <= Len(a)
      <3>1. i \in 1..Len(a) /\ j - Len(a) \in 1..Len(b)
        BY <2>2, <1>3
      <3>2. c[i] = a[i] /\ c[j] = b[j - Len(a)]
        BY <3>1, <2>2, <1>3
      <3> QED BY <3>1, <3>2, <1>8, <1>9
    <2>3. CASE i > Len(a)
      <3>1. i - Len(a) \in 1..Len(b) /\ j - Len(a) \in 1..Len(b) /\ i - Len(a) < j - Len(a) /\ j > Len(a)
        BY <2>3, <1>3
      <3>2. c[i] = b[i - Len(a)] /\ c[j] = b[j - Len(a)]
        BY <3>1, <2>3, <1>3
      <3> QED BY <3>1, <3>2, <1>1, <1>3 DEF Ascends
    <2> QED BY <2>1, <2>2, <2>3, <1>3
  <1>11. ASSUME NEW i \in Rows(new) PROVE 0 <= i /\ (new.hasMore => i < new.nextSeek)
    <2>1. Rows(page) \subseteq Nat /\ Rows(next) \subseteq Nat
      BY <1>4, <1>9
    <2>3. CASE i \in Rows(page)
      <3>1. i \in Nat /\ i < s
        BY <2>1, <2>3
      <3>2. next.hasMore => s <= next.nextSeek
        BY DEF Ordered
      <3> QED BY <1>2, <1>8, <3>1, <3>2
    <2>4. CASE i \in Rows(next)
      BY <1>2, <2>1, <2>4 DEF Ordered
    <2> QED BY <1>7, <2>3, <2>4
  <1>12. 0 <= new.nextSeek
    BY <1>2, <1>8
  <1> QED BY <1>2, <1>6, <1>7, <1>10, <1>11, <1>12 DEF Ordered

\* Rows that agree with the own changes still do with the next page appended.
LEMMA OwnContinued ==
  ASSUME NEW own, NEW page, NEW next, NEW new, NEW q, NEW s \in Item \cup {0},
         OwnBefore(own, Rows(page), q, s), OwnPage(own, next, q, s),
         Rows(new) = Rows(page) \cup Rows(next),
         new.hasMore = next.hasMore, new.nextSeek = next.nextSeek
  PROVE  OwnPage(own, new, q, 0)
  <1>1. s \in Nat /\ \A i \in Item : i \in Nat
    BY Names
  <1> QED BY <1>1 DEF OwnBefore, OwnPage

\* The server answers a load with the collection as it is now.
LEMMA ElRequest ==
  ASSUME ServerInv, ElInv(el), ElOwn(el, items[el.at]), NEW l \in el.loads, E!requestElements(l)
  PROVE  ElInv(el') /\ ElOwn(el', items[el.at]) /\ el'.at = el.at
  <1> DEFINE page == listed(l.at, l.query, l.size, l.seek)
             m == [l EXCEPT !.got = TRUE, !.page = page]
  <1>1. ElLoad(l) /\ l.id <= el.seq /\ (l.id = el.seq => ElLast(el, l))
    BY DEF ElInv, ElLoads
  <1>2. l.size \in Nat \ {0} /\ l.seek \in Nat /\ IsFiniteSet(items[l.at]) /\ items[l.at] \in SUBSET Item
    BY <1>1, Names DEF ElLoad, ServerInv, ServerType
  <1>3. PageOf(page, Found(l.at, l.query, l.seek), l.size)
    BY <1>1, <1>2, ListedSpec DEF ElLoad, ServerInv
  <1>4. Ordered(page, l.seek)
    <2>1. \A i \in Found(l.at, l.query, l.seek) : i \in Nat /\ l.seek <= i
      BY <1>2, Names DEF Found
    <2> QED BY <1>3, <2>1 DEF PageOf, Ordered
  <1>5. el' = [el EXCEPT !.loads = (el.loads \ {l}) \cup {m}]
    BY ElSame DEF E!requestElements
  <1>6. el.mounted /\ l.id = el.seq => OwnPage(el.own, page, l.query, l.seek)
    <2> SUFFICES ASSUME el.mounted, l.at = el.at PROVE OwnPage(el.own, page, l.query, l.seek)
      BY <1>1 DEF ElLast
    <2>1. Known(el.own, items[l.at])
      BY DEF ElOwn
    <2> QED BY <1>2, <1>3, <2>1, OwnListed DEF Known, Found
  <1> HIDE DEF page
  <1>7. /\ ElLoad(m) /\ m.id = l.id /\ m.at = l.at /\ m.query = l.query /\ m.seek = l.seek
        /\ m.append = l.append /\ m.page = page
    BY <1>1, <1>4 DEF ElLoad
  <1> HIDE DEF m
  <1>8. /\ DOMAIN el' = ElFields /\ el'.loads = (el.loads \ {l}) \cup {m}
        /\ el'.mounted = el.mounted /\ el'.at = el.at /\ el'.page = el.page /\ el'.failed = el.failed
        /\ el'.query = el.query /\ el'.pageSize = el.pageSize /\ el'.dialog = el.dialog /\ el'.task = el.task
        /\ el'.seq = el.seq /\ el'.base = el.base /\ el'.stray = el.stray /\ el'.own = el.own
    BY <1>5 DEF ElInv, ElType, ElFields
  <1>9. ElType(el') /\ Ordered(el'.page, 0)
    BY <1>8 DEF ElInv, ElType
  <1>10. ElLast(el, l) => ElLast(el', m)
    BY <1>7, <1>8 DEF ElLast
  <1>11. \A k : ElLast(el, k) => ElLast(el', k)
    BY <1>8 DEF ElLast
  <1>12. ElLoads(el')
    BY <1>1, <1>7, <1>8, <1>10, <1>11 DEF ElInv, ElLoads
  <1>13. (ElSettled(el') => ElSettled(el)) /\ ElHome(el') = ElHome(el)
    BY <1>7, <1>8 DEF ElSettled, ElHome
  <1>14. ElBase(el')
    BY <1>8, <1>13 DEF ElInv, ElBase
  <1>15. ElOwn(el', items[el.at])
    <2>1. ASSUME el.mounted, NEW k \in el'.loads, k.id = el'.seq
          PROVE  /\ k.got => OwnPage(el'.own, k.page, k.query, k.seek)
                 /\ k.append /\ ElHome(el') => OwnBefore(el'.own, Rows(el'.page), el'.query, k.seek)
      <3>1. CASE k = m
        BY <2>1, <3>1, <1>6, <1>7, <1>8, <1>13 DEF ElOwn
      <3>2. CASE k \in el.loads
        BY <2>1, <3>2, <1>8, <1>13 DEF ElOwn
      <3> QED BY <1>8, <3>1, <3>2
    <2> QED BY <2>1, <1>8, <1>13 DEF ElOwn
  <1> QED BY <1>8, <1>9, <1>12, <1>14, <1>15 DEF ElInv

\* What the end of a load changes besides what is shown.
LEMMA ElEnded ==
  ASSUME NEW r, DOMAIN r = ElFields, NEW l, NEW L
  PROVE  LET e == [E!ended(r, l) EXCEPT !.loads = L]
         IN /\ DOMAIN e = ElFields /\ e.loads = L /\ e.task \in {r.task, E!IdleTask}
            /\ e.mounted = r.mounted /\ e.at = r.at /\ e.page = r.page /\ e.failed = r.failed
            /\ e.query = r.query /\ e.pageSize = r.pageSize /\ e.dialog = r.dialog /\ e.seq = r.seq
            /\ e.base = r.base /\ e.stray = r.stray /\ e.own = r.own
  BY DEF E!ended, ElFields

\* What an answer leaves of the page.
ElKept(l) ==
  /\ DOMAIN el' = ElFields /\ el'.loads = el.loads \ {l} /\ el'.task \in {el.task, E!IdleTask}
  /\ el'.mounted = el.mounted /\ el'.at = el.at /\ el'.query = el.query /\ el'.pageSize = el.pageSize
  /\ el'.dialog = el.dialog /\ el'.seq = el.seq /\ el'.own = el.own

\* An answer that comes too late changes no row.
LEMMA ElLate ==
  ASSUME ElInv(el), NEW l \in el.loads, l.id # el.seq, E!elementsLoaded(l) \/ E!elementsFailed(l)
  PROVE  /\ ElKept(l) /\ el'.page = el.page /\ el'.failed = el.failed /\ el'.base = el.base
         /\ el'.stray = el.stray
  <1>1. DOMAIN el = ElFields
    BY DEF ElInv, ElType
  <1>2. el' = [E!ended(el, l) EXCEPT !.loads = el.loads \ {l}]
    BY DEF E!elementsLoaded, E!elementsFailed, E!isLatest
  <1> QED BY <1>1, <1>2, ElEnded DEF ElKept

\* The last answer: its rows, or those it continues.
LEMMA ElTaken ==
  ASSUME ElInv(el), NEW l \in el.loads, l.id = el.seq, E!elementsLoaded(l)
  PROVE  /\ ElKept(l) /\ l.got
         /\ ~l.append => /\ el'.page.rows = l.page.rows /\ el'.page.hasMore = l.page.hasMore
                         /\ el'.page = l.page
                         /\ el'.base = [at |-> l.at, query |-> l.query] /\ ~el'.stray
         /\ l.append => /\ Joined(el'.page, el.page, l.page)
                        /\ el'.base = el.base
                        /\ ~el'.stray => ~el.stray /\ el.base.at = l.at
  <1> DEFINE base == IF l.append THEN el.base ELSE [at |-> l.at, query |-> l.query]
             rows == el.page.rows \o l.page.rows
             page == [l.page EXCEPT !.rows = IF l.append THEN rows ELSE @]
             stray == l.append /\ (el.stray \/ el.base.at # l.at)
             r == [E!shown(l, page) EXCEPT !.failed = FALSE, !.base = base, !.stray = stray]
  <1>1. DOMAIN el = ElFields
    BY DEF ElInv, ElType
  <1>2. el' = [E!ended(r, l) EXCEPT !.loads = el.loads \ {l}] /\ l.got
    BY DEF E!elementsLoaded, E!isLatest
  <1>3. l.page \in [rows : Seq(Item), hasMore : BOOLEAN, nextSeek : Item \cup {0}]
    BY DEF ElInv, ElLoads, ElLoad, Ordered, PageType
  <1> HIDE DEF rows
  <1>4. ~l.append => page = l.page
    BY <1>3
  <1>5. l.append => page = [rows |-> rows, hasMore |-> l.page.hasMore, nextSeek |-> l.page.nextSeek]
    BY <1>3
  <1>6. /\ ~l.append => base = [at |-> l.at, query |-> l.query] /\ ~stray
        /\ l.append => base = el.base /\ (~stray => ~el.stray /\ el.base.at = l.at)
    OBVIOUS
  <1> HIDE DEF base, page, stray
  <1>7. /\ DOMAIN r = ElFields /\ r.page = page /\ r.base = base /\ r.stray = stray
        /\ r.loads = el.loads /\ r.task = el.task /\ r.mounted = el.mounted /\ r.at = el.at
        /\ r.query = el.query /\ r.pageSize = el.pageSize /\ r.dialog = el.dialog /\ r.seq = el.seq
        /\ r.own = el.own
    BY <1>1 DEF E!shown, ElFields
  <1> HIDE DEF r
  <1>8. ElKept(l) /\ el'.page = page /\ el'.base = base /\ el'.stray = stray
    BY <1>2, <1>7, ElEnded DEF ElKept
  <1> QED BY <1>2, <1>4, <1>5, <1>6, <1>8 DEF rows, Joined

\* A failure of the last load shows no rows, or no more than before.
LEMMA ElRefused ==
  ASSUME ElInv(el), NEW l \in el.loads, l.id = el.seq, E!elementsFailed(l)
  PROVE  /\ ElKept(l) /\ el'.failed /\ el'.base = el.base
         /\ el'.page \in PageType /\ ~el'.page.hasMore /\ el'.page.rows \in {el.page.rows, <<>>}
  <1> DEFINE rows == IF l.append THEN el.page.rows ELSE <<>>
             page == [NoPage EXCEPT !.rows = rows]
             stray == el.stray /\ l.append
             r == [E!shown(l, page) EXCEPT !.failed = TRUE, !.stray = stray]
  <1>1. DOMAIN el = ElFields /\ el.page.rows \in Seq(Item)
    BY DEF ElInv, ElType, Ordered, PageType
  <1>2. el' = [E!ended(r, l) EXCEPT !.loads = el.loads \ {l}]
    BY ElSame DEF E!elementsFailed, E!isLatest
  <1>3. rows \in {el.page.rows, <<>>} /\ rows \in Seq(Item)
    BY <1>1
  <1> HIDE DEF rows, stray
  <1>4. page \in PageType /\ ~page.hasMore /\ page.rows = rows
    BY <1>3 DEF NoPage, PageType
  <1> HIDE DEF page
  <1>5. /\ DOMAIN r = ElFields /\ r.page = page /\ r.base = el.base /\ r.failed = TRUE
        /\ r.loads = el.loads /\ r.task = el.task /\ r.mounted = el.mounted /\ r.at = el.at
        /\ r.query = el.query /\ r.pageSize = el.pageSize /\ r.dialog = el.dialog /\ r.seq = el.seq
        /\ r.own = el.own
    BY <1>1 DEF E!shown, ElFields
  <1> HIDE DEF r
  <1>6. ElKept(l) /\ el'.page = page /\ el'.base = el.base /\ el'.failed
    BY <1>2, <1>5, ElEnded DEF ElKept
  <1> QED BY <1>3, <1>4, <1>6

\* An answer, or a failure, arrives: the last is shown, another ignored.
LEMMA ElAnswered ==
  ASSUME ElInv(el), ElOwn(el, items[el.at]), NEW l \in el.loads, E!elementsLoaded(l) \/ E!elementsFailed(l)
  PROVE  ElInv(el') /\ ElOwn(el', items[el.at]) /\ el'.at = el.at
  <1>1. /\ ElType(el) /\ Ordered(el.page, 0) /\ ElBase(el) /\ ElLoad(l) /\ (l.id = el.seq => ElLast(el, l))
        /\ \A k \in el.loads : ElLoad(k) /\ k.id <= el.seq /\ (k.id = el.seq => ElLast(el, k))
    BY DEF ElInv, ElLoads
  <1>2. ASSUME ElKept(l) PROVE ElType(el') /\ el'.at = el.at
    BY <1>1, <1>2, ElIdle DEF ElKept, ElType
  <1>3. CASE l.id # el.seq
    <2>1. /\ ElKept(l) /\ el'.page = el.page /\ el'.failed = el.failed /\ el'.base = el.base
          /\ el'.stray = el.stray
      BY <1>3, ElLate
    <2>2. /\ \A k : ElLast(el, k) => ElLast(el', k)
          /\ ElHome(el') = ElHome(el) /\ (ElSettled(el') => ElSettled(el))
      BY <1>3, <2>1 DEF ElLast, ElHome, ElSettled, ElKept
    <2>3. ElLoads(el')
      BY <2>1, <2>2 DEF ElInv, ElLoads, ElKept
    <2>5. ElBase(el')
      BY <1>1, <2>1, <2>2 DEF ElBase, ElKept
    <2>4. ElOwn(el', items[el.at])
      BY <2>1, <2>2 DEF ElOwn, ElKept
    <2> QED BY <1>1, <1>2, <2>1, <2>3, <2>4, <2>5 DEF ElInv
  <1>4. ASSUME l.id = el.seq, ElKept(l)
        PROVE  /\ \A k \in el'.loads : ElLoad(k) /\ k.id <= el'.seq /\ k.id # el'.seq
               /\ ElLoads(el')
    <2>1. \A k \in el.loads : k.id = el.seq => k = l
      BY <1>4 DEF ElInv, ElLoads
    <2>2. \A k \in el'.loads : ElLoad(k) /\ k.id <= el'.seq /\ k.id # el'.seq
      BY <1>1, <1>4, <2>1 DEF ElKept
    <2> QED BY <2>2 DEF ElLoads
  <1>5. CASE l.id = el.seq /\ E!elementsFailed(l)
    <2>1. /\ ElKept(l) /\ el'.failed /\ el'.base = el.base
          /\ el'.page \in PageType /\ ~el'.page.hasMore /\ el'.page.rows \in {el.page.rows, <<>>}
      BY <1>5, ElRefused
    <2>2. Ordered(el'.page, 0)
      <3>1. CASE el'.page.rows = <<>>
        BY <2>1, <3>1, Empty
      <3>2. CASE el'.page.rows = el.page.rows
        <4>1. Rows(el'.page) = Rows(el.page)
          BY <3>2 DEF Rows
        <4> QED BY <1>1, <2>1, <3>2, <4>1 DEF Ordered
      <3> QED BY <2>1, <3>1, <3>2
    <2>3. ElBase(el')
      BY <1>1, <2>1 DEF ElBase
    <2>4. ElOwn(el', items[el.at])
      <3>1. el.mounted => Known(el.own, items[el.at])
        BY DEF ElOwn
      <3> QED BY <1>4, <1>5, <2>1, <3>1 DEF ElOwn, ElKept
    <2> QED BY <1>2, <1>4, <1>5, <2>1, <2>2, <2>3, <2>4 DEF ElInv
  <1>6. CASE l.id = el.seq /\ E!elementsLoaded(l) /\ ~l.append
    <2>1. ElLast(el, l) /\ l.at = el.at /\ l.query = el.query /\ l.seek = 0
      BY <1>1, <1>6 DEF ElLast
    <2>2. /\ ElKept(l) /\ l.got /\ el'.page = l.page
          /\ el'.base = [at |-> el.at, query |-> el.query] /\ ~el'.stray
      BY <1>6, <2>1, ElTaken
    <2>3. Ordered(el'.page, 0)
      BY <1>1, <2>1, <2>2 DEF ElLoad
    <2>4. ElBase(el')
      BY <2>2 DEF ElBase, ElKept
    <2>5. el.mounted => Known(el.own, items[el.at]) /\ OwnPage(el.own, l.page, el.query, 0)
      BY <1>6, <2>1, <2>2 DEF ElOwn
    <2>6. ElOwn(el', items[el.at])
      BY <1>4, <1>6, <2>2, <2>5 DEF ElOwn, ElKept
    <2> QED BY <1>2, <1>4, <1>6, <2>2, <2>3, <2>4, <2>6 DEF ElInv
  <1>7. CASE l.id = el.seq /\ E!elementsLoaded(l) /\ l.append
    <2>1. /\ l.at = el.at /\ l.query = el.query /\ el.base.query = el.query
          /\ \A i \in Rows(el.page) : i < l.seek
      BY <1>1, <1>7 DEF ElLast
    <2>2. /\ ElKept(l) /\ l.got
          /\ Joined(el'.page, el.page, l.page)
          /\ el'.base = el.base /\ (~el'.stray => ~el.stray /\ el.base.at = el.at)
      BY <1>7, <2>1, ElTaken
    <2>3. l.seek \in Item \cup {0} /\ Ordered(l.page, l.seek)
      BY <1>1 DEF ElLoad
    <2>4. /\ Ordered(el'.page, 0) /\ Rows(el'.page) = Rows(el.page) \cup Rows(l.page)
          /\ el'.page.hasMore = l.page.hasMore /\ el'.page.nextSeek = l.page.nextSeek
      BY <1>1, <2>1, <2>2, <2>3, Continued
    <2>5. ElBase(el')
      BY <1>1, <2>1, <2>2 DEF ElBase, ElKept
    <2>6. ASSUME el.mounted, ~el'.stray PROVE OwnPage(el.own, el'.page, el.query, 0)
      <3>1. ElHome(el)
        BY <2>2, <2>6 DEF ElHome
      <3>2. OwnBefore(el.own, Rows(el.page), el.query, l.seek) /\ OwnPage(el.own, l.page, el.query, l.seek)
        BY <1>7, <2>1, <2>2, <2>6, <3>1 DEF ElOwn
      <3> QED BY <2>3, <2>4, <3>2, OwnContinued
    <2>7. ElOwn(el', items[el.at])
      <3>1. el.mounted => Known(el.own, items[el.at])
        BY DEF ElOwn
      <3> QED BY <1>4, <1>7, <2>2, <2>6, <3>1 DEF ElOwn, ElKept, ElHome
    <2> QED BY <1>2, <1>4, <1>7, <2>2, <2>4, <2>5, <2>7 DEF ElInv
  <1> QED BY <1>3, <1>5, <1>6, <1>7

\* Dialogs, flags and tasks change, and less may be known of the own changes.
LEMMA ElUpkeep ==
  ASSUME ElInv(el), ElOwn(el, items[el.at]), DOMAIN el' = ElFields,
         \A f \in ElFields \ {"dialog", "submitting", "task", "own"} : el'[f] = el[f],
         el'.dialog.kind = "delete" => el'.dialog.item \in Item,
         ElTask(el'.task), el'.own \in [Item -> {"unknown", "in", "out"}],
         \A i \in Item : el'.own[i] \in {el.own[i], "unknown"},
         \A i \in Item : el'.own[i] # "unknown" => (i \in items'[el.at] <=> i \in items[el.at])
  PROVE  ElInv(el') /\ ElOwn(el', items'[el'.at])
  <1>1. /\ el'.mounted = el.mounted /\ el'.at = el.at /\ el'.page = el.page /\ el'.failed = el.failed
        /\ el'.query = el.query /\ el'.pageSize = el.pageSize /\ el'.seq = el.seq /\ el'.loads = el.loads
        /\ el'.base = el.base /\ el'.stray = el.stray
    BY DEF ElFields
  <1>2. ElType(el')
    BY <1>1 DEF ElInv, ElType
  <1>3. ElSettled(el') = ElSettled(el) /\ ElHome(el') = ElHome(el) /\ \A l : ElLast(el, l) => ElLast(el', l)
    BY <1>1 DEF ElSettled, ElHome, ElLast
  <1>4. ElLoads(el') /\ Ordered(el'.page, 0)
    BY <1>1, <1>3 DEF ElInv, ElLoads
  <1>5. ElBase(el')
    BY <1>1, <1>3 DEF ElInv, ElBase
  <1>6. /\ \A page, q, s : OwnPage(el.own, page, q, s) => OwnPage(el'.own, page, q, s)
        /\ \A rows, q, s : OwnBefore(el.own, rows, q, s) => OwnBefore(el'.own, rows, q, s)
    BY DEF OwnPage, OwnBefore
  <1>7. Known(el.own, items[el.at]) => Known(el'.own, items'[el.at])
    BY DEF Known
  <1>8. ElOwn(el', items'[el'.at])
    BY <1>1, <1>3, <1>6, <1>7 DEF ElOwn
  <1> QED BY <1>2, <1>4, <1>5, <1>8 DEF ElInv

\* The page begins another load from the start.
LEMMA ElReload ==
  ASSUME ElInv(el), ElType(el'), NEW S, Ordered(el'.page, 0),
         el'.base = el.base, el'.page.hasMore => el'.base.query = el'.query,
         el'.seq = el.seq + 1,
         el'.loads = el.loads \cup {E!Load(el.seq + 1, el'.at, el'.query, el'.pageSize, 0, FALSE)},
         el'.mounted => Known(el'.own, S),
         el'.mounted /\ el'.page.hasMore => OwnPage(el'.own, el'.page, el'.query, 0)
  PROVE  ElInv(el') /\ ElOwn(el', S)
  <1>1. \A l \in el.loads : ElLoad(l) /\ l.id < el'.seq
    BY DEF ElInv, ElLoads, ElLoad, ElType
  <1>2. /\ E!Load(el'.seq, el'.at, el'.query, el'.pageSize, 0, FALSE) \in el'.loads
        /\ \A l \in el'.loads : \/ l = E!Load(el'.seq, el'.at, el'.query, el'.pageSize, 0, FALSE)
                                \/ ElLoad(l) /\ l.id < el'.seq
    BY <1>1
  <1>3. el'.base = [at |-> el'.base.at, query |-> el'.base.query]
    BY DEF ElInv, ElBase
  <1> QED BY <1>2, <1>3, ElNewLoad

\* The page r that is being filled again.
ElRefilled(e, r, q, n) ==
  /\ DOMAIN e = ElFields /\ e.query = q /\ e.pageSize = n
  /\ e.page \in PageType /\ ~e.page.hasMore /\ e.page.rows = r.page.rows
  /\ e.seq = r.seq + 1 /\ e.loads = r.loads \cup {E!Load(r.seq + 1, r.at, q, n, 0, FALSE)}
  /\ e.mounted = r.mounted /\ e.at = r.at /\ e.dialog = r.dialog /\ e.task = r.task
  /\ e.base = r.base /\ e.own = r.own

\* What a reload with other controls changes.
LEMMA ElRefillFields ==
  ASSUME NEW r, DOMAIN r = ElFields, r.page \in PageType, NEW q, NEW n
  PROVE  ElRefilled(E!refill(r, q, n), r, q, n)
  <1> DEFINE page == [r.page EXCEPT !.hasMore = FALSE, !.nextSeek = 0]
             b == [r EXCEPT !.query = q, !.pageSize = n, !.loading = TRUE,
                            !.page.hasMore = FALSE, !.page.nextSeek = 0]
             e == E!loadElements(b, q, n, 0, FALSE)
  <1>1. page \in PageType /\ page.hasMore = FALSE /\ page.rows = r.page.rows
    BY DEF PageType
  <1>2. /\ DOMAIN b = ElFields /\ b.query = q /\ b.pageSize = n /\ b.page = page
        /\ b.seq = r.seq /\ b.loads = r.loads /\ b.mounted = r.mounted /\ b.at = r.at
        /\ b.dialog = r.dialog /\ b.task = r.task /\ b.base = r.base /\ b.own = r.own
    BY DEF ElFields
  <1> HIDE DEF b, page
  <1>3. /\ DOMAIN e = ElFields /\ e.query = q /\ e.pageSize = n /\ e.page = page
        /\ e.seq = r.seq + 1 /\ e.loads = r.loads \cup {E!Load(r.seq + 1, r.at, q, n, 0, FALSE)}
        /\ e.mounted = r.mounted /\ e.at = r.at
        /\ e.dialog = r.dialog /\ e.task = r.task /\ e.base = r.base /\ e.own = r.own
    BY <1>2 DEF E!loadElements, ElFields
  <1>4. E!refill(r, q, n) = e
    BY DEF E!refill, b
  <1> HIDE DEF e
  <1> QED BY <1>1, <1>3, <1>4 DEF ElRefilled

\* The rows of a page whose continuation is cleared.
LEMMA Cleared ==
  ASSUME NEW page \in PageType, NEW old, Ordered(old, 0), page.rows = old.rows, ~page.hasMore
  PROVE  Ordered(page, 0)
  <1>1. Rows(page) = Rows(old)
    BY DEF Rows
  <1> QED BY <1>1 DEF Ordered

\* Another search or page size loads anew.
LEMMA ElSearch ==
  ASSUME ElInv(el), ElOwn(el, items[el.at]), NEW q \in Query, NEW n \in PageSize, el' = E!refill(el, q, n)
  PROVE  ElInv(el') /\ ElOwn(el', items[el'.at])
  <1>1. ElType(el) /\ DOMAIN el = ElFields /\ el.page \in PageType /\ Ordered(el.page, 0)
    BY DEF ElInv, ElType, Ordered
  <1>2. /\ DOMAIN el' = ElFields /\ el'.query = q /\ el'.pageSize = n
        /\ el'.page \in PageType /\ ~el'.page.hasMore /\ el'.page.rows = el.page.rows
        /\ el'.seq = el.seq + 1 /\ el'.loads = el.loads \cup {E!Load(el.seq + 1, el.at, q, n, 0, FALSE)}
        /\ el'.mounted = el.mounted /\ el'.at = el.at /\ el'.dialog = el.dialog /\ el'.task = el.task
        /\ el'.base = el.base /\ el'.own = el.own
    <2>1. ElRefilled(E!refill(el, q, n), el, q, n)
      BY <1>1, ElRefillFields
    <2> QED BY <2>1 DEF ElRefilled
  <1>3. ElType(el')
    BY <1>1, <1>2 DEF ElType
  <1>4. Ordered(el'.page, 0)
    BY <1>1, <1>2, Cleared
  <1>5. el'.mounted => Known(el'.own, items[el'.at])
    BY <1>2 DEF ElOwn
  <1> QED BY <1>2, <1>3, <1>4, <1>5, ElReload

\* Another environment: the page loads anew and knows of no change there.
LEMMA ElNavigate ==
  ASSUME ElInv(el), NEW p \in ElementPlace, E!navigate(p)
  PROVE  ElInv(el') /\ \A S : ElOwn(el', S)
  <1>1. p \in Place
    BY ConsoleAssumption
  <1>2. ElType(el) /\ DOMAIN el = ElFields /\ Ordered(el.page, 0)
    BY DEF ElInv, ElType
  <1>3. /\ DOMAIN el' = ElFields /\ el'.at = p /\ el'.own = [i \in Item |-> "unknown"]
        /\ el'.seq = el.seq + 1
        /\ el'.loads = el.loads \cup {E!Load(el.seq + 1, p, el.query, el.pageSize, 0, FALSE)}
        /\ el'.task = el.task /\ el'.dialog = el.dialog /\ el'.page = el.page /\ el'.query = el.query
        /\ el'.pageSize = el.pageSize /\ el'.base = el.base
    BY <1>2 DEF E!navigate, E!loadElements, ElFields
  <1>4. ElType(el')
    BY <1>1, <1>2, <1>3 DEF ElType
  <1>5. /\ \A S : Known(el'.own, S)
        /\ OwnPage(el'.own, el'.page, el'.query, 0)
    BY <1>3 DEF Known, OwnPage
  <1>6. Ordered(el'.page, 0) /\ (el'.page.hasMore => el'.base.query = el'.query)
    BY <1>2, <1>3 DEF ElInv, ElBase
  <1>7. ASSUME NEW S PROVE ElInv(el') /\ ElOwn(el', S)
    BY <1>3, <1>4, <1>5, <1>6, ElReload
  <1> QED BY <1>7

\* "Load more" asks for what comes after the rows shown.
LEMMA ElMore ==
  ASSUME ElInv(el), ElOwn(el, items[el.at]), E!handleLoadMore
  PROVE  ElInv(el') /\ ElOwn(el', items[el'.at])
  <1>1. ElType(el) /\ DOMAIN el = ElFields /\ Ordered(el.page, 0) /\ el.page.hasMore
    BY DEF E!handleLoadMore, ElInv, ElType
  <1> DEFINE s == el.page.nextSeek
             b == [el EXCEPT !.loadingMore = TRUE]
  <1>2. s \in Item \cup {0}
    BY <1>1 DEF Ordered, PageType
  <1>3. el' = E!loadElements(b, el.query, el.pageSize, s, TRUE)
    BY DEF E!handleLoadMore
  <1>4. DOMAIN b = ElFields /\ \A f \in ElFields \ {"loadingMore"} : b[f] = el[f]
    BY <1>1 DEF ElFields
  <1> HIDE DEF b, s
  <1>5. /\ DOMAIN el' = ElFields /\ el'.seq = el.seq + 1
        /\ el'.loads = el.loads \cup {E!Load(el.seq + 1, el.at, el.query, el.pageSize, s, TRUE)}
        /\ el'.mounted = el.mounted /\ el'.at = el.at /\ el'.page = el.page /\ el'.query = el.query
        /\ el'.pageSize = el.pageSize /\ el'.dialog = el.dialog /\ el'.task = el.task
        /\ el'.base = el.base /\ el'.stray = el.stray /\ el'.own = el.own
    BY <1>3, <1>4 DEF E!loadElements, ElFields
  <1>6. ElType(el') /\ Ordered(el'.page, 0)
    BY <1>1, <1>5 DEF ElType
  <1>7. \A l \in el.loads : ElLoad(l) /\ l.id < el'.seq
    BY <1>5 DEF ElInv, ElLoads, ElLoad, ElType
  <1>8. /\ E!Load(el'.seq, el'.at, el'.query, el'.pageSize, s, TRUE) \in el'.loads
        /\ \A l \in el'.loads : \/ l = E!Load(el'.seq, el'.at, el'.query, el'.pageSize, s, TRUE)
                                \/ ElLoad(l) /\ l.id < el'.seq
    BY <1>5, <1>7
  <1>9. el'.base = [at |-> el'.base.at, query |-> el'.base.query] /\ el'.base.query = el'.query
    BY <1>1, <1>5 DEF ElInv, ElBase
  <1>10. \A i \in Rows(el'.page) : i < s
    BY <1>1, <1>5 DEF Ordered, s
  <1>11. el'.mounted => Known(el'.own, items[el'.at])
    BY <1>5 DEF ElOwn
  <1>12. ASSUME el'.mounted, ElHome(el')
         PROVE  OwnPage(el'.own, el'.page, el'.query, 0) /\ OwnBefore(el'.own, Rows(el'.page), el'.query, s)
    <2>1. ElHome(el)
      BY <1>5, <1>12 DEF ElHome
    <2>2. OwnPage(el.own, el.page, el.query, 0)
      BY <1>1, <1>5, <1>12, <2>1 DEF ElOwn
    <2>3. \A i \in Item : i >= 0
      BY Names
    <2>4. OwnBefore(el.own, Rows(el.page), el.query, s)
      BY <1>1, <2>2, <2>3 DEF OwnPage, OwnBefore, s
    <2> QED BY <1>5, <2>2, <2>4
  <1> QED BY <1>2, <1>6, <1>8, <1>9, <1>10, <1>11, <1>12, ElNewLoad

\* Leaving the page forgets everything but the change under way.
LEMMA ElLeave ==
  ASSUME ElInv(el), E!leave
  PROVE  ElInv(el') /\ \A S : ElOwn(el', S)
  <1> DEFINE task == IF el.task.pc = "sent" THEN el.task ELSE E!IdleTask
  <1>1. ElTask(task)
    BY ElIdle DEF ElInv, ElType
  <1>2. el' = E!Gone(task)
    BY DEF E!leave
  <1> HIDE DEF task
  <1> QED BY <1>1, <1>2, ElGone

\* The dialogs, and sending what they ask for, leave rows and loads alone.
LEMMA ElDialog ==
  ASSUME ElInv(el), ElOwn(el, items[el.at]), items' = items,
         \/ E!openCreate \/ E!closeDialog \/ E!handleDelete
         \/ \E i \in Item : E!chooseDelete(i) \/ E!handleCreate(i)
  PROVE  ElInv(el') /\ ElOwn(el', items'[el'.at])
  <1>1. /\ ElType(el) /\ DOMAIN el = ElFields /\ ElTask(el.task) /\ el.at \in Place
        /\ el.own \in [Item -> {"unknown", "in", "out"}]
        /\ el.dialog.kind = "delete" => el.dialog.item \in Item
    BY DEF ElInv, ElType
  <1>2. ASSUME NEW d, d.kind = "delete" => d.item \in Item, el' = [el EXCEPT !.dialog = d]
        PROVE  ElInv(el') /\ ElOwn(el', items'[el'.at])
    <2>1. /\ DOMAIN el' = ElFields /\ el'.dialog = d /\ el'.task = el.task /\ el'.own = el.own
          /\ \A f \in ElFields \ {"dialog", "submitting", "task", "own"} : el'[f] = el[f]
      BY <1>1, <1>2 DEF ElFields
    <2> QED BY <1>1, <1>2, <2>1, ElUpkeep
  <1>3. ASSUME NEW kind \in {"create", "delete"}, NEW i \in Item, E!start(kind, i)
        PROVE  ElInv(el') /\ ElOwn(el', items'[el'.at])
    <2> DEFINE t == [pc |-> "sent", kind |-> kind, at |-> el.at, item |-> i, load |-> 0]
    <2>1. el' = [el EXCEPT !.submitting = TRUE, !.task = t]
      BY <1>3 DEF E!start
    <2>2. ElTask(t)
      BY <1>1 DEF ElTask
    <2> HIDE DEF t
    <2>3. /\ DOMAIN el' = ElFields /\ el'.dialog = el.dialog /\ el'.task = t /\ el'.own = el.own
          /\ \A f \in ElFields \ {"dialog", "submitting", "task", "own"} : el'[f] = el[f]
      BY <1>1, <2>1 DEF ElFields
    <2> QED BY <1>1, <2>2, <2>3, ElUpkeep
  <1>4. CASE E!openCreate
    <2>1. el' = [el EXCEPT !.dialog = [kind |-> "create", item |-> 0]]
      BY <1>4 DEF E!openCreate
    <2>2. [kind |-> "create", item |-> 0].kind # "delete"
      OBVIOUS
    <2> QED BY <1>2, <2>1, <2>2
  <1>5. CASE E!closeDialog
    <2>1. el' = [el EXCEPT !.dialog = E!NoDialog] /\ E!NoDialog.kind # "delete"
      BY <1>5 DEF E!closeDialog, E!NoDialog
    <2> QED BY <1>2, <2>1
  <1>6. ASSUME NEW i \in Item, E!chooseDelete(i) PROVE ElInv(el') /\ ElOwn(el', items'[el'.at])
    <2> DEFINE d == [kind |-> "delete", item |-> i]
    <2>1. el' = [el EXCEPT !.dialog = d] /\ d.item \in Item
      BY <1>6 DEF E!chooseDelete
    <2> HIDE DEF d
    <2> QED BY <1>2, <2>1
  <1>7. CASE E!handleDelete
    <2>1. el.dialog.kind = "delete" /\ E!start("delete", el.dialog.item)
      BY <1>7 DEF E!handleDelete, E!dialogShown
    <2> QED BY <1>1, <1>3, <2>1
  <1> QED BY <1>3, <1>4, <1>5, <1>6, <1>7 DEF E!handleCreate

\* What an acknowledged change makes of the items known.
LEMMA ElAccepted ==
  ASSUME ServerInv, NEW p \in Place, NEW i \in Item, NEW kind \in {"create", "delete"}, accepted(kind, p, i),
         NEW own, Known(own, items[p]), own \in [Item -> {"unknown", "in", "out"}]
  PROVE  Known([own EXCEPT ![i] = IF kind = "create" THEN "in" ELSE "out"], items'[p])
  <1>1. DOMAIN items = Place
    BY DEF ServerInv, ServerType
  <1>2. CASE kind = "create"
    <2>1. items'[p] = items[p] \cup {i}
      BY <1>1, <1>2 DEF accepted
    <2> QED BY <1>2, <2>1 DEF Known
  <1>3. CASE kind = "delete"
    <2>1. items'[p] = items[p] \ {i}
      BY <1>1, <1>3 DEF accepted
    <2> QED BY <1>3, <2>1 DEF Known
  <1> QED BY <1>2, <1>3

\* The change was made and the page loads again.
LEMMA ElAcknowledged ==
  ASSUME ServerInv, ElInv(el), ElOwn(el, items[el.at]), E!taskAnswered
  PROVE  ElInv(el') /\ ElOwn(el', items'[el'.at]) /\ ServerInv'
  <1> DEFINE t == el.task
             o == [el.own EXCEPT ![t.item] = IF t.kind = "create" THEN "in" ELSE "out"]
  <1>1. /\ t.pc = "sent" /\ accepted(t.kind, t.at, t.item) /\ UNCHANGED others
        /\ t.kind \in {"create", "delete"} /\ t.item \in Item /\ t.at \in Place /\ ElTask(t)
    BY ElServer DEF E!taskAnswered, ElInv, ElType, ElTask
  <1>2. /\ ElType(el) /\ DOMAIN el = ElFields /\ el.at \in Place /\ el.seq \in Nat
        /\ el.own \in [Item -> {"unknown", "in", "out"}]
        /\ el.page \in PageType /\ Ordered(el.page, 0) /\ el.query \in Query /\ el.pageSize \in PageSize
    BY DEF ElInv, ElType, Ordered
  <1>3. ServerInv'
    <2>1. others' \in 0..MaxOther
      BY <1>1 DEF ServerInv, ServerType
    <2> QED BY <1>1, <2>1, ServerStep
  <1>4. CASE ~el.mounted
    <2>1. el' = E!Gone(E!IdleTask)
      BY <1>4 DEF E!taskAnswered
    <2> QED BY <1>3, <2>1, ElIdle, ElGone
  <1>5. CASE el.mounted /\ t.at # el.at
    <2>1. el' = [el EXCEPT !.task = E!IdleTask, !.submitting = FALSE]
      BY <1>5 DEF E!taskAnswered, E!canApplyMutationResult
    <2>2. /\ DOMAIN el' = ElFields /\ el'.dialog = el.dialog /\ el'.task = E!IdleTask /\ el'.own = el.own
          /\ \A f \in ElFields \ {"dialog", "submitting", "task", "own"} : el'[f] = el[f]
      BY <1>2, <2>1 DEF ElFields
    <2>3. items'[el.at] = items[el.at]
      BY <1>1, <1>2, <1>5 DEF accepted, ServerInv, ServerType
    <2>4. el.dialog.kind = "delete" => el.dialog.item \in Item
      BY <1>2 DEF ElType
    <2>5. ElInv(el') /\ ElOwn(el', items'[el'.at])
      BY <1>2, <2>2, <2>3, <2>4, ElIdle, ElUpkeep
    <2> QED BY <1>3, <2>5
  <1>6. CASE el.mounted /\ t.at = el.at
    <2> DEFINE b == [el EXCEPT !.dialog = E!NoDialog, !.own[t.item] = IF t.kind = "create" THEN "in" ELSE "out"]
               r == E!refill(b, el.query, el.pageSize)
    <2>1. el' = [r EXCEPT !.task.pc = "reload", !.task.load = r.seq]
      BY <1>6 DEF E!taskAnswered, E!canApplyMutationResult
    <2>2. /\ DOMAIN b = ElFields /\ b.own = o /\ b.dialog = E!NoDialog /\ b.at = el.at /\ b.seq = el.seq
          /\ b.loads = el.loads /\ b.task = t /\ b.mounted = el.mounted /\ b.page = el.page
          /\ b.base = el.base
      BY <1>2 DEF ElFields
    <2>3. o \in [Item -> {"unknown", "in", "out"}]
      BY <1>2
    <2>4. Known(o, items'[el.at])
      BY <1>1, <1>2, <1>6, ElAccepted DEF ElOwn
    <2> HIDE DEF b, o
    <2>5. /\ DOMAIN r = ElFields /\ r.query = el.query /\ r.pageSize = el.pageSize
          /\ r.page \in PageType /\ ~r.page.hasMore /\ r.page.rows = el.page.rows
          /\ r.seq = el.seq + 1
          /\ r.loads = el.loads \cup {E!Load(el.seq + 1, el.at, el.query, el.pageSize, 0, FALSE)}
          /\ r.mounted = el.mounted /\ r.at = el.at /\ r.dialog = E!NoDialog /\ r.task = t
          /\ r.base = el.base /\ r.own = o
      <3>1. ElRefilled(r, b, el.query, el.pageSize)
        BY <1>2, <2>2, ElRefillFields
      <3> HIDE DEF r
      <3> QED BY <2>2, <3>1 DEF ElRefilled
    <2> HIDE DEF r
    <2>6. /\ DOMAIN el' = ElFields /\ el'.query = el.query /\ el'.pageSize = el.pageSize /\ el'.page = r.page
          /\ el'.seq = el.seq + 1
          /\ el'.loads = el.loads \cup {E!Load(el.seq + 1, el.at, el.query, el.pageSize, 0, FALSE)}
          /\ el'.mounted = el.mounted /\ el'.at = el.at /\ el'.dialog = E!NoDialog
          /\ el'.task = [t EXCEPT !.pc = "reload", !.load = el.seq + 1]
          /\ el'.base = el.base /\ el'.own = o
      BY <2>1, <2>5 DEF ElFields
    <2>7. el.seq + 1 \in Nat
      BY <1>2
    <2>8. ElTask(el'.task)
      BY <1>1, <2>6, <2>7 DEF ElTask
    <2>9. ElType(el')
      BY <1>2, <2>3, <2>6, <2>7, <2>8 DEF ElType, E!NoDialog
    <2>10. Ordered(el'.page, 0)
      BY <1>2, <2>5, <2>6, Cleared
    <2>11. ElInv(el') /\ ElOwn(el', items'[el.at])
      BY <2>4, <2>5, <2>6, <2>9, <2>10, ElReload
    <2> QED BY <1>3, <2>6, <2>11
  <1> QED BY <1>4, <1>5, <1>6

\* The items of one location change, one of them by an error or by others.
LEMMA ElForget ==
  ASSUME ServerInv, ElInv(el), ElOwn(el, items[el.at]), NEW p \in Place, NEW i \in Item,
         (\E kind \in {"create", "delete"} : failed(kind, p, i)) \/ OtherChange(p, i),
         DOMAIN el' = ElFields, el'.dialog = el.dialog, el'.task \in {el.task, E!IdleTask},
         el'.own = [el.own EXCEPT ![i] = "unknown"],
         \A f \in ElFields \ {"dialog", "submitting", "task", "own"} : el'[f] = el[f]
  PROVE  ElInv(el') /\ ElOwn(el', items'[el'.at]) /\ ServerInv'
  <1>1. /\ ElType(el) /\ el.at \in Place /\ ElTask(el.task) /\ ElTask(el'.task)
        /\ el.own \in [Item -> {"unknown", "in", "out"}]
        /\ el.dialog.kind = "delete" => el.dialog.item \in Item
    BY ElIdle DEF ElInv, ElType
  <1>2. /\ ServerInv' /\ \A k \in Item \ {i} : k \in items'[p] <=> k \in items[p]
        /\ \A k \in Place \ {p} : items'[k] = items[k]
    BY OneChanges
  <1>3. /\ el'.own \in [Item -> {"unknown", "in", "out"}]
        /\ \A k \in Item : el'.own[k] \in {el.own[k], "unknown"}
        /\ el'.own[i] = "unknown"
    BY <1>1
  <1>4. \A k \in Item : el'.own[k] # "unknown" => (k \in items'[el.at] <=> k \in items[el.at])
    BY <1>1, <1>2, <1>3
  <1>5. ElInv(el') /\ ElOwn(el', items'[el'.at])
    BY <1>1, <1>3, <1>4, ElUpkeep
  <1> QED BY <1>2, <1>5

\* A change that failed may still have been made: its outcome is unknown.
LEMMA ElFailed ==
  ASSUME ServerInv, ElInv(el), ElOwn(el, items[el.at]), E!taskFailed
  PROVE  ElInv(el') /\ ElOwn(el', items'[el'.at]) /\ ServerInv'
  <1> DEFINE t == el.task
  <1>1. /\ failed(t.kind, t.at, t.item) /\ t.kind \in {"create", "delete"}
        /\ t.item \in Item /\ t.at \in Place /\ DOMAIN el = ElFields
    BY ElServer DEF E!taskFailed, ElInv, ElType, ElTask
  <1>2. CASE ~el.mounted
    <2>1. el' = E!Gone(E!IdleTask)
      BY <1>2 DEF E!taskFailed
    <2>2. ServerInv'
      BY <1>1, OneChanges
    <2> QED BY <2>1, <2>2, ElIdle, ElGone
  <1>3. CASE el.mounted
    <2>1. el' = [el EXCEPT !.task = E!IdleTask, !.submitting = FALSE, !.own[t.item] = "unknown"]
      BY <1>3 DEF E!taskFailed
    <2>2. /\ DOMAIN el' = ElFields /\ el'.dialog = el.dialog /\ el'.task = E!IdleTask
          /\ el'.own = [el.own EXCEPT ![t.item] = "unknown"]
          /\ \A f \in ElFields \ {"dialog", "submitting", "task", "own"} : el'[f] = el[f]
      BY <1>1, <2>1 DEF ElFields
    <2> QED BY <1>1, <2>2, ElForget
  <1> QED BY <1>2, <1>3

\* Others change an element: the page no longer knows of it.
LEMMA ElOther ==
  ASSUME ServerInv, ElInv(el), ElOwn(el, items[el.at]), NEW k \in Item,
         OtherChange(el.at, k), el' = [el EXCEPT !.own[k] = "unknown"]
  PROVE  ElInv(el') /\ ElOwn(el', items'[el'.at]) /\ ServerInv'
  <1>1. el.at \in Place /\ DOMAIN el = ElFields
    BY DEF ElInv, ElType
  <1>2. /\ DOMAIN el' = ElFields /\ el'.dialog = el.dialog /\ el'.task = el.task
        /\ el'.own = [el.own EXCEPT ![k] = "unknown"]
        /\ \A f \in ElFields \ {"dialog", "submitting", "task", "own"} : el'[f] = el[f]
    BY <1>1 DEF ElFields
  <1> QED BY <1>1, <1>2, ElForget

\* Every step of the page keeps its invariant.
LEMMA ElStep ==
  ASSUME ServerInv, ElInv(el), ElOwn(el, items[el.at]), E!Next
  PROVE  ElInv(el') /\ ElOwn(el', items'[el'.at]) /\ ServerInv'
  <1>1. ASSUME UNCHANGED serverVars PROVE items' = items /\ ServerInv'
    BY <1>1 DEF serverVars, ServerInv, ServerType
  <1>2. CASE E!LoadStep /\ UNCHANGED serverVars
    <2>1. PICK l \in el.loads : E!requestElements(l) \/ E!elementsLoaded(l) \/ E!elementsFailed(l)
      BY <1>2 DEF E!LoadStep
    <2>2. ElInv(el') /\ ElOwn(el', items[el.at]) /\ el'.at = el.at
      BY <2>1, ElRequest, ElAnswered
    <2> QED BY <1>1, <1>2, <2>2
  <1>3. CASE E!TaskStep
    BY <1>3, ElAcknowledged, ElFailed DEF E!TaskStep
  <1>4. CASE E!User /\ UNCHANGED serverVars
    <2>1. items' = items /\ ServerInv'
      BY <1>1, <1>4
    <2>2. CASE E!leave
      BY <2>1, <2>2, ElLeave
    <2>3. CASE \E p \in ElementPlace : E!navigate(p)
      BY <2>1, <2>3, ElNavigate
    <2>4. CASE \/ E!openCreate \/ E!closeDialog \/ E!handleDelete
               \/ \E i \in Item : E!chooseDelete(i) \/ E!handleCreate(i)
      BY <2>1, <2>4, ElDialog
    <2>5. CASE E!handleLoadMore
      BY <2>1, <2>5, ElMore
    <2>6. CASE \/ \E q \in Query \ {0} : E!handleSearchSubmit(q)
               \/ \E n \in PageSize \ {el.pageSize} : E!handlePageSizeChange(n)
               \/ E!handleClearSearch
      <3>1. el.query \in Query /\ el.pageSize \in PageSize /\ 0 \in Query
        BY Names DEF ElInv, ElType
      <3>2. \E q \in Query, n \in PageSize : el' = E!refill(el, q, n)
        BY <2>6, <3>1 DEF E!handleSearchSubmit, E!handlePageSizeChange, E!handleClearSearch
      <3> QED BY <2>1, <3>2, ElSearch
    <2> QED BY <1>4, <2>2, <2>3, <2>4, <2>5, <2>6 DEF E!User
  <1>5. CASE \E i \in Item : OtherChange(el.at, i) /\ el' = [el EXCEPT !.own[i] = "unknown"]
    BY <1>5, ElOther
  <1> QED BY <1>2, <1>3, <1>4, <1>5, ElServer DEF E!Next, E!serverVars, serverVars

-----------------------------------------------------------------------------
(* The page of instances *)

\* The fields of the page's record.
InsFields ==
  {"mounted", "app", "env", "key", "appOptions", "envsOf", "keysOf", "candidates", "candidateSeq",
   "candidateLoading", "rows", "failed", "loading", "seq", "lists", "detail", "detailError",
   "detailLoading", "detailSeq", "details", "asked", "answerTo", "edited"}

\* The types of the page.
InsShape ==
  /\ DOMAIN ins = InsFields
  /\ ins.seq \in Nat /\ ins.candidateSeq \in Nat /\ ins.detailSeq \in Nat
  /\ I!PageOK

\* The list awaited is the one asked for last, under the loading flag.
ListInv ==
  /\ \A l \in ins.lists :
       /\ l.id \in Nat /\ l.id <= ins.seq
       /\ l.id = ins.seq => l = [id |-> ins.seq, by |-> ins.asked] /\ ins.loading
  /\ I!RowsOfFilter

\* While a list is awaited no detail is; a detail awaited is that of a row.
DetailInv ==
  /\ ins.loading => ins.detail = 0 /\ \A d \in ins.details : d.id # ins.detailSeq
  /\ \A d \in ins.details :
       /\ d.id \in Nat /\ d.id <= ins.detailSeq
       /\ d.id = ins.detailSeq => d.of \in ins.rows /\ ~ins.failed
  /\ I!DetailOfRow

\* Requests for candidates have different numbers; the last one is for the
\* fields unless they were edited since, and the very first changes no keys.
KeysInv ==
  /\ \A c \in ins.candidates :
       /\ c.id \in Nat /\ c.id <= ins.candidateSeq
       /\ c.kind \in {"apps", "envs", "keys"} /\ c.app \in App /\ c.env \in Text
       /\ c.id = ins.candidateSeq =>
            /\ c.kind = "apps" => ins.keysOf = I!NoKeys
            /\ c.kind = "keys" /\ ~ins.edited => c.app = ins.app /\ c.env = ins.env
  /\ \A c, d \in ins.candidates : c.id = d.id => c = d
  /\ I!KeysOfFields

\* The invariant of this page.
InsInv == InsShape /\ ListInv /\ DetailInv /\ KeysInv

\* The operator this page instantiates is the one of FiniteSets.
LEMMA InsCardinality == \A S : I!Cardinality(S) = Cardinality(S)
  BY DEF I!Cardinality, Cardinality

\* The numbers of the candidates asked for when the page is opened.
LEMMA OpenedCandidates ==
  ASSUME NEW a, NEW e
  PROVE  Cardinality(I!firstCandidates(a, e)) = IF a = 0 THEN 1 ELSE IF e = 0 THEN 2 ELSE 3
  <1> DEFINE c1 == I!Candidates(1, "apps", 0, 0)
             c2 == I!Candidates(2, "envs", a, 0)
             c3 == I!Candidates(3, "keys", a, e)
  <1>1. c1 # c2 /\ c1 # c3 /\ c2 # c3
    BY DEF I!Candidates
  <1> HIDE DEF c1, c2, c3
  <1>2. IsFiniteSet({c1}) /\ Cardinality({c1}) = 1
    BY FS_Singleton
  <1>3. IsFiniteSet({c1} \cup {c2}) /\ Cardinality({c1} \cup {c2}) = 2
    BY <1>1, <1>2, FS_AddElement
  <1>4. Cardinality({c1} \cup {c2} \cup {c3}) = 3
    <2>1. c3 \notin {c1} \cup {c2}
      BY <1>1
    <2> QED BY <2>1, <1>3, FS_AddElement
  <1>5. CASE a = 0
    BY <1>2, <1>5 DEF c1, I!firstCandidates
  <1>6. CASE a # 0 /\ e = 0
    BY <1>3, <1>6 DEF c1, c2, I!firstCandidates
  <1>7. CASE a # 0 /\ e # 0
    BY <1>4, <1>7 DEF c1, c2, c3, I!firstCandidates
  <1> QED BY <1>5, <1>6, <1>7

\* The page as it is opened, with the filters of its address.
LEMMA InsOpened ==
  ASSUME NEW a \in App, NEW e \in Text, NEW k \in Text, ins = I!Opened(a, e, k)
  PROVE  InsInv
  <1> DEFINE C == I!firstCandidates(a, e)
  <1>1. ins.candidates = C /\ ins.candidateSeq = Cardinality(C)
    BY InsCardinality DEF I!Opened
  <1>2. Cardinality(C) = IF a = 0 THEN 1 ELSE IF e = 0 THEN 2 ELSE 3
    BY OpenedCandidates
  <1>3. /\ DOMAIN ins = InsFields
        /\ ins.app = a /\ ins.env = e /\ ins.key = k /\ ins.appOptions = FALSE /\ ins.envsOf = 0
        /\ ins.keysOf = I!NoKeys /\ ins.candidateLoading = TRUE /\ ins.rows = {} /\ ins.failed = FALSE
        /\ ins.loading = TRUE /\ ins.seq = 1 /\ ins.lists = {[id |-> 1, by |-> ins.asked]}
        /\ ins.detail = 0 /\ ins.detailLoading = FALSE /\ ins.detailSeq = 1 /\ ins.details = {}
        /\ ins.edited = FALSE
    BY DEF I!Opened, InsFields
  <1> HIDE DEF C
  <1>0. 0 \in App /\ 0 \in Text
    BY ClusterAssumption
  <1>4. InsShape
    <2>1. I!PageOK
      <3>1. /\ ins.appOptions \in BOOLEAN /\ ins.candidateLoading \in BOOLEAN
            /\ ins.loading \in BOOLEAN /\ ins.detailLoading \in BOOLEAN
        BY <1>3
      <3>2. ins.keysOf \in App \X Text
        BY <1>0, <1>3 DEF I!NoKeys
      <3> QED BY <1>0, <1>3, <3>1, <3>2 DEF I!PageOK
    <2>2. ins.candidateSeq \in Nat
      BY <1>1, <1>2
    <2> QED BY <1>3, <2>1, <2>2 DEF InsShape
  <1>5. ListInv
    BY <1>3 DEF ListInv, I!RowsOfFilter
  <1>6. DetailInv
    BY <1>3 DEF DetailInv, I!DetailOfRow
  <1>7. KeysInv
    BY <1>1, <1>2, <1>3, <1>0 DEF KeysInv, I!KeysOfFields, C, I!firstCandidates, I!Candidates
  <1> QED BY <1>4, <1>5, <1>6, <1>7 DEF InsInv

\* A page that was left.
LEMMA InsGone == ins = I!Gone => InsInv
  <1> SUFFICES ASSUME ins = I!Gone PROVE InsInv
    OBVIOUS
  <1>1. PICK n \in Nat : n = I!Opened(0, 0, 0).candidateSeq
    <2>1. I!Opened(0, 0, 0).candidateSeq \in Nat
      <3>1. I!Opened(0, 0, 0).candidateSeq = Cardinality(I!firstCandidates(0, 0))
        BY InsCardinality DEF I!Opened
      <3> QED BY <3>1, OpenedCandidates
    <2> QED BY <2>1
  <1>2. /\ DOMAIN ins = InsFields
        /\ ins.mounted = FALSE
        /\ ins.app = 0 /\ ins.env = 0 /\ ins.key = 0 /\ ins.appOptions = FALSE /\ ins.envsOf = 0
        /\ ins.keysOf = I!NoKeys /\ ins.candidateLoading = FALSE /\ ins.rows = {} /\ ins.failed = FALSE
        /\ ins.loading = FALSE /\ ins.seq = 1 /\ ins.lists = {}
        /\ ins.detail = 0 /\ ins.detailLoading = FALSE /\ ins.detailSeq = 1 /\ ins.details = {}
        /\ ins.edited = FALSE /\ ins.candidates = {} /\ ins.candidateSeq = n
    BY <1>1 DEF I!Gone, I!Opened, InsFields
  <1>3. 0 \in App /\ 0 \in Text
    BY ClusterAssumption
  <1>4. InsShape
    <2>1. /\ ins.appOptions \in BOOLEAN /\ ins.candidateLoading \in BOOLEAN
          /\ ins.loading \in BOOLEAN /\ ins.detailLoading \in BOOLEAN
      BY <1>2
    <2>2. ins.keysOf \in App \X Text
      BY <1>2, <1>3 DEF I!NoKeys
    <2> QED BY <1>2, <1>3, <2>1, <2>2 DEF InsShape, I!PageOK
  <1> QED BY <1>2, <1>4 DEF InsInv, ListInv, DetailInv, KeysInv, I!NoKeys, I!RowsOfFilter, I!DetailOfRow,
        I!KeysOfFields
\* The instances arrive.
LEMMA InsListLoaded ==
  ASSUME InsInv, NEW l \in ins.lists, I!listLoaded(l)
  PROVE  InsInv'
  <1> USE DEF InsInv, InsShape, InsFields
  <1>0. 0 \in App /\ 0 \in Text
    BY ClusterAssumption
  <1>1. InsShape'
    <2>1. DOMAIN ins' = InsFields /\ ins'.seq \in Nat /\ ins'.candidateSeq \in Nat /\ ins'.detailSeq \in Nat
      BY DEF I!listLoaded, I!isLatest
    <2>2. /\ ins'.appOptions \in BOOLEAN /\ ins'.candidateLoading \in BOOLEAN
          /\ ins'.loading \in BOOLEAN /\ ins'.detailLoading \in BOOLEAN
      BY ZenonT(40) DEF I!listLoaded, I!isLatest, I!PageOK
    <2>3. /\ ins'.app \in App /\ ins'.env \in Text /\ ins'.key \in Text
          /\ ins'.envsOf \in App /\ ins'.keysOf \in App \X Text
          /\ ins'.rows \subseteq Instance /\ ins'.detail \in Instance \cup {0}
      BY <1>0 DEF I!listLoaded, I!isLatest, I!PageOK
    <2> QED BY <2>1, <2>2, <2>3 DEF I!PageOK
  <1>2. ListInv'
    BY DEF I!listLoaded, I!isLatest, ListInv, I!RowsOfFilter
  <1>3. DetailInv'
    BY DEF I!listLoaded, I!isLatest, DetailInv, ListInv, I!DetailOfRow, I!PageOK
  <1>4. KeysInv'
    BY <1>0 DEF I!listLoaded, I!isLatest, KeysInv, I!KeysOfFields, I!PageOK
  <1> QED BY <1>1, <1>2, <1>3, <1>4

\* They do not.
LEMMA InsListFailed ==
  ASSUME InsInv, NEW l \in ins.lists, I!listFailed(l)
  PROVE  InsInv'
  <1> USE DEF InsInv, InsShape, InsFields
  <1>0. 0 \in App /\ 0 \in Text
    BY ClusterAssumption
  <1>1. InsShape'
    BY <1>0 DEF I!listFailed, I!isLatest, I!PageOK, KeysInv, DetailInv
  <1>2. ListInv'
    BY DEF I!listFailed, I!isLatest, ListInv, I!RowsOfFilter
  <1>3. DetailInv'
    BY DEF I!listFailed, I!isLatest, DetailInv, ListInv, I!DetailOfRow, I!PageOK
  <1>4. KeysInv'
    BY <1>0 DEF I!listFailed, I!isLatest, KeysInv, I!KeysOfFields, I!PageOK
  <1> QED BY <1>1, <1>2, <1>3, <1>4

\* The suggestions for a field arrive, or do not.
LEMMA InsCandidates ==
  ASSUME InsInv, NEW c \in ins.candidates, NEW found \in BOOLEAN, I!candidatesAnswered(c, found)
  PROVE  InsInv'
  <1> USE DEF InsInv, InsShape, InsFields
  <1>0. 0 \in App /\ 0 \in Text
    BY ClusterAssumption
  <1>1. InsShape'
    BY <1>0 DEF I!candidatesAnswered, I!isLatestCandidate, I!options, I!NoKeys, I!PageOK, KeysInv, DetailInv
  <1>5. /\ c.kind \in {"apps", "envs", "keys"}
        /\ \A f \in InsFields \ {"appOptions", "envsOf", "keysOf", "candidateLoading", "candidates"} :
             ins'[f] = ins[f]
    BY DEF I!candidatesAnswered, I!isLatestCandidate, I!options, KeysInv
  <1>6. /\ ins'.lists = ins.lists /\ ins'.seq = ins.seq /\ ins'.asked = ins.asked /\ ins'.loading = ins.loading
        /\ ins'.mounted = ins.mounted /\ ins'.failed = ins.failed /\ ins'.answerTo = ins.answerTo
        /\ ins'.detail = ins.detail /\ ins'.details = ins.details /\ ins'.detailSeq = ins.detailSeq
        /\ ins'.rows = ins.rows
    BY <1>5
  <1>2. ListInv'
    BY <1>6 DEF ListInv, I!RowsOfFilter
  <1>3. DetailInv'
    BY <1>6 DEF DetailInv, I!DetailOfRow
  <1>4. KeysInv'
    BY <1>0 DEF I!candidatesAnswered, I!isLatestCandidate, I!options, I!NoKeys, KeysInv, I!KeysOfFields, I!PageOK
  <1> QED BY <1>1, <1>2, <1>3, <1>4

\* The details of an instance arrive, or do not.
LEMMA InsDetail ==
  ASSUME InsInv, NEW d \in ins.details, NEW found \in BOOLEAN, I!detailAnswered(d, found)
  PROVE  InsInv'
  <1> USE DEF InsInv, InsShape, InsFields
  <1>0. 0 \in App /\ 0 \in Text
    BY ClusterAssumption
  <1>1. InsShape'
    BY <1>0 DEF I!detailAnswered, I!PageOK, KeysInv, DetailInv
  <1>2. ListInv'
    BY DEF I!detailAnswered, ListInv, I!RowsOfFilter
  <1>3. DetailInv'
    BY DEF I!detailAnswered, DetailInv, ListInv, I!DetailOfRow, I!PageOK
  <1>4. KeysInv'
    BY <1>0 DEF I!detailAnswered, KeysInv, I!KeysOfFields, I!PageOK
  <1> QED BY <1>1, <1>2, <1>3, <1>4

\* The fields become the filter.
LEMMA InsFilter ==
  ASSUME InsInv, I!handleFilter
  PROVE  InsInv'
  <1> USE DEF InsInv, InsShape, InsFields
  <1>0. 0 \in App /\ 0 \in Text
    BY ClusterAssumption
  <1>1. InsShape'
    <2>1. DOMAIN ins' = InsFields
      BY DEF I!handleFilter, I!applyFilter, I!CanAsk
    <2>4. /\ ins'.seq = ins.seq + 1 /\ ins'.detailSeq = ins.detailSeq + 1
          /\ ins'.candidateSeq = ins.candidateSeq
      BY DEF I!handleFilter, I!applyFilter, I!CanAsk
    <2>2. /\ ins'.appOptions \in BOOLEAN /\ ins'.candidateLoading \in BOOLEAN
          /\ ins'.loading \in BOOLEAN /\ ins'.detailLoading \in BOOLEAN
      BY DEF I!handleFilter, I!applyFilter, I!CanAsk, I!PageOK
    <2>3. /\ ins'.app \in App /\ ins'.env \in Text /\ ins'.key \in Text
          /\ ins'.envsOf \in App /\ ins'.keysOf \in App \X Text
          /\ ins'.rows \subseteq Instance /\ ins'.detail \in Instance \cup {0}
      BY <1>0 DEF I!handleFilter, I!applyFilter, I!CanAsk, I!PageOK
    <2> QED BY <2>1, <2>2, <2>3, <2>4 DEF I!PageOK
  <1>2. ListInv'
    BY DEF I!handleFilter, I!applyFilter, I!CanAsk, ListInv, I!RowsOfFilter
  <1>3. DetailInv'
    BY DEF I!handleFilter, I!applyFilter, I!CanAsk, DetailInv, ListInv, I!DetailOfRow, I!PageOK
  <1>4. KeysInv'
    BY <1>0 DEF I!handleFilter, I!applyFilter, I!CanAsk, KeysInv, I!KeysOfFields, I!PageOK
  <1> QED BY <1>1, <1>2, <1>3, <1>4

\* Everything is loaded again.
LEMMA InsRefresh ==
  ASSUME InsInv, I!handleRefreshAll
  PROVE  InsInv'
  <1> USE DEF InsInv, InsShape, InsFields
  <1>0. 0 \in App /\ 0 \in Text
    BY ClusterAssumption
  <1>1. InsShape'
    <2>1. DOMAIN ins' = InsFields
      BY DEF I!handleRefreshAll, I!applyFilter, I!CanAsk, I!touched, I!isLatestCandidate, I!NoKeys
    <2>4. /\ ins'.seq = ins.seq + 1 /\ ins'.detailSeq = ins.detailSeq + 1
          /\ ins'.candidateSeq = ins.candidateSeq
      BY DEF I!handleRefreshAll, I!applyFilter, I!CanAsk, I!touched, I!isLatestCandidate, I!NoKeys
    <2>2. /\ ins'.appOptions \in BOOLEAN /\ ins'.candidateLoading \in BOOLEAN
          /\ ins'.loading \in BOOLEAN /\ ins'.detailLoading \in BOOLEAN
      BY DEF I!handleRefreshAll, I!applyFilter, I!CanAsk, I!touched, I!isLatestCandidate, I!NoKeys, I!PageOK
    <2>3. /\ ins'.app \in App /\ ins'.env \in Text /\ ins'.key \in Text
          /\ ins'.envsOf \in App /\ ins'.keysOf \in App \X Text
          /\ ins'.rows \subseteq Instance /\ ins'.detail \in Instance \cup {0}
      BY <1>0 DEF I!handleRefreshAll, I!applyFilter, I!CanAsk, I!touched, I!isLatestCandidate, I!NoKeys, I!PageOK
    <2> QED BY <2>1, <2>2, <2>3, <2>4 DEF I!PageOK
  <1>2. ListInv'
    BY DEF I!handleRefreshAll, I!applyFilter, I!CanAsk, I!touched, I!isLatestCandidate, I!NoKeys, ListInv, I!RowsOfFilter
  <1>3. DetailInv'
    BY DEF I!handleRefreshAll, I!applyFilter, I!CanAsk, I!touched, I!isLatestCandidate, I!NoKeys, DetailInv, ListInv, I!DetailOfRow, I!PageOK
  <1>4. KeysInv'
    <2>1. /\ ins'.candidates = ins.candidates /\ ins'.candidateSeq = ins.candidateSeq
          /\ ins'.keysOf = I!NoKeys
      BY DEF I!handleRefreshAll, I!applyFilter, I!CanAsk, I!touched, I!isLatestCandidate, I!NoKeys
    <2>2. ASSUME NEW c \in ins.candidates, c.id = ins.candidateSeq PROVE ins'.edited
      BY <2>2 DEF I!handleRefreshAll, I!applyFilter, I!CanAsk, I!touched, I!isLatestCandidate, I!NoKeys
    <2> QED BY <2>1, <2>2 DEF KeysInv, I!KeysOfFields
  <1> QED BY <1>1, <1>2, <1>3, <1>4

\* Typing an application.
LEMMA InsTypeApp ==
  ASSUME InsInv, NEW a \in App, I!typeApp(a)
  PROVE  InsInv'
  <1> USE DEF InsInv, InsShape, InsFields
  <1>0. 0 \in App /\ 0 \in Text
    BY ClusterAssumption
  <1>1. InsShape'
    BY <1>0 DEF I!typeApp, I!touched, I!isLatestCandidate, I!NoKeys, I!PageOK, KeysInv, DetailInv
  <1>2. ListInv'
    BY DEF I!typeApp, I!touched, I!isLatestCandidate, I!NoKeys, ListInv, I!RowsOfFilter
  <1>3. DetailInv'
    BY DEF I!typeApp, I!touched, I!isLatestCandidate, I!NoKeys, DetailInv, ListInv, I!DetailOfRow, I!PageOK
  <1>4. KeysInv'
    <2>1. /\ ins'.candidates = ins.candidates /\ ins'.candidateSeq = ins.candidateSeq
          /\ ins'.keysOf = I!NoKeys
      BY DEF I!typeApp, I!touched, I!isLatestCandidate, I!NoKeys
    <2>2. ASSUME NEW c \in ins.candidates, c.id = ins.candidateSeq PROVE ins'.edited
      BY <2>2 DEF I!typeApp, I!touched, I!isLatestCandidate, I!NoKeys
    <2> QED BY <2>1, <2>2 DEF KeysInv, I!KeysOfFields
  <1> QED BY <1>1, <1>2, <1>3, <1>4

\* Choosing one.
LEMMA InsChooseApp ==
  ASSUME InsInv, NEW a \in App, I!chooseApp(a)
  PROVE  InsInv'
  <1> USE DEF InsInv, InsShape, InsFields
  <1>0. 0 \in App /\ 0 \in Text
    BY ClusterAssumption
  <1>1. InsShape'
    BY <1>0 DEF I!chooseApp, I!loadEnvCandidates, I!ask, I!askNothing, I!Candidates, I!NoKeys, I!CanAsk, I!PageOK, KeysInv, DetailInv
  <1>2. ListInv'
    BY DEF I!chooseApp, I!loadEnvCandidates, I!ask, I!askNothing, I!Candidates, I!NoKeys, I!CanAsk, ListInv, I!RowsOfFilter
  <1>3. DetailInv'
    BY DEF I!chooseApp, I!loadEnvCandidates, I!ask, I!askNothing, I!Candidates, I!NoKeys, I!CanAsk, DetailInv, ListInv, I!DetailOfRow, I!PageOK
  <1>4. KeysInv'
    BY <1>0 DEF I!chooseApp, I!loadEnvCandidates, I!ask, I!askNothing, I!Candidates, I!NoKeys, I!CanAsk, KeysInv, I!KeysOfFields, I!PageOK
  <1> QED BY <1>1, <1>2, <1>3, <1>4

\* Typing an environment.
LEMMA InsTypeEnv ==
  ASSUME InsInv, NEW e \in Text, I!typeEnv(e)
  PROVE  InsInv'
  <1> USE DEF InsInv, InsShape, InsFields
  <1>0. 0 \in App /\ 0 \in Text
    BY ClusterAssumption
  <1>1. InsShape'
    BY <1>0 DEF I!typeEnv, I!touched, I!isLatestCandidate, I!NoKeys, I!PageOK, KeysInv, DetailInv
  <1>2. ListInv'
    BY DEF I!typeEnv, I!touched, I!isLatestCandidate, I!NoKeys, ListInv, I!RowsOfFilter
  <1>3. DetailInv'
    BY DEF I!typeEnv, I!touched, I!isLatestCandidate, I!NoKeys, DetailInv, ListInv, I!DetailOfRow, I!PageOK
  <1>4. KeysInv'
    BY <1>0, ZenonT(40) DEF I!typeEnv, I!touched, I!isLatestCandidate, I!NoKeys, KeysInv, I!KeysOfFields, I!PageOK
  <1> QED BY <1>1, <1>2, <1>3, <1>4

\* Choosing one.
LEMMA InsChooseEnv ==
  ASSUME InsInv, NEW e \in Text, I!chooseEnv(e)
  PROVE  InsInv'
  <1> USE DEF InsInv, InsShape, InsFields
  <1>0. 0 \in App /\ 0 \in Text
    BY ClusterAssumption
  <1>1. InsShape'
    BY <1>0 DEF I!chooseEnv, I!loadKeyCandidates, I!ask, I!askNothing, I!Candidates, I!NoKeys, I!CanAsk, I!PageOK, KeysInv, DetailInv
  <1>2. ListInv'
    BY DEF I!chooseEnv, I!loadKeyCandidates, I!ask, I!askNothing, I!Candidates, I!NoKeys, I!CanAsk, ListInv, I!RowsOfFilter
  <1>3. DetailInv'
    BY DEF I!chooseEnv, I!loadKeyCandidates, I!ask, I!askNothing, I!Candidates, I!NoKeys, I!CanAsk, DetailInv, ListInv, I!DetailOfRow, I!PageOK
  <1>4. KeysInv'
    BY <1>0 DEF I!chooseEnv, I!loadKeyCandidates, I!ask, I!askNothing, I!Candidates, I!NoKeys, I!CanAsk, KeysInv, I!KeysOfFields, I!PageOK
  <1> QED BY <1>1, <1>2, <1>3, <1>4

\* Typing a key.
LEMMA InsSetKey ==
  ASSUME InsInv, NEW k \in Text, I!setKey(k)
  PROVE  InsInv'
  <1> USE DEF InsInv, InsShape, InsFields
  <1>0. 0 \in App /\ 0 \in Text
    BY ClusterAssumption
  <1>1. InsShape'
    BY <1>0 DEF I!setKey, I!PageOK, KeysInv, DetailInv
  <1>2. ListInv'
    BY DEF I!setKey, ListInv, I!RowsOfFilter
  <1>3. DetailInv'
    BY DEF I!setKey, DetailInv, ListInv, I!DetailOfRow, I!PageOK
  <1>4. KeysInv'
    BY <1>0 DEF I!setKey, KeysInv, I!KeysOfFields, I!PageOK
  <1> QED BY <1>1, <1>2, <1>3, <1>4

\* Opening the details of an instance.
LEMMA InsLoadDetail ==
  ASSUME InsInv, NEW i \in Instance, I!handleLoadDetail(i)
  PROVE  InsInv'
  <1> USE DEF InsInv, InsShape, InsFields
  <1>0. 0 \in App /\ 0 \in Text
    BY ClusterAssumption
  <1>1. InsShape'
    BY <1>0 DEF I!handleLoadDetail, I!CanAsk, I!tableShown, I!PageOK, KeysInv, DetailInv
  <1>2. ListInv'
    BY DEF I!handleLoadDetail, I!CanAsk, I!tableShown, ListInv, I!RowsOfFilter
  <1>3. DetailInv'
    BY DEF I!handleLoadDetail, I!CanAsk, I!tableShown, DetailInv, ListInv, I!DetailOfRow, I!PageOK
  <1>4. KeysInv'
    BY <1>0 DEF I!handleLoadDetail, I!CanAsk, I!tableShown, KeysInv, I!KeysOfFields, I!PageOK
  <1> QED BY <1>1, <1>2, <1>3, <1>4

\* Every step of the page keeps its invariant.
LEMMA InsStep ==
  ASSUME InsInv, I!Next \/ UNCHANGED ins
  PROVE  InsInv'
  <1>1. CASE UNCHANGED ins
    BY <1>1 DEF InsInv, InsShape, ListInv, DetailInv, KeysInv, I!PageOK, I!RowsOfFilter, I!DetailOfRow,
                I!KeysOfFields
  <1>2. CASE I!leave
    <2>1. (ins = I!Gone)'
      BY <1>2 DEF I!leave, I!Gone, I!Opened
    <2> QED BY <2>1, InsGone, PTL
  <1> QED BY <1>1, <1>2, InsListLoaded, InsListFailed, InsCandidates, InsDetail, InsFilter, InsRefresh, InsTypeApp,
        InsChooseApp, InsTypeEnv, InsChooseEnv, InsSetKey, InsLoadDetail DEF I!Next, I!AnswerStep

-----------------------------------------------------------------------------
(* The page of the cluster *)

\* The operator this page instantiates is the one of FiniteSets.
LEMMA TopCardinality == \A S : T!Cardinality(S) = Cardinality(S)
  BY DEF T!Cardinality, Cardinality

\* The instances that name an agent.
Members(t, a) == {k \in DOMAIN t.instances : T!ownerOf(t, k) = a}

\* The node that holds instance j.
NodeOf(t, j) ==
  LET a == T!ownerOf(t, j)
  IN [agent |-> a, members |-> IF Cardinality(Members(t, a)) > Threshold THEN Members(t, a) ELSE {j}]

\* The nodes drawn are those of the instances: two instances of one agent share
\* theirs, or it holds nobody else.
LEMMA NodesSpec ==
  ASSUME NEW t
  PROVE  T!getInstanceGraphNodes(t) = {NodeOf(t, j) : j \in DOMAIN t.instances}
  <1> DEFINE group == T!groupInstancesByAgent(t)
             big(a) == Cardinality(Members(t, a)) > Threshold
             many(a) == {[agent |-> a, members |-> Members(t, a)]}
             single(a) == {[agent |-> a, members |-> {j}] : j \in Members(t, a)}
             nodes(a) == IF big(a) THEN many(a) ELSE single(a)
             owners == {T!ownerOf(t, j) : j \in DOMAIN t.instances}
  <1>1. DOMAIN group = owners /\ \A a \in owners : group[a] = Members(t, a)
    BY DEF T!groupInstancesByAgent, Members
  <1>2. T!getInstanceGraphNodes(t) = UNION {nodes(a) : a \in owners}
    <2>1. T!getInstanceGraphNodes(t)
            = UNION {IF Cardinality(group[a]) > Threshold THEN {[agent |-> a, members |-> group[a]]}
                     ELSE {[agent |-> a, members |-> {j}] : j \in group[a]} : a \in DOMAIN group}
      BY TopCardinality DEF T!getInstanceGraphNodes
    <2> HIDE DEF group, owners
    <2> QED BY <1>1, <2>1
  <1> HIDE DEF group, big
  <1>3. ASSUME NEW n \in UNION {nodes(a) : a \in owners} PROVE n \in {NodeOf(t, j) : j \in DOMAIN t.instances}
    <2>1. PICK a \in owners : n \in nodes(a)
      BY <1>3
    <2>2. PICK i \in DOMAIN t.instances : a = T!ownerOf(t, i)
      BY <2>1
    <2>3. CASE big(a)
      <3>1. n = [agent |-> a, members |-> Members(t, a)]
        BY <2>1, <2>3
      <3>2. n = NodeOf(t, i)
        BY <2>2, <2>3, <3>1 DEF NodeOf, big
      <3> QED BY <3>2
    <2>4. CASE ~big(a)
      <3>1. PICK j \in Members(t, a) : n = [agent |-> a, members |-> {j}]
        BY <2>1, <2>4
      <3>2. j \in DOMAIN t.instances /\ T!ownerOf(t, j) = a
        BY <3>1 DEF Members
      <3>3. n = NodeOf(t, j)
        BY <2>4, <3>1, <3>2 DEF NodeOf, big
      <3> QED BY <3>2, <3>3
    <2> QED BY <2>3, <2>4
  <1>4. ASSUME NEW j \in DOMAIN t.instances PROVE NodeOf(t, j) \in UNION {nodes(a) : a \in owners}
    <2> DEFINE a == T!ownerOf(t, j)
    <2>1. a \in owners /\ j \in Members(t, a)
      BY DEF Members
    <2> HIDE DEF a
    <2>2. NodeOf(t, j) \in nodes(a)
      <3>1. CASE big(a)
        BY <3>1 DEF NodeOf, big, a
      <3>2. CASE ~big(a)
        <4>1. NodeOf(t, j) = [agent |-> a, members |-> {j}]
          BY <3>2 DEF NodeOf, big, a
        <4> QED BY <3>2, <4>1, <2>1
      <3> QED BY <3>1, <3>2
    <2> HIDE DEF nodes
    <2> QED BY <2>1, <2>2
  <1> HIDE DEF nodes, owners
  <1> QED BY <1>2, <1>3, <1>4

\* A node is of the agent of its instances, and no two share an instance.
LEMMA NodeFields ==
  ASSUME NEW t, NEW j \in DOMAIN t.instances
  PROVE  /\ NodeOf(t, j).agent = T!ownerOf(t, j)
         /\ j \in NodeOf(t, j).members
         /\ \A k \in DOMAIN t.instances : j \in NodeOf(t, k).members => NodeOf(t, k) = NodeOf(t, j)
  BY DEF NodeOf, Members

\* An agent that has the name is found: the last one.
LEMMA AttachedSpec ==
  ASSUME NEW t \in Topology, NEW n, NEW i \in DOMAIN t.agents, T!agentId(t, i) = n.agent
  PROVE  T!agentId(t, T!attached(t, n)) = n.agent
  <1> DEFINE named == {k \in DOMAIN t.agents : T!agentId(t, k) = n.agent}
             rest == {Len(t.agents) - k : k \in named}
  <1>1. Len(t.agents) \in Nat /\ DOMAIN t.agents = 1..Len(t.agents)
    BY ClusterAssumption
  <1>2. rest \in SUBSET Nat /\ rest # {}
    BY <1>1
  <1>3. PICK m \in rest : \A x \in rest : m <= x
    BY <1>2, LeastNatural
  <1>4. PICK k \in named : m = Len(t.agents) - k
    BY <1>3
  <1>5. \A j \in named : j <= k
    <2> SUFFICES ASSUME NEW j \in named PROVE j <= k
      OBVIOUS
    <2>1. Len(t.agents) - k <= Len(t.agents) - j
      BY <1>3, <1>4
    <2> QED BY <1>1, <2>1
  <1>6. T!attached(t, n) = CHOOSE k_1 \in named : \A j \in named : j <= k_1
    BY DEF T!attached
  <1> HIDE DEF named
  <1>7. T!attached(t, n) \in named
    BY <1>5, <1>6
  <1> QED BY <1>7 DEF named

\* Whatever the server answers, the graph is faithful to it.
LEMMA GraphSpec ==
  ASSUME top.topology \in Topology
  PROVE  T!GraphIsFaithful
  <1> DEFINE t == top.topology
             N == T!getInstanceGraphNodes(t)
             edge(n) == [agent |-> T!attached(t, n), node |-> n]
             edges == {edge(n) : n \in {m \in N : t.agents # <<>>}}
             g == T!buildTopologyGraph(t)
  <1>1. g.nodes = N /\ g.edges = edges /\ g.dbEdges = (1..t.dbs) \X DOMAIN t.agents
    BY DEF T!buildTopologyGraph
  <1>2. N = {NodeOf(t, j) : j \in DOMAIN t.instances}
    BY NodesSpec
  <1>3. \A n : edge(n).node = n /\ edge(n).agent = T!attached(t, n)
    OBVIOUS
  <1>4. t \in Topology
    OBVIOUS
  <1> HIDE DEF N, g, t, edge
  <1>5. ASSUME NEW j \in DOMAIN t.instances PROVE Cardinality({n \in g.nodes : j \in n.members}) = 1
    <2>1. {n \in g.nodes : j \in n.members} = {NodeOf(t, j)}
      BY <1>1, <1>2, NodeFields
    <2> QED BY <2>1, FS_Singleton
  <1>6. ASSUME t.agents # <<>>, NEW j \in DOMAIN t.instances
        PROVE  \E e \in g.edges :
                 /\ j \in e.node.members
                 /\ (\E i \in DOMAIN t.agents : T!agentId(t, i) = T!ownerOf(t, j))
                       => T!agentId(t, e.agent) = T!ownerOf(t, j)
    <2>1. NodeOf(t, j) \in N /\ NodeOf(t, j).agent = T!ownerOf(t, j) /\ j \in NodeOf(t, j).members
      BY <1>2, NodeFields
    <2>2. edge(NodeOf(t, j)) \in g.edges
      BY <1>1, <1>6, <2>1
    <2>3. (\E i \in DOMAIN t.agents : T!agentId(t, i) = T!ownerOf(t, j))
             => T!agentId(t, T!attached(t, NodeOf(t, j))) = T!ownerOf(t, j)
      BY <1>4, <2>1, AttachedSpec
    <2> QED BY <1>3, <2>1, <2>2, <2>3
  <1>7. ASSUME NEW n \in g.nodes
        PROVE  Cardinality({e \in g.edges : e.node = n}) = IF t.agents = <<>> THEN 0 ELSE 1
    <2>1. CASE t.agents = <<>>
      <3>1. {e \in g.edges : e.node = n} = {}
        BY <1>1, <2>1
      <3> QED BY <2>1, <3>1, FS_EmptySet
    <2>2. CASE t.agents # <<>>
      <3>1. {e \in g.edges : e.node = n} = {edge(n)}
        BY <1>1, <1>3, <1>7, <2>2
      <3> QED BY <2>2, <3>1, FS_Singleton
    <2> QED BY <2>1, <2>2
  <1>8. Cardinality(g.dbEdges) = t.dbs * Len(t.agents)
    <2>1. t.dbs \in Nat /\ Len(t.agents) \in Nat /\ DOMAIN t.agents = 1..Len(t.agents)
      BY <1>4, ClusterAssumption
    <2>2. PICK d \in Nat, n \in Nat : d = t.dbs /\ n = Len(t.agents)
      BY <2>1
    <2>3. IsFiniteSet(1..d) /\ Cardinality(1..d) = d
      BY FS_Interval
    <2>4. IsFiniteSet(1..n) /\ Cardinality(1..n) = n
      BY FS_Interval
    <2>5. Cardinality((1..d) \X (1..n)) = d * n
      <3> DEFINE D == 1..d
                 K == 1..n
      <3> HIDE DEF D, K
      <3>1. IsFiniteSet(D) /\ IsFiniteSet(K) /\ Cardinality(D) = d /\ Cardinality(K) = n
        BY <2>3, <2>4 DEF D, K
      <3>2. Cardinality(D \X K) = Cardinality(D) * Cardinality(K)
        BY <3>1, FS_Product, Zenon
      <3>3. Cardinality(D \X K) = d * n
        BY <3>1, <3>2, Zenon
      <3> QED BY <3>3, Zenon DEF D, K
    <2>6. g.dbEdges = (1..d) \X (1..n)
      BY <1>1, <2>1, <2>2
    <2> QED BY <2>2, <2>5, <2>6
  <1> QED BY <1>5, <1>6, <1>7, <1>8, TopCardinality DEF T!GraphIsFaithful, g, t

\* The fields of the page's record.
TopFields == {"mounted", "topology", "failed", "loading", "seq", "loads"}

\* The invariant of this page.
TopInv == DOMAIN top = TopFields /\ T!PageOK

\* The page as it is opened, and one that was left.
LEMMA TopOpened == top \in {T!Opened, T!Gone} => TopInv
  <1>1. T!NoTopology \in Topology /\ MaxRefresh \in Nat
    BY ClusterAssumption
  <1>2. CASE top = T!Opened
    BY <1>1, <1>2 DEF TopInv, TopFields, T!Opened, T!PageOK
  <1>3. CASE top = T!Gone
    <2>1. /\ DOMAIN top = TopFields /\ top.topology = T!NoTopology /\ top.loading = FALSE
          /\ top.failed = FALSE /\ top.seq = 1
      BY <1>3 DEF T!Gone, T!Opened, TopFields
    <2>2. top.loading \in BOOLEAN /\ top.failed \in BOOLEAN
      BY <2>1
    <2> QED BY <1>1, <2>1, <2>2 DEF TopInv, T!PageOK
  <1> QED BY <1>2, <1>3

\* Every step of the page keeps its invariant.
LEMMA TopStep ==
  ASSUME TopInv, T!Next \/ UNCHANGED top
  PROVE  TopInv'
  <1> USE DEF TopInv, TopFields, T!PageOK
  <1>0. T!NoTopology \in Topology /\ MaxRefresh \in Nat
    BY ClusterAssumption
  <1>1. ASSUME NEW l \in top.loads, NEW t \in Topology, T!topologyLoaded(l, t) PROVE TopInv'
    BY <1>1 DEF T!topologyLoaded
  <1>2. ASSUME NEW l \in top.loads, T!topologyFailed(l) PROVE TopInv'
    BY <1>0, <1>2 DEF T!topologyFailed
  <1>3. CASE T!loadTopology
    BY <1>0, <1>3 DEF T!loadTopology
  <1>4. CASE T!leave
    <2>1. (top \in {T!Opened, T!Gone})'
      BY <1>4 DEF T!leave, T!Gone, T!Opened
    <2> QED BY <2>1, TopOpened, PTL
  <1>5. CASE UNCHANGED top
    BY <1>5
  <1> QED BY <1>1, <1>2, <1>3, <1>4, <1>5 DEF T!Next, T!AnswerStep

-----------------------------------------------------------------------------
(* The console *)

\* A page that is not open and has nothing under way.
AppRest == ~ap.mounted /\ ap.loads = {} /\ ap.task.pc # "sent"
EnvRest == ~ev.mounted /\ ev.loads = {} /\ ev.task.pc # "sent" /\ ev.copy.pc # "sent"
ElRest == ~el.mounted /\ el.loads = {} /\ el.task.pc # "sent"

\* Of the pages that change the collections at most one is not at rest.
OnePage == (AppRest /\ EnvRest) \/ (AppRest /\ ElRest) \/ (EnvRest /\ ElRest)

\* The inductive invariant.
ConsoleInv ==
  /\ ServerInv /\ OnePage
  /\ AppInv(ap) /\ AppOwn(ap, items[AppPlace])
  /\ EnvInv(ev) /\ EnvOwn(ev, items[ev.at])
  /\ ElInv(el) /\ ElOwn(el, items[el.at])
  /\ InsInv /\ TopInv

\* A page at rest takes no step, and its part of the invariant holds whatever
\* the server's collections become.
LEMMA AppRests == AppRest => ~A!Next /\ \A S : AppOwn(ap, S)
  <1> SUFFICES ASSUME AppRest PROVE ~A!Next /\ \A S : AppOwn(ap, S)
    OBVIOUS
  <1>1. ~ap.mounted /\ ap.loads = {} /\ ap.task.pc # "sent"
    BY DEF AppRest
  <1>2. ~A!LoadStep /\ ~A!TaskStep
    BY <1>1 DEF A!LoadStep, A!TaskStep, A!taskAnswered, A!taskFailed
  <1>3. ~A!User
    BY <1>1 DEF A!User, A!handleSearch, A!handlePageSizeChange, A!chooseDelete, A!handleCreate, A!handleClearSearch,
                A!handleNextPage, A!handlePreviousPage, A!openCreate, A!closeDialog, A!handleDelete, A!leave,
                A!Free, A!CanLoad, A!tableShown, A!dialogShown
  <1> QED BY <1>1, <1>2, <1>3 DEF A!Next, AppOwn

LEMMA EnvRests == EnvRest => ~V!Next /\ \A S : EnvOwn(ev, S)
  <1> SUFFICES ASSUME EnvRest PROVE ~V!Next /\ \A S : EnvOwn(ev, S)
    OBVIOUS
  <1>1. ~ev.mounted /\ ev.loads = {} /\ ev.task.pc # "sent" /\ ev.copy.pc # "sent"
    BY DEF EnvRest
  <1>2. ~V!LoadStep /\ ~V!TaskStep /\ ~V!CopyStep
    BY <1>1 DEF V!LoadStep, V!TaskStep, V!taskAnswered, V!taskFailed, V!CopyStep, V!copyFinished, V!copyFailed
  <1>3. ~V!User
    BY <1>1 DEF V!User, V!chooseDelete, V!handleCreate, V!startCopy, V!openCreate, V!closeDialog, V!handleDelete,
                V!leave, V!navigate, V!Free, V!CanLoad, V!dialogShown
  <1> QED BY <1>1, <1>2, <1>3 DEF V!Next, EnvOwn

LEMMA ElRests == ElRest => ~E!Next /\ \A S : ElOwn(el, S)
  <1> SUFFICES ASSUME ElRest PROVE ~E!Next /\ \A S : ElOwn(el, S)
    OBVIOUS
  <1>1. ~el.mounted /\ el.loads = {} /\ el.task.pc # "sent"
    BY DEF ElRest
  <1>2. ~E!LoadStep /\ ~E!TaskStep
    BY <1>1 DEF E!LoadStep, E!TaskStep, E!taskAnswered, E!taskFailed
  <1>3. ~E!User
    BY <1>1 DEF E!User, E!handleSearchSubmit, E!handlePageSizeChange, E!chooseDelete, E!handleCreate,
                E!handleClearSearch, E!handleLoadMore, E!openCreate, E!closeDialog, E!handleDelete, E!leave,
                E!navigate, E!Idle, E!CanLoad, E!tableShown, E!dialogShown
  <1> QED BY <1>1, <1>2, <1>3 DEF E!Next, ElOwn

\* It holds when the first page is opened ...
LEMMA ConsoleInit == Init => ConsoleInv
  <1> SUFFICES ASSUME Init PROVE ConsoleInv
    OBVIOUS
  <1>1. PICK page \in {"apps", "envs", "elements", "instances", "topology"} :
               /\ ap = IF page = "apps" THEN A!Opened ELSE A!Gone(A!IdleTask)
               /\ ev = IF page = "envs" THEN V!Opened(CHOOSE p \in EnvPlace : TRUE)
                       ELSE V!Gone(V!IdleTask, V!IdleTask)
               /\ el = IF page = "elements" THEN E!Opened(CHOOSE p \in ElementPlace : TRUE)
                       ELSE E!Gone(E!IdleTask)
               /\ ins \in IF page = "instances" THEN {I!Opened(a, e, k) : a \in App, e \in Text, k \in Text}
                          ELSE {I!Gone}
               /\ top = IF page = "topology" THEN T!Opened ELSE T!Gone
    BY DEF Init
  <1>2. ServerInv
    BY CollectionsAssumption DEF Init, ServerInv, ServerType
  <1>3. (CHOOSE p \in EnvPlace : TRUE) \in Place /\ (CHOOSE p \in ElementPlace : TRUE) \in Place
    <2>1. (CHOOSE p \in EnvPlace : TRUE) \in EnvPlace /\ (CHOOSE p \in ElementPlace : TRUE) \in ElementPlace
      BY ConsoleAssumption
    <2> QED BY <2>1, ConsoleAssumption
  <1>4. AppInv(ap) /\ AppOwn(ap, items[AppPlace])
    BY <1>1, AppIdle, AppOpened, AppGone
  <1>5. EnvInv(ev) /\ EnvOwn(ev, items[ev.at])
    BY <1>1, <1>3, EnvIdle, EnvOpened, EnvGone
  <1>6. ElInv(el) /\ ElOwn(el, items[el.at])
    BY <1>1, <1>3, ElIdle, ElOpened, ElGone
  <1>7. InsInv
    <2>1. ins = I!Gone \/ \E a \in App, e \in Text, k \in Text : ins = I!Opened(a, e, k)
      BY <1>1
    <2> QED BY <2>1, InsOpened, InsGone
  <1>8. TopInv
    BY <1>1, TopOpened
  <1>9. page # "apps" => AppRest
    <2> SUFFICES ASSUME ap = A!Gone(A!IdleTask) PROVE AppRest
      BY <1>1
    <2>1. ap.mounted = FALSE /\ ap.loads = {} /\ ap.task = A!IdleTask
      BY DEF A!Gone, A!Opened
    <2> QED BY <2>1, AppIdle DEF AppRest
  <1>10. page # "envs" => EnvRest
    <2> SUFFICES ASSUME ev = V!Gone(V!IdleTask, V!IdleTask) PROVE EnvRest
      BY <1>1
    <2>1. ev.mounted = FALSE /\ ev.loads = {} /\ ev.task = V!IdleTask /\ ev.copy = V!IdleTask
      BY DEF V!Gone, V!Opened
    <2> QED BY <2>1, EnvIdle DEF EnvRest
  <1>11. page # "elements" => ElRest
    <2> SUFFICES ASSUME el = E!Gone(E!IdleTask) PROVE ElRest
      BY <1>1
    <2>1. el.mounted = FALSE /\ el.loads = {} /\ el.task = E!IdleTask
      BY DEF E!Gone, E!Opened
    <2> QED BY <2>1, ElIdle DEF ElRest
  <1>12. OnePage
    BY <1>9, <1>10, <1>11 DEF OnePage
  <1> QED BY <1>2, <1>4, <1>5, <1>6, <1>7, <1>8, <1>12 DEF ConsoleInv

\* The parts of the invariant hold again when their page is not touched.
LEMMA Untouched ==
  ASSUME ConsoleInv
  PROVE  /\ UNCHANGED ap => (AppRest => AppRest') /\ AppInv(ap')
         /\ UNCHANGED ev => (EnvRest => EnvRest') /\ EnvInv(ev')
         /\ UNCHANGED el => (ElRest => ElRest') /\ ElInv(el')
         /\ UNCHANGED ap /\ (AppRest \/ UNCHANGED items) => AppOwn(ap', items'[AppPlace])
         /\ UNCHANGED ev /\ (EnvRest \/ UNCHANGED items) => EnvOwn(ev', items'[ev'.at])
         /\ UNCHANGED el /\ (ElRest \/ UNCHANGED items) => ElOwn(el', items'[el'.at])
         /\ UNCHANGED serverVars => ServerInv' /\ UNCHANGED items
         /\ UNCHANGED ins => InsInv'
         /\ UNCHANGED top => TopInv'
  <1>1. /\ UNCHANGED ap => (AppRest => AppRest') /\ AppInv(ap')
        /\ UNCHANGED ap /\ (AppRest \/ UNCHANGED items) => AppOwn(ap', items'[AppPlace])
    BY AppRests DEF ConsoleInv, AppRest
  <1>2. /\ UNCHANGED ev => (EnvRest => EnvRest') /\ EnvInv(ev')
        /\ UNCHANGED ev /\ (EnvRest \/ UNCHANGED items) => EnvOwn(ev', items'[ev'.at])
    BY EnvRests DEF ConsoleInv, EnvRest
  <1>3. /\ UNCHANGED el => (ElRest => ElRest') /\ ElInv(el')
        /\ UNCHANGED el /\ (ElRest \/ UNCHANGED items) => ElOwn(el', items'[el'.at])
    BY ElRests DEF ConsoleInv, ElRest
  <1>4. UNCHANGED serverVars => ServerInv' /\ UNCHANGED items
    BY DEF ConsoleInv, ServerInv, ServerType, serverVars
  <1>5. UNCHANGED ins => InsInv'
    BY InsStep DEF ConsoleInv
  <1>6. UNCHANGED top => TopInv'
    BY TopStep DEF ConsoleInv
  <1> QED BY <1>1, <1>2, <1>3, <1>4, <1>5, <1>6

\* ... and every step keeps it: of one page, of the router or of others.
LEMMA ConsoleStep ==
  ASSUME ConsoleInv, [Next]_vars
  PROVE  ConsoleInv'
  <1>1. /\ ServerInv /\ OnePage /\ InsInv /\ TopInv /\ AppInv(ap) /\ AppOwn(ap, items[AppPlace])
        /\ EnvInv(ev) /\ EnvOwn(ev, items[ev.at]) /\ ElInv(el) /\ ElOwn(el, items[el.at])
    BY DEF ConsoleInv
  <1>2. SUFFICES /\ ServerInv' /\ OnePage' /\ InsInv' /\ TopInv'
                 /\ AppInv(ap') /\ AppOwn(ap', items'[AppPlace])
                 /\ EnvInv(ev') /\ EnvOwn(ev', items'[ev'.at])
                 /\ ElInv(el') /\ ElOwn(el', items'[el'.at])
    BY DEF ConsoleInv
  <1>3. CASE A!Next /\ UNCHANGED <<ev, el, ins, top>>
    <2>1. EnvRest /\ ElRest
      BY <1>1, <1>3, AppRests DEF OnePage
    <2>2. AppInv(ap') /\ AppOwn(ap', items'[AppPlace]) /\ ServerInv'
      BY <1>1, <1>3, AppStep
    <2>3. OnePage'
      BY <1>3, <2>1, Untouched DEF OnePage
    <2> QED BY <1>3, <2>1, <2>2, <2>3, Untouched
  <1>4. CASE V!Next /\ UNCHANGED <<ap, el, ins, top>>
    <2>1. AppRest /\ ElRest
      BY <1>1, <1>4, EnvRests DEF OnePage
    <2>2. EnvInv(ev') /\ EnvOwn(ev', items'[ev'.at]) /\ ServerInv'
      BY <1>1, <1>4, EnvStep
    <2>3. OnePage'
      BY <1>4, <2>1, Untouched DEF OnePage
    <2> QED BY <1>4, <2>1, <2>2, <2>3, Untouched
  <1>5. CASE E!Next /\ UNCHANGED <<ap, ev, ins, top>>
    <2>1. AppRest /\ EnvRest
      BY <1>1, <1>5, ElRests DEF OnePage
    <2>2. ElInv(el') /\ ElOwn(el', items'[el'.at]) /\ ServerInv'
      BY <1>1, <1>5, ElStep
    <2>3. OnePage'
      BY <1>5, <2>1, Untouched DEF OnePage
    <2> QED BY <1>5, <2>1, <2>2, <2>3, Untouched
  <1>6. ASSUME UNCHANGED <<serverVars, ap, ev, el>>,
               (I!Next /\ UNCHANGED top) \/ (T!Next /\ UNCHANGED ins) \/ UNCHANGED <<ins, top>>
        PROVE  /\ ServerInv' /\ OnePage' /\ InsInv' /\ TopInv'
               /\ AppInv(ap') /\ AppOwn(ap', items'[AppPlace])
               /\ EnvInv(ev') /\ EnvOwn(ev', items'[ev'.at])
               /\ ElInv(el') /\ ElOwn(el', items'[el'.at])
    <2>1. InsInv' /\ TopInv'
      BY <1>1, <1>6, InsStep, TopStep
    <2>2. UNCHANGED ap /\ UNCHANGED ev /\ UNCHANGED el /\ UNCHANGED items /\ ServerInv'
      BY <1>6, Untouched
    <2>3. OnePage'
      BY <1>1, <2>2, Untouched DEF OnePage
    <2> QED BY <2>1, <2>2, <2>3, Untouched
  <1> QED BY <1>3, <1>4, <1>5, <1>6 DEF Next, vars

\* The inductive invariant holds.
LEMMA ConsoleInvariant == Spec => []ConsoleInv
  BY ConsoleInit, ConsoleStep, PTL DEF Spec

\* Once the last load is answered, every page shows what its controls and its
\* location ask for, in whatever order the answers came.
THEOREM ShownMatchesControlsAlways == Spec => []ShownMatchesControls
  <1>1. ConsoleInv => ShownMatchesControls
    <2> SUFFICES ASSUME ConsoleInv PROVE ShownMatchesControls
      OBVIOUS
    <2>1. A!RowsOfRequest
      BY DEF ConsoleInv, AppInv, AppRows, AppSettled, A!RowsOfRequest, A!Settled
    <2>2. V!RowsOfLocation
      BY DEF ConsoleInv, EnvInv, EnvRows, EnvSettled, V!RowsOfLocation, V!Settled
    <2>3. E!RowsOfLocation
      <3>1. ElBase(el)
        BY DEF ConsoleInv, ElInv
      <3> QED BY <3>1 DEF ElBase, ElSettled, E!RowsOfLocation, E!Settled
    <2>4. I!RowsOfFilter /\ I!DetailOfRow /\ I!KeysOfFields
      BY DEF ConsoleInv, InsInv, ListInv, DetailInv, KeysInv
    <2> QED BY <2>1, <2>2, <2>3, <2>4 DEF ShownMatchesControls
  <1> QED BY <1>1, ConsoleInvariant, PTL

\* Once the last load is answered, what this page created or deleted is or is
\* not among the rows, unless others changed it since.
THEOREM OwnChangesShownAlways == Spec => []OwnChangesShown
  <1>1. ConsoleInv => OwnChangesShown
    <2> SUFFICES ASSUME ConsoleInv PROVE OwnChangesShown
      OBVIOUS
    <2>1. A!OwnShown
      <3>1. AppOwn(ap, items[AppPlace])
        BY DEF ConsoleInv
      <3> QED BY <3>1, AppSame DEF AppOwn, AppSettled, OwnPage, A!OwnShown, A!Settled
    <2>2. V!OwnShown
      <3>1. EnvOwn(ev, items[ev.at])
        BY DEF ConsoleInv
      <3>2. V!Cardinality(ev.envs) = Cardinality(ev.envs)
        BY DEF V!Cardinality, Cardinality
      <3> QED BY <3>1, <3>2, EnvSame DEF EnvOwn, EnvSettled, OwnRows, V!OwnShown, V!Settled
    <2>3. E!OwnShown
      <3>1. ElOwn(el, items[el.at])
        BY DEF ConsoleInv
      <3>2. \A i \in Item : i >= 0
        BY Names
      <3> QED BY <3>1, <3>2, ElSame DEF ElOwn, ElSettled, OwnPage, E!OwnShown, E!Settled
    <2> QED BY <2>1, <2>2, <2>3 DEF OwnChangesShown
  <1> QED BY <1>1, ConsoleInvariant, PTL

\* The elements never repeat and stay in order over any number of "load more",
\* and the cursors kept for "previous" lead from the first page to this one.
THEOREM PagingIsSoundAlways == Spec => []PagingIsSound
  <1>1. ConsoleInv => PagingIsSound
    <2> SUFFICES ASSUME ConsoleInv PROVE PagingIsSound
      OBVIOUS
    <2>1. E!RowsAscend
      <3>1. Ordered(el.page, 0)
        BY DEF ConsoleInv, ElInv
      <3> QED BY <3>1, ElSame DEF Ordered, Ascends, E!RowsAscend
    <2>2. A!WayBack
      BY DEF ConsoleInv, AppInv, AppWay, A!WayBack
    <2> QED BY <2>1, <2>2 DEF PagingIsSound
  <1> QED BY <1>1, ConsoleInvariant, PTL

\* The graph of the topology has every instance in one node, attached to the
\* agent it names, and every database linked to every agent.
THEOREM GraphIsFaithfulAlways == Spec => []GraphIsFaithful
  <1>1. ConsoleInv => GraphIsFaithful
    BY GraphSpec DEF ConsoleInv, TopInv, T!PageOK, GraphIsFaithful
  <1> QED BY <1>1, ConsoleInvariant, PTL
=============================================================================
