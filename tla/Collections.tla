---------------------------- MODULE Collections ----------------------------
(***************************************************************************)
(* What the console's list pages are about: collections of named items     *)
(* (the applications, an application's environments, an environment's      *)
(* elements) that the server lists in the order of their names, page by    *)
(* page, and the requests that change them.                                *)
(***************************************************************************)
EXTENDS Integers, FiniteSets, Sequences, SequencesExt

CONSTANTS
  Place,     \* collections
  Item,      \* names of items, ordered as the server lists them
  Query,     \* search texts; 0 is the empty one
  Match,     \* the names a text matches
  PageSize,  \* rows per page on offer
  Seed,      \* the items at first
  MaxLoad,   \* bound on the loads of a page
  MaxOther   \* bound on other administrators' changes and lost answers

ASSUME CollectionsAssumption ==
  /\ Item \subseteq Nat \ {0} /\ PageSize \subseteq Nat \ {0} /\ PageSize # {}
  /\ 0 \in Query /\ Match \in [Query -> SUBSET Item] /\ Match[0] = Item
  /\ Seed \in [Place -> SUBSET Item] /\ \A p \in Place : IsFiniteSet(Seed[p])
  /\ MaxLoad \in Nat \ {0} /\ MaxOther \in Nat

VARIABLES
  items,   \* the items of each collection
  others   \* changes by other administrators and lost answers

serverVars == <<items, others>>

\* The names of a set in their order.
ascending(S) ==
  CHOOSE s \in [1..Cardinality(S) -> S] : \A i, j \in DOMAIN s : i < j => s[i] < s[j]

\* A page of collection p: at most n rows that match q, from name s on (from
\* the first if 0); if there are more, the name the next page starts with.
listed(p, q, n, s) ==
  LET found == ascending({i \in items[p] \cap Match[q] : i >= s})
      more == Len(found) > n
  IN [rows |-> IF more THEN SubSeq(found, 1, n) ELSE found,
      hasMore |-> more, nextSeek |-> IF more THEN found[n + 1] ELSE 0]

\* A new item must not exist; deleting one that is gone does nothing.
accepted(kind, p, i) ==
  \/ kind = "create" /\ i \notin items[p] /\ items' = [items EXCEPT ![p] = @ \cup {i}]
  \/ kind = "delete" /\ items' = [items EXCEPT ![p] = @ \ {i}]

\* An error comes back: the request failed, or its answer was lost.
failed(kind, p, i) ==
  \/ UNCHANGED serverVars
  \/ others < MaxOther /\ others' = others + 1 /\ accepted(kind, p, i)

OtherChange(p, i) ==
  /\ others < MaxOther
  /\ others' = others + 1
  /\ items' = [items EXCEPT ![p] = (@ \ {i}) \cup ({i} \ @)]

NoPage == [rows |-> <<>>, hasMore |-> FALSE, nextSeek |-> 0]
PageType == [rows : Seq(Item), hasMore : BOOLEAN, nextSeek : Item \cup {0}]

Rows(page) == ToSet(page.rows)

ServerType == items \in [Place -> SUBSET Item] /\ others \in 0..MaxOther
=============================================================================
