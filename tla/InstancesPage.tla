--------------------------- MODULE InstancesPage ---------------------------
(***************************************************************************)
(* The console's page of instances: the list, all of it or filtered by an  *)
(* element, the filter's three fields with the candidates offered for      *)
(* them, and the detail of one instance.  Three kinds of requests overlap, *)
(* each with a sequence number of its own; the three fields share one.     *)
(* Candidates are abstracted to what they were read for, the instances the *)
(* cluster knows to any set.  One record, ins, is the page's state.        *)
(***************************************************************************)
EXTENDS Integers, FiniteSets

CONSTANTS
  Instance,    \* instances
  App,         \* texts in the first field; 0 is the empty one
  Text,        \* texts in the other two; 0 is the empty one
  MaxRequest   \* bound on the page's requests

VARIABLE ins

NoKeys == <<0, 0>>
NoFilter == <<0, 0, 0>>

\* A filter needs all three fields, or everything is listed.
filter(a, e, k) == IF 0 \in {a, e, k} THEN NoFilter ELSE <<a, e, k>>

Candidates(id, kind, a, e) == [id |-> id, kind |-> kind, app |-> a, env |-> e]

firstCandidates(a, e) ==
  {Candidates(1, "apps", 0, 0)}
    \cup (IF a # 0 THEN {Candidates(2, "envs", a, 0)} ELSE {})
    \cup (IF a # 0 /\ e # 0 THEN {Candidates(3, "keys", a, e)} ELSE {})

\* Opened with the search parameters a, e and k: the candidates of all three
\* fields and the list are asked for at once.  History: asked and answerTo,
\* the filter of the last request for the list and that of the rows; edited,
\* that fields were typed or cleared while candidates were awaited.
Opened(a, e, k) ==
  [mounted |-> TRUE, app |-> a, env |-> e, key |-> k,
   appOptions |-> FALSE, envsOf |-> 0, keysOf |-> NoKeys,
   candidates |-> firstCandidates(a, e), candidateSeq |-> Cardinality(firstCandidates(a, e)),
   candidateLoading |-> TRUE, rows |-> {}, failed |-> FALSE, loading |-> TRUE,
   seq |-> 1, lists |-> {[id |-> 1, by |-> filter(a, e, k)]},
   detail |-> 0, detailError |-> FALSE, detailLoading |-> FALSE, detailSeq |-> 1, details |-> {},
   asked |-> filter(a, e, k), answerTo |-> NoFilter, edited |-> FALSE]

Gone == [Opened(0, 0, 0) EXCEPT !.mounted = FALSE, !.candidates = {}, !.candidateLoading = FALSE,
                                !.lists = {}, !.loading = FALSE]

CanAsk == ins.mounted /\ ins.seq + ins.candidateSeq + ins.detailSeq < MaxRequest

-----------------------------------------------------------------------------
(* The list *)

\* loadAll and applyFilter: the detail, shown or awaited, is given up.
applyFilter(r, f) ==
  [r EXCEPT !.seq = @ + 1, !.lists = @ \cup {[id |-> r.seq + 1, by |-> f]}, !.asked = f,
            !.detailSeq = @ + 1, !.detail = 0, !.detailError = FALSE, !.detailLoading = FALSE]

isLatest(l) == l.id = ins.seq

listLoaded(l) ==
  \E S \in SUBSET Instance :
    ins' = [(IF isLatest(l) THEN [ins EXCEPT !.rows = S, !.failed = FALSE, !.loading = FALSE, !.answerTo = l.by]
             ELSE ins) EXCEPT !.lists = @ \ {l}]

listFailed(l) ==
  ins' = [(IF isLatest(l) THEN [ins EXCEPT !.rows = {}, !.failed = TRUE, !.loading = FALSE]
           ELSE ins) EXCEPT !.lists = @ \ {l}]

handleFilter ==
  /\ CanAsk /\ ~ins.loading
  /\ ins' = applyFilter([ins EXCEPT !.loading = TRUE, !.failed = FALSE], filter(ins.app, ins.env, ins.key))

-----------------------------------------------------------------------------
(* The fields and their candidates *)

isLatestCandidate(c) == c.id = ins.candidateSeq

\* Candidates are awaited and the fields change under them.
touched(r) == [r EXCEPT !.edited = @ \/ \E c \in r.candidates : isLatestCandidate(c)]

ask(r, kind, a, e) ==
  [r EXCEPT !.candidateSeq = @ + 1, !.candidateLoading = TRUE, !.edited = FALSE,
            !.candidates = @ \cup {Candidates(r.candidateSeq + 1, kind, a, e)}]

\* Nothing to ask for: what was awaited is given up all the same.
askNothing(r) == [r EXCEPT !.candidateSeq = @ + 1, !.candidateLoading = FALSE, !.edited = FALSE]

loadEnvCandidates(r, a) ==
  IF a = 0 THEN askNothing([r EXCEPT !.envsOf = 0, !.keysOf = NoKeys]) ELSE ask(r, "envs", a, 0)

loadKeyCandidates(r, a, e) ==
  IF a = 0 \/ e = 0 THEN askNothing([r EXCEPT !.keysOf = NoKeys]) ELSE ask(r, "keys", a, e)

\* What an answer with candidates, or without any, makes of the options.
options(c, found) ==
  CASE c.kind = "apps" -> [ins EXCEPT !.appOptions = found]
    [] c.kind = "envs" -> [ins EXCEPT !.envsOf = IF found THEN c.app ELSE 0, !.keysOf = NoKeys]
    [] c.kind = "keys" -> [ins EXCEPT !.keysOf = IF found THEN <<c.app, c.env>> ELSE NoKeys]

\* An error leaves no options, like an answer without any.
candidatesAnswered(c, found) ==
  ins' = [(IF isLatestCandidate(c) THEN [options(c, found) EXCEPT !.candidateLoading = FALSE] ELSE ins)
            EXCEPT !.candidates = @ \ {c}]

typeApp(a) ==
  /\ ins.mounted
  /\ ins' = touched([ins EXCEPT !.app = a, !.env = 0, !.key = 0, !.envsOf = 0, !.keysOf = NoKeys])

\* An option is chosen, a typed text entered, or the field cleared: the old
\* environments are on offer until the new ones arrive.
chooseApp(a) ==
  /\ CanAsk
  /\ ins' = loadEnvCandidates([ins EXCEPT !.app = a, !.env = 0, !.key = 0, !.keysOf = NoKeys], a)

typeEnv(e) ==
  /\ ins.mounted /\ ins.app # 0
  /\ ins' = touched([ins EXCEPT !.env = e, !.key = 0, !.keysOf = NoKeys])

chooseEnv(e) ==
  /\ CanAsk /\ ins.app # 0
  /\ ins' = loadKeyCandidates([ins EXCEPT !.env = e, !.key = 0], ins.app, e)

setKey(k) ==
  /\ ins.mounted /\ ins.app # 0 /\ ins.env # 0
  /\ ins' = [ins EXCEPT !.key = k]

handleRefreshAll ==
  /\ CanAsk /\ ~ins.loading
  /\ ins' = applyFilter(touched([ins EXCEPT !.loading = TRUE, !.failed = FALSE, !.app = 0, !.env = 0,
                                            !.key = 0, !.envsOf = 0, !.keysOf = NoKeys]), NoFilter)

-----------------------------------------------------------------------------
(* The detail of an instance *)

tableShown == ins.mounted /\ ~ins.loading /\ ~ins.failed /\ ins.rows # {}

handleLoadDetail(i) ==
  /\ CanAsk /\ tableShown /\ i \in ins.rows /\ ~ins.detailLoading
  /\ ins' = [ins EXCEPT !.detailSeq = @ + 1, !.detailLoading = TRUE, !.detailError = FALSE,
                        !.details = @ \cup {[id |-> ins.detailSeq + 1, of |-> i]}]

\* The detail arrives (found), or an error.
detailAnswered(d, found) ==
  ins' = [(IF d.id = ins.detailSeq
           THEN [ins EXCEPT !.detail = IF found THEN d.of ELSE 0, !.detailError = ~found, !.detailLoading = FALSE]
           ELSE ins) EXCEPT !.details = @ \ {d}]

leave == ins.mounted /\ ins' = Gone

AnswerStep ==
  \/ \E l \in ins.lists : listLoaded(l) \/ listFailed(l)
  \/ \E c \in ins.candidates, found \in BOOLEAN : candidatesAnswered(c, found)
  \/ \E d \in ins.details, found \in BOOLEAN : detailAnswered(d, found)

Next ==
  \/ AnswerStep \/ handleFilter \/ handleRefreshAll \/ leave
  \/ \E a \in App : typeApp(a) \/ chooseApp(a)
  \/ \E e \in Text : typeEnv(e) \/ chooseEnv(e) \/ setKey(e)
  \/ \E i \in Instance : handleLoadDetail(i)
-----------------------------------------------------------------------------
(* The parts of the properties that concern this page *)

PageOK ==
  /\ ins.app \in App /\ ins.env \in Text /\ ins.key \in Text /\ ins.appOptions \in BOOLEAN
  /\ ins.envsOf \in App /\ ins.keysOf \in App \X Text
  /\ ins.candidateLoading \in BOOLEAN /\ ins.loading \in BOOLEAN /\ ins.detailLoading \in BOOLEAN
  /\ ins.rows \subseteq Instance /\ ins.detail \in Instance \cup {0}

RowsOfFilter == ins.mounted /\ ~ins.loading /\ ~ins.failed => ins.answerTo = ins.asked

DetailOfRow ==
  /\ ins.detail # 0 => ins.detail \in ins.rows /\ ~ins.failed
  /\ \A d \in ins.details : d.id = ins.detailSeq => d.of \in ins.rows

KeysOfFields ==
  ~ins.edited /\ ~ins.candidateLoading => ins.keysOf \in {NoKeys, <<ins.app, ins.env>>}

Locked == ins.mounted /\ (ins.loading \/ ins.candidateLoading \/ ins.detailLoading)
=============================================================================
