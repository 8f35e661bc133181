--------------------------- MODULE QuerySnapshots ---------------------------
(***************************************************************************)
(* memory_query and its cursors (src/src/tools.ts, src/src/db.ts,          *)
(* src/src/internal/reranker.ts): a query that has more results than a     *)
(* page stores the list of them, and a cursor is a place in that list.     *)
(* Pages are made of what the listed entries have become by then.          *)
(*                                                                         *)
(* An entry is known by its rank in what a query retrieves.                *)
(***************************************************************************)
EXTENDS Integers, FiniteSets, Sequences, SequencesExt

CONSTANTS
  Principals,
  Entries,       \* numbers, by relevance
  Scopes,        \* the sets of entries that rules let somebody read
  Canonical,     \* entries that a broad query is given beyond what it matches
  RerankWindow,  \* QUERY_RERANK_WINDOW
  MaxMatches,    \* MAX_QUERY_SNAPSHOT_MATCHES
  MaxOwn,        \* MAX_ACTIVE_QUERY_SNAPSHOTS_PER_PRINCIPAL
  MaxAll,        \* MAX_ACTIVE_QUERY_SNAPSHOTS_GLOBAL
  MaxLimit,      \* bound on the page size that is asked for
  MaxQueries,    \* bound on the snapshots ever stored
  MaxChanges     \* bound on changes of entries and access

VARIABLES
  entry,      \* entry -> "live", "expired" or "gone", no longer current
  access,     \* principal -> the entries its rules let it read
  asking,     \* principal -> the access of its query that awaits an embedding
  snapshots,  \* rows of query_snapshots, and the cursors into them
  stored,     \* snapshots stored so far
  changes     \* changes so far

vars == <<entry, access, asking, snapshots, stored, changes>>

\* A cursor has seen the results of the pages it was reached by.
Cursor(results) == [at : 1 .. Len(results) + 1, seen : SUBSET ToSet(results)]

-----------------------------------------------------------------------------
(* Results *)

\* The WHERE clauses of every retrieval: current, not expired, and in the
\* namespaces that the rules let the caller read.
Eligible(readable) == {e \in readable : entry[e] = "live"}

\* The list of some entries, most relevant first.
InOrder(S) == {q \in [1 .. Cardinality(S) -> S] : \A i, j \in DOMAIN q : i < j => q[i] < q[j]}

\* What a query may match.
Ranked(S) == UNION {InOrder(T) : T \in SUBSET S}

Upto(q, n) == SubSeq(q, 1, IF Len(q) < n THEN Len(q) ELSE n)

\* The results behind the window that are not in the head by injection.
Behind(ranked, head) == {ranked[i] : i \in RerankWindow + 1 .. Len(ranked)} \ head

\* injectCanonicalQueryEntries, injectAttentionQueryEntries: a broad question
\* is given the entries that such a question is about, those that are current.
Injected(current) == {{}, Canonical \cap current}

\* rerankQueryResults: the scores can put the head into any order.
Reranked(head) == SetToSeqs(head)

\* The window in any order, with what is injected into it, then the others; what
\* may not be read or is suppressed is left out, and the list is cut.
Lists(ranked, injected, readable) ==
  LET head == ToSet(Upto(ranked, RerankWindow)) \cup injected
  IN {Upto(h \o tail, MaxMatches) : h \in Reranked(head \cap readable),
                                    tail \in InOrder(Behind(ranked, head) \cap readable)}

-----------------------------------------------------------------------------
(* Pages *)

Visible(results) == {i \in DOMAIN results : entry[results[i]] = "live"}

\* The first places from a place on that can be shown.
Page(results, at, limit) ==
  LET ahead == {i \in Visible(results) : i >= at}
  IN {i \in ahead : Cardinality({j \in ahead : j < i}) < limit}

HasMore(results, at, limit) ==
  {i \in Visible(results) : i >= at} # Page(results, at, limit)

\* Mutant: the next page starts as many places on as there were results.
PlaceAfterAs(page, at) == at + Cardinality(page)

\* The place behind the last result of a page.
PlaceAfter(page, at) == CHOOSE i \in {j + 1 : j \in page} : \A j \in page : i > j

\* Where a page leaves the one who turned it; the last one leads to the end.
After(results, cursor, limit) ==
  LET page == Page(results, cursor.at, limit)
  IN [at |-> IF HasMore(results, cursor.at, limit) THEN PlaceAfter(page, cursor.at)
             ELSE Len(results) + 1,
      seen |-> cursor.seen \cup {results[i] : i \in page}]

-----------------------------------------------------------------------------
(* Storage *)

Start == [at |-> 1, seen |-> {}]

Live(S) == {s \in S : s.live}
OwnOf(S, p) == {s \in Live(S) : s.owner = p}
Fits(S, p) == Cardinality(OwnOf(S, p)) < MaxOwn /\ Cardinality(Live(S)) < MaxAll

\* Mutant: room for all is made by whoever has the oldest.
RoomsAs(p) ==
  {S \in SUBSET Live(snapshots) :
     /\ Fits(S, p)
     /\ \A s \in S, t \in Live(snapshots) \ S : t.id < s.id}

\* What eviction may leave: one's own go, from the oldest on; expired rows are
\* pruned before.
Rooms(p) ==
  {S \in SUBSET Live(snapshots) :
     /\ Fits(S, p)
     /\ Live(snapshots) \ OwnOf(snapshots, p) \subseteq S
     /\ \A s \in OwnOf(S, p), t \in Live(snapshots) \ S : t.id < s.id}

\* As few as it takes, and none at all if there is no room to be made.
Evicted(p) == CHOOSE S \in Rooms(p) : \A T \in Rooms(p) : Cardinality(T) <= Cardinality(S)

-----------------------------------------------------------------------------
(* memory_query *)

\* The request's access is resolved when it arrives; its embedding is awaited.
Ask(p) ==
  /\ asking[p] = {}
  /\ stored + Cardinality({q \in Principals : asking[q] # {}}) < MaxQueries
  /\ asking' = [asking EXCEPT ![p] = {access[p]}]
  /\ UNCHANGED <<entry, access, snapshots, stored, changes>>

\* The answer of a query, which a filter or a lost embedding only ranks otherwise.
\* A list that has more than the first page is stored, or the query refused.
Answer(p, results, limit, readable) ==
  IF ~HasMore(results, 1, limit) THEN UNCHANGED <<snapshots, stored>>
  ELSE \/ /\ Rooms(p) # {}
          /\ stored' = stored + 1
          /\ snapshots' = Evicted(p) \cup
               {[id |-> stored + 1, owner |-> p, access |-> readable, results |-> results,
                 live |-> TRUE, hidden |-> {}, cursors |-> {After(results, Start, limit)}]}
       \/ Rooms(p) = {} /\ UNCHANGED <<snapshots, stored>>

Query(p) ==
  \E readable \in asking[p], limit \in 1 .. MaxLimit :
    /\ \E ranked \in Ranked(Eligible(readable)), injected \in Injected(Eligible(Entries)) :
         \E results \in Lists(ranked, injected, readable) : Answer(p, results, limit, readable)
    /\ asking' = [asking EXCEPT ![p] = {}]
    /\ UNCHANGED <<entry, access, changes>>

\* A cursor is its owner's, under the access it was given to. Other arguments
\* beside it than the query's are refused.
MayResume(p, s) == s.live /\ s.access = access[p] /\ s.owner = p

\* A cursor is followed, as often as one likes; rows that have expired are pruned.
Resume(p, s, c) ==
  /\ MayResume(p, s)
  /\ c.at <= Len(s.results)
  /\ \E limit \in 1 .. MaxLimit :
       snapshots' = Live(snapshots \ {s}) \cup
         {[s EXCEPT !.cursors = @ \cup {After(s.results, c, limit)}]}
  /\ UNCHANGED <<entry, access, asking, stored, changes>>

-----------------------------------------------------------------------------
(* What changes meanwhile *)

Changes(e, status) ==
  /\ changes < MaxChanges
  /\ changes' = changes + 1
  /\ entry' = [entry EXCEPT ![e] = status]
  /\ snapshots' = {[s EXCEPT !.hidden = IF status = "live" THEN @ ELSE @ \cup {e}] : s \in snapshots}
  /\ UNCHANGED <<access, asking, stored>>

\* An entry is deleted or superseded, its validity passes, or a write extends it.
EntryGoes(e) == entry[e] # "gone" /\ Changes(e, "gone")
EntryExpires(e) == entry[e] = "live" /\ Changes(e, "expired")
EntryIsRenewed(e) == entry[e] = "expired" /\ Changes(e, "live")

\* memory-admin changes the rules of a principal, or revokes it.
ChangeAccess(p, readable) ==
  /\ changes < MaxChanges /\ readable # access[p]
  /\ changes' = changes + 1
  /\ access' = [access EXCEPT ![p] = readable]
  /\ UNCHANGED <<entry, asking, snapshots, stored>>

\* QUERY_SNAPSHOT_TTL_MS
SnapshotExpires(s) ==
  /\ s.live
  /\ snapshots' = (snapshots \ {s}) \cup {[s EXCEPT !.live = FALSE, !.cursors = {}]}
  /\ UNCHANGED <<entry, access, asking, stored, changes>>

-----------------------------------------------------------------------------

Init ==
  /\ entry \in [Entries -> {"live", "expired"}]
  /\ access \in [Principals -> Scopes]
  /\ asking = [p \in Principals |-> {}]
  /\ snapshots = {} /\ stored = 0 /\ changes = 0

Next ==
  \/ \E p \in Principals :
       \/ Ask(p) \/ Query(p)
       \/ \E s \in snapshots : \E c \in s.cursors : Resume(p, s, c)
       \/ \E readable \in Scopes : ChangeAccess(p, readable)
  \/ \E e \in Entries : EntryGoes(e) \/ EntryExpires(e) \/ EntryIsRenewed(e)
  \/ \E s \in snapshots : SnapshotExpires(s)

Spec == Init /\ [][Next]_vars

-----------------------------------------------------------------------------
(* Properties *)

\* Every variable has its type.
TypeOK ==
  /\ entry \in [Entries -> {"live", "expired", "gone"}]
  /\ access \in [Principals -> Scopes]
  /\ \A p \in Principals : asking[p] \subseteq Scopes
  /\ \A s \in snapshots :
       /\ s.owner \in Principals /\ s.access \in Scopes /\ s.live \in BOOLEAN
       /\ s.results \in Seq(Entries) /\ s.hidden \subseteq Entries
       /\ s.cursors \subseteq Cursor(s.results)
  /\ stored \in 0 .. MaxQueries /\ changes \in 0 .. MaxChanges

\* Whoever follows cursors through a list is shown every entry of it that stayed
\* visible all the while, and none of them twice, whatever page sizes were asked
\* for, which branch was taken again, and what vanished or came back meanwhile.
PagesSkipNothing ==
  \A s \in snapshots : \A c \in s.cursors :
    /\ \A i \in DOMAIN s.results : i < c.at =>
         s.results[i] \in c.seen \cup s.hidden
    /\ \A i \in DOMAIN s.results : i >= c.at => s.results[i] \notin c.seen

\* A query costs no other principal a list it can still page through, however
\* little room is left.
OthersKeepTheirs ==
  [][\A s \in Live(snapshots) :
       (\A t \in snapshots' : t.id # s.id) =>
         \E t \in snapshots' \ snapshots : t.owner = s.owner]_vars

=============================================================================
