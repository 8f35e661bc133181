---------------------------- MODULE AuditHistory ----------------------------
(* memory_history (tools.ts, db.ts): a consumer pages back through the audit *)
(* log of the namespaces it may read, and polls for what is new, while       *)
(* others go on writing. Each row of the log has the next id; a page back    *)
(* asks for ids below its cursor, a poll for ids above the sync cursor of    *)
(* the first page.                                                           *)
EXTENDS NamespaceAccess, FiniteSets

CONSTANTS
  Namespaces,   \* the namespaces that are written
  RuleSets,     \* the callers: sets of rules
  Filters,      \* the filters of a request
  PageLimit,    \* rows of a page
  MaxLog        \* bound: the rows of the log

VARIABLES
  rules,    \* the caller's rules
  filter,   \* the filter of its requests
  log,      \* the audit log: the namespace of each row, by id
  reader    \* the consumer: what it got and the cursors it holds

vars == <<rules, filter, log, reader>>

NoCursor == MaxLog + 1

\* Every variable has its type.
TypeOK ==
  /\ rules \in RuleSets
  /\ filter \in Filters
  /\ log \in Seq(Namespaces) /\ Len(log) <= MaxLog
  /\ reader \in [got : SUBSET (1..MaxLog), older : 1..NoCursor, sync : 0..MaxLog,
                 begun : BOOLEAN, current : BOOLEAN]

Init ==
  /\ rules \in RuleSets
  /\ filter \in Filters
  /\ log = <<>>
  /\ reader = [got |-> {}, older |-> NoCursor, sync |-> 0, begun |-> FALSE, current |-> FALSE]

\* Some operation writes an audit row.
Log(n) ==
  /\ Len(log) < MaxLog
  /\ log' = Append(log, n)
  /\ reader' = [reader EXCEPT !.current = FALSE]
  /\ UNCHANGED <<rules, filter>>

\* The handler answers with nothing at once when the caller can read neither
\* the namespace of the filter nor anything below it.
Refused == /\ filter.kind # "none"
           /\ ~CanReadSubtree(rules, filter.at)
           /\ ~CanRead(rules, filter.at)

\* The rows that the query selects and that the caller may read.
Rows == {i \in DOMAIN log : ~Refused /\ SelectedBy(rules, filter, log[i])}
Visible(S) == {i \in S : CanRead(rules, log[i])}

\* The first so many of a set of ids, from one end or the other.
Newest(S) == {i \in S : Cardinality({j \in S : j > i}) < PageLimit}
Oldest(S) == {i \in S : Cardinality({j \in S : j < i}) < PageLimit}

Highest(S, none) == IF S = {} THEN none ELSE CHOOSE i \in S : \A j \in S : j <= i
Lowest(S, none) == IF S = {} THEN none ELSE CHOOSE i \in S : \A j \in S : i <= j

\* The sync cursor of the first page: its newest row, or the log's beginning.
FirstSync(page) == Highest(page, 0)

\* The cursor to the older rows: the page's oldest, while there are more.
OlderThan(page, all) == IF page = all THEN NoCursor ELSE Lowest(page, NoCursor)

\* The first page: the newest rows.
First ==
  /\ ~reader.begun
  /\ LET page == Newest(Rows)
     IN reader' = [got |-> Visible(page), older |-> OlderThan(page, Rows),
                   sync |-> FirstSync(page), begun |-> TRUE, current |-> TRUE]
  /\ UNCHANGED <<rules, filter, log>>

\* The page before the one with the cursor.
Older ==
  /\ reader.begun /\ reader.older # NoCursor
  /\ LET all == {i \in Rows : i < reader.older}
         page == Newest(all)
     IN reader' = [reader EXCEPT !.got = @ \cup Visible(page), !.older = OlderThan(page, all)]
  /\ UNCHANGED <<rules, filter, log>>

\* The rows after the sync cursor, oldest first; there are none left when the
\* page holds them all.
Poll ==
  /\ reader.begun /\ ~reader.current
  /\ LET all == {i \in Rows : i > reader.sync}
         page == Oldest(all)
     IN reader' = [reader EXCEPT !.got = @ \cup Visible(page), !.sync = Highest(page, @),
                                 !.current = page = all]
  /\ UNCHANGED <<rules, filter, log>>

Next == (\E n \in Namespaces : Log(n)) \/ First \/ Older \/ Poll

Spec == Init /\ [][Next]_vars

\* A consumer that has paged to the beginning and polled to the end has every
\* row of the namespaces that its rules and its filter let it see, and no other
\* row, whatever was written between its calls.
HistoryIsWhole ==
  reader.begun /\ reader.current /\ reader.older = NoCursor
    => reader.got = {i \in DOMAIN log : CanRead(rules, log[i]) /\ MatchesFilter(log[i], filter)}
=============================================================================
