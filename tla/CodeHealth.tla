----------------------------- MODULE CodeHealth -----------------------------
(* The code-health ledger of one producer in one namespace (code-health.ts,  *)
(* db.ts pruneCodeHealthRecords, the triggers of migrations 28 and 29).      *)
(* Records are immutable log entries that refer to each other; a record is   *)
(* kept for six months after it was stored, then its payload is deleted with *)
(* all that refers to it, and a tombstone keeps its id from being used again *)
(* until the same instant. An export pages through a snapshot of the ledger: *)
(* a consumer removes rows of its own only after a complete one.             *)
EXTENDS Naturals, FiniteSets, Sequences

CONSTANTS
  Records,      \* the payloads: [id, refs, corrects (at most one id), level,
                \* observed]
  Consumers,    \* the callers of an export
  Ceiling,      \* the highest level each may see
  Levels,       \* the ceilings under which the producer stores and deletes
  Freshness,    \* the age beyond which a new observation is refused
  Retention,    \* how long a record is kept
  Lifetime,     \* how long an export's snapshot is kept
  PageLimit,    \* the records of one page
  MaxDeletes,   \* bound: namespace deletes
  MaxTime       \* bound: the clock

VARIABLES
  ledger,       \* the rows of code_health_records, by record id
  exports,      \* the export each consumer is paging through
  gone,         \* ghost: the payloads whose rows, tombstones too, are gone
  torn,         \* ghost: records deleted only as a mate of a correction chain
  deletes,      \* bound: the deletes so far
  now

vars == <<ledger, exports, gone, torn, deletes, now>>

Ids == {r.id : r \in Records}

NoRow == [state |-> "none"]
NoExport == [open |-> FALSE]

\* A row whose payload is still stored, and one that was deleted.
Live(l) == {i \in Ids : l[i].state = "live"}
Tombs(l) == {i \in Ids : l[i].state = "tomb"}
Kept == {i \in Live(ledger) : ledger[i].expires > now}

Refs(i) == ledger[i].payload.refs \cup ledger[i].payload.corrects

Row == {NoRow}
       \cup [state : {"live"}, payload : Records, current : BOOLEAN,
             expires : 0..(MaxTime + Retention)]
       \cup [state : {"tomb"}, payload : Records, expires : 0..(MaxTime + Retention)]

\* Every variable has its type.
TypeOK ==
  /\ ledger \in [Ids -> Row]
  /\ \A i \in Ids : ledger[i].state # "none" => ledger[i].payload.id = i
  /\ gone \subseteq Records
  /\ torn \subseteq Ids
  /\ deletes \in 0..MaxDeletes
  /\ now \in 0..MaxTime
  /\ \A c \in Consumers : exports[c] # NoExport =>
       /\ exports[c].got \in Seq(Ids) /\ exports[c].items \in Seq(Ids)
       /\ exports[c].position \in Nat /\ exports[c].whole \subseteq Ids
       /\ exports[c].complete \in BOOLEAN /\ exports[c].invalid \in BOOLEAN
       /\ exports[c].expires \in 0..(MaxTime + Lifetime)

\* The records of the task a caller sees; a new one is validated with them all.
Context(ceiling) == {i \in Kept : ledger[i].payload.level <= ceiling}

\* The stored context is whole: all that its records refer to is in it too.
ContextResolves(r, ceiling) ==
  /\ r.refs \cup r.corrects \subseteq Context(ceiling)
  /\ \A i \in Context(ceiling) : Refs(i) \subseteq Context(ceiling)
  /\ \A i \in Context(ceiling) : ledger[i].payload.level <= r.level

\* A mutant: the age of an observation is not checked.
FreshAs(observed) == observed <= now

\* A new observation is neither of the future nor too old.
Fresh(observed) == observed <= now /\ now - observed <= Freshness

\* An id that has a row is replayed, refused or conflicting: it is never
\* stored again, whether the row's payload is still there or not.
Unused(i) == ledger[i].state = "none"

Init ==
  /\ ledger = [i \in Ids |-> NoRow]
  /\ exports = [c \in Consumers |-> NoExport]
  /\ gone = {}
  /\ torn = {}
  /\ deletes = 0
  /\ now = 0

\* memory_code_health append: a record is stored, or replaces the current
\* record that it corrects. Each refusal leaves the ledger alone.
Store(level, r) ==
  /\ Unused(r.id)
  /\ Fresh(r.observed)
  /\ r.level <= level
  /\ \A t \in r.corrects :
       /\ ledger[t].state = "live" /\ ledger[t].current
       /\ ledger[t].payload.level <= r.level
       /\ ledger[t].payload.observed <= r.observed
  /\ ContextResolves(r, level)
  /\ ledger' = [i \in Ids |->
       IF i = r.id
       THEN [state |-> "live", payload |-> r, current |-> TRUE, expires |-> now + Retention]
       ELSE IF i \in r.corrects THEN [ledger[i] EXCEPT !.current = FALSE] ELSE ledger[i]]
  /\ UNCHANGED <<exports, gone, torn, deletes, now>>

\* A deleted record keeps its id, its hash and its expiry, and nothing else.
Tombstone(row) == [state |-> "tomb", payload |-> row.payload, expires |-> row.expires]

\* A mutant: deleting a record leaves the snapshots as they are.
InvalidatedAs(e) == e

\* The trigger of a deleted record: it voids every snapshot of its producer
\* and namespace and empties it.
Invalidated(e) == IF e = NoExport THEN e ELSE [e EXCEPT !.invalid = TRUE, !.items = <<>>]

\* The ledger and the snapshots after the payloads in S are deleted.
Removed(S) ==
  /\ ledger' = [i \in Ids |-> IF i \in S THEN Tombstone(ledger[i]) ELSE ledger[i]]
  /\ exports' = [c \in Consumers |->
       IF S = {} \/ exports[c] = NoExport \/ exports[c].lost THEN exports[c]
       ELSE Invalidated(exports[c])]

\* A delete takes a record with all that refers to it, or is refused.
Whole(S) == \A i, j \in Live(ledger) : j \in Refs(i) => (i \in S <=> j \in S)

\* memory_delete of the namespace: the records that the caller may see.
Delete(level) ==
  LET S == {i \in Live(ledger) : ledger[i].payload.level <= level}
  IN /\ deletes < MaxDeletes
     /\ S # {} /\ Whole(S)
     /\ deletes' = deletes + 1
     /\ Removed(S)
     /\ UNCHANGED <<gone, torn, now>>

\* What is reached from S by the edges: it is in every set that holds S and that
\* no edge leaves.
Closure(S, edges) ==
  {i \in DOMAIN edges :
     \A T \in SUBSET DOMAIN edges : S \subseteq T /\ (\A j \in T : edges[j] \subseteq T) => i \in T}

\* What refers to one of some records, directly or through others; the edges of
\* a deleted record are gone.
Dependents(S) == Closure(S, [j \in Live(ledger) |-> {i \in Live(ledger) : j \in Refs(i)}])

Expired == {i \in Ids : ledger[i].state # "none" /\ ledger[i].expires <= now}

\* The whole correction chain of a record, in both directions.
Chain(S) ==
  Closure(S, [j \in Live(ledger) |-> {i \in Live(ledger) : \/ i \in ledger[j].payload.corrects
                                                          \/ j \in ledger[i].payload.corrects}])

\* A mutant: only what is itself past its time is affected.
AffectedAs == Expired \cap Live(ledger)

\* The stored records that are past their time, and those that refer to them.
Affected == Dependents(Expired \cap Live(ledger))

\* The maintenance's prune: what is affected goes with its correction chains,
\* then the tombstones and the snapshots whose time has passed.
Prune ==
  LET S == Chain(Affected)
      after == [i \in Ids |-> IF i \in S THEN Tombstone(ledger[i]) ELSE ledger[i]]
      voided(e) == IF e = NoExport \/ e.lost \/ S = {} THEN e ELSE Invalidated(e)
      swept(e) == IF e # NoExport /\ ~e.lost /\ e.expires <= now
                  THEN [e EXCEPT !.lost = TRUE, !.items = <<>>] ELSE e
  IN /\ ledger' = [i \in Ids |->
          IF after[i].state = "tomb" /\ after[i].expires <= now THEN NoRow ELSE after[i]]
     /\ exports' = [c \in Consumers |-> swept(voided(exports[c]))]
     /\ gone' = gone \cup {after[i].payload : i \in {j \in Ids : after[j].state = "tomb" /\ after[j].expires <= now}}
     /\ torn' = torn \cup (S \ Affected)
     /\ UNCHANGED <<deletes, now>>

\* A snapshot's order: by observation, then by id.
Before(i, j) ==
  \/ ledger[i].payload.observed < ledger[j].payload.observed
  \/ ledger[i].payload.observed = ledger[j].payload.observed /\ i < j

Sorted(S) ==
  CHOOSE s \in [1..Cardinality(S) -> S] : \A a, b \in DOMAIN s : a < b => Before(s[a], s[b])

Eligible(c) == {i \in Kept : ledger[i].current /\ ledger[i].payload.level <= Ceiling[c]}

\* The records a page refers to, directly or through others.
Reached(S) == Closure(S, [i \in Ids |-> IF i \in Live(ledger) THEN Refs(i) ELSE {}])

\* The positions of a snapshot from its cursor on whose record is still stored.
Remaining(e) == {k \in e.position + 1 .. Len(e.items) : e.items[k] \in Live(ledger)}

Nth(K, n) == CHOOSE k \in K : Cardinality({j \in K : j <= k}) = n

\* One page of an export, the first of them.
Page(e) ==
  LET left == Remaining(e)
      size == IF Cardinality(left) < PageLimit THEN Cardinality(left) ELSE PageLimit
  IN [n \in 1 .. size |-> e.items[Nth(left, n)]]

\* A record of a page, or one that it refers to, that is past its time or hidden
\* makes the whole page fail.
PageIsWhole(c, page) ==
  \A i \in Reached({page[k] : k \in DOMAIN page}) :
    i \in Kept /\ ledger[i].payload.level <= Ceiling[c]

\* The export after one more page; it is complete when every position of the
\* snapshot has been passed.
Advanced(e) ==
  LET page == Page(e)
  IN [e EXCEPT !.got = @ \o page, !.position = @ + Len(page),
               !.complete = e.position + Len(page) >= e.total]

\* The first call of an export takes the snapshot and its first page.
Export(c) ==
  LET e == [open |-> TRUE, items |-> Sorted(Eligible(c)), total |-> Cardinality(Eligible(c)),
            position |-> 0, got |-> <<>>, whole |-> Eligible(c), complete |-> FALSE,
            invalid |-> FALSE, lost |-> FALSE, expires |-> now + Lifetime]
  IN /\ PageIsWhole(c, Page(e))
     /\ exports' = [exports EXCEPT ![c] = Advanced(e)]
     /\ UNCHANGED <<ledger, gone, torn, deletes, now>>

\* A later call with the cursor of the page before.
NextPage(c) ==
  /\ exports[c] # NoExport
  /\ LET e == exports[c]
     IN /\ ~e.complete /\ ~e.invalid /\ ~e.lost /\ e.expires > now
        /\ PageIsWhole(c, Page(e))
        /\ exports' = [exports EXCEPT ![c] = Advanced(e)]
  /\ UNCHANGED <<ledger, gone, torn, deletes, now>>

\* A restart makes a new key: no cursor of before is accepted.
Restart ==
  /\ \E c \in Consumers : exports[c] # NoExport
  /\ exports' = [c \in Consumers |-> NoExport]
  /\ UNCHANGED <<ledger, gone, torn, deletes, now>>

Tick ==
  /\ now < MaxTime
  /\ now' = now + 1
  /\ UNCHANGED <<ledger, exports, gone, torn, deletes>>

Next ==
  \/ \E level \in Levels, r \in Records : Store(level, r)
  \/ \E level \in Levels : Delete(level)
  \/ Prune
  \/ \E c \in Consumers : Export(c)
  \/ \E c \in Consumers : NextPage(c)
  \/ Restart
  \/ Tick

Spec == Init /\ [][Next]_vars

\* A page says complete only when the consumer has, each once, all the records
\* it might see when the export began, and none of them has been deleted since:
\* a consumer that then drops its other rows drops none that is still kept.
CompleteMeansAll ==
  [][\A c \in Consumers :
       exports'[c] # NoExport /\ exports'[c].complete
         /\ ~(exports[c] # NoExport /\ exports[c].complete /\ exports'[c] = exports[c])
         /\ ~exports'[c].invalid /\ ~exports'[c].lost
         => LET e == exports'[c]
            IN /\ {e.got[k] : k \in DOMAIN e.got} = e.whole
               /\ Len(e.got) = Cardinality(e.whole)
               /\ e.whole \subseteq Live(ledger)]_vars

\* A payload is stored once: not again when its record was deleted, and not
\* when its tombstone is gone too, for by then its observation is too old.
NeverRecreated ==
  [][\A i \in Ids : ledger[i].state # "live" /\ ledger'[i].state = "live"
       => /\ ledger[i].state = "none"
          /\ ledger'[i].payload \notin gone]_vars

\* Whatever a stored record refers to is stored too, unless it left with its
\* correction chain.
RefsResolve ==
  \A i \in Live(ledger) : Refs(i) \subseteq Live(ledger) \cup torn
=============================================================================
