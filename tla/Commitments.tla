---------------------------- MODULE Commitments ----------------------------
(* The commitments derived from one status entry: rows that stand for the    *)
(* next steps and the dated promises its text holds (db.ts, tools.ts).       *)
(* Every write by a caller that tracks the namespace, and every read by such *)
(* a caller, diffs the steps of the text against the rows: a row whose step  *)
(* is still there stays open, a new step gets a row, a step that vanished is *)
(* resolved, and a step that was only reworded keeps its row. A step is a    *)
(* member of Steps (its normalised text is its fingerprint); Alike(s, t) is  *)
(* how much two wordings have in common, 0 when they are different work.     *)
EXTENDS Naturals, FiniteSets

CONSTANTS
  Steps,        \* the wordings a step can have
  Dated,        \* those that are dated promises, and not next steps
  Alike,        \* Alike[s][t]: 0 different work, higher the more they share
  Callers,      \* the principals that write and read the namespace
  Trackers,     \* those whose tracked patterns hold it
  MaxSteps,     \* bound: the steps of one text
  MaxSources,   \* bound: status entries in the chain of corrections
  MaxRows,      \* bound: rows ever made
  MaxTime       \* bound: ages, in the steps of the confidence's decay

VARIABLES
  entry,    \* the current status entry: its number, its steps and its labels
  rows,     \* the rows of the commitments table
  fresh,    \* the current text has been diffed: the rows have its spelling
  now       \* the clock

vars == <<entry, rows, fresh, now>>

Rows == [id : 1..(MaxRows + MaxSteps), source : 0..MaxSources, step : Steps,
         old : BOOLEAN, status : {"open", "done", "cancelled"},
         at : 0..MaxTime, sure : 0..2]

\* Every variable has its type.
TypeOK ==
  /\ entry \in [source : 0..MaxSources, steps : SUBSET Steps, ended : BOOLEAN,
                restricted : BOOLEAN, at : 0..MaxTime]
  /\ rows \subseteq Rows
  /\ fresh \in BOOLEAN
  /\ now \in 0..MaxTime

\* How sure the server is of a step last revised at a time: it decays in two
\* bands, at 30 and at 60 days.
Confidence(at) == IF now - at >= 2 THEN 0 ELSE IF now - at >= 1 THEN 1 ELSE 2

\* What the extractor finds in an entry: nothing once its own labels say that
\* the work ended.
Derived(e) == IF e.ended THEN {} ELSE e.steps

Kind(s) == IF s \in Dated THEN "dated" ELSE "step"

\* A row's identity is its fingerprint: the step's text and, for the rows made
\* before fingerprints had a version, the lack of one.
Holds(r, s) == r.step = s /\ ~r.old

\* The rows that may turn out to be a new wording's: open ones, and unversioned
\* next steps that an earlier version had retired.
Orphans(rs, derived) ==
  {r \in rs : /\ ~\E s \in derived : Holds(r, s)
              /\ \/ r.status = "open"
                 \/ r.status = "cancelled" /\ r.old /\ Kind(r.step) = "step"}

Fresh(rs, derived) == {s \in derived : ~\E r \in rs : Holds(r, s)}

\* Two wordings of one kind that share enough can be the same work.
Score(r, s) == IF Kind(r.step) = Kind(s) THEN Alike[r.step][s] ELSE 0

\* s is the one best match of r among the wordings, and r the one best match
\* of s among the rows: a tie on either side pairs nothing.
Revises(r, s, orphans, wordings) ==
  /\ Score(r, s) > 0
  /\ \A t \in wordings \ {s} : Score(r, t) < Score(r, s)
  /\ \A q \in orphans \ {r} : Score(q, s) < Score(r, s)

\* A mutant: no rewording is recognised.
RevisionsAs(rs, derived) == {}

\* The reworded steps: each pair is a row and its new wording.
Revisions(rs, derived) ==
  LET orphans == Orphans(rs, derived)
      wordings == Fresh(rs, derived)
  IN {p \in orphans \X wordings : Revises(p[1], p[2], orphans, wordings)}

\* What becomes of a row whose step is gone: a next step was done; a dated
\* promise, and a row that cannot prove where it came from, is cancelled.
Resolved(r) == IF Kind(r.step) = "step" /\ ~r.old THEN "done" ELSE "cancelled"

\* A row whose step is still in the text: an open one that the text spells or dates
\* as before keeps its date and never becomes surer; one that is respelled, to the
\* same fingerprint, is as good as new, and a resolved one is taken up again.
Kept(r, e, respelled) ==
  IF r.status = "open" /\ r.step \notin respelled
  THEN [r EXCEPT !.sure = IF Confidence(r.at) < @ THEN Confidence(r.at) ELSE @]
  ELSE [r EXCEPT !.status = "open", !.at = now, !.sure = Confidence(e.at)]

Revised(r, s, e) ==
  [r EXCEPT !.step = s, !.old = FALSE, !.status = "open", !.at = now,
            !.sure = Confidence(e.at)]

\* A resolved row's date and confidence are never read again: they are dropped.
Closed(r, status) == [r EXCEPT !.status = status, !.at = 0, !.sure = 0]

Gone(r) == IF r.status = "open" THEN Closed(r, Resolved(r)) ELSE r

\* The new rows, one for each new wording that revises none, with new numbers and
\* the entry's date.
Inserted(wordings, all, e) ==
  LET last == IF all = {} THEN 0 ELSE CHOOSE n \in {r.id : r \in all} : \A r \in all : r.id <= n
      order == CHOOSE f \in [wordings -> 1..Cardinality(wordings)] :
                 \A s, t \in wordings : f[s] = f[t] => s = t
  IN {[id |-> last + order[s], source |-> e.source, step |-> s, old |-> FALSE,
       status |-> "open", at |-> e.at, sure |-> Confidence(e.at)] : s \in wordings}

\* The whole diff of the rows against an entry, some of whose steps are respelled;
\* a restricted entry has none.
Synced(all, e, respelled) ==
  LET mine == {r \in all : r.source = e.source}
      others == all \ mine
      derived == Derived(e)
      pairs == Revisions(mine, derived)
      wordings == Fresh(mine, derived) \ {p[2] : p \in pairs}
      After(r) == IF \E s \in derived : Holds(r, s) THEN Kept(r, e, respelled)
                  ELSE IF \E p \in pairs : p[1] = r
                       THEN Revised(r, (CHOOSE p \in pairs : p[1] = r)[2], e)
                  ELSE Gone(r)
  IN IF e.restricted THEN others
     ELSE others \cup {After(r) : r \in mine} \cup Inserted(wordings, all, e)

\* A mutant: any caller diffs what it sees.
TracksAs(c) == TRUE

\* Only a caller that tracks the namespace may diff: for another the extractor
\* finds no step, and every row would look done.
Tracks(c) == c \in Trackers

\* What a caller's extractor finds: steps of tracked namespaces only.
Seen(c, e) == [e EXCEPT !.steps = IF c \in Trackers THEN @ ELSE {}]

\* The next value of the rows when c diffs them against e.
Diffed(c, all, e, respelled) == IF Tracks(c) THEN Synced(all, Seen(c, e), respelled) ELSE all

\* A superseded entry's open commitments are cancelled with it.
Cancelled(r) ==
  IF r.source = entry.source /\ r.status = "open" THEN Closed(r, "cancelled") ELSE r

Texts == {S \in SUBSET Steps : Cardinality(S) <= MaxSteps}

\* A database of an earlier version: one next step, its row without a version.
Init ==
  \E s \in Steps \ Dated, st \in {"open", "cancelled"} :
    /\ entry = [source |-> 0, steps |-> {s}, ended |-> FALSE, restricted |-> FALSE, at |-> 0]
    /\ rows = {[id |-> 1, source |-> 0, step |-> s, old |-> TRUE, status |-> st,
                at |-> 0, sure |-> IF st = "open" THEN 2 ELSE 0]}
    /\ fresh = FALSE
    /\ now = 0

\* memory_write, memory_update_status: the entry is rewritten in place.
Write(c, text, ended, restricted) ==
  /\ ~(ended /\ restricted)
  /\ Cardinality(rows) <= MaxRows - MaxSteps
  /\ entry' = [entry EXCEPT !.steps = text, !.ended = ended, !.at = now,
                            !.restricted = @ \/ restricted]
  /\ \E respelled \in SUBSET text : rows' = Diffed(c, rows, entry', respelled)
  /\ fresh' = Tracks(c)
  /\ UNCHANGED now

\* A correction: a new entry takes the old one's place in the history.
Correct(c, text) ==
  /\ entry.source < MaxSources
  /\ Cardinality(rows) <= MaxRows - MaxSteps
  /\ entry' = [entry EXCEPT !.source = @ + 1, !.steps = text, !.ended = FALSE, !.at = now]
  /\ rows' = Diffed(c, {Cancelled(r) : r \in rows}, entry', {})
  /\ fresh' = Tracks(c)
  /\ UNCHANGED now

\* The rows that a caller is listed: of current entries it tracks.
Listed(c, all) ==
  {r \in all : c \in Trackers /\ r.source = entry.source /\ r.status # "cancelled"}

\* The sources of the rows that are listed are diffed once more.
Refreshed(c, all) == IF Listed(c, all) = {} THEN all ELSE Diffed(c, all, entry, {})

\* What a text that no diff has seen may spell otherwise than the rows.
Unseen == IF fresh THEN {} ELSE entry.steps

\* memory_commitments, memory_handoff and memory_patterns diff what the caller
\* may see before they list it.
Read(c) ==
  /\ Cardinality(rows) <= MaxRows - MaxSteps
  /\ \E respelled \in SUBSET Unseen : rows' = Refreshed(c, Diffed(c, rows, entry, respelled))
  /\ fresh' = (fresh \/ Tracks(c))
  /\ UNCHANGED <<entry, now>>

Tick ==
  /\ now < MaxTime
  /\ now' = now + 1
  /\ UNCHANGED <<entry, rows, fresh>>

Next ==
  \/ \E c \in Callers, text \in Texts, ended, restricted \in BOOLEAN :
       Write(c, text, ended, restricted)
  \/ \E c \in Callers, text \in Texts : Correct(c, text)
  \/ \E c \in Callers : Read(c)
  \/ Tick

Spec == Init /\ [][Next]_vars

\* Once the text has been diffed, the open rows are its steps, each once, and
\* nothing of an earlier entry is open: no caller that does not track the
\* namespace, no correction and no rewording leaves a step open twice, open
\* after it went, or done while it is still there.
OpenAreWritten ==
  fresh => /\ {r.step : r \in {q \in rows : q.status = "open"}}
                = IF entry.restricted THEN {} ELSE Derived(entry)
           /\ \A r, q \in rows : r.status = "open" /\ q.status = "open" /\ r.step = q.step => r = q
           /\ \A r \in rows : r.status = "open" => r.source = entry.source /\ ~r.old

\* A row is only ever reported done when its work left the text: a wording of
\* the same work that is there afterwards has a row of its own from before, or
\* was one of several the work could have become.
RewordingIsNotDelivery ==
  [][\A r \in rows, q \in rows' :
       r.id = q.id /\ r.status = "open" /\ q.status = "done"
         => LET heirs == {s \in Derived(entry') : Kind(s) = Kind(r.step) /\ Alike[r.step][s] > 0}
            IN \/ heirs = {}
               \/ \E s \in heirs : \E p \in rows : p.source = r.source /\ Holds(p, s)
               \/ \E s, t \in heirs : s # t
               \/ \E s \in heirs, p \in rows : p # r /\ p.source = r.source /\ Score(p, s) >= Score(r, s)]_vars

=============================================================================
