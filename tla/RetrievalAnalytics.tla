------------------------- MODULE RetrievalAnalytics -------------------------
(* What the server records of its own retrievals (db.ts, tools.ts): an event *)
(* for each answer of memory_query, memory_attention and memory_orient, and  *)
(* the outcomes that follow it in its session. An outcome belongs to the     *)
(* latest event of the session, if that is not too long ago; an event that   *)
(* the next one finds without a good outcome counts as reformulated.         *)
(* memory_insights turns the rows of a period into rates. memory_attention    *)
(* and memory_orient record no results, so their events are one kind here.   *)
EXTENDS Naturals, FiniteSets

CONSTANTS
  Sessions,
  Entries,
  NamespaceOf,  \* entry -> its namespace
  Correlation,  \* RETRIEVAL_CORRELATION_WINDOW_MS
  Retention,    \* MUNIN_ANALYTICS_RETENTION_DAYS
  SessionKept,  \* RETRIEVAL_SESSION_RETENTION_DAYS
  MaxEvents,    \* bound: events ever logged
  MaxFeedback,  \* bound: rows of feedback
  MaxTime       \* bound: the clock

VARIABLES
  events,    \* retrieval_events by number, each with its retrieval_outcomes
  sessions,  \* retrieval_sessions: the latest event of each
  feedback,  \* retrieval_feedback: the event each row is linked to, or 0
  logged,    \* bound: the events so far
  now

vars == <<events, sessions, feedback, logged, now>>

\* The namespaces that a change can be in.
Areas == {NamespaceOf[e] : e \in Entries}
NoSession == [last |-> 0, at |-> 0]

Row == [session : Sessions, at : 0 .. MaxTime, results : SUBSET Entries,
        opened : SUBSET Entries, changed : SUBSET Areas, reformulated : 0 .. MaxEvents]

\* Every variable has its type.
TypeOK ==
  /\ DOMAIN events \subseteq 1 .. logged
  /\ events \in [DOMAIN events -> Row]
  /\ sessions \in [Sessions -> [last : 0 .. logged, at : 0 .. MaxTime]]
  /\ feedback \subseteq [session : Sessions, event : {0} \cup DOMAIN events]
  /\ logged \in 0 .. MaxEvents /\ now \in 0 .. MaxTime

-----------------------------------------------------------------------------

\* The event that an outcome or feedback of a session belongs to, 0 for none.
Correlated(s) ==
  IF sessions[s].last # 0 /\ now - sessions[s].at <= Correlation THEN sessions[s].last ELSE 0

\* Something was opened, written or logged after the event.
Good(e) == e.opened # {} \/ e.changed # {}

\* Mutant: whatever followed it counts for nothing.
JudgedAs(e, continues) == IF continues THEN e ELSE [e EXCEPT !.reformulated = @ + 1]

\* An event as the next one leaves it; a further page is no new question.
Judged(e, continues) ==
  IF Good(e) \/ continues THEN e ELSE [e EXCEPT !.reformulated = @ + 1]

\* The session's latest event is the new one, whatever it is.
Cursor(s) == [sessions EXCEPT ![s] = [last |-> logged + 1, at |-> now]]

Logged(s, results) ==
  [session |-> s, at |-> now, results |-> results, opened |-> {}, changed |-> {},
   reformulated |-> 0]

\* logRetrievalEvent, one transaction; a failure of it leaves no trace.  It fails
\* when the event it would count as reformulated has been pruned: the outcome has
\* nothing to refer to, and the new event is lost with it.
Retrieve(s, results, continues) ==
  /\ logged < MaxEvents
  /\ continues \/ Correlated(s) \in {0} \cup DOMAIN events
  /\ logged' = logged + 1
  /\ events' = [i \in DOMAIN events \cup {logged + 1} |->
       IF i = logged + 1 THEN Logged(s, results)
       ELSE IF i = Correlated(s) THEN Judged(events[i], continues) ELSE events[i]]
  /\ sessions' = Cursor(s)
  /\ UNCHANGED <<feedback, now>>

\* An outcome changes the row of the correlated event, if it is still there.
Follow(s, row) ==
  /\ Correlated(s) \in DOMAIN events
  /\ events' = [events EXCEPT ![Correlated(s)] = row]
  /\ UNCHANGED <<sessions, feedback, logged, now>>

\* memory_read, memory_read_batch and memory_get find an entry.
Open(s, e) == Follow(s, [events[Correlated(s)] EXCEPT !.opened = @ \cup {e}])

\* memory_write, memory_update_status and memory_log change a namespace.
Change(s, n) == Follow(s, [events[Correlated(s)] EXCEPT !.changed = @ \cup {n}])

\* memory_retrieval_feedback; a link to a pruned event fails as a whole.
Feedback(s) ==
  /\ Cardinality(feedback) < MaxFeedback
  /\ Correlated(s) \in {0} \cup DOMAIN events
  /\ feedback' = feedback \cup {[session |-> s, event |-> Correlated(s)]}
  /\ UNCHANGED <<events, sessions, logged, now>>

\* The maintenance's prune: outcomes go with their event, feedback is unlinked,
\* and a session has a retention of its own.
Prune ==
  LET kept == {i \in DOMAIN events : events[i].at + Retention >= now}
  IN /\ events' = [i \in kept |-> events[i]]
     /\ feedback' = {[f EXCEPT !.event = IF @ \in kept THEN @ ELSE 0] : f \in feedback}
     /\ sessions' = [s \in Sessions |->
          IF sessions[s].at + SessionKept < now THEN NoSession ELSE sessions[s]]
     /\ UNCHANGED <<logged, now>>

Tick ==
  /\ now < MaxTime
  /\ now' = now + 1
  /\ UNCHANGED <<events, sessions, feedback, logged>>

Init ==
  /\ events = [i \in {} |-> 0]
  /\ sessions = [s \in Sessions |-> NoSession]
  /\ feedback = {} /\ logged = 0 /\ now = 0

Next ==
  \/ \E s \in Sessions :
       \/ \E results \in SUBSET Entries, continues \in BOOLEAN : Retrieve(s, results, continues)
       \/ \E e \in Entries : Open(s, e)
       \/ \E n \in Areas : Change(s, n)
       \/ Feedback(s)
  \/ Prune
  \/ Tick

Spec == Init /\ [][Next]_vars

-----------------------------------------------------------------------------
(* memory_insights *)

\* The events of a period, and the sum of what they count.
Within(since) == {i \in DOMAIN events : events[i].at >= since}
Positive(since) == {i \in Within(since) : Good(events[i])}
Reformulations(since) ==
  Cardinality({p \in Within(since) \X (1 .. MaxEvents) : p[2] <= events[p[1]].reformulated})

\* The events of the sessions that have two or more in the period.
MultiEvents(since) ==
  {i \in Within(since) :
     \E j \in Within(since) : j # i /\ events[j].session = events[i].session}

\* An entry's impressions, and those that something was done about: the entry
\* was opened, or something in its namespace changed.
Impressions(e, since) ==
  {i \in Within(since) : e \in events[i].results}
FollowThrough(e, since) ==
  {i \in Impressions(e, since) :
     e \in events[i].opened \/ NamespaceOf[e] \in events[i].changed}

\* Of every period that lasts to the present the rates are shares of the events:
\* no event counts as answered and as reformulated, or twice as reformulated,
\* a reformulation is of a session with two events in the period, and what is
\* followed through is counted as answered too.
RatesAreFractions ==
  \A since \in 0 .. now :
    /\ Cardinality(Positive(since)) + Reformulations(since) <= Cardinality(Within(since))
    /\ Reformulations(since) <= Cardinality(MultiEvents(since))
    /\ \A e \in Entries : FollowThrough(e, since) \subseteq Positive(since)

=============================================================================
