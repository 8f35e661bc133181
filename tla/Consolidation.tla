---------------------------- MODULE Consolidation ----------------------------
(***************************************************************************)
(* The consolidation worker (src/src/consolidation.ts): a namespace's log  *)
(* is drained, a window at a time, into a synthesis that a language model  *)
(* writes.  The prompt is made from one snapshot, the answer is awaited    *)
(* while anybody may write, and it is stored only if the snapshot is still *)
(* what the database says.  Beside the worker the owner may ask for a      *)
(* preview and confirm it later (memory_consolidate, src/src/tools.ts).    *)
(*                                                                         *)
(* A log is known by the order in which it was appended.  Its UUID, random *)
(* in the code, is its rank: rows of one instant are paged in that order.  *)
(* The status and synthesis entries and the classification of all inputs   *)
(* appear as the number of their last change and as the level they demand. *)
(***************************************************************************)
EXTENDS Integers, FiniteSets, Sequences

CONSTANTS
  Processes,     \* server processes with a worker
  Namespaces,    \* tracked namespaces
  Targets,       \* namespaces a synthesis may refer to
  Floor,         \* classification floor of a namespace
  Levels,        \* classification levels, as numbers
  Approved,      \* MAX_CONSOLIDATION_CLASSIFICATION
  MinLogs,       \* MUNIN_CONSOLIDATION_MIN_LOGS
  MaxLogsPerRun, \* MUNIN_CONSOLIDATION_MAX_LOGS_PER_RUN
  BatchSize,     \* MUNIN_CONSOLIDATION_BATCH_SIZE
  MaxAttempts,   \* MUNIN_CONSOLIDATION_MAX_ATTEMPTS
  MaxFailures,   \* MUNIN_CONSOLIDATION_MAX_FAILURES
  MaxPreviews,   \* MAX_CONSOLIDATION_PREVIEW_TOKENS
  MaxLogs,       \* bound on the logs ever appended
  MaxTime,       \* bound on the clock
  MaxEdits,      \* bound on changes of the other inputs
  MaxExits       \* bound on process exits

ASSUME ConsolidationAssumption ==
  /\ IsFiniteSet(Namespaces)
  /\ Levels \subseteq Nat /\ Approved \in Nat
  /\ Floor \in [Namespaces \cup Targets -> Levels]
  /\ {MinLogs, MaxLogsPerRun, BatchSize, MaxAttempts, MaxFailures} \subseteq Nat \ {0}
  /\ {MaxPreviews, MaxLogs, MaxTime, MaxEdits, MaxExits} \subseteq Nat

VARIABLES
  logs,        \* log entries: number -> row
  edits,       \* changes of the other inputs so far
  inputs,      \* namespace -> last change of its status, synthesis and classification
  level,       \* namespace -> maximumClassification of its inputs
  meta,        \* consolidation_metadata: namespace -> cursor and drain_in_progress
  refs,        \* cross_references: namespace -> targets
  synthesis,   \* namespace -> the snapshot its stored synthesis was made from
  uses,        \* log -> syntheses made from it
  late,        \* logs that arrived behind their namespace's cursor
  running,     \* processes with a started worker
  queue,       \* candidates the worker has yet to take up in its batch
  job,         \* what the worker's language model is working on
  review,      \* what a preview's language model is working on
  previews,    \* consolidationPreviewTokens
  failures,    \* circuitBreakerFailures
  tripped,     \* circuitBreakerTripped
  lastWritten, \* lastWrittenStatus
  alert,       \* status in the entry meta/system-health:consolidation
  exits        \* process exits so far

entries == <<logs, edits, late>>
stored == <<inputs, level, meta, refs, synthesis, uses>>
breaker == <<failures, tripped, lastWritten, alert>>
vars == <<entries, stored, running, queue, job, review, previews, breaker, exits>>

-----------------------------------------------------------------------------
(* Data *)

Numbers == 1 .. MaxLogs
Log == [ns: Namespaces, created_at: 1 .. MaxTime, rank: Numbers, is_current: BOOLEAN]

\* (last_log_created_at, last_log_id); Start is a namespace without metadata.
Position == [at: Nat, rank: Nat]
Start == [at |-> 0, rank |-> 0]
Beyond(p, q) == p.at > q.at \/ (p.at = q.at /\ p.rank > q.rank)
PositionOf(i) == [at |-> logs[i].created_at, rank |-> logs[i].rank]

\* ConsolidationSnapshot, up to what its fingerprint digests.
Snapshot == [ns: Namespaces, cursor: Position, draining: BOOLEAN, window: SUBSET Numbers,
             inputs: Nat, level: Levels]
Job == [snapshot: Snapshot, attempt: 1 .. MaxAttempts]
Statuses == {"none", "healthy", "tripped"}

-----------------------------------------------------------------------------
(* What there is to consolidate *)

\* Mutant: the instant alone, and not the id, tells what the cursor has passed.
BacklogAs(n) ==
  {i \in DOMAIN logs :
     logs[i].ns = n /\ logs[i].is_current /\ logs[i].created_at > meta[n].cursor.at}

\* Current logs beyond the cursor.
Backlog(n) ==
  {i \in DOMAIN logs :
     /\ logs[i].ns = n /\ logs[i].is_current
     /\ Beyond(PositionOf(i), meta[n].cursor)}

\* ORDER BY created_at, id LIMIT maxLogs.
Window(n) ==
  {i \in Backlog(n) :
     Cardinality({j \in Backlog(n) : Beyond(PositionOf(i), PositionOf(j))}) < MaxLogsPerRun}

Due(n) ==
  \/ Cardinality(Backlog(n)) >= MinLogs
  \/ meta[n].draining /\ Backlog(n) # {}

SnapshotOf(n) ==
  [ns |-> n, cursor |-> meta[n].cursor, draining |-> meta[n].draining, window |-> Window(n),
   inputs |-> inputs[n], level |-> level[n]]

IsCurrent(s) == s = SnapshotOf(s.ns)
Permitted(s) == s.level <= Approved

\* Mutant: a namespace that may not be sent takes up a place in the batch.
CandidatesAs == {n \in Namespaces : Due(n) /\ Window(n) # {}}

\* Candidates of policy and backlog, longest backlog first, cut to a batch.
Candidates == {n \in Namespaces : Due(n) /\ Window(n) # {} /\ Permitted(SnapshotOf(n))}
Batches ==
  LET size == IF Cardinality(Candidates) < BatchSize THEN Cardinality(Candidates) ELSE BatchSize
      Longer(m, n) == Cardinality(Backlog(m)) >= Cardinality(Backlog(n))
  IN {q \in [1 .. size -> Candidates] :
        /\ \A i, j \in 1 .. size : i < j => q[i] # q[j] /\ Longer(q[i], q[j])
        /\ \A n \in Candidates, i \in 1 .. size :
             (\A j \in 1 .. size : q[j] # n) => Longer(q[i], n)}

\* What may be linked from a synthesis of the snapshot: nothing if its inputs
\* are above the namespace's floor, and nothing above that floor.
Linkable(s) ==
  IF s.level > Floor[s.ns] THEN {} ELSE {t \in Targets : Floor[t] <= Floor[s.ns]}

\* discoverOrphanedReferences: the targets that the logs mention often enough
\* and that do not mention the namespace.
Orphans == SUBSET Targets

\* mergeCrossReferences: the model's references and the scanner's, by target.
Discovered == {proposed \cup orphans : proposed \in SUBSET Targets, orphans \in Orphans}

\* isConsolidationAvailable
Available(p) == p \in running /\ ~tripped[p]

-----------------------------------------------------------------------------
(* Other writers *)

Fresh == {r \in Numbers : \A i \in DOMAIN logs : logs[i].rank # r}

WithLog(table, n, t, r) ==
  LET i == Cardinality(DOMAIN logs) + 1
  IN [j \in DOMAIN logs \cup {i} |->
        IF j = i THEN [ns |-> n, created_at |-> t, rank |-> r, is_current |-> TRUE]
        ELSE table[j]]
LateWith(n, t, r) ==
  IF Beyond([at |-> t, rank |-> r], meta[n].cursor) THEN late
  ELSE late \cup {Cardinality(DOMAIN logs) + 1}

\* The wall clock reads t: it may have been set back since the last log.
AppendLog(n, t, r) ==
  /\ r \in Fresh
  /\ logs' = WithLog(logs, n, t, r)
  /\ late' = LateWith(n, t, r)
  /\ UNCHANGED <<edits, stored, running, queue, job, review, previews, breaker, exits>>

\* supersedeLog: the successor is a row of its own, of now.
CorrectLog(i, t, r) ==
  /\ logs[i].is_current /\ r \in Fresh
  /\ logs' = WithLog([logs EXCEPT ![i].is_current = FALSE], logs[i].ns, t, r)
  /\ late' = LateWith(logs[i].ns, t, r)
  /\ UNCHANGED <<edits, stored, running, queue, job, review, previews, breaker, exits>>

\* The status or the synthesis is written, or anything is reclassified.
ChangeInputs(n, l) ==
  /\ edits < MaxEdits
  /\ edits' = edits + 1
  /\ inputs' = [inputs EXCEPT ![n] = @ + 1]
  /\ level' = [level EXCEPT ![n] = l]
  /\ UNCHANGED <<logs, late, meta, refs, synthesis, uses, running, queue, job, review,
                 previews, breaker, exits>>

\* memory_delete of a namespace; its metadata and references stay.
DeleteNamespace(n) ==
  /\ edits < MaxEdits
  /\ edits' = edits + 1
  /\ logs' = [i \in DOMAIN logs |->
               IF logs[i].ns = n THEN [logs[i] EXCEPT !.is_current = FALSE] ELSE logs[i]]
  /\ inputs' = [inputs EXCEPT ![n] = @ + 1]
  /\ level' = [level EXCEPT ![n] = Floor[n]]
  /\ UNCHANGED <<late, meta, refs, synthesis, uses, running, queue, job, review,
                 previews, breaker, exits>>

-----------------------------------------------------------------------------
(* Storing a synthesis *)

\* addCrossReferences for a slice of a drain, else replaceCrossReferences.
CrossReferences(n, found, draining) == IF draining THEN refs[n] \cup found ELSE found

\* upsertConsolidationMetadata
Metadata(n, last, more) == [meta EXCEPT ![n] = [cursor |-> PositionOf(last), draining |-> more]]

\* persistRunResultsInTransaction, after its check.
Persist(s, found) ==
  LET n == s.ns
      last == CHOOSE i \in s.window :
                \A j \in s.window \ {i} : Beyond(PositionOf(i), PositionOf(j))
      moreRemain == \E i \in Backlog(n) : Beyond(PositionOf(i), PositionOf(last))
      draining == meta[n].draining \/ moreRemain
  IN /\ meta' = Metadata(n, last, moreRemain)
     /\ refs' = [refs EXCEPT ![n] = CrossReferences(n, found, draining)]
     /\ inputs' = [inputs EXCEPT ![n] = @ + 1]
     /\ synthesis' = [synthesis EXCEPT ![n] = {s}]
     /\ uses' = [i \in Numbers |-> IF i \in s.window THEN uses[i] + 1 ELSE uses[i]]
     /\ UNCHANGED level

\* Mutant: the snapshot is not checked again.
StorableAs(s) == TRUE

\* assertSnapshotCurrent, in the transaction that stores.
Storable(s) == IsCurrent(s)

-----------------------------------------------------------------------------
(* Health alerts *)

\* maybeWriteHealthAlert: transitions between healthy and tripped are written;
\* the write may fail.
Alert(p, status) ==
  IF status = "failing" \/ status = lastWritten[p] \/ (status = "healthy" /\ lastWritten[p] # "tripped")
  THEN UNCHANGED <<lastWritten, alert>>
  ELSE \/ /\ alert' = status
          /\ lastWritten' = [lastWritten EXCEPT ![p] = status]
       \/ UNCHANGED <<lastWritten, alert>>

Fails(p) ==
  LET trips == failures[p] + 1 >= MaxFailures
  IN /\ failures' = [failures EXCEPT ![p] = IF @ < MaxFailures THEN @ + 1 ELSE @]
     /\ tripped' = [tripped EXCEPT ![p] = @ \/ trips]
     /\ queue' = [queue EXCEPT ![p] = IF trips THEN <<>> ELSE @]
     /\ Alert(p, IF tripped[p] \/ trips THEN "tripped" ELSE "failing")

Succeeds(p) ==
  /\ failures' = [failures EXCEPT ![p] = 0]
  /\ tripped' = [tripped EXCEPT ![p] = FALSE]
  /\ Alert(p, "healthy")

-----------------------------------------------------------------------------
(* The worker *)

\* An alarm left by an earlier life is taken back; if that write fails, the
\* worker knows of the alarm.
TakeBackAlarm(p) ==
  IF alert = "tripped"
  THEN \/ alert' = "healthy" /\ lastWritten' = [lastWritten EXCEPT ![p] = "healthy"]
       \/ UNCHANGED alert /\ lastWritten' = [lastWritten EXCEPT ![p] = "tripped"]
  ELSE UNCHANGED <<alert, lastWritten>>

\* startConsolidationWorker
StartWorker(p) ==
  /\ p \notin running
  /\ running' = running \cup {p}
  /\ TakeBackAlarm(p)
  /\ UNCHANGED <<entries, stored, queue, job, review, previews, failures, tripped, exits>>

\* The process ends, at any time; what it kept in memory is gone.
Exit(p) ==
  /\ p \in running /\ exits < MaxExits
  /\ exits' = exits + 1
  /\ running' = running \ {p}
  /\ queue' = [queue EXCEPT ![p] = <<>>]
  /\ job' = [job EXCEPT ![p] = {}]
  /\ review' = [review EXCEPT ![p] = {}]
  /\ previews' = [previews EXCEPT ![p] = {}]
  /\ failures' = [failures EXCEPT ![p] = 0]
  /\ tripped' = [tripped EXCEPT ![p] = FALSE]
  /\ lastWritten' = [lastWritten EXCEPT ![p] = "none"]
  /\ UNCHANGED <<entries, stored, alert>>

\* The timer fires; a tripped breaker lets a batch through when its delay is over.
StartBatch(p) ==
  /\ p \in running /\ queue[p] = <<>> /\ job[p] = {}
  /\ Candidates # {}
  /\ \E q \in Batches : queue' = [queue EXCEPT ![p] = q]
  /\ UNCHANGED <<entries, stored, running, job, review, previews, breaker, exits>>

\* consolidateNamespace up to its call of the language model.  A namespace that
\* has nothing left counts as a success, one that may not be sent as neither.
TakeCandidate(p) ==
  /\ queue[p] # <<>> /\ job[p] = {}
  /\ queue' = [queue EXCEPT ![p] = Tail(@)]
  /\ LET s == SnapshotOf(Head(queue[p])) IN
     \/ /\ s.window = {}
        /\ Succeeds(p)
        /\ UNCHANGED job
     \/ /\ s.window # {} /\ ~Permitted(s)
        /\ UNCHANGED <<job, breaker>>
     \/ /\ s.window # {} /\ Permitted(s)
        /\ job' = [job EXCEPT ![p] = {[snapshot |-> s, attempt |-> 1]}]
        /\ UNCHANGED breaker
  /\ UNCHANGED <<entries, stored, running, review, previews, exits>>

\* An answer that can be parsed, passes the secret scan, and comes in time.
SynthesisSucceeds(p) ==
  \E j \in job[p], found \in Discovered :
    /\ Storable(j.snapshot)
    /\ Persist(j.snapshot, found \cap Linkable(j.snapshot))
    /\ job' = [job EXCEPT ![p] = {}]
    /\ Succeeds(p)
    /\ UNCHANGED <<entries, running, queue, review, previews, exits>>

\* The answer cannot be parsed: the same prompt again, if it is still right.
AskAgain(p) ==
  \E j \in job[p] :
    /\ IsCurrent(j.snapshot) /\ j.attempt < MaxAttempts
    /\ job' = [job EXCEPT ![p] = {[j EXCEPT !.attempt = @ + 1]}]
    /\ UNCHANGED <<entries, stored, running, queue, review, previews, breaker, exits>>

\* An error of the API, the last answer that cannot be parsed, a secret in it, a
\* snapshot that is no longer right, or a transaction that cannot be had.
SynthesisFails(p) ==
  /\ job[p] # {}
  /\ job' = [job EXCEPT ![p] = {}]
  /\ Fails(p)
  /\ UNCHANGED <<entries, stored, running, review, previews, exits>>

-----------------------------------------------------------------------------
(* Manual previews *)

RequestPreview(p, n) ==
  /\ Available(p) /\ review[p] = {}
  /\ Cardinality(previews[p]) < MaxPreviews
  /\ Window(n) # {} /\ Permitted(SnapshotOf(n))
  /\ review' = [review EXCEPT ![p] = {[snapshot |-> SnapshotOf(n), attempt |-> 1]}]
  /\ UNCHANGED <<entries, stored, running, queue, job, previews, breaker, exits>>

\* The claims are excerpts of the logs they cite, or the preview is refused.
PreviewArrives(p) ==
  \E j \in review[p] :
    /\ review' = [review EXCEPT ![p] = {}]
    /\ \/ IsCurrent(j.snapshot) /\ previews' = [previews EXCEPT ![p] = @ \cup {j.snapshot}]
       \/ UNCHANGED previews
    /\ UNCHANGED <<entries, stored, running, queue, job, breaker, exits>>

PreviewAskedAgain(p) ==
  \E j \in review[p] :
    /\ IsCurrent(j.snapshot) /\ j.attempt < MaxAttempts
    /\ review' = [review EXCEPT ![p] = {[j EXCEPT !.attempt = @ + 1]}]
    /\ UNCHANGED <<entries, stored, running, queue, job, previews, breaker, exits>>

\* The token is spent, also when what it previewed is no longer right.  What the
\* model proposed as links is not kept.
ConfirmPreview(p, s) ==
  /\ ~tripped[p]
  /\ previews' = [previews EXCEPT ![p] = @ \ {s}]
  /\ \/ Storable(s) /\ Persist(s, {})
     \/ UNCHANGED stored
  /\ UNCHANGED <<entries, running, queue, job, review, breaker, exits>>

PreviewExpires(p, s) ==
  /\ previews' = [previews EXCEPT ![p] = @ \ {s}]
  /\ UNCHANGED <<entries, stored, running, queue, job, review, breaker, exits>>

-----------------------------------------------------------------------------

Init ==
  /\ logs = [i \in {} |-> {}] /\ edits = 0 /\ late = {}
  /\ inputs = [n \in Namespaces |-> 0]
  /\ level = [n \in Namespaces |-> Floor[n]]
  /\ meta = [n \in Namespaces |-> [cursor |-> Start, draining |-> FALSE]]
  /\ refs = [n \in Namespaces |-> {}]
  /\ synthesis = [n \in Namespaces |-> {}]
  /\ uses = [i \in Numbers |-> 0]
  /\ running = {}
  /\ queue = [p \in Processes |-> <<>>]
  /\ job = [p \in Processes |-> {}]
  /\ review = [p \in Processes |-> {}]
  /\ previews = [p \in Processes |-> {}]
  /\ failures = [p \in Processes |-> 0]
  /\ tripped = [p \in Processes |-> FALSE]
  /\ lastWritten = [p \in Processes |-> "none"]
  /\ alert = "none" /\ exits = 0

Worker(p) ==
  \/ StartBatch(p) \/ TakeCandidate(p)
  \/ SynthesisSucceeds(p) \/ AskAgain(p) \/ SynthesisFails(p)

Next ==
  \/ \E t \in 1 .. MaxTime, r \in Numbers :
       \/ \E n \in Namespaces : AppendLog(n, t, r)
       \/ \E i \in DOMAIN logs : CorrectLog(i, t, r)
  \/ \E n \in Namespaces, l \in Levels : ChangeInputs(n, l)
  \/ \E n \in Namespaces : DeleteNamespace(n)
  \/ \E p \in Processes :
       \/ StartWorker(p) \/ Exit(p) \/ Worker(p)
       \/ PreviewArrives(p) \/ PreviewAskedAgain(p)
       \/ \E n \in Namespaces : RequestPreview(p, n)
       \/ \E s \in previews[p] : ConfirmPreview(p, s) \/ PreviewExpires(p, s)

Spec == Init /\ [][Next]_vars

SynthesisOf(p, n) == SynthesisSucceeds(p) /\ \E j \in job[p] : j.snapshot.ns = n

\* The worker's timer re-arms after every batch and the service is restarted.
\* A call returns; that it returns with a synthesis again and again is the
\* assumption about the language model.
FairSpec ==
  /\ Spec
  /\ \A p \in Processes :
       /\ WF_vars(StartWorker(p))
       /\ WF_vars(Worker(p))
       /\ \A n \in Namespaces : SF_vars(SynthesisOf(p, n))

-----------------------------------------------------------------------------
(* Properties *)

\* Every variable has its type.
TypeOK ==
  /\ DOMAIN logs \subseteq Numbers /\ logs \in [DOMAIN logs -> Log]
  /\ edits \in 0 .. MaxEdits /\ exits \in 0 .. MaxExits
  /\ late \subseteq DOMAIN logs
  /\ inputs \in [Namespaces -> Nat] /\ level \in [Namespaces -> Levels]
  /\ meta \in [Namespaces -> [cursor: Position, draining: BOOLEAN]]
  /\ refs \in [Namespaces -> SUBSET Targets]
  /\ synthesis \in [Namespaces -> SUBSET Snapshot]
  /\ uses \in [Numbers -> Nat]
  /\ running \subseteq Processes
  /\ queue \in [Processes -> Seq(Namespaces)]
  /\ job \in [Processes -> SUBSET Job] /\ review \in [Processes -> SUBSET Job]
  /\ previews \in [Processes -> SUBSET Snapshot]
  /\ failures \in [Processes -> 0 .. MaxFailures] /\ tripped \in [Processes -> BOOLEAN]
  /\ lastWritten \in [Processes -> Statuses] /\ alert \in Statuses

\* A log is drained into one synthesis at most, by whichever worker or preview
\* comes first, and none is passed over: what is behind the cursor has been
\* used, or is gone, or arrived there after the cursor had passed.
DrainedOnce ==
  \A i \in DOMAIN logs :
    /\ uses[i] <= 1
    /\ uses[i] = 1 => ~Beyond(PositionOf(i), meta[logs[i].ns].cursor)
    /\ (logs[i].is_current /\ uses[i] = 0) => (i \in Backlog(logs[i].ns) \/ i \in late)

\* What is stored was made from what the database says as it is stored, and
\* from nothing that may not be sent: no write, correction, delete,
\* reclassification or other synthesis of the time the model took is lost on it.
\* A link that one slice of a drain discovers survives the slices after it.
NeverFromStale ==
  [][\A n \in Namespaces :
       meta'[n] # meta[n] =>
         /\ synthesis'[n] = {SnapshotOf(n)} /\ level[n] <= Approved
         /\ meta[n].draining => refs[n] \subseteq refs'[n]]_vars

\* A namespace whose backlog is due and may be sent.
Waiting(n) == Due(n) /\ level[n] <= Approved

=============================================================================
