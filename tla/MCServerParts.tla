---------------------------- MODULE MCServerParts ----------------------------
(***************************************************************************)
(* The parts of the server that share no state with each other, checked    *)
(* beside one another: the first state picks the part that moves, and the  *)
(* others stay as they begin.  The reachable states are the sum of those   *)
(* of the parts, and a property of a part means what it means alone.       *)
(*                                                                         *)
(* The consolidation worker has three scenarios on the same variables: a   *)
(* clock that is set back ("clock"), other writers, a restart and previews *)
(* ("edits"), and two namespaces that compete for a batch of one ("drain").*)
(***************************************************************************)
EXTENDS Consolidation, ServerParts, TLC

CONSTANTS alpha, beta, gamma

VARIABLE part  \* the part that moves

Consolidating == vars
Admitting == <<time, callers, credentials, bucket, served>>
Stopping == <<phase, code, conn, handlers, worker, pending>>
Paging == <<item, access, asking, snapshots, pages, changes>>
Claiming == <<state, hash, env, routes, attempt, half, hotspot, link, misses, keys, shown, cut,
              faults>>
Committing == <<entry, rows, fresh, age>>
Reporting == <<ledger, exports, gone, torn, deletes, day>>
Reading == <<rules, filter, log, reader>>
Measuring == <<events, sessions, feedback, logged, hour>>
allVars == <<part, Consolidating, Admitting, Stopping, Paging, Claiming, Committing, Reporting,
             Reading, Measuring>>

-----------------------------------------------------------------------------
(* Instances *)

OneNamespace == {alpha}
TwoNamespaces == {alpha, beta}
OneTarget == {gamma}
TwoLevels == {0, 2}
FloorOne == [n \in {alpha, gamma} |-> 0]
FloorTwo == [n \in {alpha, beta, gamma} |-> 0]

Edits == INSTANCE Consolidation WITH
  MinLogs <- 1, MaxAttempts <- 2, MaxPreviews <- 1, MaxLogs <- 2, MaxTime <- 1, MaxEdits <- 1,
  MaxExits <- 1

Drain == INSTANCE Consolidation WITH
  Namespaces <- TwoNamespaces, Floor <- FloorTwo, MinLogs <- 1, MaxAttempts <- 1,
  MaxFailures <- 2, MaxPreviews <- 0, MaxLogs <- 2, MaxTime <- 1, MaxEdits <- 1, MaxExits <- 1

OneCredentialForTwo == "c1" :> "k" @@ "c2" :> "k" @@ "c3" :> "l"

\* Two wordings of one step, and a promise with a date.
Wordings == {"draft", "draft #1", "by may"}
TwoWordings ==
  [s \in Wordings |->
     [t \in Wordings |-> IF s = t THEN 2 ELSE IF {s, t} = {"draft", "draft #1"} THEN 1 ELSE 0]]

\* The last record corrects the second and refers to the first.
Evidence ==
  {[id |-> 1, refs |-> {}, corrects |-> {}, level |-> 0, observed |-> 0],
   [id |-> 2, refs |-> {}, corrects |-> {}, level |-> 0, observed |-> 0],
   [id |-> 3, refs |-> {2}, corrects |-> {}, level |-> 1, observed |-> 1],
   [id |-> 4, refs |-> {1}, corrects |-> {2}, level |-> 0, observed |-> 1]}
HighestForAll == [c \in {"owner"} |-> 1]

Nested == {<<"a">>, <<"a", "b">>, <<"a", "b", "c">>, <<"d">>}
Rules ==
  {[kind |-> k, at |-> p, permissions |-> "rw"] :
     k \in {"prefix", "exact"}, p \in {<<"a">>, <<"a", "b">>}}
  \cup {[kind |-> "all", at |-> <<>>, permissions |-> q] : q \in {"read", "write"}}
OneOrTwoRules == {R \in SUBSET Rules : Cardinality(R) \in 1 .. 2}
EveryFilter ==
  {[kind |-> "none", at |-> <<>>]}
  \cup {[kind |-> k, at |-> p] : k \in {"prefix", "subtree"}, p \in {<<"a">>, <<"a", "b">>}}

OneArea == [e \in {"e1"} |-> "n1"]

\* The analytics have two scenarios: two events and all that may follow them, and
\* three of them within a shorter time, so that one may be reformulated twice.
Following == INSTANCE RetrievalAnalytics WITH
  Entries <- Results, Retention <- EventsKept, MaxEvents <- 2, MaxTime <- MaxHour, now <- hour

Requerying == INSTANCE RetrievalAnalytics WITH
  Entries <- Results, Retention <- EventsKept, MaxFeedback <- 0, MaxTime <- 1, now <- hour

-----------------------------------------------------------------------------

PartsInit ==
  /\ \/ part = "edits" /\ Edits!Init
     \/ part = "drain" /\ Drain!Init
     \/ part \in {"clock", "admission", "shutdown", "query", "device", "commitments", "health",
                  "history", "analytics", "requeries"} /\ Init
  /\ Admit!Init /\ Stop!Init /\ Device!Init /\ Health!Init /\ Analytics!Init
  /\ Query!Init /\ access = [p \in Principals |-> Entries]
  /\ \A e \in Entries : item[e] = "expired" => part = "query" /\ e = 4
  /\ Track!Init /\ (part = "commitments" \/ \A r \in rows : r.step = "draft" /\ r.status = "open")
  /\ History!Init /\ (part = "history" \/ (filter.kind = "none" /\ \A r \in rules : r.permissions = "read"))

ConsolidationMoves ==
  /\ \/ part = "clock" /\ Next
     \/ part = "edits" /\ Edits!Next
     \/ part = "drain" /\ Drain!Next
  /\ UNCHANGED <<part, Admitting, Stopping, Paging, Claiming, Committing, Reporting, Reading,
                 Measuring>>

AdmissionMoves ==
  /\ part = "admission" /\ Admit!Next
  /\ UNCHANGED <<part, Consolidating, Stopping, Paging, Claiming, Committing, Reporting, Reading,
                 Measuring>>

ShutdownMoves ==
  /\ part = "shutdown" /\ Stop!Next
  /\ UNCHANGED <<part, Consolidating, Admitting, Paging, Claiming, Committing, Reporting, Reading,
                 Measuring>>

QueryMoves ==
  /\ part = "query" /\ Query!Next
  /\ UNCHANGED <<part, Consolidating, Admitting, Stopping, Claiming, Committing, Reporting, Reading,
                 Measuring>>

DeviceMoves ==
  /\ part = "device" /\ Device!Next
  /\ UNCHANGED <<part, Consolidating, Admitting, Stopping, Paging, Committing, Reporting, Reading,
                 Measuring>>

CommitmentsMove ==
  /\ part = "commitments" /\ Track!Next
  /\ UNCHANGED <<part, Consolidating, Admitting, Stopping, Paging, Claiming, Reporting, Reading,
                 Measuring>>

HealthMoves ==
  /\ part = "health" /\ Health!Next
  /\ UNCHANGED <<part, Consolidating, Admitting, Stopping, Paging, Claiming, Committing, Reading,
                 Measuring>>

HistoryMoves ==
  /\ part = "history" /\ History!Next
  /\ UNCHANGED <<part, Consolidating, Admitting, Stopping, Paging, Claiming, Committing, Reporting,
                 Measuring>>

AnalyticsMoves ==
  /\ \/ part = "analytics" /\ Following!Next
     \/ part = "requeries" /\ Requerying!Next
  /\ UNCHANGED <<part, Consolidating, Admitting, Stopping, Paging, Claiming, Committing, Reporting,
                 Reading>>

PartsNext ==
  \/ ConsolidationMoves \/ AdmissionMoves \/ ShutdownMoves \/ QueryMoves
  \/ DeviceMoves \/ CommitmentsMove \/ HealthMoves \/ HistoryMoves
  \/ AnalyticsMoves

\* The fairness of Consolidation's FairSpec, for "drain", and Shutdown's own.
PartsSpec ==
  /\ PartsInit /\ [][PartsNext]_allVars
  /\ \A p \in Processes :
       /\ WF_vars(part = "drain" /\ Drain!StartWorker(p))
       /\ WF_vars(part = "drain" /\ Drain!Worker(p))
       /\ \A n \in TwoNamespaces : SF_vars(part = "drain" /\ Drain!SynthesisOf(p, n))
  /\ Stop!Fairness

-----------------------------------------------------------------------------
(* Properties *)

\* What is due and may be sent gets drained, whatever fails in between, with
\* batches shorter than the list of namespaces that wait (the worker's
\* candidates, batches and retries in consolidation.ts).
BacklogDrains == \A n \in TwoNamespaces : []<>~(part = "drain" /\ Drain!Waiting(n))

=============================================================================
