----------------------------- MODULE ServerParts -----------------------------
(***************************************************************************)
(* The parts of the server that share no state with each other or with the *)
(* consolidation worker, each with constants and variables of its own:     *)
(* what MCServerParts checks beside one another on small instances, and    *)
(* what ServerPartsProofs proves of each for any instance.                 *)
(***************************************************************************)
EXTENDS Integers, FiniteSets, Sequences

CONSTANTS  \* Admission
  Callers, Credential, CallerMax, CredentialMax, GlobalMax, WindowMs, MaxCallers, MaxMs

CONSTANTS  \* Shutdown
  Clients, Workers

CONSTANTS  \* QuerySnapshots
  Principals, Entries, Scopes, Canonical, RerankWindow, MaxMatches, MaxOwn, MaxAll, MaxLimit,
  MaxQueries, MaxChanges

CONSTANTS  \* Onboarding
  Threshold, MaxKeys, MaxFaults

CONSTANTS  \* Commitments
  Steps, Dated, Alike, Writers, Trackers, MaxSteps, MaxSources, MaxRows, MaxAge

CONSTANTS  \* CodeHealth
  Records, Consumers, Ceiling, RecordLevels, Freshness, RecordsKept, Lifetime, ExportPage,
  MaxDeletes, MaxDay

CONSTANTS  \* AuditHistory
  Paths, Filters, RuleSets, HistoryPage, MaxHistory

CONSTANTS  \* RetrievalAnalytics
  Sessions, Results, NamespaceOf, Correlation, EventsKept, SessionKept, MaxEvents, MaxFeedback,
  MaxHour

\* An observation is refused long before a record of its age is let go: after
\* thirty days, when records are kept for six months.  Ids have an order.
ASSUME HealthAssumption ==
  /\ Freshness \in Nat /\ RecordsKept \in Nat /\ Freshness < RecordsKept
  /\ ExportPage \in Nat /\ Lifetime \in Nat /\ MaxDeletes \in Nat /\ MaxDay \in Nat
  /\ IsFiniteSet(Records) /\ \A r \in Records : r.id \in Nat /\ r.observed \in Nat

\* There are finitely many entries, and rules let somebody read some of them.
ASSUME QueryAssumption ==
  /\ Entries \subseteq Nat /\ IsFiniteSet(Entries) /\ Scopes \subseteq SUBSET Entries
  /\ RerankWindow \in Nat /\ MaxMatches \in Nat /\ MaxLimit \in Nat
  /\ MaxQueries \in Nat /\ MaxChanges \in Nat

\* What a device counts it counts in natural numbers.
ASSUME DeviceAssumption == Threshold \in Nat /\ MaxKeys \in Nat /\ MaxFaults \in Nat

\* There are finitely many wordings, and how alike two of them are is a number.
\* A text has room for a step.
ASSUME CommitmentsAssumption ==
  /\ IsFiniteSet(Steps) /\ Alike \in [Steps -> [Steps -> Nat]]
  /\ MaxSteps \in Nat \ {0} /\ MaxSources \in Nat /\ MaxRows \in Nat /\ MaxAge \in Nat

\* The log that is followed is finite.
ASSUME HistoryAssumption == MaxHistory \in Nat

\* Events are kept for a time.
ASSUME AnalyticsAssumption == EventsKept \in Nat /\ MaxEvents \in Nat /\ MaxHour \in Nat

VARIABLES
  time, callers, credentials, bucket, served,            \* Admission
  phase, code, conn, handlers, worker, pending,          \* Shutdown
  item, access, asking, snapshots, pages, changes,       \* QuerySnapshots
  state, hash, env, routes, attempt, half, hotspot,
  link, misses, keys, shown, cut, faults,                \* Onboarding
  entry, rows, fresh, age,                               \* Commitments
  ledger, exports, gone, torn, deletes, day,             \* CodeHealth
  rules, filter, log, reader,                            \* AuditHistory
  events, sessions, feedback, logged, hour               \* RetrievalAnalytics

Admit == INSTANCE Admission WITH now <- time, MaxTime <- MaxMs

\* Callers, credentials and the shared buckets are kept apart, in tables of
\* their own; limits and times are natural numbers.
ASSUME AdmissionAssumption ==
  /\ CallerMax \in Nat /\ CredentialMax \in Nat /\ GlobalMax \in Nat
  /\ WindowMs \in Nat /\ MaxMs \in Nat \ {0}
  /\ Callers \cap Admit!Credentials = {}
  /\ (Callers \cup Admit!Credentials) \cap Admit!Shared = {}

Stop == INSTANCE Shutdown

Query == INSTANCE QuerySnapshots WITH entry <- item, stored <- pages

Device == INSTANCE Onboarding WITH torn <- cut

Track == INSTANCE Commitments WITH Callers <- Writers, MaxTime <- MaxAge, now <- age

Health == INSTANCE CodeHealth WITH
  Levels <- RecordLevels, Retention <- RecordsKept, PageLimit <- ExportPage, MaxTime <- MaxDay,
  now <- day

History == INSTANCE AuditHistory WITH
  Namespaces <- Paths, PageLimit <- HistoryPage, MaxLog <- MaxHistory

Analytics == INSTANCE RetrievalAnalytics WITH
  Entries <- Results, Retention <- EventsKept, MaxTime <- MaxHour, now <- hour

-----------------------------------------------------------------------------
(* The properties of the parts, stated in their modules *)

\* Every variable of every part has its type: whatever a part does, its tables
\* hold rows of the right shape that name only what there is, its buckets never
\* hold more than they can, and its counters stay within their bounds.
PartsTypeOK ==
  /\ Admit!TypeOK /\ Stop!TypeOK /\ Query!TypeOK /\ Device!TypeOK
  /\ Track!TypeOK /\ Health!TypeOK /\ History!TypeOK /\ Analytics!TypeOK

AdmissionBounded == Admit!AdmissionBounded
CleanExit == Stop!CleanExit
ShutdownEnds == Stop!ShutdownEnds
PagesSkipNothing == Query!PagesSkipNothing
OthersKeepTheirs == Query!OthersKeepTheirs
KeyIsKnown == Device!KeyIsKnown
OpenAreWritten == Track!OpenAreWritten
RewordingIsNotDelivery == Track!RewordingIsNotDelivery
RefsResolve == Health!RefsResolve
CompleteMeansAll == Health!CompleteMeansAll
NeverRecreated == Health!NeverRecreated
HistoryIsWhole == History!HistoryIsWhole
RatesAreFractions == Analytics!RatesAreFractions

=============================================================================
