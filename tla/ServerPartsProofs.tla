-------------------------- MODULE ServerPartsProofs --------------------------
(* Theorems about the parts of the server that share no state, each for any  *)
(* instance of its constants.                                                *)
EXTENDS ServerParts, FiniteSetTheorems, TLAPS

(* Shutdown *)

\* The stops that have not settled are those of workers with a batch; once the
\* workers are told to stop there is no connection, and no other worker works.
StopInv ==
  /\ Stop!TypeOK
  /\ \A w \in pending : worker[w] = "busy"
  /\ phase \in {"loading", "serving", "draining"} => pending = {}
  /\ phase \in {"stopping", "exited"} => \A c \in Clients : conn[c] = "none"
  /\ phase = "stopping" => \A w \in Workers \ pending : worker[w] = "off"
  /\ phase = "exited" /\ code = 0 => \A w \in Workers : worker[w] = "off"

LEMMA StopInitHolds == Stop!Init => StopInv
BY DEF Stop!Init, StopInv, Stop!TypeOK, Stop!Phases

\* Clients come and go while there is a process.
LEMMA StopClientKeeps ==
  ASSUME StopInv, NEW c \in Clients, Stop!Request(c) \/ Stop!Respond(c) \/ Stop!Disconnect(c)
  PROVE  StopInv'
<1>1. CASE Stop!Request(c)
  BY <1>1 DEF Stop!Request, StopInv, Stop!TypeOK, Stop!Phases
<1>2. CASE Stop!Respond(c)
  BY <1>2 DEF Stop!Respond, Stop!Alive, StopInv, Stop!TypeOK, Stop!Phases
<1>3. CASE Stop!Disconnect(c)
  BY <1>3 DEF Stop!Disconnect, Stop!Alive, StopInv, Stop!TypeOK, Stop!Phases
<1> QED BY <1>1, <1>2, <1>3

\* A worker's batch begins and ends.
LEMMA StopWorkerKeeps ==
  ASSUME StopInv, NEW w \in Workers, Stop!StartBatch(w) \/ Stop!EndBatch(w) \/ Stop!BatchRejects(w)
  PROVE  StopInv'
<1>1. CASE Stop!StartBatch(w)
  BY <1>1 DEF Stop!StartBatch, Stop!Alive, StopInv, Stop!TypeOK, Stop!Phases
<1>2. CASE Stop!EndBatch(w)
  BY <1>2 DEF Stop!EndBatch, Stop!Alive, StopInv, Stop!TypeOK, Stop!Phases
<1>3. CASE Stop!BatchRejects(w)
  BY <1>3 DEF Stop!BatchRejects, Stop!Alive, StopInv, Stop!TypeOK, Stop!Phases
<1> QED BY <1>1, <1>2, <1>3

\* The shutdown takes its steps.
LEMMA StopStepKeeps ==
  ASSUME StopInv, Stop!Step
  PROVE  StopInv'
<1>1. CASE Stop!Sweep
  BY <1>1 DEF Stop!Sweep, StopInv, Stop!TypeOK, Stop!Phases
<1>2. CASE Stop!DrainTimeout
  BY <1>2 DEF Stop!DrainTimeout, Stop!Closed, StopInv, Stop!TypeOK, Stop!Phases
<1>3. CASE Stop!StopWorkers
  BY <1>3 DEF Stop!StopWorkers, Stop!Drained, StopInv, Stop!TypeOK, Stop!Phases
<1>4. CASE Stop!WorkersStopped
  BY <1>4 DEF Stop!WorkersStopped, Stop!End, StopInv, Stop!TypeOK, Stop!Phases
<1>5. CASE Stop!StopTimeout
  BY <1>5 DEF Stop!StopTimeout, Stop!End, Stop!TimedOutCode, StopInv, Stop!TypeOK, Stop!Phases
<1> QED BY <1>1, <1>2, <1>3, <1>4, <1>5 DEF Stop!Step

LEMMA StopNextKeeps == StopInv /\ [Stop!Next]_(Stop!vars) => StopInv'
<1> SUFFICES ASSUME StopInv, [Stop!Next]_(Stop!vars) PROVE StopInv'
  OBVIOUS
<1>1. CASE Stop!Start
  BY <1>1 DEF Stop!Start, StopInv, Stop!TypeOK, Stop!Phases
<1>2. ASSUME NEW fatal \in BOOLEAN, Stop!Shutdown(fatal) PROVE StopInv'
  BY <1>2 DEF Stop!Shutdown, StopInv, Stop!TypeOK, Stop!Phases
<1>3. CASE UNCHANGED Stop!vars
  BY <1>3 DEF Stop!vars, StopInv, Stop!TypeOK
<1> QED BY <1>1, <1>2, <1>3, StopClientKeeps, StopWorkerKeeps, StopStepKeeps DEF Stop!Next

\* Every variable keeps its type: the process is in a phase of its life, and
\* only a worker is waited for.
THEOREM StopTypeCorrect == Stop!Spec => []Stop!TypeOK
<1>1. StopInv => Stop!TypeOK
  BY DEF StopInv
<1> QED BY <1>1, StopInitHolds, StopNextKeeps, PTL DEF Stop!Spec

\* The database is closed under no client that waits for an answer, and a
\* process that reports success cut off no batch and lost no failure, however
\* many clients and workers there are.
THEOREM CleanExitAlways == Stop!Spec => []CleanExit
<1>1. StopInv => CleanExit
  BY DEF StopInv, CleanExit, Stop!CleanExit
<1> QED BY <1>1, StopInitHolds, StopNextKeeps, PTL DEF Stop!Spec

-----------------------------------------------------------------------------
(* Onboarding *)

\* A state that is not claimed leaves nothing to show.
LEMMA NotClaimed ==
  ASSUME state' # "CLAIMED"
  PROVE  Device!KeyIsKnown'
BY DEF Device!KeyIsKnown

\* A step that leaves the files, what was shown and the requests alone.
LEMMA KeyKept ==
  ASSUME Device!KeyIsKnown, state' = "CLAIMED" => state = "CLAIMED",
         UNCHANGED <<env, shown, cut, half>>
  PROVE  Device!KeyIsKnown'
BY DEF Device!KeyIsKnown

LEMMA DeviceBootKeeps ==
  ASSUME Device!KeyIsKnown, Device!Boot
  PROVE  Device!KeyIsKnown'
<1>1. state' = Device!Reconciled[1] /\ UNCHANGED <<env, shown, cut, half>>
  BY DEF Device!Boot, Device!ghosts
<1>2. Device!Reconciled[1] = "CLAIMED" => state = "CLAIMED"
  <2>1. CASE state = "CONNECTING"
    BY <2>1 DEF Device!Reconciled
  <2>2. CASE state = "FACTORY_RESET"
    BY <2>2 DEF Device!Reconciled
  <2>3. CASE state = "CLAIMED"
    BY <2>3
  <2>4. CASE state \in {"DAMAGED", "MISSING"}
    BY <2>4 DEF Device!Reconciled
  <2>5. CASE state \notin {"CONNECTING", "FACTORY_RESET", "DAMAGED", "MISSING", "CLAIMED"}
    BY <2>5 DEF Device!Reconciled
  <2> QED BY <2>1, <2>2, <2>3, <2>4, <2>5
<1> QED BY <1>1, <1>2, KeyKept

\* A crash that finds a regeneration half done is remembered.
LEMMA DeviceCrashKeeps ==
  ASSUME Device!KeyIsKnown, Device!Crash
  PROVE  Device!KeyIsKnown'
BY DEF Device!Crash, Device!device, Device!KeyIsKnown

LEMMA DeviceRadioKeeps ==
  ASSUME Device!KeyIsKnown,
         Device!Connect \/ Device!StopHotspot \/ Device!ConnectSucceeds \/ Device!ConnectFails \/ Device!Check \/ Device!LinkChanges
  PROVE  Device!KeyIsKnown'
<1>1. UNCHANGED <<env, shown, cut, half>>
  BY DEF Device!Connect, Device!StopHotspot, Device!ConnectSucceeds, Device!ConnectFails, Device!Check, Device!LinkChanges, Device!ghosts
<1>2. state' = "CLAIMED" => state = "CLAIMED"
  BY DEF Device!Connect, Device!StopHotspot, Device!ConnectSucceeds, Device!ConnectFails, Device!Check, Device!LinkChanges, Device!Connected,
         Device!device
<1> QED BY <1>1, <1>2, KeyKept

\* What a claim or a regeneration leaves between its two writes, and after them.
LEMMA DeviceKeysKeep ==
  ASSUME Device!KeyIsKnown, Device!Claim \/ Device!FinishClaim \/ Device!Regenerate \/ Device!FinishRegenerate
  PROVE  Device!KeyIsKnown'
<1>1. CASE Device!Claim
  BY <1>1, NotClaimed DEF Device!Claim, Device!NewKey, Device!device
<1>2. CASE Device!FinishClaim
  <2>1. CASE shown' = env /\ env' = env
    BY <2>1 DEF Device!KeyIsKnown
  <2>2. CASE UNCHANGED <<Device!device, shown, cut>>
    BY <1>2, <2>2 DEF Device!FinishClaim, Device!device, Device!KeyIsKnown
  <2> QED BY <1>2, <2>1, <2>2 DEF Device!FinishClaim
<1>3. CASE Device!Regenerate
  BY <1>3 DEF Device!Regenerate, Device!NewKey, Device!KeyIsKnown
<1>4. CASE Device!FinishRegenerate
  BY <1>4 DEF Device!FinishRegenerate, Device!KeyIsKnown
<1> QED BY <1>1, <1>2, <1>3, <1>4

LEMMA DeviceNextKeeps == Device!KeyIsKnown /\ [Device!Next]_(Device!vars) => Device!KeyIsKnown'
<1> SUFFICES ASSUME Device!KeyIsKnown, [Device!Next]_(Device!vars) PROVE Device!KeyIsKnown'
  OBVIOUS
<1>1. CASE Device!Reset
  BY <1>1, NotClaimed DEF Device!Reset
<1>2. CASE Device!EnvFileLost
  BY <1>2 DEF Device!EnvFileLost, Device!KeyIsKnown
<1>4. CASE Device!StateFileLost
  BY <1>4, NotClaimed DEF Device!StateFileLost
<1>3. CASE UNCHANGED Device!vars
  BY <1>3, KeyKept DEF Device!vars, Device!device, Device!ghosts
<1> QED BY <1>1, <1>2, <1>3, <1>4, DeviceBootKeeps, DeviceCrashKeeps, DeviceRadioKeeps, DeviceKeysKeep DEF Device!Next

\* The key of a claimed device is one it has shown, or its file is lost, or a
\* regeneration is under way or was cut short: the invariant is inductive as it
\* stands, whatever crash falls between the two files.
THEOREM KeyIsKnownAlways == Device!Spec => []KeyIsKnown
<1>1. Device!Init => Device!KeyIsKnown
  BY DEF Device!Init, Device!KeyIsKnown
<1> QED BY <1>1, DeviceNextKeeps, PTL DEF Device!Spec, KeyIsKnown

-----------------------------------------------------------------------------
(* AuditHistory *)

HistoryProofs == INSTANCE AuditHistoryProofs WITH
  Namespaces <- Paths, PageLimit <- HistoryPage, MaxLog <- MaxHistory

\* A consumer that has paged back to the beginning and polled to the end has all
\* rows that its rules and its filter let it see and no other, for any finite sets
\* of rules, any filters over segments X, any page size and any length of the log.
THEOREM HistoryIsWholeAlways ==
  ASSUME NEW X, HistoryProofs!Instances(X)
  PROVE  History!Spec => []HistoryIsWhole
<1>1. HistoryProofs!Spec => []HistoryProofs!HistoryIsWhole
  BY HistoryProofs!HistoryIsWholeAlways
<1>2. \A S : History!Cardinality(S) = HistoryProofs!Cardinality(S)
  BY DEF
    History!Cardinality, HistoryProofs!Cardinality
<1>3. \A R, n : History!CanRead(R, n) <=> HistoryProofs!CanRead(R, n)
  BY DEF
    History!StartsWith, HistoryProofs!StartsWith, History!Below, HistoryProofs!Below,
    History!Readable, HistoryProofs!Readable, History!MatchesPattern,
    HistoryProofs!MatchesPattern, History!CanRead, HistoryProofs!CanRead
<1>4. \A R, n : History!CanReadSubtree(R, n) <=> HistoryProofs!CanReadSubtree(R, n)
  BY DEF
    History!StartsWith, HistoryProofs!StartsWith, History!Below, HistoryProofs!Below,
    History!Readable, HistoryProofs!Readable, History!MatchesPattern,
    HistoryProofs!MatchesPattern, History!CanReadSubtree, HistoryProofs!CanReadSubtree
<1>5. \A R, f, n : History!SelectedBy(R, f, n) <=> HistoryProofs!SelectedBy(R, f, n)
  BY DEF
    History!StartsWith, HistoryProofs!StartsWith, History!Below, HistoryProofs!Below,
    History!Readable, HistoryProofs!Readable, History!MatchesPattern,
    HistoryProofs!MatchesPattern, History!Exact, HistoryProofs!Exact, History!Prefix,
    HistoryProofs!Prefix, History!Selects, HistoryProofs!Selects, History!Selected,
    HistoryProofs!Selected, History!FilterSelectors, HistoryProofs!FilterSelectors,
    History!RuleSelectors, HistoryProofs!RuleSelectors, History!Covers,
    HistoryProofs!Covers, History!Normalized, HistoryProofs!Normalized, History!Meet,
    HistoryProofs!Meet, History!Meets, HistoryProofs!Meets, History!Unrestricted,
    HistoryProofs!Unrestricted, History!SelectedBy, HistoryProofs!SelectedBy
<1>6. History!Rows = HistoryProofs!Rows
  BY <1>3, <1>4, <1>5 DEF
    History!Rows, HistoryProofs!Rows, History!Refused, HistoryProofs!Refused
<1>7. \A S : History!Visible(S) = HistoryProofs!Visible(S)
  BY <1>3 DEF
    History!Visible, HistoryProofs!Visible
<1>8. \A S : /\ History!Newest(S) = HistoryProofs!Newest(S)
           /\ History!Oldest(S) = HistoryProofs!Oldest(S)
  BY <1>2 DEF
    History!Newest, HistoryProofs!Newest, History!Oldest, HistoryProofs!Oldest
<1>9. History!First <=> HistoryProofs!First
  BY <1>6, <1>7, <1>8 DEF
    History!First, HistoryProofs!First, History!Highest, HistoryProofs!Highest,
    History!Lowest, HistoryProofs!Lowest, History!FirstSync, HistoryProofs!FirstSync,
    History!OlderThan, HistoryProofs!OlderThan, History!NoCursor,
    HistoryProofs!NoCursor
<1>10. History!Older <=> HistoryProofs!Older
  BY <1>6, <1>7, <1>8 DEF
    History!Older, HistoryProofs!Older, History!Highest, HistoryProofs!Highest,
    History!Lowest, HistoryProofs!Lowest, History!FirstSync, HistoryProofs!FirstSync,
    History!OlderThan, HistoryProofs!OlderThan, History!NoCursor,
    HistoryProofs!NoCursor
<1>11. History!Poll <=> HistoryProofs!Poll
  BY <1>6, <1>7, <1>8 DEF
    History!Poll, HistoryProofs!Poll, History!Highest, HistoryProofs!Highest,
    History!Lowest, HistoryProofs!Lowest, History!FirstSync, HistoryProofs!FirstSync,
    History!OlderThan, HistoryProofs!OlderThan, History!NoCursor,
    HistoryProofs!NoCursor
<1>12. [History!Next]_(History!vars) <=> [HistoryProofs!Next]_(HistoryProofs!vars)
  BY <1>9, <1>10, <1>11 DEF
    History!Next, HistoryProofs!Next, History!vars, HistoryProofs!vars, History!Log,
    HistoryProofs!Log
<1>13. History!Init <=> HistoryProofs!Init
  BY DEF
    History!Init, HistoryProofs!Init, History!NoCursor, HistoryProofs!NoCursor
<1>14. HistoryIsWhole <=> HistoryProofs!HistoryIsWhole
  BY <1>3 DEF HistoryIsWhole,
    History!HistoryIsWhole, HistoryProofs!HistoryIsWhole, History!NoCursor,
    HistoryProofs!NoCursor, History!MatchesFilter, HistoryProofs!MatchesFilter,
    History!StartsWith, HistoryProofs!StartsWith, History!Below, HistoryProofs!Below
<1> QED BY <1>1, <1>12, <1>13, <1>14, PTL DEF History!Spec, HistoryProofs!Spec

-----------------------------------------------------------------------------
(* CodeHealth *)

\* A closure holds what it starts from, and no edge leaves it.
LEMMA ClosureHolds ==
  ASSUME NEW S, NEW edges, S \subseteq DOMAIN edges,
         \A j \in DOMAIN edges : edges[j] \subseteq DOMAIN edges
  PROVE  /\ S \subseteq Health!Closure(S, edges)
         /\ Health!Closure(S, edges) \subseteq DOMAIN edges
         /\ \A j \in Health!Closure(S, edges) : edges[j] \subseteq Health!Closure(S, edges)
BY DEF Health!Closure

\* The dependents of stored records are stored, and so are all that refer to
\* one of them.
LEMMA DependentsHold ==
  ASSUME NEW S \in SUBSET Health!Live(ledger)
  PROVE  /\ S \subseteq Health!Dependents(S)
         /\ Health!Dependents(S) \subseteq Health!Live(ledger)
         /\ \A j \in Health!Dependents(S), i \in Health!Live(ledger) :
              j \in Health!Refs(i) => i \in Health!Dependents(S)
<1> DEFINE edges == [j \in Health!Live(ledger) |-> {i \in Health!Live(ledger) : j \in Health!Refs(i)}]
<1>1. Health!Dependents(S) = Health!Closure(S, edges)
  BY DEF Health!Dependents
<1>2. /\ DOMAIN edges = Health!Live(ledger)
      /\ \A j \in DOMAIN edges : edges[j] = {i \in Health!Live(ledger) : j \in Health!Refs(i)}
  OBVIOUS
<1> HIDE DEF edges
<1> QED BY <1>1, <1>2, ClosureHolds

\* The chains of stored records hold them, and are stored.
LEMMA ChainHolds ==
  ASSUME NEW S \in SUBSET Health!Live(ledger)
  PROVE  S \subseteq Health!Chain(S) /\ Health!Chain(S) \subseteq Health!Live(ledger)
<1> DEFINE edges ==
      [j \in Health!Live(ledger) |->
         {i \in Health!Live(ledger) : \/ i \in ledger[j].payload.corrects
                                     \/ j \in ledger[i].payload.corrects}]
<1>1. Health!Chain(S) = Health!Closure(S, edges)
  BY DEF Health!Chain
<1>2. /\ DOMAIN edges = Health!Live(ledger)
      /\ \A j \in DOMAIN edges : edges[j] \subseteq Health!Live(ledger)
  OBVIOUS
<1> HIDE DEF edges
<1> QED BY <1>1, <1>2, ClosureHolds

\* A row is one of a stored record or of a deleted one, under the record's id,
\* and it goes when the record's observation is out of date for good; what has
\* gone is.
HealthInv ==
  /\ DOMAIN ledger = Health!Ids /\ day \in Nat
  /\ \A i \in Health!Ids : ledger[i].state \in {"none", "live", "tomb"}
  /\ \A i \in Health!Ids : ledger[i].state # "none" =>
       /\ ledger[i].payload \in Records /\ ledger[i].payload.id = i
       /\ ledger[i].expires \in Nat
       /\ ledger[i].payload.observed + RecordsKept <= ledger[i].expires
  /\ gone \subseteq Records
  /\ \A p \in gone : p.observed + RecordsKept <= day
  /\ RefsResolve

\* A row keeps what the invariant says of it, whatever becomes of its state.
RowKept(i) ==
  \/ ledger'[i].state = "none"
  \/ /\ ledger[i].state # "none" /\ ledger'[i].state \in {"live", "tomb"}
     /\ ledger'[i].payload = ledger[i].payload /\ ledger'[i].expires = ledger[i].expires

LEMMA HealthRowsKept ==
  ASSUME HealthInv, DOMAIN ledger' = Health!Ids, \A i \in Health!Ids : RowKept(i),
         gone' \subseteq Records, \A p \in gone' : p.observed + RecordsKept <= day',
         day' \in Nat, RefsResolve'
  PROVE  HealthInv'
BY DEF HealthInv, RowKept, Health!Ids

\* A record is stored under an id that has no row, with an expiry that is its
\* observation's or later, and what it refers to is stored.
LEMMA StoreKeeps ==
  ASSUME HealthInv, NEW level \in RecordLevels, NEW r \in Records, Health!Store(level, r)
  PROVE  HealthInv'
<1> DEFINE stored == [state |-> "live", payload |-> r, current |-> TRUE, expires |-> day + RecordsKept]
<1>1. /\ r.id \in Health!Ids /\ ledger[r.id].state = "none"
      /\ DOMAIN ledger' = Health!Ids /\ ledger'[r.id] = stored
      /\ UNCHANGED <<gone, torn, day>>
  BY DEF Health!Store, Health!Unused, Health!Ids
<1>2. ASSUME NEW i \in Health!Ids, i # r.id
      PROVE  /\ ledger'[i].state = ledger[i].state
             /\ ledger[i].state # "none" =>
                  ledger'[i].payload = ledger[i].payload /\ ledger'[i].expires = ledger[i].expires
  <2>1. CASE i \in r.corrects
    <3>1. ledger'[i] = [ledger[i] EXCEPT !.current = FALSE]
      BY <1>2, <2>1 DEF Health!Store
    <3> QED BY <3>1
  <2>2. CASE i \notin r.corrects
    BY <1>2, <2>2 DEF Health!Store
  <2> QED BY <2>1, <2>2
<1>3. /\ stored.state = "live" /\ stored.payload = r /\ stored.expires \in Nat
      /\ r.observed + RecordsKept <= stored.expires
  BY HealthAssumption DEF HealthInv, Health!Store, Health!Fresh
<1> HIDE DEF stored
<1>4. Health!Live(ledger') = Health!Live(ledger) \cup {r.id}
  BY <1>1, <1>2, <1>3 DEF Health!Live
<1>5. r.refs \cup r.corrects \subseteq Health!Live(ledger)
  BY DEF Health!Store, Health!ContextResolves, Health!Context, Health!Kept
<1>6. RefsResolve'
  <2>1. SUFFICES ASSUME NEW i \in Health!Live(ledger'), NEW j,
                        j \in ledger'[i].payload.refs \cup ledger'[i].payload.corrects
                 PROVE  j \in Health!Live(ledger') \cup torn'
    BY DEF RefsResolve, Health!RefsResolve, Health!Refs
  <2>2. CASE i = r.id
    BY <1>1, <1>3, <1>4, <1>5, <2>1, <2>2
  <2>3. CASE i # r.id
    <3>1. i \in Health!Live(ledger) /\ ledger'[i].payload = ledger[i].payload
      BY <1>2, <1>4, <2>3 DEF Health!Live
    <3>2. j \in Health!Refs(i)
      BY <2>1, <3>1 DEF Health!Refs
    <3> QED BY <1>1, <1>4, <3>1, <3>2 DEF HealthInv, RefsResolve, Health!RefsResolve
  <2> QED BY <2>2, <2>3
<1> QED BY <1>1, <1>2, <1>3, <1>6 DEF HealthInv, Health!Ids

\* A stored record that is not deleted with S, when S is whole but for torn, has
\* its references stored.
LEMMA RemainderResolves ==
  ASSUME HealthInv, NEW S, Health!Live(ledger') = Health!Live(ledger) \ S,
         \A i \in Health!Live(ledger') : ledger'[i].payload = ledger[i].payload,
         torn \subseteq torn',
         \A i \in Health!Live(ledger) \ S, j \in Health!Live(ledger) \cap S :
           j \in Health!Refs(i) => j \in torn'
  PROVE  RefsResolve'
<1>1. SUFFICES ASSUME NEW i \in Health!Live(ledger'), NEW j,
                      j \in ledger'[i].payload.refs \cup ledger'[i].payload.corrects
               PROVE  j \in Health!Live(ledger') \cup torn'
  BY DEF RefsResolve, Health!RefsResolve, Health!Refs
<1>2. i \in Health!Live(ledger) \ S /\ j \in Health!Refs(i)
  BY <1>1 DEF Health!Refs
<1>3. j \in Health!Live(ledger) \cup torn
  BY <1>2 DEF HealthInv, RefsResolve, Health!RefsResolve
<1> QED BY <1>2, <1>3

\* A namespace delete takes a record with all that refers to it.
LEMMA DeleteKeeps ==
  ASSUME HealthInv, NEW level \in RecordLevels, Health!Delete(level)
  PROVE  HealthInv'
<1> DEFINE S == {i \in Health!Live(ledger) : ledger[i].payload.level <= level}
<1>1. /\ Health!Whole(S) /\ UNCHANGED <<gone, torn, day>>
      /\ ledger' = [i \in Health!Ids |-> IF i \in S THEN Health!Tombstone(ledger[i]) ELSE ledger[i]]
  BY DEF Health!Delete, Health!Removed
<1>2. \A i \in S : i \in Health!Ids /\ ledger[i].state = "live"
  BY DEF Health!Live
<1> HIDE DEF S
<1>3. \A i \in Health!Ids : RowKept(i)
  BY <1>1, <1>2 DEF RowKept, Health!Tombstone, HealthInv
<1>4. /\ Health!Live(ledger') = Health!Live(ledger) \ S
      /\ \A i \in Health!Live(ledger') : ledger'[i].payload = ledger[i].payload
  BY <1>1 DEF Health!Live, Health!Tombstone
<1>5. RefsResolve'
  BY <1>1, <1>4, RemainderResolves DEF Health!Whole
<1> QED BY <1>1, <1>3, <1>5, HealthRowsKept DEF HealthInv

\* The prune leaves no record that refers to one it took, unless that went as a
\* mate of its correction chain.
LEMMA PruneKeeps ==
  ASSUME HealthInv, Health!Prune
  PROVE  HealthInv'
<1> DEFINE S == Health!Chain(Health!Affected)
           after == [i \in Health!Ids |->
                       IF i \in S THEN Health!Tombstone(ledger[i]) ELSE ledger[i]]
           past == {j \in Health!Ids : after[j].state = "tomb" /\ after[j].expires <= day}
<1>1. /\ ledger' = [i \in Health!Ids |->
           IF after[i].state = "tomb" /\ after[i].expires <= day THEN Health!NoRow ELSE after[i]]
      /\ gone' = gone \cup {after[i].payload : i \in past}
      /\ torn' = torn \cup (S \ Health!Affected)
      /\ day' = day
  BY DEF Health!Prune
<1>2. /\ Health!Affected \subseteq S /\ S \subseteq Health!Live(ledger)
      /\ \A j \in Health!Affected, i \in Health!Live(ledger) :
           j \in Health!Refs(i) => i \in Health!Affected
  <2>1. Health!Expired \cap Health!Live(ledger) \in SUBSET Health!Live(ledger)
    OBVIOUS
  <2>2. Health!Affected \in SUBSET Health!Live(ledger)
    BY <2>1, DependentsHold DEF Health!Affected
  <2> QED BY <2>1, <2>2, DependentsHold, ChainHolds DEF Health!Affected
<1> HIDE DEF S
<1>3. \A i \in S : i \in Health!Ids /\ ledger[i].state = "live"
  BY <1>2 DEF Health!Live
<1>4. ASSUME NEW i \in Health!Ids
      PROVE  /\ after[i].state = IF i \in S THEN "tomb" ELSE ledger[i].state
             /\ ledger[i].state # "none" =>
                  after[i].payload = ledger[i].payload /\ after[i].expires = ledger[i].expires
  BY <1>3 DEF Health!Tombstone
<1> HIDE DEF after
<1>5. \A i \in Health!Ids : RowKept(i)
  BY <1>1, <1>3, <1>4 DEF RowKept, HealthInv, Health!NoRow
<1>6. /\ Health!Live(ledger') = Health!Live(ledger) \ S
      /\ \A i \in Health!Live(ledger') : ledger'[i].payload = ledger[i].payload
  BY <1>1, <1>4 DEF Health!Live, Health!NoRow
<1>7. RefsResolve'
  BY <1>1, <1>2, <1>6, RemainderResolves
<1>8. gone' \subseteq Records /\ \A p \in gone' : p.observed + RecordsKept <= day'
  <2>1. ASSUME NEW i \in past
        PROVE  after[i].payload \in Records /\ after[i].payload.observed + RecordsKept <= day
    <3>1. ledger[i].state # "none" /\ after[i].expires <= day
      BY <1>3, <1>4, <2>1
    <3> QED BY <1>4, <3>1, HealthAssumption DEF HealthInv
  <2> QED BY <1>1, <2>1 DEF HealthInv
<1>9. DOMAIN ledger' = Health!Ids
  BY <1>1
<1> QED BY <1>1, <1>5, <1>7, <1>8, <1>9, HealthRowsKept DEF HealthInv

LEMMA HealthNextKeeps ==
  ASSUME HealthInv, [Health!Next]_(Health!vars)
  PROVE  HealthInv'
<1>1. CASE UNCHANGED <<ledger, gone, torn>> /\ (day' = day \/ day' = day + 1)
  <2>1. Health!Live(ledger') = Health!Live(ledger)
    BY <1>1
  <2>2. RefsResolve'
    BY <1>1 DEF HealthInv, RefsResolve, Health!RefsResolve, Health!Refs, Health!Live
  <2> QED BY <1>1, <2>2, HealthAssumption DEF HealthInv
<1>2. ASSUME NEW c \in Consumers, Health!Export(c) \/ Health!NextPage(c)
      PROVE  UNCHANGED <<ledger, gone, torn, day>>
  BY <1>2 DEF Health!Export, Health!NextPage
<1>3. Health!Restart \/ Health!Tick \/ UNCHANGED Health!vars
        => UNCHANGED <<ledger, gone, torn>> /\ (day' = day \/ day' = day + 1)
  BY DEF Health!Restart, Health!Tick, Health!vars
<1> QED BY <1>1, <1>2, <1>3, StoreKeeps, DeleteKeeps, PruneKeeps DEF Health!Next

LEMMA HealthInitHolds == Health!Init => HealthInv
BY DEF Health!Init, HealthInv, Health!NoRow, Health!Live, RefsResolve, Health!RefsResolve

\* Whatever a stored record refers to is stored too, or left with its correction
\* chain, whatever is stored, deleted and pruned in whatever order.
THEOREM RefsResolveAlways == Health!Spec => []RefsResolve
<1>1. HealthInv => RefsResolve
  BY DEF HealthInv
<1> QED BY <1>1, HealthInitHolds, HealthNextKeeps, PTL DEF Health!Spec

\* No record comes back: an observation whose tombstone has gone is too old to be
\* admitted.
LEMMA NotRecreated ==
  ASSUME HealthInv, [Health!Next]_(Health!vars), NEW i \in Health!Ids,
         ledger[i].state # "live", ledger'[i].state = "live"
  PROVE  ledger[i].state = "none" /\ ledger'[i].payload \notin gone
<1>1. CASE ledger' = ledger
  BY <1>1
<1>2. ASSUME NEW c \in Consumers, Health!Export(c) \/ Health!NextPage(c)
      PROVE  ledger' = ledger
  BY <1>2 DEF Health!Export, Health!NextPage
<1>3. Health!Restart \/ Health!Tick \/ UNCHANGED Health!vars => ledger' = ledger
  BY DEF Health!Restart, Health!Tick, Health!vars
<1>4. ASSUME NEW level \in RecordLevels, NEW r \in Records, Health!Store(level, r)
      PROVE  ledger[i].state = "none" /\ ledger'[i].payload \notin gone
  <2>1. i \notin r.corrects
    BY <1>4 DEF Health!Store
  <2>2. CASE i = r.id
    <3>1. ledger[i].state = "none" /\ ledger'[i].payload = r
      BY <1>4, <2>2 DEF Health!Store, Health!Unused
    <3>2. ~(r.observed + RecordsKept <= day)
      BY <1>4, HealthAssumption DEF Health!Store, Health!Fresh, HealthInv
    <3> QED BY <3>1, <3>2 DEF HealthInv
  <2>3. CASE i # r.id
    BY <1>4, <2>1, <2>3 DEF Health!Store
  <2> QED BY <2>2, <2>3
<1>5. ASSUME NEW S, ledger' = [k \in Health!Ids |-> IF k \in S THEN Health!Tombstone(ledger[k]) ELSE ledger[k]]
      PROVE  FALSE
  BY <1>5 DEF Health!Tombstone
<1>6. ASSUME NEW level \in RecordLevels, Health!Delete(level)
      PROVE  FALSE
  BY <1>5, <1>6 DEF Health!Delete, Health!Removed
<1>7. ASSUME Health!Prune
      PROVE  FALSE
  <2> DEFINE S == Health!Chain(Health!Affected)
             after == [k \in Health!Ids |->
                         IF k \in S THEN Health!Tombstone(ledger[k]) ELSE ledger[k]]
  <2>1. ledger' = [k \in Health!Ids |->
          IF after[k].state = "tomb" /\ after[k].expires <= day THEN Health!NoRow ELSE after[k]]
    BY <1>7 DEF Health!Prune
  <2>2. after[i].state # "live"
    BY DEF Health!Tombstone
  <2> HIDE DEF after
  <2> QED BY <2>1, <2>2 DEF Health!NoRow
<1> QED BY <1>1, <1>2, <1>3, <1>4, <1>6, <1>7 DEF Health!Next

\* A payload is stored once, however its record was deleted and whatever has
\* been pruned since.
THEOREM NeverRecreatedAlways == Health!Spec => NeverRecreated
<1>1. HealthInv /\ [Health!Next]_(Health!vars) =>
        [\A i \in Health!Ids : ledger[i].state # "live" /\ ledger'[i].state = "live"
           => /\ ledger[i].state = "none"
              /\ ledger'[i].payload \notin gone]_(Health!vars)
  BY NotRecreated
<1> QED BY <1>1, HealthInitHolds, HealthNextKeeps, PTL
        DEF Health!Spec, NeverRecreated, Health!NeverRecreated

-----------------------------------------------------------------------------
(* Admission *)

\* What is known of one bucket with capacity cap, with so many parts left, last
\* seen at l, of which s tells the requests it had paid for by an instant: it has
\* paid for nothing since, what it paid for up to then and the parts that are left
\* are no more than a full bucket and what has flowed in, and so it was before.
Sound(parts, l, s, cap) ==
  /\ parts \in Nat /\ l \in 1 .. MaxMs
  /\ s \in [0 .. MaxMs -> Nat]
  /\ \A t \in l .. MaxMs : s[t] = s[l]
  /\ \A from \in 1 .. l :
       (s[l] - s[from - 1]) * WindowMs + parts <= cap * (WindowMs + l - from)
  /\ \A to \in 1 .. l : \A from \in 1 .. to :
       (s[to] - s[from - 1]) * WindowMs <= cap * (WindowMs + to - from)

\* A product grows with its second factor.
LEMMA ProductGrows ==
  ASSUME NEW k \in Nat, NEW a \in Int, NEW b \in Int, a <= b
  PROVE  k * a <= k * b
<1>1. PICK d \in Nat : b = a + d
  <2>1. b - a \in Nat /\ b = a + (b - a)
    OBVIOUS
  <2> QED BY <2>1
<1>2. k * b = k * a + k * d
  BY <1>1
<1>3. k * d \in Nat /\ k * a \in Int /\ k * b \in Int
  OBVIOUS
<1> QED BY <1>2, <1>3

\* What is known of a bucket bounds what it pays for by any later instant.
LEMMA SoundLater ==
  ASSUME NEW parts, NEW l, NEW s, NEW cap \in Nat, Sound(parts, l, s, cap),
         NEW to \in 1 .. MaxMs, NEW from \in 1 .. to
  PROVE  (s[to] - s[from - 1]) * WindowMs <= cap * (WindowMs + to - from)
<1> USE AdmissionAssumption
<1>1. /\ parts \in Nat /\ l \in Nat /\ 1 <= l /\ l <= MaxMs
      /\ s[l] \in Nat /\ s[to] \in Nat /\ s[from - 1] \in Nat
      /\ from \in Nat /\ to \in Nat /\ 1 <= from /\ from <= to /\ to <= MaxMs
  BY DEF Sound
<1>2. CASE to <= l
  BY <1>1, <1>2 DEF Sound
<1>3. CASE to > l /\ from <= l
  <2>1. s[to] = s[l]
    BY <1>1, <1>3 DEF Sound
  <2>2. (s[l] - s[from - 1]) * WindowMs + parts <= cap * (WindowMs + l - from)
    BY <1>1, <1>3 DEF Sound
  <2>3. cap * (WindowMs + l - from) <= cap * (WindowMs + to - from)
    BY <1>1, <1>3, ProductGrows
  <2>4. /\ (s[l] - s[from - 1]) * WindowMs \in Int
        /\ cap * (WindowMs + l - from) \in Int /\ cap * (WindowMs + to - from) \in Int
    BY <1>1
  <2> QED BY <1>1, <2>1, <2>2, <2>3, <2>4
<1>4. CASE from > l
  <2>1. s[to] = s[l] /\ s[from - 1] = s[l]
    BY <1>1, <1>4 DEF Sound
  <2>2. (s[to] - s[from - 1]) * WindowMs = 0
    BY <1>1, <2>1
  <2>3. cap * 0 <= cap * (WindowMs + to - from)
    BY <1>1, ProductGrows
  <2> QED BY <1>1, <2>2, <2>3
<1> QED BY <1>1, <1>2, <1>3, <1>4

\* A bucket is seen at n and pays for d requests.  It had been refilled since it
\* was last seen, or had been left alone for a window, or had never paid.
LEMMA SoundNext ==
  ASSUME NEW cap \in Nat, NEW parts, NEW l, NEW s, Sound(parts, l, s, cap),
         NEW n \in 1 .. MaxMs, l <= n,
         NEW filled \in Nat, filled <= cap * WindowMs,
         \/ filled <= parts + (n - l) * cap
         \/ n - l >= WindowMs
         \/ \A t \in 0 .. MaxMs : s[t] = 0,
         NEW d \in {0, 1}, d * WindowMs <= filled,
         NEW r, r = [t \in 0 .. MaxMs |-> s[t] + (IF t < n THEN 0 ELSE d)]
  PROVE  Sound(filled - d * WindowMs, n, r, cap)
<1> USE AdmissionAssumption
<1>1. /\ parts \in Nat /\ l \in Nat /\ 1 <= l /\ l <= MaxMs /\ n \in Nat /\ 1 <= n /\ n <= MaxMs
      /\ s \in [0 .. MaxMs -> Nat] /\ d \in Nat
  BY DEF Sound
<1>2. /\ r \in [0 .. MaxMs -> Nat]
      /\ \A t \in n .. MaxMs : r[t] = s[l] + d
      /\ \A t \in 0 .. n - 1 : r[t] = s[t]
  <2>1. \A t \in n .. MaxMs : s[t] = s[l]
    BY <1>1 DEF Sound
  <2> QED BY <1>1, <2>1
<1>3. ASSUME NEW from \in 1 .. n
      PROVE  (s[l] - s[from - 1]) * WindowMs + filled <= cap * (WindowMs + n - from)
  <2>1. /\ from \in Nat /\ 1 <= from /\ from <= n /\ s[l] \in Nat /\ s[from - 1] \in Nat
        /\ (s[l] - s[from - 1]) * WindowMs \in Int /\ cap * WindowMs \in Int
        /\ cap * (WindowMs + n - from) \in Int /\ cap * (WindowMs + l - from) \in Int
    BY <1>1, <1>3
  <2>2. PICK paid \in Int, full \in Int, most \in Int, more \in Int, flow \in Int :
             /\ paid = (s[l] - s[from - 1]) * WindowMs /\ full = cap * WindowMs
             /\ most = cap * (WindowMs + l - from) /\ more = cap * (WindowMs + n - from)
             /\ flow = (n - l) * cap
    <3>1. (n - l) * cap \in Int
      BY <1>1
    <3> QED BY <2>1, <3>1
  <2>3. full <= more /\ filled <= full
    BY <1>1, <2>1, <2>2, ProductGrows
  <2>4. CASE s[l] = s[from - 1]
    <3>1. paid = 0
      BY <1>1, <2>1, <2>2, <2>4
    <3>2. paid + filled <= more
      BY <2>3, <3>1
    <3> QED BY <2>2, <3>2
  <2>5. CASE s[l] # s[from - 1]
    <3>1. from <= l
      BY <1>1, <2>1, <2>5 DEF Sound
    <3>2. paid + parts <= most
      BY <1>1, <2>1, <2>2, <3>1 DEF Sound
    <3>3. CASE filled <= parts + (n - l) * cap
      <4>1. more = most + flow
        BY <1>1, <2>1, <2>2
      <4>2. filled <= parts + flow
        BY <2>2, <3>3
      <4>3. paid + filled <= more
        BY <1>1, <3>2, <4>1, <4>2
      <4> QED BY <2>2, <4>3
    <3>4. CASE n - l >= WindowMs
      <4>1. most <= cap * (n - from)
        BY <1>1, <2>1, <2>2, <3>4, ProductGrows
      <4>2. more = full + cap * (n - from)
        BY <1>1, <2>1, <2>2
      <4>3. PICK apart \in Int : apart = cap * (n - from)
        <5>1. cap * (n - from) \in Int
          BY <1>1, <2>1
        <5> QED BY <5>1
      <4>4. paid + filled <= more
        <5>1. most <= apart /\ more = full + apart
          BY <4>1, <4>2, <4>3
        <5> QED BY <1>1, <2>3, <3>2, <5>1
      <4> QED BY <2>2, <4>4
    <3>5. ~\A t \in 0 .. MaxMs : s[t] = 0
      BY <1>1, <2>1, <2>5
    <3> QED BY <3>3, <3>4, <3>5
  <2> QED BY <2>4, <2>5
<1>4. ASSUME NEW from \in 1 .. n
      PROVE  (r[n] - r[from - 1]) * WindowMs + (filled - d * WindowMs) <= cap * (WindowMs + n - from)
  <2>1. r[n] = s[l] + d /\ r[from - 1] = s[from - 1] /\ s[l] \in Nat /\ s[from - 1] \in Nat
    <3>1. n \in n .. MaxMs /\ from - 1 \in 0 .. n - 1 /\ l \in 0 .. MaxMs /\ from - 1 \in 0 .. MaxMs
      BY <1>1
    <3> QED BY <1>1, <1>2, <3>1
  <2>2. (r[n] - r[from - 1]) * WindowMs = (s[l] - s[from - 1]) * WindowMs + d * WindowMs
    BY <1>1, <2>1
  <2>3. (s[l] - s[from - 1]) * WindowMs \in Int /\ d * WindowMs \in Int
    BY <1>1, <2>1
  <2> QED BY <1>3, <2>2, <2>3
<1>5. d * WindowMs \in Nat /\ filled - d * WindowMs \in Nat
  BY <1>1
<1>6. ASSUME NEW to \in 1 .. n, NEW from \in 1 .. to
      PROVE  (r[to] - r[from - 1]) * WindowMs <= cap * (WindowMs + to - from)
  <2>1. CASE to = n
    <3>1. /\ (r[n] - r[from - 1]) * WindowMs \in Int
          /\ cap * (WindowMs + n - from) \in Int
      <4>1. n \in 0 .. MaxMs /\ from - 1 \in 0 .. MaxMs /\ from \in Int
        BY <1>1
      <4>2. r[n] \in Nat /\ r[from - 1] \in Nat
        BY <1>2, <4>1
      <4> QED BY <1>1, <4>1, <4>2
    <3>2. (r[n] - r[from - 1]) * WindowMs + (filled - d * WindowMs) <= cap * (WindowMs + n - from)
      BY <1>4, <2>1
    <3>3. (r[n] - r[from - 1]) * WindowMs <= cap * (WindowMs + n - from)
      BY <1>5, <3>1, <3>2
    <3> QED BY <2>1, <3>3
  <2>2. CASE to # n
    <3>1. r[to] = s[to] /\ r[from - 1] = s[from - 1] /\ to \in 1 .. MaxMs
      BY <1>1, <1>2, <2>2
    <3> QED BY <3>1, SoundLater
  <2> QED BY <2>1, <2>2
<1>7. n \in n .. MaxMs
  BY <1>1
<1> QED BY <1>1, <1>2, <1>4, <1>5, <1>6, <1>7 DEF Sound

\* A bucket that has paid for nothing in the last two windows, or ever.
Idle(b) ==
  \/ time - bucket[b].lastSeen >= 2 * WindowMs
  \/ \A t \in 0 .. MaxMs : served[b][t] = 0

\* What is known of a bucket, be it in its table or not.
BucketSound(b) ==
  /\ Sound(bucket[b].parts, bucket[b].lastSeen, served[b], Admit!Capacity(b))
  /\ bucket[b].parts <= Admit!Capacity(b) * WindowMs
  /\ bucket[b].lastSeen <= time

\* The bucket of a caller or a credential that is not in its table is idle.
AdmitInv ==
  /\ time \in 1 .. MaxMs
  /\ callers \subseteq Callers /\ credentials \subseteq Admit!Credentials
  /\ \A b \in Admit!Buckets : BucketSound(b)
  /\ \A b \in Callers \ callers : Idle(b)
  /\ \A b \in Admit!Credentials \ credentials : Idle(b)

LEMMA CapacityNat == \A b : Admit!Capacity(b) \in Nat
BY AdmissionAssumption DEF Admit!Capacity

\* What a request finds in a bucket, once it is filled up or made anew.
LEMMA TouchedHolds ==
  ASSUME AdmitInv, NEW c \in Callers, NEW b \in DOMAIN Admit!Touched(c)
  PROVE  /\ b \in Admit!Buckets
         /\ Admit!Touched(c)[b].lastSeen = time
         /\ Admit!Touched(c)[b].parts \in Nat
         /\ Admit!Touched(c)[b].parts <= Admit!Capacity(b) * WindowMs
         /\ \/ Admit!Touched(c)[b].parts
                 <= bucket[b].parts + (time - bucket[b].lastSeen) * Admit!Capacity(b)
            \/ time - bucket[b].lastSeen >= WindowMs
            \/ \A t \in 0 .. MaxMs : served[b][t] = 0
         /\ Admit!Touched(c)[b] = [parts |-> Admit!Touched(c)[b].parts, lastSeen |-> time]
<1> USE AdmissionAssumption
<1> DEFINE key == Credential[c]
           mine == Admit!BucketOf(callers, c, "callerOverflow")
           whole == Admit!BucketOf(credentials, key, "credentialOverflow")
           new == (({c} \ callers) \cup ({key} \ credentials)) \cap {mine, whole}
<1>1. /\ DOMAIN Admit!Touched(c) = {mine, whole, "global"}
      /\ Admit!Touched(c)[b] = IF b \in new THEN Admit!Full(b) ELSE Admit!Refilled(b)
  BY DEF Admit!Touched
<1>2. key \in Admit!Credentials
  BY DEF Admit!Credentials
<1>3. b \in Admit!Buckets
  BY <1>1, <1>2 DEF Admit!BucketOf, Admit!Buckets, Admit!Shared
<1>4. PICK cap \in Nat, parts \in Nat, l \in Nat :
        /\ cap = Admit!Capacity(b) /\ parts = bucket[b].parts /\ l = bucket[b].lastSeen
        /\ l <= time
  <2>1. bucket[b].parts \in Nat /\ bucket[b].lastSeen \in 1 .. MaxMs /\ bucket[b].lastSeen <= time
    BY <1>3 DEF AdmitInv, BucketSound, Sound
  <2>2. bucket[b].lastSeen \in Nat
    BY <2>1
  <2> QED BY <2>1, <2>2, CapacityNat
<1>5. time \in Nat /\ cap * WindowMs \in Nat /\ (time - l) * cap \in Nat
  BY <1>4 DEF AdmitInv
<1>6. CASE b \in new
  <2>1. Idle(b)
    BY <1>2, <1>6 DEF AdmitInv
  <2>2. Admit!Touched(c)[b] = [parts |-> cap * WindowMs, lastSeen |-> time]
    BY <1>1, <1>4, <1>6 DEF Admit!Full
  <2>3. time - l >= WindowMs \/ \A t \in 0 .. MaxMs : served[b][t] = 0
    BY <1>4, <1>5, <2>1 DEF Idle
  <2> QED BY <1>3, <1>4, <1>5, <2>2, <2>3
<1>7. CASE b \notin new
  <2>1. PICK filled \in Nat : /\ filled = IF parts + (time - l) * cap < cap * WindowMs
                                          THEN parts + (time - l) * cap ELSE cap * WindowMs
                              /\ filled <= parts + (time - l) * cap /\ filled <= cap * WindowMs
    <3>1. PICK x \in Nat, y \in Nat : x = parts + (time - l) * cap /\ y = cap * WindowMs
      BY <1>4, <1>5
    <3> QED BY <3>1
  <2>2. Admit!Touched(c)[b] = [parts |-> filled, lastSeen |-> time]
    BY <1>1, <1>4, <1>7, <2>1 DEF Admit!Refilled
  <2> QED BY <1>3, <1>4, <2>1, <2>2
<1> QED BY <1>6, <1>7

\* Who is in a table once it has been looked through, and who is out of it.
LEMMA KeysHold ==
  ASSUME NEW table, NEW key
  PROVE  /\ Admit!Keys(table, key) \subseteq table \cup {key}
         /\ \A b \in table \ Admit!Keys(table, key) : Admit!Expired(b)
BY DEF Admit!Keys

LEMMA RequestKeeps ==
  ASSUME AdmitInv, NEW c \in Callers, Admit!Request(c)
  PROVE  AdmitInv'
<1> USE AdmissionAssumption
<1> DEFINE touched == Admit!Touched(c)
           d == IF \A b \in DOMAIN touched : Admit!Pays(touched[b]) THEN 1 ELSE 0
<1>1. /\ time' = time /\ time \in 1 .. MaxMs /\ WindowMs \in Nat
      /\ callers' = Admit!Keys(callers, c)
      /\ credentials' = Admit!Keys(credentials, Credential[c])
      /\ bucket' = [b \in Admit!Buckets |->
                     IF b \in DOMAIN touched THEN [touched[b] EXCEPT !.parts = @ - d * WindowMs]
                     ELSE bucket[b]]
      /\ \A b \in Admit!Buckets :
           served'[b] = IF d = 1 /\ b \in DOMAIN touched
                        THEN [t \in 0 .. MaxMs |-> served[b][t] + (IF t < time THEN 0 ELSE 1)]
                        ELSE served[b]
  <2>1. d * WindowMs = IF \A b \in DOMAIN touched : Admit!Pays(touched[b]) THEN WindowMs ELSE 0
    OBVIOUS
  <2> HIDE DEF touched
  <2> QED BY <2>1 DEF Admit!Request, AdmitInv, touched
<1>2. Credential[c] \in Admit!Credentials
  BY DEF Admit!Credentials
<1>3. d \in {0, 1} /\ \A b \in DOMAIN touched : d = 1 => WindowMs <= touched[b].parts
  BY TouchedHolds DEF Admit!Pays
<1>4. \A b \in DOMAIN touched :
        touched[b] = [parts |-> touched[b].parts, lastSeen |-> time] /\ touched[b].parts \in Nat
  BY TouchedHolds
<1> HIDE DEF d
<1>5. ASSUME NEW b \in Admit!Buckets
      PROVE  BucketSound(b)'
  <2>1. CASE b \in DOMAIN touched
    <3>1. PICK cap \in Nat, filled \in Nat :
            cap = Admit!Capacity(b) /\ filled = touched[b].parts /\ filled <= cap * WindowMs
      BY <2>1, CapacityNat, TouchedHolds
    <3>2. PICK r : r = [t \in 0 .. MaxMs |-> served[b][t] + (IF t < time THEN 0 ELSE d)]
      OBVIOUS
    <3>3. served'[b] = r
      <4>1. CASE d = 1
        BY <1>1, <2>1, <3>2, <4>1
      <4>2. CASE d = 0
        <5>1. served[b] \in [0 .. MaxMs -> Nat]
          BY DEF AdmitInv, BucketSound, Sound
        <5>2. \A t \in 0 .. MaxMs : served[b][t] + (IF t < time THEN 0 ELSE d) = served[b][t]
          BY <4>2, <5>1
        <5>3. r = served[b]
          BY <3>2, <5>1, <5>2
        <5> QED BY <1>1, <4>2, <5>3
      <4> QED BY <1>3, <4>1, <4>2
    <3>4. bucket'[b] = [parts |-> filled - d * WindowMs, lastSeen |-> time]
      BY <1>1, <1>4, <2>1, <3>1
    <3>5. d * WindowMs <= filled /\ d * WindowMs \in Nat
      BY <1>1, <1>3, <2>1, <3>1
    <3>6. Sound(filled - d * WindowMs, time, r, cap)
      <4> HIDE DEF touched
      <4>1. /\ Sound(bucket[b].parts, bucket[b].lastSeen, served[b], cap)
            /\ bucket[b].lastSeen <= time
        BY <3>1 DEF AdmitInv, BucketSound
      <4>2. \/ filled <= bucket[b].parts + (time - bucket[b].lastSeen) * cap
            \/ time - bucket[b].lastSeen >= WindowMs
            \/ \A t \in 0 .. MaxMs : served[b][t] = 0
        BY <2>1, <3>1, TouchedHolds DEF touched
      <4>3. PICK parts, l, s :
              parts = bucket[b].parts /\ l = bucket[b].lastSeen /\ s = served[b]
        OBVIOUS
      <4>4. PICK n \in 1 .. MaxMs : n = time
        BY <1>1
      <4>5. /\ Sound(parts, l, s, cap) /\ l <= n
            /\ \/ filled <= parts + (n - l) * cap
               \/ n - l >= WindowMs
               \/ \A t \in 0 .. MaxMs : s[t] = 0
            /\ r = [t \in 0 .. MaxMs |-> s[t] + (IF t < n THEN 0 ELSE d)]
        BY <3>2, <4>1, <4>2, <4>3, <4>4
      <4>6. Sound(filled - d * WindowMs, n, r, cap)
        BY <1>3, <3>1, <3>5, <4>5, SoundNext, SMTT(60)
      <4> QED BY <4>4, <4>6
    <3>7. filled - d * WindowMs <= cap * WindowMs
      <4>1. PICK full \in Int, cost \in Nat : full = cap * WindowMs /\ cost = d * WindowMs
        BY <1>1, <3>5
      <4>2. filled - cost <= full
        BY <3>1, <4>1
      <4> QED BY <4>1, <4>2
    <3> QED BY <1>1, <3>1, <3>3, <3>4, <3>6, <3>7 DEF BucketSound
  <2>2. CASE b \notin DOMAIN touched
    <3>1. bucket'[b] = bucket[b] /\ served'[b] = served[b]
      BY <1>1, <2>2
    <3> QED BY <1>1, <3>1 DEF BucketSound, AdmitInv
  <2> QED BY <2>1, <2>2
<1>6. ASSUME NEW b \in (Callers \ callers') \cup (Admit!Credentials \ credentials')
      PROVE  Idle(b)'
  <2>1. b \in Admit!Buckets /\ b \notin DOMAIN touched
    <3>1. DOMAIN touched = {Admit!BucketOf(callers, c, "callerOverflow"),
                            Admit!BucketOf(credentials, Credential[c], "credentialOverflow"),
                            "global"}
      BY DEF Admit!Touched
    <3> HIDE DEF touched
    <3> QED BY <1>1, <1>2, <1>6, <3>1 DEF Admit!BucketOf, Admit!Buckets, Admit!Shared
  <2>2. bucket'[b] = bucket[b] /\ served'[b] = served[b]
    BY <1>1, <2>1
  <2>3. Idle(b)
    BY <1>1, <1>2, <1>6, KeysHold DEF AdmitInv, Idle, Admit!Expired
  <2> QED BY <1>1, <2>2, <2>3 DEF Idle
<1>7. callers' \subseteq Callers /\ credentials' \subseteq Admit!Credentials
  BY <1>1, <1>2, KeysHold DEF AdmitInv
<1> QED BY <1>1, <1>5, <1>6, <1>7 DEF AdmitInv, Admit!Buckets

LEMMA TickKeeps ==
  ASSUME AdmitInv, Admit!Tick
  PROVE  AdmitInv'
<1>1. /\ time' = time + 1 /\ time \in Nat /\ time' \in 1 .. MaxMs
      /\ UNCHANGED <<callers, credentials, bucket, served>>
  BY AdmissionAssumption DEF AdmitInv, Admit!Tick
<1>2. ASSUME NEW b \in Admit!Buckets
      PROVE  BucketSound(b)'
  <2>1. bucket[b].lastSeen \in Nat /\ bucket[b].lastSeen <= time
    BY DEF AdmitInv, BucketSound, Sound
  <2>2. bucket[b].lastSeen <= time'
    BY <1>1, <2>1
  <2> QED BY <1>1, <2>2 DEF AdmitInv, BucketSound
<1>3. ASSUME NEW b \in Admit!Buckets, Idle(b)
      PROVE  Idle(b)'
  <2>1. bucket[b].lastSeen \in Nat
    BY DEF AdmitInv, BucketSound, Sound
  <2> QED BY <1>1, <1>3, <2>1, AdmissionAssumption DEF Idle
<1> QED BY <1>1, <1>2, <1>3 DEF AdmitInv, Admit!Buckets

LEMMA AdmitInitHolds == Admit!Init => AdmitInv
<1> USE AdmissionAssumption
<1> SUFFICES ASSUME Admit!Init PROVE AdmitInv
  OBVIOUS
<1>1. /\ time = 1 /\ callers = {} /\ credentials = {}
      /\ \A b \in Admit!Buckets :
           /\ bucket[b].parts = Admit!Capacity(b) * WindowMs /\ bucket[b].lastSeen = 1
           /\ served[b] = [t \in 0 .. MaxMs |-> 0]
  BY DEF Admit!Init, Admit!Full
<1>2. ASSUME NEW b \in Admit!Buckets
      PROVE  BucketSound(b)
  <2>1. PICK cap \in Nat, full \in Nat : cap = Admit!Capacity(b) /\ full = cap * WindowMs
    BY CapacityNat
  <2>2. PICK s : s = served[b] /\ s \in [0 .. MaxMs -> Nat] /\ \A t \in 0 .. MaxMs : s[t] = 0
    BY <1>1
  <2>3. ASSUME NEW from \in 1 .. 1, NEW to \in 1 .. 1
        PROVE  /\ (s[1] - s[from - 1]) * WindowMs + full <= cap * (WindowMs + 1 - from)
               /\ (s[to] - s[from - 1]) * WindowMs <= cap * (WindowMs + to - from)
    <3>1. from = 1 /\ to = 1 /\ s[1] = 0 /\ s[from - 1] = 0
      BY <2>2
    <3>2. WindowMs + 1 - from = WindowMs /\ (s[1] - s[from - 1]) * WindowMs = 0
      BY <3>1
    <3> QED BY <2>1, <3>1, <3>2
  <2>4. \A t \in 1 .. MaxMs : s[t] = s[1]
    BY <2>2
  <2>5. Sound(full, 1, s, cap)
    BY <2>2, <2>3, <2>4 DEF Sound
  <2> QED BY <1>1, <2>1, <2>2, <2>5 DEF BucketSound
<1> QED BY <1>1, <1>2 DEF AdmitInv, Idle, Admit!Buckets

\* In no stretch of time does a bucket pay for more than a full one and what
\* flows in, for any limits and window, any callers and credentials and tables of
\* any size: whoever is dropped from a table was gone for longer than it takes to
\* fill a bucket.
THEOREM AdmissionBoundedAlways == Admit!Spec => []AdmissionBounded
<1>1. ASSUME AdmitInv, [Admit!Next]_(Admit!vars)
      PROVE  AdmitInv'
  <2>1. CASE UNCHANGED Admit!vars
    BY <1>1, <2>1 DEF Admit!vars, AdmitInv, BucketSound, Idle
  <2> QED BY <1>1, <2>1, RequestKeeps, TickKeeps DEF Admit!Next
<1>2. ASSUME AdmitInv
      PROVE  AdmissionBounded
  <2>1. SUFFICES ASSUME NEW b \in Admit!Buckets, NEW from \in 1 .. time, NEW to \in 1 .. time,
                        from <= to
                 PROVE  (served[b][to] - served[b][from - 1]) * WindowMs
                          <= Admit!Capacity(b) * (WindowMs + to - from)
    BY DEF AdmissionBounded, Admit!AdmissionBounded
  <2>2. to \in 1 .. MaxMs /\ from \in 1 .. to
    <3>1. time \in Nat /\ time <= MaxMs
      BY <1>2, AdmissionAssumption DEF AdmitInv
    <3> QED BY <2>1, <3>1, AdmissionAssumption
  <2>3. Sound(bucket[b].parts, bucket[b].lastSeen, served[b], Admit!Capacity(b))
    BY <1>2 DEF AdmitInv, BucketSound
  <2> QED BY <2>2, <2>3, CapacityNat, SoundLater
<1> QED BY <1>1, <1>2, AdmitInitHolds, PTL DEF Admit!Spec

-----------------------------------------------------------------------------
(* RetrievalAnalytics *)

EventRow ==
  [session : Sessions, at : Nat, results : SUBSET Results, opened : SUBSET Results,
   changed : SUBSET Analytics!Areas, reformulated : {0, 1}]

\* The session of an event has another that is not older.
Surpassed(i) ==
  \E j \in DOMAIN events :
    j # i /\ events[j].session = events[i].session /\ events[j].at >= events[i].at

\* An event counts as reformulated once at most, and then it has no outcome,
\* gets none any more, and has been surpassed.
EventFine(i) ==
  /\ events[i] \in EventRow /\ events[i].at <= hour
  /\ events[i].reformulated = 1 =>
       /\ ~Analytics!Good(events[i])
       /\ sessions[events[i].session].last # i
       /\ Surpassed(i)

\* The latest event of a session is one of its own.
AnalyticsInv ==
  /\ hour \in Nat /\ logged \in Nat /\ logged <= MaxEvents
  /\ DOMAIN events \subseteq 1 .. logged
  /\ sessions \in [Sessions -> [last : 0 .. logged, at : Nat]]
  /\ \A s \in Sessions :
       sessions[s].last \in DOMAIN events => events[sessions[s].last].session = s
  /\ \A i \in DOMAIN events : EventFine(i)

LEMMA RetrieveKeeps ==
  ASSUME AnalyticsInv, NEW s \in Sessions, NEW results \in SUBSET Results,
         NEW continues \in BOOLEAN, Analytics!Retrieve(s, results, continues)
  PROVE  AnalyticsInv'
<1> USE AnalyticsAssumption
<1>1. PICK new \in Nat, k \in Nat :
        /\ new = logged + 1 /\ k = Analytics!Correlated(s)
        /\ k # 0 => k = sessions[s].last
  <2>1. logged + 1 \in Nat /\ sessions[s].last \in Nat
    BY DEF AnalyticsInv
  <2>2. Analytics!Correlated(s) = 0 \/ Analytics!Correlated(s) = sessions[s].last
    BY DEF Analytics!Correlated
  <2> QED BY <2>1, <2>2
<1>2. /\ logged' = new /\ new <= MaxEvents /\ hour' = hour
      /\ DOMAIN events' = DOMAIN events \cup {new}
      /\ events'[new] = Analytics!Logged(s, results)
      /\ sessions' = [sessions EXCEPT ![s] = [last |-> new, at |-> hour]]
      /\ new \notin DOMAIN events /\ 0 \notin DOMAIN events
  BY <1>1 DEF Analytics!Retrieve, Analytics!Cursor, AnalyticsInv
<1>3. ASSUME NEW i \in DOMAIN events
      PROVE  /\ events'[i] = IF i = k THEN Analytics!Judged(events[i], continues) ELSE events[i]
             /\ i # new
  BY <1>1, <1>2, <1>3 DEF Analytics!Retrieve
<1>4. /\ events'[new] \in EventRow /\ events'[new].at = hour /\ events'[new].reformulated = 0
      /\ events'[new].session = s
  BY <1>2 DEF Analytics!Logged, EventRow, AnalyticsInv
<1>5. ASSUME NEW i \in DOMAIN events
      PROVE  /\ events'[i] \in EventRow /\ events'[i].at = events[i].at
             /\ events'[i].session = events[i].session
             /\ events[i].at <= hour
             /\ events'[i].reformulated = 1 => ~Analytics!Good(events'[i])
             /\ events'[i].reformulated = 1 /\ events[i].reformulated = 0 => i = k
  <2>1. events[i] \in EventRow /\ events[i].at <= hour
    BY <1>5 DEF AnalyticsInv, EventFine
  <2>2. CASE i = k
    <3>1. k = sessions[s].last
      BY <1>1, <1>2, <1>5, <2>2
    <3>2. events[i].session = s
      BY <1>5, <2>2, <3>1 DEF AnalyticsInv
    <3>3. events[i].reformulated = 0
      BY <1>5, <2>1, <2>2, <3>1, <3>2 DEF AnalyticsInv, EventFine, EventRow
    <3>4. CASE Analytics!Good(events[i]) \/ continues
      <4>1. events'[i] = events[i]
        BY <1>3, <1>5, <3>4 DEF Analytics!Judged
      <4> QED BY <2>1, <2>2, <3>3, <4>1
    <3>5. CASE ~(Analytics!Good(events[i]) \/ continues)
      <4>1. events'[i] = [events[i] EXCEPT !.reformulated = 1]
        BY <1>3, <1>5, <2>1, <2>2, <3>3, <3>5 DEF Analytics!Judged, EventRow
      <4>2. /\ events'[i] \in EventRow /\ events'[i].opened = events[i].opened
            /\ events'[i].changed = events[i].changed /\ events'[i].at = events[i].at
            /\ events'[i].session = events[i].session
        BY <2>1, <4>1 DEF EventRow
      <4> QED BY <2>1, <2>2, <3>5, <4>2 DEF Analytics!Good
    <3> QED BY <3>4, <3>5
  <2>3. CASE i # k
    <3>1. events'[i] = events[i]
      BY <1>3, <1>5, <2>3
    <3>2. events[i].reformulated = 1 => ~Analytics!Good(events[i])
      BY <1>5 DEF AnalyticsInv, EventFine
    <3> QED BY <2>1, <3>1, <3>2
  <2> QED BY <2>2, <2>3
<1>6. ASSUME NEW i \in DOMAIN events'
      PROVE  EventFine(i)'
  <2>1. CASE i = new
    <3>1. hour <= hour
      BY DEF AnalyticsInv
    <3> QED BY <1>2, <1>4, <2>1, <3>1 DEF EventFine
  <2>2. CASE i # new
    <3>1. i \in DOMAIN events
      BY <1>2, <1>6, <2>2
    <3>2. ASSUME events'[i].reformulated = 1
          PROVE  sessions'[events'[i].session].last # i
      <4>1. events[i].session \in Sessions /\ events'[i].session = events[i].session
        BY <1>5, <3>1 DEF EventRow
      <4>2. CASE events[i].session = s
        BY <1>2, <2>2, <4>1, <4>2 DEF AnalyticsInv
      <4>3. CASE events[i].session # s
        <5>1. sessions'[events[i].session] = sessions[events[i].session]
          BY <1>2, <4>1, <4>3 DEF AnalyticsInv
        <5>2. i # k
          <6>1. CASE k = 0
            BY <1>2, <3>1, <6>1
          <6>2. CASE k # 0
            BY <1>1, <3>1, <4>3, <6>2 DEF AnalyticsInv
          <6> QED BY <6>1, <6>2
        <5>3. events[i].reformulated = 1
          BY <1>3, <3>1, <3>2, <5>2
        <5> QED BY <3>1, <4>1, <5>1, <5>3 DEF AnalyticsInv, EventFine
      <4> QED BY <4>2, <4>3
    <3>3. ASSUME events'[i].reformulated = 1
          PROVE  Surpassed(i)'
      <4>1. CASE i = k
        <5>1. k = sessions[s].last
          BY <1>1, <1>2, <3>1, <4>1
        <5>2. events[i].session = s /\ events[i].at <= hour
          BY <1>5, <3>1, <4>1, <5>1 DEF AnalyticsInv
        <5>3. /\ new \in DOMAIN events' /\ new # i /\ events'[new].session = events'[i].session
              /\ events'[new].at >= events'[i].at
          BY <1>2, <1>4, <1>5, <2>2, <3>1, <5>2 DEF AnalyticsInv, EventRow
        <5> QED BY <5>3 DEF Surpassed
      <4>2. CASE i # k
        <5>1. events[i].reformulated = 1
          BY <1>3, <3>1, <3>3, <4>2
        <5>2. PICK j \in DOMAIN events : /\ j # i /\ events[j].session = events[i].session
                                         /\ events[j].at >= events[i].at
          BY <3>1, <5>1 DEF AnalyticsInv, EventFine, Surpassed
        <5>3. /\ j \in DOMAIN events' /\ events'[j].session = events'[i].session
              /\ events'[j].at >= events'[i].at
          BY <1>2, <1>5, <3>1, <5>2
        <5> QED BY <5>2, <5>3 DEF Surpassed
      <4> QED BY <4>1, <4>2
    <3>4. events'[i] \in EventRow /\ events'[i].at <= hour'
      BY <1>2, <1>5, <3>1
    <3>5. events'[i].reformulated = 1 => ~Analytics!Good(events'[i])
      BY <1>5, <3>1
    <3> QED BY <3>2, <3>3, <3>4, <3>5 DEF EventFine
  <2> QED BY <2>1, <2>2
<1>7. sessions' \in [Sessions -> [last : 0 .. logged', at : Nat]]
  <2>1. \A t \in Sessions : sessions'[t] = IF t = s THEN [last |-> new, at |-> hour] ELSE sessions[t]
    BY <1>2 DEF AnalyticsInv
  <2>2. \A t \in Sessions : sessions'[t] \in [last : 0 .. logged', at : Nat]
    BY <1>1, <1>2, <2>1 DEF AnalyticsInv
  <2> QED BY <1>2, <2>2 DEF AnalyticsInv
<1>8. ASSUME NEW t \in Sessions, sessions'[t].last \in DOMAIN events'
      PROVE  events'[sessions'[t].last].session = t
  <2>1. CASE t = s
    BY <1>2, <1>4, <2>1 DEF AnalyticsInv
  <2>2. CASE t # s
    <3>1. PICK i \in DOMAIN events : i = sessions[t].last /\ i = sessions'[t].last
      <4>1. sessions'[t] = sessions[t] /\ sessions[t].last \in 0 .. logged
        BY <1>2, <2>2 DEF AnalyticsInv
      <4>2. sessions[t].last # new
        BY <1>1, <4>1 DEF AnalyticsInv
      <4> QED BY <1>2, <1>8, <4>1, <4>2
    <3>2. events[i].session = t
      BY <1>8, <3>1 DEF AnalyticsInv
    <3>3. events'[i].session = t
      BY <1>5, <3>1, <3>2
    <3> QED BY <3>1, <3>3
  <2> QED BY <2>1, <2>2
<1>9. DOMAIN events' \subseteq 1 .. logged'
  BY <1>1, <1>2 DEF AnalyticsInv
<1> QED BY <1>1, <1>2, <1>6, <1>7, <1>8, <1>9 DEF AnalyticsInv

\* An event that an outcome changes is the latest of its session: it does not
\* count as reformulated.
LEMMA FollowKeeps ==
  ASSUME AnalyticsInv, NEW s \in Sessions, NEW row \in EventRow, Analytics!Follow(s, row),
         row.session = events[Analytics!Correlated(s)].session,
         row.at = events[Analytics!Correlated(s)].at,
         row.reformulated = events[Analytics!Correlated(s)].reformulated
  PROVE  AnalyticsInv'
<1>1. PICK k \in DOMAIN events : k = Analytics!Correlated(s)
  BY DEF Analytics!Follow
<1>2. k = sessions[s].last
  BY <1>1 DEF Analytics!Correlated, AnalyticsInv
<1>3. /\ events' = [events EXCEPT ![k] = row] /\ UNCHANGED <<sessions, logged, hour>>
      /\ row.session = events[k].session /\ row.at = events[k].at
      /\ row.reformulated = events[k].reformulated
  BY <1>1 DEF Analytics!Follow
<1>4. /\ DOMAIN events' = DOMAIN events
      /\ \A i \in DOMAIN events : events'[i] = IF i = k THEN row ELSE events[i]
  BY <1>3
<1>5. events[k].session = s /\ events[k].reformulated = 0
  BY <1>2 DEF AnalyticsInv, EventFine, EventRow
<1>6. \A i \in DOMAIN events : Surpassed(i) => Surpassed(i)'
  BY <1>3, <1>4 DEF Surpassed
<1>7. ASSUME NEW i \in DOMAIN events
      PROVE  EventFine(i)'
  <2>1. EventFine(i)
    BY DEF AnalyticsInv
  <2>2. CASE i = k
    BY <1>3, <1>4, <1>5, <2>1, <2>2 DEF EventFine
  <2>3. CASE i # k
    BY <1>3, <1>4, <1>6, <2>1, <2>3 DEF EventFine
  <2> QED BY <2>2, <2>3
<1>8. \A i \in DOMAIN events : events'[i].session = events[i].session
  BY <1>3, <1>4
<1> QED BY <1>3, <1>4, <1>7, <1>8 DEF AnalyticsInv

LEMMA OutcomeKeeps ==
  ASSUME AnalyticsInv, NEW s \in Sessions,
         \/ \E e \in Results : Analytics!Open(s, e)
         \/ \E n \in Analytics!Areas : Analytics!Change(s, n)
  PROVE  AnalyticsInv'
<1>1. PICK k : k = Analytics!Correlated(s)
  OBVIOUS
<1>2. k \in DOMAIN events /\ events[k] \in EventRow
  BY <1>1 DEF Analytics!Open, Analytics!Change, Analytics!Follow, AnalyticsInv, EventFine
<1>3. ASSUME NEW e \in Results, Analytics!Open(s, e)
      PROVE  AnalyticsInv'
  <2>1. PICK row : row = [events[k] EXCEPT !.opened = @ \cup {e}]
    OBVIOUS
  <2>2. /\ row \in EventRow /\ row.session = events[k].session /\ row.at = events[k].at
        /\ row.reformulated = events[k].reformulated
    BY <1>2, <2>1 DEF EventRow
  <2> QED BY <1>1, <1>3, <2>1, <2>2, FollowKeeps DEF Analytics!Open
<1>4. ASSUME NEW n \in Analytics!Areas, Analytics!Change(s, n)
      PROVE  AnalyticsInv'
  <2>1. PICK row : row = [events[k] EXCEPT !.changed = @ \cup {n}]
    OBVIOUS
  <2>2. /\ row \in EventRow /\ row.session = events[k].session /\ row.at = events[k].at
        /\ row.reformulated = events[k].reformulated
    BY <1>2, <2>1 DEF EventRow
  <2> QED BY <1>1, <1>4, <2>1, <2>2, FollowKeeps DEF Analytics!Change
<1> QED BY <1>3, <1>4

\* What surpasses an event is kept as long as the event is.
LEMMA EventPruneKeeps ==
  ASSUME AnalyticsInv, Analytics!Prune
  PROVE  AnalyticsInv'
<1> USE AnalyticsAssumption
<1>1. PICK kept : kept = {i \in DOMAIN events : events[i].at + EventsKept >= hour}
  OBVIOUS
<1>2. /\ DOMAIN events' = kept /\ \A i \in kept : events'[i] = events[i]
      /\ UNCHANGED <<logged, hour>>
      /\ DOMAIN sessions' = Sessions
      /\ \A s \in Sessions : sessions'[s] = sessions[s] \/ sessions'[s] = [last |-> 0, at |-> 0]
  BY <1>1 DEF Analytics!Prune, Analytics!NoSession
<1>3. sessions' \in [Sessions -> [last : 0 .. logged, at : Nat]]
  <2>1. \A s \in Sessions : sessions'[s] \in [last : 0 .. logged, at : Nat]
    BY <1>2 DEF AnalyticsInv
  <2>2. sessions' = [s \in Sessions |-> sessions'[s]]
    BY DEF Analytics!Prune
  <2> QED BY <2>1, <2>2
<1>4. ASSUME NEW i \in kept
      PROVE  EventFine(i)'
  <2>1. i \in DOMAIN events /\ EventFine(i) /\ i # 0
    BY <1>1 DEF AnalyticsInv
  <2>2. ASSUME Surpassed(i)
        PROVE  Surpassed(i)'
    <3>1. PICK j \in DOMAIN events : /\ j # i /\ events[j].session = events[i].session
                                     /\ events[j].at >= events[i].at
      BY <2>2 DEF Surpassed
    <3>2. j \in kept
      <4>1. events[j].at \in Nat /\ events[i].at \in Nat /\ events[i].at + EventsKept >= hour
        BY <1>1, <2>1 DEF AnalyticsInv, EventFine, EventRow
      <4>2. events[j].at + EventsKept >= hour
        BY <3>1, <4>1 DEF AnalyticsInv
      <4> QED BY <1>1, <4>2
    <3> QED BY <1>2, <3>1, <3>2 DEF Surpassed
  <2>3. events[i].session \in Sessions
    BY <2>1 DEF EventFine, EventRow
  <2> QED BY <1>2, <2>1, <2>2, <2>3 DEF EventFine
<1>5. kept \subseteq DOMAIN events /\ 0 \notin kept
  BY <1>1 DEF AnalyticsInv
<1>6. ASSUME NEW s \in Sessions, sessions'[s].last \in kept
      PROVE  events'[sessions'[s].last].session = s
  BY <1>2, <1>5, <1>6 DEF AnalyticsInv
<1> QED BY <1>2, <1>3, <1>4, <1>5, <1>6 DEF AnalyticsInv

LEMMA AnalyticsNextKeeps ==
  ASSUME AnalyticsInv, [Analytics!Next]_(Analytics!vars)
  PROVE  AnalyticsInv'
<1>1. CASE UNCHANGED <<events, sessions, logged>> /\ (hour' = hour \/ hour' = hour + 1)
  <2>1. \A i \in DOMAIN events : Surpassed(i) => Surpassed(i)'
    BY <1>1 DEF Surpassed
  <2>2. hour' \in Nat /\ \A n \in Nat : n <= hour => n <= hour'
    BY <1>1 DEF AnalyticsInv
  <2>3. \A i \in DOMAIN events : EventFine(i)'
    BY <1>1, <2>1, <2>2 DEF AnalyticsInv, EventFine, EventRow
  <2> QED BY <1>1, <2>2, <2>3 DEF AnalyticsInv
<1>2. ASSUME NEW s \in Sessions, Analytics!Feedback(s)
      PROVE  UNCHANGED <<events, sessions, logged, hour>>
  BY <1>2 DEF Analytics!Feedback
<1>3. Analytics!Tick \/ UNCHANGED Analytics!vars
        => UNCHANGED <<events, sessions, logged>> /\ (hour' = hour \/ hour' = hour + 1)
  BY DEF Analytics!Tick, Analytics!vars
<1> QED BY <1>1, <1>2, <1>3, RetrieveKeeps, OutcomeKeeps, EventPruneKeeps DEF Analytics!Next

LEMMA AnalyticsInitHolds == Analytics!Init => AnalyticsInv
BY AnalyticsAssumption DEF Analytics!Init, AnalyticsInv, Analytics!NoSession

-----------------------------------------------------------------------------

LEMMA CountsAreCounts == \A S : Analytics!Cardinality(S) = Cardinality(S)
BY DEF Analytics!Cardinality, Cardinality

\* The sum of what the events count is the number of those that count one.
LEMMA RatesHold ==
  ASSUME AnalyticsInv
  PROVE  RatesAreFractions
<1> USE AnalyticsAssumption
<1>1. SUFFICES ASSUME NEW since \in 0 .. hour
               PROVE  /\ Cardinality(Analytics!Positive(since)) + Analytics!Reformulations(since)
                           <= Cardinality(Analytics!Within(since))
                      /\ Analytics!Reformulations(since)
                           <= Cardinality(Analytics!MultiEvents(since))
                      /\ \A e \in Results :
                           Analytics!FollowThrough(e, since) \subseteq Analytics!Positive(since)
  BY CountsAreCounts DEF RatesAreFractions, Analytics!RatesAreFractions
<1> DEFINE W == Analytics!Within(since)
           P == Analytics!Positive(since)
           M == Analytics!MultiEvents(since)
           R == {i \in W : events[i].reformulated = 1}
           Counts == {p \in W \X (1 .. MaxEvents) : p[2] <= events[p[1]].reformulated}
<1>2. /\ W \subseteq DOMAIN events /\ P \subseteq W /\ M \subseteq W /\ R \subseteq W
      /\ \A i \in W : EventFine(i)
  BY DEF Analytics!Within, Analytics!Positive, Analytics!MultiEvents, AnalyticsInv
<1>3. IsFiniteSet(W) /\ IsFiniteSet(P) /\ IsFiniteSet(M) /\ IsFiniteSet(R)
  <2>1. IsFiniteSet(1 .. logged)
    BY FS_Interval DEF AnalyticsInv
  <2>2. W \in SUBSET (1 .. logged)
    BY <1>2 DEF AnalyticsInv
  <2>3. IsFiniteSet(W)
    BY <2>1, <2>2, FS_Subset
  <2> QED BY <1>2, <2>3, FS_Subset
<1>4. P \cap R = {}
  BY <1>2 DEF Analytics!Positive, EventFine
<1>5. R \subseteq M
  <2>1. SUFFICES ASSUME NEW i \in R PROVE i \in M
    OBVIOUS
  <2>2. PICK j \in DOMAIN events : /\ j # i /\ events[j].session = events[i].session
                                   /\ events[j].at >= events[i].at
    BY <1>2 DEF EventFine, Surpassed
  <2>3. events[j].at \in Nat /\ events[i].at \in Nat /\ events[i].at >= since /\ since \in Nat
    BY <1>2 DEF AnalyticsInv, EventFine, EventRow, Analytics!Within
  <2>4. j \in W
    BY <2>2, <2>3 DEF Analytics!Within
  <2> QED BY <2>2, <2>4 DEF Analytics!MultiEvents
<1>6. Analytics!Reformulations(since) = Cardinality(Counts)
  BY CountsAreCounts DEF Analytics!Reformulations
<1>7. Cardinality(Counts) <= Cardinality(R)
  <2> DEFINE f == [p \in Counts |-> p[1]]
  <2>1. ASSUME NEW p \in Counts
        PROVE  p[1] \in R /\ p[2] = 1 /\ p = <<p[1], p[2]>>
    <3>1. /\ p[1] \in W /\ p[2] \in 1 .. MaxEvents /\ p = <<p[1], p[2]>>
          /\ p[2] <= events[p[1]].reformulated
      OBVIOUS
    <3>2. events[p[1]].reformulated \in {0, 1}
      BY <1>2, <3>1 DEF EventFine, EventRow
    <3> QED BY <3>1, <3>2
  <2>2. f \in Injection(Counts, R)
    <3> HIDE DEF Counts, R
    <3>1. f \in [Counts -> R]
      BY <2>1
    <3>2. ASSUME NEW p \in Counts, NEW q \in Counts, f[p] = f[q] PROVE p = q
      BY <2>1, <3>2
    <3> QED BY <3>1, <3>2 DEF Injection, IsInjective
  <2> HIDE DEF f, Counts, R
  <2> QED BY <1>3, <2>2, FS_Injection
<1> HIDE DEF Counts, R, W, P, M
<1>8. Cardinality(P) + Cardinality(R) <= Cardinality(W) /\ Cardinality(R) <= Cardinality(M)
  <2>1. Cardinality(P \cup R) = Cardinality(P) + Cardinality(R) - Cardinality(P \cap R)
    BY <1>3, FS_Union
  <2>2. Cardinality(P \cap R) = 0
    BY <1>4, FS_EmptySet
  <2>3. P \cup R \in SUBSET W /\ R \in SUBSET M
    BY <1>2, <1>5
  <2>4. Cardinality(P \cup R) <= Cardinality(W) /\ Cardinality(R) <= Cardinality(M)
    BY <1>3, <2>3, FS_Subset
  <2>5. Cardinality(P) \in Nat /\ Cardinality(R) \in Nat
    BY <1>3, FS_CardinalityType
  <2> QED BY <2>1, <2>2, <2>4, <2>5
<1>9. ASSUME NEW e \in Results
      PROVE  Analytics!FollowThrough(e, since) \subseteq Analytics!Positive(since)
  BY DEF Analytics!FollowThrough, Analytics!Impressions, Analytics!Positive, Analytics!Good
<1>10. Cardinality(Counts) \in Int /\ Cardinality(R) \in Int /\ Cardinality(P) \in Int
       /\ Cardinality(W) \in Int /\ Cardinality(M) \in Int
  <2>1. IsFiniteSet(Counts)
    <3>1. IsFiniteSet(W \X (1 .. MaxEvents))
      <4>1. IsFiniteSet(1 .. MaxEvents)
        BY FS_Interval
      <4> QED BY <1>3, <4>1, FS_Product
    <3>2. Counts \in SUBSET (W \X (1 .. MaxEvents))
      BY DEF Counts
    <3> QED BY <3>1, <3>2, FS_Subset
  <2> QED BY <1>3, <2>1, FS_CardinalityType
<1> QED BY <1>6, <1>7, <1>8, <1>9, <1>10 DEF P, W, M

\* Of every period that lasts to the present the rates are shares of the events,
\* for any retention of events and sessions and any window of correlation.
THEOREM RatesAreFractionsAlways == Analytics!Spec => []RatesAreFractions
BY RatesHold, AnalyticsInitHolds, AnalyticsNextKeeps, PTL DEF Analytics!Spec

-----------------------------------------------------------------------------
(* QuerySnapshots *)

LEMMA MatchesAreCounted ==
  \A S : Query!Cardinality(S) = Cardinality(S) /\ (Query!IsFiniteSet(S) <=> IsFiniteSet(S))
BY DEF Query!Cardinality, Cardinality, Query!IsFiniteSet, IsFiniteSet

LEMMA HasHighest ==
  ASSUME NEW S \in SUBSET Nat, IsFiniteSet(S), S # {}
  PROVE  \E i \in S : \A j \in S : j <= i
<1>1. \A T : HistoryProofs!IsFiniteSet(T) <=> IsFiniteSet(T)
  BY DEF HistoryProofs!IsFiniteSet, IsFiniteSet
<1> QED BY <1>1, HistoryProofs!HasHighest

LEMMA HasLowest ==
  ASSUME NEW S \in SUBSET Nat, IsFiniteSet(S), S # {}
  PROVE  \E i \in S : \A j \in S : i <= j
<1>1. \A T : HistoryProofs!IsFiniteSet(T) <=> IsFiniteSet(T)
  BY DEF HistoryProofs!IsFiniteSet, IsFiniteSet
<1> QED BY <1>1, HistoryProofs!HasLowest

\* The places from a place on that can be shown.
Ahead(r, at) == {i \in Query!Visible(r) : i >= at}

\* A page is the beginning of what is ahead, and not empty if anything is.
LEMMA PageHolds ==
  ASSUME NEW r \in Seq(Entries), NEW at \in Nat, NEW limit \in Nat \ {0}
  PROVE  /\ Query!Page(r, at, limit) \subseteq Ahead(r, at)
         /\ \A i \in Ahead(r, at), m \in Query!Page(r, at, limit) :
              i <= m => i \in Query!Page(r, at, limit)
         /\ Ahead(r, at) # {} => Query!Page(r, at, limit) # {}
<1> DEFINE ahead == Ahead(r, at)
           before(i) == {j \in ahead : j < i}
           page == Query!Page(r, at, limit)
<1>1. /\ ahead \subseteq Nat /\ IsFiniteSet(ahead)
      /\ page = {i \in ahead : Cardinality(before(i)) < limit}
  <2>1. ahead \in SUBSET (1 .. Len(r)) /\ Len(r) \in Nat
    BY DEF Ahead, Query!Visible
  <2>2. IsFiniteSet(1 .. Len(r))
    BY <2>1, FS_Interval
  <2>3. page = {i \in ahead : Query!Cardinality(before(i)) < limit}
    BY DEF Query!Page, Ahead
  <2> HIDE DEF ahead, page
  <2>4. page = {i \in ahead : Cardinality(before(i)) < limit}
    BY <2>3, MatchesAreCounted
  <2>5. ahead \subseteq Nat
    BY <2>1
  <2>6. IsFiniteSet(ahead)
    BY <2>1, <2>2, FS_Subset
  <2> QED BY <2>4, <2>5, <2>6
<1> HIDE DEF ahead, page
<1>2. ASSUME NEW i \in ahead, NEW m \in page, i <= m
      PROVE  i \in page
  <2>1. before(i) \in SUBSET before(m) /\ before(m) \in SUBSET ahead /\ before(i) \in SUBSET ahead
    <3>1. i \in Nat /\ m \in Nat
      BY <1>1, <1>2
    <3>2. ASSUME NEW j \in ahead, j < i PROVE j < m
      <4>1. j \in Nat
        BY <1>1
      <4> QED BY <1>2, <3>1, <3>2, <4>1
    <3> QED BY <3>2
  <2>2. IsFiniteSet(before(m)) /\ IsFiniteSet(before(i))
    BY <1>1, <2>1, FS_Subset
  <2>3. /\ Cardinality(before(i)) <= Cardinality(before(m))
        /\ Cardinality(before(i)) \in Nat /\ Cardinality(before(m)) \in Nat
    BY <2>1, <2>2, FS_Subset, FS_CardinalityType
  <2>4. Cardinality(before(m)) < limit
    BY <1>1, <1>2
  <2>5. Cardinality(before(i)) < limit
    BY <2>3, <2>4
  <2> HIDE DEF before
  <2> QED BY <1>1, <1>2, <2>5
<1>3. ASSUME ahead # {}
      PROVE  page # {}
  <2>1. PICK i \in ahead : \A j \in ahead : i <= j
    BY <1>1, <1>3, HasLowest
  <2>2. before(i) = {}
    <3>1. ASSUME NEW j \in ahead, j < i PROVE FALSE
      <4>1. j \in Nat /\ i \in Nat /\ i <= j
        BY <1>1, <2>1
      <4> QED BY <3>1, <4>1
    <3> QED BY <3>1
  <2>3. Cardinality(before(i)) = 0
    BY <2>2, FS_EmptySet
  <2> HIDE DEF before
  <2> QED BY <1>1, <2>3
<1>4. page \subseteq ahead
  BY <1>1
<1> QED BY <1>2, <1>3, <1>4 DEF ahead, page

\* The place behind a page is behind every result of it, and right behind one.
LEMMA PlaceHolds ==
  ASSUME NEW page \in SUBSET Nat, IsFiniteSet(page), page # {}, NEW at
  PROVE  /\ Query!PlaceAfter(page, at) \in Nat
         /\ \A j \in page : j < Query!PlaceAfter(page, at)
         /\ \E m \in page : Query!PlaceAfter(page, at) = m + 1
<1>1. PICK m \in page : \A j \in page : j <= m
  BY HasHighest
<1>2. \E i \in {j + 1 : j \in page} : \A j \in page : i > j
  <2>1. m + 1 \in {j + 1 : j \in page} /\ \A j \in page : m + 1 > j
    BY <1>1
  <2> QED BY <2>1
<1>3. /\ Query!PlaceAfter(page, at) \in {j + 1 : j \in page}
      /\ \A j \in page : Query!PlaceAfter(page, at) > j
  BY <1>2 DEF Query!PlaceAfter
<1> QED BY <1>3

\* Whoever is at a place of a list has been shown what is before it and was not
\* hidden, and nothing that comes after it.
ShownUpto(r, hidden, c) ==
  /\ c.at \in Nat /\ c.seen \subseteq Entries
  /\ c.at <= Len(r) + 1 /\ 1 <= c.at /\ c.seen \subseteq Query!ToSet(r)
  /\ \A i \in DOMAIN r : i < c.at => r[i] \in c.seen \cup hidden
  /\ \A i \in DOMAIN r : i >= c.at => r[i] \notin c.seen

Distinct(r) == \A i, j \in DOMAIN r : r[i] = r[j] => i = j

\* Turning a page keeps that.
LEMMA AfterShows ==
  ASSUME NEW r \in Seq(Entries), Distinct(r), NEW hidden,
         \A i \in DOMAIN r : item[r[i]] # "live" => r[i] \in hidden,
         NEW c, ShownUpto(r, hidden, c), NEW limit \in Nat \ {0}
  PROVE  ShownUpto(r, hidden, Query!After(r, c, limit))
<1> DEFINE page == Query!Page(r, c.at, limit)
           more == Query!HasMore(r, c.at, limit)
           at == IF more THEN Query!PlaceAfter(page, c.at) ELSE Len(r) + 1
           seen == c.seen \cup {r[i] : i \in page}
<1>1. Query!After(r, c, limit) = [at |-> at, seen |-> seen]
  BY DEF Query!After
<1>2. /\ c.at \in Nat /\ Len(r) \in Nat /\ DOMAIN r = 1 .. Len(r)
      /\ Ahead(r, c.at) \subseteq DOMAIN r
      /\ \A i \in DOMAIN r : i >= c.at /\ i \notin Ahead(r, c.at) => r[i] \in hidden
      /\ \A i \in Ahead(r, c.at) : i >= c.at
  BY DEF ShownUpto, Ahead, Query!Visible
<1>3. /\ page \subseteq Ahead(r, c.at)
      /\ \A i \in Ahead(r, c.at), m \in page : i <= m => i \in page
      /\ Ahead(r, c.at) # {} => page # {}
      /\ more <=> Ahead(r, c.at) # page
  BY <1>2, PageHolds DEF Query!HasMore, Ahead
<1> HIDE DEF page, more
<1>4. /\ at \in Nat /\ \A j \in page : j < at
      /\ \A i \in Ahead(r, c.at) : i < at => i \in page
      /\ \A i \in DOMAIN r : i >= at => i >= c.at
      /\ at <= Len(r) + 1 /\ 1 <= at
  <2>1. CASE more
    <3>1. page # {}
      BY <1>3, <2>1
    <3>2. page \in SUBSET Nat /\ IsFiniteSet(page)
      <4>1. IsFiniteSet(1 .. Len(r))
        BY <1>2, FS_Interval
      <4>2. page \in SUBSET (1 .. Len(r))
        BY <1>2, <1>3
      <4>3. IsFiniteSet(page)
        BY <4>1, <4>2, FS_Subset
      <4>4. page \in SUBSET Nat
        BY <4>2
      <4> QED BY <4>3, <4>4
    <3>3. /\ at \in Nat /\ \A j \in page : j < at
          /\ \E m \in page : at = m + 1
      BY <2>1, <3>1, <3>2, PlaceHolds
    <3>4. PICK m \in page : at = m + 1
      BY <3>3
    <3> HIDE DEF at
    <3>5. m \in Nat /\ m >= c.at /\ m \in DOMAIN r
      BY <1>2, <1>3
    <3>6. ASSUME NEW i \in Ahead(r, c.at), i < at PROVE i \in page
      BY <1>2, <1>3, <3>4, <3>5, <3>6
    <3>7. ASSUME NEW i \in DOMAIN r, i >= at PROVE i >= c.at
      BY <1>2, <3>4, <3>5, <3>7
    <3>8. at <= Len(r) + 1 /\ 1 <= at
      BY <1>2, <3>4, <3>5
    <3> QED BY <3>3, <3>6, <3>7, <3>8
  <2>2. CASE ~more
    BY <1>2, <1>3, <2>2
  <2> QED BY <2>1, <2>2
<1> HIDE DEF at
<1>5. seen \subseteq Entries /\ seen \subseteq Query!ToSet(r)
  BY <1>2, <1>3 DEF ShownUpto, Query!ToSet
<1>6. ASSUME NEW i \in DOMAIN r, i < at
      PROVE  r[i] \in seen \cup hidden
  <2>1. CASE i < c.at
    BY <2>1 DEF ShownUpto
  <2>2. CASE i >= c.at
    BY <1>2, <1>4, <1>6, <2>2
  <2> QED BY <1>2, <2>1, <2>2
<1>7. ASSUME NEW i \in DOMAIN r, i >= at
      PROVE  r[i] \notin seen
  <2>1. r[i] \notin c.seen
    BY <1>4, <1>7 DEF ShownUpto
  <2>2. ASSUME NEW j \in page, r[i] = r[j] PROVE FALSE
    <3>1. j \in DOMAIN r /\ j < at
      BY <1>2, <1>3, <1>4
    <3>2. i = j
      BY <2>2, <3>1 DEF Distinct
    <3> QED BY <1>2, <1>4, <1>7, <3>1, <3>2
  <2> QED BY <2>1, <2>2
<1> HIDE DEF seen
<1> QED BY <1>1, <1>4, <1>5, <1>6, <1>7 DEF ShownUpto

\* The beginning of a list has what the list has, at the same places.
LEMMA CutHolds ==
  ASSUME NEW S, NEW q \in Seq(S), NEW n \in Nat
  PROVE  /\ Query!Upto(q, n) \in Seq(S)
         /\ DOMAIN Query!Upto(q, n) \subseteq DOMAIN q
         /\ \A i \in DOMAIN Query!Upto(q, n) : Query!Upto(q, n)[i] = q[i]
<1> DEFINE m == IF Len(q) < n THEN Len(q) ELSE n
<1>1. m \in Nat /\ m <= Len(q) /\ Len(q) \in Nat /\ DOMAIN q = 1 .. Len(q)
  OBVIOUS
<1>2. Query!Upto(q, n) = SubSeq(q, 1, m)
  BY DEF Query!Upto
<1> HIDE DEF m
<1> DEFINE c == SubSeq(q, 1, m)
<1>3. c \in Seq(S) /\ Len(c) = m /\ \A i \in 1 .. m : c[i] = q[i]
  BY <1>1
<1>4. DOMAIN c = 1 .. m
  BY <1>3
<1> HIDE DEF c
<1>5. DOMAIN c \subseteq DOMAIN q
  BY <1>1, <1>4
<1> QED BY <1>2, <1>3, <1>4, <1>5 DEF c

\* A list in order of relevance names no entry twice.
LEMMA OrderHolds ==
  ASSUME NEW S \in SUBSET Entries, NEW q \in Query!InOrder(S)
  PROVE  q \in Seq(S) /\ Distinct(q)
<1>1. IsFiniteSet(S) /\ S \subseteq Nat
  BY QueryAssumption, FS_Subset
<1>2. Query!Cardinality(S) \in Nat
  BY <1>1, FS_CardinalityType, MatchesAreCounted
<1>3. /\ q \in [1 .. Query!Cardinality(S) -> S]
      /\ \A i, j \in DOMAIN q : i < j => q[i] < q[j]
  BY DEF Query!InOrder
<1>4. q \in Seq(S) /\ DOMAIN q \subseteq Nat
  BY <1>2, <1>3
<1>5. ASSUME NEW i \in DOMAIN q, NEW j \in DOMAIN q, q[i] = q[j]
      PROVE  i = j
  <2>1. i \in Nat /\ j \in Nat /\ q[i] \in Nat /\ q[j] \in Nat
    BY <1>1, <1>3, <1>4
  <2>2. ~(i < j) /\ ~(j < i)
    BY <1>3, <1>5, <2>1
  <2> QED BY <2>1, <2>2
<1> QED BY <1>4, <1>5 DEF Distinct

\* Nor does a list in any order of a set.
LEMMA ShuffleHolds ==
  ASSUME NEW S \in SUBSET Entries, NEW h \in Query!SetToSeqs(S)
  PROVE  h \in Seq(S) /\ Distinct(h)
<1>1. Query!Cardinality(S) \in Nat
  BY QueryAssumption, FS_Subset, FS_CardinalityType, MatchesAreCounted
<1>2. /\ h \in [1 .. Query!Cardinality(S) -> S]
      /\ \A i, j \in 1 .. Query!Cardinality(S) : i # j => h[i] # h[j]
  BY DEF Query!SetToSeqs, Query!Reranked
<1> QED BY <1>1, <1>2 DEF Distinct

\* Two lists that share no entry make one that names none twice.
LEMMA JoinHolds ==
  ASSUME NEW A, NEW B, A \cap B = {}, NEW h \in Seq(A), NEW t \in Seq(B), Distinct(h), Distinct(t)
  PROVE  h \o t \in Seq(A \cup B) /\ Distinct(h \o t)
<1> DEFINE q == h \o t
<1>1. /\ Len(h) \in Nat /\ Len(t) \in Nat /\ Len(q) = Len(h) + Len(t)
      /\ DOMAIN h = 1 .. Len(h) /\ DOMAIN t = 1 .. Len(t) /\ DOMAIN q = 1 .. Len(q)
      /\ \A i \in 1 .. Len(q) : q[i] = IF i <= Len(h) THEN h[i] ELSE t[i - Len(h)]
      /\ \A i \in 1 .. Len(h) : h[i] \in A
      /\ \A i \in 1 .. Len(t) : t[i] \in B
  OBVIOUS
<1>2. q \in Seq(A \cup B)
  <2>1. h \in Seq(A \cup B) /\ t \in Seq(A \cup B)
    OBVIOUS
  <2> QED BY <2>1
<1> HIDE DEF q
<1>3. ASSUME NEW i \in 1 .. Len(q), NEW j \in 1 .. Len(q), q[i] = q[j]
      PROVE  i = j
  <2>1. CASE i <= Len(h) /\ j <= Len(h)
    <3>1. i \in 1 .. Len(h) /\ j \in 1 .. Len(h) /\ h[i] = h[j]
      BY <1>1, <1>3, <2>1
    <3> QED BY <1>1, <3>1 DEF Distinct
  <2>2. CASE i > Len(h) /\ j > Len(h)
    <3>1. /\ i - Len(h) \in 1 .. Len(t) /\ j - Len(h) \in 1 .. Len(t)
          /\ t[i - Len(h)] = t[j - Len(h)]
      BY <1>1, <1>3, <2>2
    <3>2. i - Len(h) = j - Len(h)
      BY <1>1, <3>1 DEF Distinct
    <3> QED BY <1>1, <3>2
  <2>3. CASE i <= Len(h) /\ j > Len(h)
    <3>1. i \in 1 .. Len(h) /\ j - Len(h) \in 1 .. Len(t) /\ h[i] = t[j - Len(h)]
      BY <1>1, <1>3, <2>3
    <3> QED BY <1>1, <3>1
  <2>4. CASE i > Len(h) /\ j <= Len(h)
    <3>1. j \in 1 .. Len(h) /\ i - Len(h) \in 1 .. Len(t) /\ h[j] = t[i - Len(h)]
      BY <1>1, <1>3, <2>4
    <3> QED BY <1>1, <3>1
  <2>5. i \in Nat /\ j \in Nat
    OBVIOUS
  <2> QED BY <1>1, <2>1, <2>2, <2>3, <2>4, <2>5
<1> QED BY <1>1, <1>2, <1>3 DEF Distinct, q

\* A list that a query answers with names no entry twice, and only entries that
\* are live.
LEMMA ListsHold ==
  ASSUME NEW readable \in SUBSET Entries,
         NEW ranked \in Query!Ranked(Query!Eligible(readable)),
         NEW injected \in Query!Injected(Query!Eligible(Entries)),
         NEW results \in Query!Lists(ranked, injected, readable)
  PROVE  /\ results \in Seq(Entries) /\ Distinct(results)
         /\ \A i \in DOMAIN results : item[results[i]] = "live"
<1> DEFINE alive == Query!Eligible(Entries)
           window == Query!Upto(ranked, RerankWindow)
           head == Query!ToSet(window) \cup injected
           A == head \cap readable
           B == Query!Behind(ranked, head) \cap readable
<1>1. /\ alive \in SUBSET Entries /\ \A e \in alive : item[e] = "live"
      /\ Query!Eligible(readable) \in SUBSET alive
  BY DEF Query!Eligible
<1>2. ranked \in Seq(alive)
  <2>1. PICK T \in SUBSET Query!Eligible(readable) : ranked \in Query!InOrder(T)
    BY DEF Query!Ranked
  <2>2. ranked \in Seq(T) /\ T \in SUBSET alive
    BY <1>1, <2>1, OrderHolds
  <2> QED BY <2>2
<1>3. head \in SUBSET alive
  <2>1. window \in Seq(alive)
    BY <1>2, CutHolds, QueryAssumption
  <2> HIDE DEF window
  <2>2. Query!ToSet(window) \subseteq alive
    BY <2>1 DEF Query!ToSet
  <2>3. injected \subseteq alive
    BY DEF Query!Injected
  <2> QED BY <2>2, <2>3
<1>15. Query!Lists(ranked, injected, readable) =
         {Query!Upto(h \o tail, MaxMatches) : h \in Query!Reranked(A), tail \in Query!InOrder(B)}
  BY DEF Query!Lists
<1>4. PICK h \in Query!Reranked(A), tail \in Query!InOrder(B) :
        results = Query!Upto(h \o tail, MaxMatches)
  <2> HIDE DEF A, B
  <2> QED BY <1>15
<1> HIDE DEF head
<1>5. B \in SUBSET alive /\ A \in SUBSET alive /\ A \cap B = {}
  <2>1. \A i \in RerankWindow + 1 .. Len(ranked) : ranked[i] \in alive
    <3>1. \A i \in 1 .. Len(ranked) : ranked[i] \in alive
      BY <1>2
    <3>2. Len(ranked) \in Nat
      BY <1>2
    <3>3. RerankWindow + 1 .. Len(ranked) \subseteq 1 .. Len(ranked)
      BY <3>2, QueryAssumption
    <3> QED BY <3>1, <3>3
  <2>2. Query!Behind(ranked, head) \subseteq alive \ head
    BY <2>1 DEF Query!Behind
  <2> QED BY <1>3, <2>2
<1> HIDE DEF A, B, alive
<1>6. h \in Seq(A) /\ Distinct(h)
  BY <1>1, <1>4, <1>5, ShuffleHolds DEF Query!Reranked
<1>7. tail \in Seq(B) /\ Distinct(tail)
  BY <1>1, <1>4, <1>5, OrderHolds
<1>8. h \o tail \in Seq(A \cup B) /\ Distinct(h \o tail)
  BY <1>5, <1>6, <1>7, JoinHolds
<1> DEFINE q == h \o tail
           all == A \cup B
<1>9. q \in Seq(all) /\ results = Query!Upto(q, MaxMatches) /\ Distinct(q)
  BY <1>4, <1>8
<1>10. all \in SUBSET alive
  BY <1>5
<1> HIDE DEF q, all
<1>11. /\ results \in Seq(all)
       /\ DOMAIN results \subseteq DOMAIN q
       /\ \A i \in DOMAIN results : results[i] = q[i]
  BY <1>9, QueryAssumption, CutHolds
<1>12. Distinct(results)
  BY <1>9, <1>11 DEF Distinct
<1>13. results \in Seq(Entries)
  BY <1>1, <1>10, <1>11
<1>14. \A i \in DOMAIN results : results[i] \in all
  BY <1>11
<1> QED BY <1>1, <1>10, <1>12, <1>13, <1>14

Statuses == {"live", "expired", "gone"}

QueryRow == [id : Nat, owner : Principals, access : Scopes, results : Seq(Entries),
             live : BOOLEAN, hidden : SUBSET Entries, cursors : SUBSET [at : Nat, seen : SUBSET Entries]]

\* A list names no entry twice, and what of it is not live now was hidden from
\* those who page through it.
Listed(s, status, count) ==
  /\ s \in QueryRow /\ s.id <= count /\ Distinct(s.results)
  /\ \A i \in DOMAIN s.results : status[s.results[i]] # "live" => s.results[i] \in s.hidden
  /\ \A c \in s.cursors : ShownUpto(s.results, s.hidden, c)

QueryInv ==
  /\ item \in [Entries -> Statuses]
  /\ access \in [Principals -> Scopes]
  /\ asking \in [Principals -> SUBSET Scopes]
  /\ pages \in Nat
  /\ IsFiniteSet(snapshots)
  /\ \A s \in snapshots : Listed(s, item, pages)

LEMMA QueryInitHolds == Query!Init => QueryInv
<1>1. IsFiniteSet({})
  BY FS_EmptySet
<1> QED BY <1>1 DEF Query!Init, QueryInv, Statuses

\* What eviction leaves are rows there were, those of others all among them.
LEMMA EvictedHolds ==
  ASSUME QueryInv, NEW p, Query!Rooms(p) # {}
  PROVE  /\ Query!Evicted(p) \subseteq snapshots /\ IsFiniteSet(Query!Evicted(p))
         /\ \A s \in Query!Live(snapshots) : s.owner # p => s \in Query!Evicted(p)
<1> DEFINE rooms == Query!Rooms(p)
           sizes == {Cardinality(S) : S \in rooms}
<1>1. IsFiniteSet(snapshots)
  BY DEF QueryInv
<1>2. \A S \in rooms : S \in SUBSET snapshots
  BY DEF Query!Rooms, Query!Live
<1>3. \A S \in rooms : \A s \in Query!Live(snapshots) : s.owner # p => s \in S
  BY DEF Query!Rooms, Query!OwnOf, Query!Live
<1>4. Query!Evicted(p) = CHOOSE S \in rooms : \A T \in rooms : Cardinality(T) <= Cardinality(S)
  BY MatchesAreCounted DEF Query!Evicted
<1>5. rooms # {}
  OBVIOUS
<1> HIDE DEF rooms
<1>6. \E S \in rooms : \A T \in rooms : Cardinality(T) <= Cardinality(S)
  <2>1. \A S \in rooms : Cardinality(S) \in Nat /\ Cardinality(S) <= Cardinality(snapshots)
    BY <1>1, <1>2, FS_Subset, FS_CardinalityType
  <2>2. Cardinality(snapshots) \in Nat
    BY <1>1, FS_CardinalityType
  <2>3. sizes \in SUBSET (0 .. Cardinality(snapshots))
    BY <2>1, <2>2
  <2>4. IsFiniteSet(0 .. Cardinality(snapshots))
    BY <2>2, FS_Interval
  <2>5. IsFiniteSet(sizes)
    BY <2>3, <2>4, FS_Subset
  <2>6. sizes \in SUBSET Nat /\ sizes # {}
    BY <1>5, <2>1
  <2> HIDE DEF sizes
  <2>7. PICK n \in sizes : \A m \in sizes : m <= n
    BY <2>5, <2>6, HasHighest
  <2> QED BY <2>7 DEF sizes
<1>7. Query!Evicted(p) \in rooms
  BY <1>4, <1>6
<1> QED BY <1>1, <1>2, <1>3, <1>7, FS_Subset

\* Rows that stay keep what is said of them.
LEMMA ListedStays ==
  ASSUME NEW s, NEW status, NEW n \in Nat, NEW m \in Nat, n <= m, Listed(s, status, n)
  PROVE  Listed(s, status, m)
<1>1. s.id \in Nat /\ s.id <= n
  BY DEF Listed, QueryRow
<1>2. s.id <= m
  BY <1>1
<1> QED BY <1>2 DEF Listed

\* The row of a new list.
LEMMA FirstListed ==
  ASSUME QueryInv, NEW p \in Principals, NEW readable \in Scopes, NEW limit \in Nat \ {0},
         NEW results \in Seq(Entries), Distinct(results),
         \A i \in DOMAIN results : item[results[i]] = "live"
  PROVE  Listed([id |-> pages + 1, owner |-> p, access |-> readable, results |-> results,
                 live |-> TRUE, hidden |-> {}, cursors |-> {Query!After(results, Query!Start, limit)}],
                item, pages + 1)
<1> DEFINE c == Query!After(results, Query!Start, limit)
<1>1. ShownUpto(results, {}, Query!Start)
  <2>1. Query!Start.at = 1 /\ Query!Start.seen = {} /\ DOMAIN results = 1 .. Len(results)
    BY DEF Query!Start
  <2> QED BY <2>1 DEF ShownUpto
<1>2. ShownUpto(results, {}, c)
  BY <1>1, AfterShows
<1>3. c \in [at : Nat, seen : SUBSET Entries]
  BY <1>2 DEF ShownUpto, Query!After
<1> HIDE DEF c
<1> DEFINE row == [id |-> pages + 1, owner |-> p, access |-> readable, results |-> results,
                   live |-> TRUE, hidden |-> {}, cursors |-> {c}]
<1>4. /\ row.id = pages + 1 /\ row.results = results /\ row.hidden = {} /\ row.cursors = {c}
      /\ pages + 1 \in Nat /\ pages + 1 <= pages + 1
  BY DEF QueryInv
<1>5. row \in QueryRow
  BY <1>3, <1>4 DEF QueryRow
<1> HIDE DEF row
<1>6. Listed(row, item, pages + 1)
  BY <1>2, <1>4, <1>5 DEF Listed
<1> QED BY <1>6 DEF row, c

\* A query stores a list that is as it should be, or stores nothing.
LEMMA AnswerKeeps ==
  ASSUME QueryInv, NEW p \in Principals, Query!Query(p)
  PROVE  /\ IsFiniteSet(snapshots') /\ pages' \in Nat
         /\ \A s \in snapshots' : Listed(s, item, pages')
         /\ snapshots' # snapshots =>
              /\ \A s \in Query!Live(snapshots) : s.owner # p => s \in snapshots'
              /\ \E t \in snapshots' : t.owner = p /\ t.id = pages + 1
<1>1. PICK readable \in asking[p], limit \in 1 .. MaxLimit :
        \E ranked \in Query!Ranked(Query!Eligible(readable)),
           injected \in Query!Injected(Query!Eligible(Entries)) :
          \E results \in Query!Lists(ranked, injected, readable) :
            Query!Answer(p, results, limit, readable)
  BY DEF Query!Query
<1>2. PICK ranked \in Query!Ranked(Query!Eligible(readable)),
           injected \in Query!Injected(Query!Eligible(Entries)) :
        \E results \in Query!Lists(ranked, injected, readable) :
          Query!Answer(p, results, limit, readable)
  BY <1>1
<1>3. PICK results \in Query!Lists(ranked, injected, readable) :
        Query!Answer(p, results, limit, readable)
  BY <1>2
<1>4. readable \in Scopes /\ readable \in SUBSET Entries /\ limit \in Nat \ {0}
  BY <1>1, QueryAssumption DEF QueryInv
<1>5. /\ results \in Seq(Entries) /\ Distinct(results)
      /\ \A i \in DOMAIN results : item[results[i]] = "live"
  BY <1>2, <1>3, <1>4, ListsHold
<1>6. CASE UNCHANGED <<snapshots, pages>>
  BY <1>6 DEF QueryInv
<1> DEFINE row == [id |-> pages + 1, owner |-> p, access |-> readable, results |-> results,
                   live |-> TRUE, hidden |-> {},
                   cursors |-> {Query!After(results, Query!Start, limit)}]
<1>7. Listed(row, item, pages + 1) /\ row.owner = p /\ row.id = pages + 1
  BY <1>4, <1>5, FirstListed
<1>8. CASE /\ Query!Rooms(p) # {} /\ pages' = pages + 1
           /\ snapshots' = Query!Evicted(p) \cup {row}
  <2> HIDE DEF row
  <2>1. /\ Query!Evicted(p) \subseteq snapshots /\ IsFiniteSet(Query!Evicted(p))
        /\ \A s \in Query!Live(snapshots) : s.owner # p => s \in Query!Evicted(p)
    BY <1>8, EvictedHolds
  <2>2. IsFiniteSet(snapshots')
    BY <1>8, <2>1, FS_AddElement
  <2>3. pages \in Nat /\ pages + 1 \in Nat /\ pages <= pages + 1
    BY DEF QueryInv
  <2>4. \A s \in Query!Evicted(p) : Listed(s, item, pages + 1)
    <3>1. ASSUME NEW s \in snapshots PROVE Listed(s, item, pages + 1)
      <4>1. Listed(s, item, pages)
        BY DEF QueryInv
      <4> QED BY <2>3, <4>1, ListedStays
    <3> QED BY <2>1, <3>1
  <2>5. \A s \in snapshots' : Listed(s, item, pages')
    BY <1>7, <1>8, <2>4
  <2> QED BY <1>7, <1>8, <2>1, <2>2, <2>3, <2>5
<1>9. QED BY <1>3, <1>6, <1>8 DEF Query!Answer

\* A cursor is followed, and another one given for the place it leads to.
LEMMA ResumeKeeps ==
  ASSUME QueryInv, NEW p, NEW s \in snapshots, NEW c \in s.cursors, Query!Resume(p, s, c)
  PROVE  IsFiniteSet(snapshots') /\ \A t \in snapshots' : Listed(t, item, pages)
<1>1. PICK limit \in 1 .. MaxLimit :
        snapshots' = Query!Live(snapshots \ {s}) \cup
          {[s EXCEPT !.cursors = @ \cup {Query!After(s.results, c, limit)}]}
  BY DEF Query!Resume
<1> DEFINE next == Query!After(s.results, c, limit)
           row == [s EXCEPT !.cursors = @ \cup {next}]
<1>2. Listed(s, item, pages)
  BY DEF QueryInv
<1>3. limit \in Nat \ {0}
  BY QueryAssumption
<1>4. ShownUpto(s.results, s.hidden, next)
  <2>1. /\ s.results \in Seq(Entries) /\ Distinct(s.results)
        /\ \A i \in DOMAIN s.results : item[s.results[i]] # "live" => s.results[i] \in s.hidden
        /\ ShownUpto(s.results, s.hidden, c)
    BY <1>2 DEF Listed, QueryRow
  <2> QED BY <1>3, <2>1, AfterShows
<1>5. next \in [at : Nat, seen : SUBSET Entries]
  BY <1>4 DEF ShownUpto, Query!After
<1> HIDE DEF next
<1>6. /\ row.id = s.id /\ row.results = s.results /\ row.hidden = s.hidden
      /\ row.cursors = s.cursors \cup {next} /\ row \in QueryRow
  BY <1>2, <1>5 DEF Listed, QueryRow
<1> HIDE DEF row
<1>7. Listed(row, item, pages)
  BY <1>2, <1>4, <1>6 DEF Listed
<1>8. Query!Live(snapshots \ {s}) \in SUBSET snapshots
  BY DEF Query!Live
<1>9. snapshots' = Query!Live(snapshots \ {s}) \cup {row}
  BY <1>1 DEF row, next
<1>10. IsFiniteSet(snapshots')
  <2>1. IsFiniteSet(Query!Live(snapshots \ {s}))
    BY <1>8, FS_Subset DEF QueryInv
  <2> QED BY <1>9, <2>1, FS_AddElement
<1>11. \A t \in snapshots' : Listed(t, item, pages)
  BY <1>7, <1>8, <1>9 DEF QueryInv
<1> QED BY <1>10, <1>11

\* An entry that stops being live becomes hidden from every list.
LEMMA ChangeKeeps ==
  ASSUME QueryInv, NEW e \in Entries, NEW status \in Statuses, Query!Changes(e, status)
  PROVE  /\ IsFiniteSet(snapshots') /\ item' \in [Entries -> Statuses]
         /\ \A t \in snapshots' : Listed(t, item', pages)
         /\ \A s \in snapshots : \E t \in snapshots' : t.id = s.id
<1> DEFINE row(s) == [s EXCEPT !.hidden = IF status = "live" THEN @ ELSE @ \cup {e}]
<1>1. snapshots' = {row(s) : s \in snapshots} /\ item' = [item EXCEPT ![e] = status]
  BY DEF Query!Changes
<1>2. ASSUME NEW s \in snapshots
      PROVE  Listed(row(s), item', pages) /\ row(s).id = s.id
  <2>1. Listed(s, item, pages)
    BY DEF QueryInv
  <2>2. /\ row(s).id = s.id /\ row(s).results = s.results /\ row(s).cursors = s.cursors
        /\ row(s).hidden = IF status = "live" THEN s.hidden ELSE s.hidden \cup {e}
        /\ row(s) \in QueryRow
    BY <2>1 DEF Listed, QueryRow
  <2> DEFINE r == row(s)
  <2> HIDE DEF row
  <2>3. ASSUME NEW i \in DOMAIN s.results, item'[s.results[i]] # "live"
        PROVE  s.results[i] \in r.hidden
    <3>1. item \in [Entries -> Statuses] /\ s.results[i] \in Entries
      BY <2>1 DEF QueryInv, Listed, QueryRow
    <3>2. CASE s.results[i] = e
      BY <1>1, <2>2, <2>3, <3>1, <3>2
    <3>3. CASE s.results[i] # e
      <4>1. item[s.results[i]] # "live"
        BY <1>1, <2>3, <3>1, <3>3
      <4> QED BY <2>1, <2>2, <4>1 DEF Listed
    <3> QED BY <3>2, <3>3
  <2>4. ASSUME NEW c \in s.cursors PROVE ShownUpto(s.results, r.hidden, c)
    <3>1. ShownUpto(s.results, s.hidden, c) /\ s.hidden \subseteq r.hidden
      BY <2>1, <2>2 DEF Listed
    <3> QED BY <3>1 DEF ShownUpto
  <2>5. /\ r.id = s.id /\ r.results = s.results /\ r.cursors = s.cursors /\ r \in QueryRow
        /\ s.id <= pages /\ Distinct(s.results)
    BY <2>1, <2>2 DEF Listed
  <2> HIDE DEF r
  <2>6. Listed(r, item', pages)
    BY <2>3, <2>4, <2>5 DEF Listed
  <2> QED BY <2>5, <2>6 DEF r
<1>3. item' \in [Entries -> Statuses]
  BY <1>1 DEF QueryInv
<1> HIDE DEF row
<1>4. IsFiniteSet(snapshots')
  <2> DEFINE f == [s \in snapshots |-> row(s)]
  <2>1. f \in Surjection(snapshots, snapshots')
    BY <1>1 DEF Surjection
  <2> HIDE DEF f
  <2> QED BY <2>1, FS_Surjection DEF QueryInv
<1> QED BY <1>1, <1>2, <1>3, <1>4

LEMMA ExpiryKeeps ==
  ASSUME QueryInv, NEW s \in snapshots, Query!SnapshotExpires(s)
  PROVE  /\ IsFiniteSet(snapshots') /\ \A t \in snapshots' : Listed(t, item, pages)
         /\ \A r \in snapshots : \E t \in snapshots' : t.id = r.id
<1> DEFINE row == [s EXCEPT !.live = FALSE, !.cursors = {}]
<1>1. snapshots' = (snapshots \ {s}) \cup {row}
  BY DEF Query!SnapshotExpires
<1>2. Listed(s, item, pages)
  BY DEF QueryInv
<1>3. /\ row.id = s.id /\ row.results = s.results /\ row.hidden = s.hidden
      /\ row.cursors = {} /\ row \in QueryRow
  BY <1>2 DEF Listed, QueryRow
<1> HIDE DEF row
<1>4. Listed(row, item, pages)
  BY <1>2, <1>3 DEF Listed
<1>5. IsFiniteSet(snapshots')
  <2>1. IsFiniteSet(snapshots \ {s})
    BY FS_Subset DEF QueryInv
  <2> QED BY <1>1, <2>1, FS_AddElement
<1>6. \A t \in snapshots' : Listed(t, item, pages)
  BY <1>1, <1>4 DEF QueryInv
<1> QED BY <1>1, <1>3, <1>5, <1>6

LEMMA QueryNextKeeps == QueryInv /\ [Query!Next]_(Query!vars) => QueryInv'
<1> SUFFICES ASSUME QueryInv, [Query!Next]_(Query!vars) PROVE QueryInv'
  OBVIOUS
<1>1. ASSUME NEW p \in Principals, Query!Ask(p) PROVE QueryInv'
  BY <1>1 DEF Query!Ask, QueryInv
<1>2. ASSUME NEW p \in Principals, Query!Query(p) PROVE QueryInv'
  <2>1. item' = item /\ access' = access /\ asking' = [asking EXCEPT ![p] = {}]
    BY <1>2 DEF Query!Query
  <2>2. asking' \in [Principals -> SUBSET Scopes]
    BY <2>1 DEF QueryInv
  <2> QED BY <1>2, <2>1, <2>2, AnswerKeeps DEF QueryInv
<1>3. ASSUME NEW p \in Principals, NEW s \in snapshots, NEW c \in s.cursors, Query!Resume(p, s, c)
      PROVE  QueryInv'
  <2>1. UNCHANGED <<item, access, asking, pages>>
    BY <1>3 DEF Query!Resume
  <2> QED BY <1>3, <2>1, ResumeKeeps DEF QueryInv
<1>4. ASSUME NEW p \in Principals, NEW readable \in Scopes, Query!ChangeAccess(p, readable)
      PROVE  QueryInv'
  BY <1>4 DEF Query!ChangeAccess, QueryInv
<1>5. ASSUME NEW e \in Entries, NEW status \in Statuses, Query!Changes(e, status) PROVE QueryInv'
  <2>1. UNCHANGED <<access, asking, pages>>
    BY <1>5 DEF Query!Changes
  <2> QED BY <1>5, <2>1, ChangeKeeps DEF QueryInv
<1>6. ASSUME NEW s \in snapshots, Query!SnapshotExpires(s) PROVE QueryInv'
  <2>1. UNCHANGED <<item, access, asking, pages>>
    BY <1>6 DEF Query!SnapshotExpires
  <2> QED BY <1>6, <2>1, ExpiryKeeps DEF QueryInv
<1>7. CASE UNCHANGED Query!vars
  BY <1>7 DEF Query!vars, QueryInv
<1>8. ASSUME NEW e \in Entries, Query!EntryGoes(e) \/ Query!EntryExpires(e) \/ Query!EntryIsRenewed(e)
      PROVE  \E status \in Statuses : Query!Changes(e, status)
  BY <1>8 DEF Query!EntryGoes, Query!EntryExpires, Query!EntryIsRenewed, Statuses
<1> QED BY <1>1, <1>2, <1>3, <1>4, <1>5, <1>6, <1>7, <1>8 DEF Query!Next

\* Whoever pages through a list misses no entry of it that stayed visible and
\* sees none twice: a list names no entry twice, and where a page leaves its
\* reader everything before was shown or is hidden and nothing behind was shown,
\* for any window, page sizes, limits, rules and changes of entries.
THEOREM PagesSkipNothingAlways == Query!Spec => []PagesSkipNothing
<1>1. QueryInv => PagesSkipNothing
  BY DEF QueryInv, Listed, ShownUpto, PagesSkipNothing, Query!PagesSkipNothing
<1> QED BY <1>1, QueryInitHolds, QueryNextKeeps, PTL DEF Query!Spec

\* What a step takes away is its principal's own, and makes room for a new list.
TakesOwnOnly ==
  \A s \in Query!Live(snapshots) :
    (\A t \in snapshots' : t.id # s.id) =>
      \E t \in snapshots' \ snapshots : t.owner = s.owner

LEMMA NothingTaken ==
  ASSUME \A s \in Query!Live(snapshots) : \E t \in snapshots' : t.id = s.id
  PROVE  TakesOwnOnly
BY DEF TakesOwnOnly

LEMMA OthersKeep == QueryInv /\ [Query!Next]_(Query!vars) => TakesOwnOnly
<1> SUFFICES ASSUME QueryInv, [Query!Next]_(Query!vars) PROVE TakesOwnOnly
  OBVIOUS
<1> USE DEF Query!Live
<1>1. CASE UNCHANGED snapshots
  BY <1>1, NothingTaken
<1>2. ASSUME NEW p \in Principals, Query!Query(p) PROVE TakesOwnOnly
  <2>1. CASE snapshots' # snapshots
    <3>1. \A s \in Query!Live(snapshots) : s.owner # p => s \in snapshots'
      BY <1>2, <2>1, AnswerKeeps
    <3>2. PICK t \in snapshots' : t.owner = p /\ t.id = pages + 1
      BY <1>2, <2>1, AnswerKeeps
    <3>3. t \notin snapshots
      <4>1. pages \in Nat /\ \A s \in snapshots : s.id \in Nat /\ s.id <= pages
        BY DEF QueryInv, Listed, QueryRow
      <4> QED BY <3>2, <4>1
    <3> QED BY <3>1, <3>2, <3>3 DEF TakesOwnOnly
  <2> QED BY <1>1, <2>1
<1>3. ASSUME NEW p \in Principals, NEW s \in snapshots, NEW c \in s.cursors, Query!Resume(p, s, c)
      PROVE  TakesOwnOnly
  <2>1. PICK limit \in 1 .. MaxLimit :
          snapshots' = Query!Live(snapshots \ {s}) \cup
            {[s EXCEPT !.cursors = @ \cup {Query!After(s.results, c, limit)}]}
    BY <1>3 DEF Query!Resume
  <2> DEFINE row == [s EXCEPT !.cursors = @ \cup {Query!After(s.results, c, limit)}]
  <2>2. row \in snapshots' /\ row.id = s.id
    <3>1. s \in QueryRow
      BY DEF QueryInv, Listed
    <3> QED BY <2>1, <3>1 DEF QueryRow
  <2>3. \A r \in Query!Live(snapshots) : r # s => r \in snapshots'
    BY <2>1
  <2> HIDE DEF row
  <2> QED BY <2>2, <2>3, NothingTaken
<1>4. ASSUME NEW e \in Entries, Query!EntryGoes(e) \/ Query!EntryExpires(e) \/ Query!EntryIsRenewed(e)
      PROVE  TakesOwnOnly
  <2>1. PICK status \in Statuses : Query!Changes(e, status)
    BY <1>4 DEF Query!EntryGoes, Query!EntryExpires, Query!EntryIsRenewed, Statuses
  <2> QED BY <2>1, ChangeKeeps, NothingTaken
<1>5. ASSUME NEW s \in snapshots, Query!SnapshotExpires(s) PROVE TakesOwnOnly
  BY <1>5, ExpiryKeeps, NothingTaken
<1>6. ASSUME NEW p \in Principals,
             Query!Ask(p) \/ \E readable \in Scopes : Query!ChangeAccess(p, readable)
      PROVE  TakesOwnOnly
  BY <1>1, <1>6 DEF Query!Ask, Query!ChangeAccess
<1>7. CASE UNCHANGED Query!vars
  BY <1>1, <1>7 DEF Query!vars
<1> QED BY <1>2, <1>3, <1>4, <1>5, <1>6, <1>7 DEF Query!Next

\* However little room is left, a query takes no live list from a principal other
\* than the one that asks, and from that one only to store a new list.
THEOREM OthersKeepTheirsAlways == Query!Spec => OthersKeepTheirs
<1>1. QueryInv /\ [Query!Next]_(Query!vars) => [TakesOwnOnly]_(Query!vars)
  BY OthersKeep
<1> QED BY <1>1, QueryInitHolds, QueryNextKeeps, PTL
        DEF Query!Spec, OthersKeepTheirs, Query!OthersKeepTheirs, TakesOwnOnly

-----------------------------------------------------------------------------
(* Commitments *)

CommitStates == {"open", "done", "cancelled"}
Sureness == 0 .. 2

CommitRow == [id : Nat, source : Nat, step : Steps, old : BOOLEAN, status : CommitStates,
              at : Nat, sure : Sureness]

StatusEntry == [source : Nat, steps : SUBSET Steps, ended : BOOLEAN, restricted : BOOLEAN, at : Nat]

\* No two rows of a table have one number, or one fingerprint in one source.
Table(rs) ==
  /\ rs \subseteq CommitRow /\ IsFiniteSet(rs)
  /\ \A r, q \in rs : r.id = q.id => r = q
  /\ \A r, q \in rs : r.source = q.source /\ r.step = q.step /\ r.old = q.old => r = q

\* No row revises two wordings, and no wording is revised by two rows.
LEMMA RevisionsHold ==
  ASSUME NEW rs \in SUBSET CommitRow, NEW derived \in SUBSET Steps
  PROVE  /\ Track!Revisions(rs, derived) \subseteq
              Track!Orphans(rs, derived) \X Track!Fresh(rs, derived)
         /\ \A p, q \in Track!Revisions(rs, derived) : p[1] = q[1] \/ p[2] = q[2] => p = q
<1> DEFINE orphans == Track!Orphans(rs, derived)
           wordings == Track!Fresh(rs, derived)
<1>1. /\ Track!Revisions(rs, derived) =
           {p \in orphans \X wordings : Track!Revises(p[1], p[2], orphans, wordings)}
      /\ orphans \in SUBSET CommitRow /\ wordings \in SUBSET Steps
  BY DEF Track!Revisions, Track!Orphans, Track!Fresh
<1> HIDE DEF orphans, wordings
<1>2. ASSUME NEW r \in CommitRow, NEW s \in Steps PROVE Track!Score(r, s) \in Nat
  <2>1. r.step \in Steps
    BY DEF CommitRow
  <2> QED BY <2>1, CommitmentsAssumption DEF Track!Score
<1>3. ASSUME NEW r \in orphans, NEW s \in wordings, NEW t \in wordings, s # t,
             Track!Revises(r, s, orphans, wordings), Track!Revises(r, t, orphans, wordings)
      PROVE  FALSE
  <2>1. Track!Score(r, t) < Track!Score(r, s) /\ Track!Score(r, s) < Track!Score(r, t)
    BY <1>3 DEF Track!Revises
  <2>2. Track!Score(r, t) \in Nat /\ Track!Score(r, s) \in Nat
    BY <1>1, <1>2
  <2> QED BY <2>1, <2>2
<1>4. ASSUME NEW r \in orphans, NEW q \in orphans, NEW s \in wordings, r # q,
             Track!Revises(r, s, orphans, wordings), Track!Revises(q, s, orphans, wordings)
      PROVE  FALSE
  <2>1. Track!Score(q, s) < Track!Score(r, s) /\ Track!Score(r, s) < Track!Score(q, s)
    BY <1>4 DEF Track!Revises
  <2>2. Track!Score(q, s) \in Nat /\ Track!Score(r, s) \in Nat
    BY <1>1, <1>2
  <2> QED BY <2>1, <2>2
<1>5. Track!Revisions(rs, derived) \subseteq orphans \X wordings
  BY <1>1
<1>6. ASSUME NEW p \in Track!Revisions(rs, derived), NEW q \in Track!Revisions(rs, derived),
             p[1] = q[1] \/ p[2] = q[2]
      PROVE  p = q
  <2>1. /\ p = <<p[1], p[2]>> /\ q = <<q[1], q[2]>>
        /\ p[1] \in orphans /\ q[1] \in orphans /\ p[2] \in wordings /\ q[2] \in wordings
        /\ Track!Revises(p[1], p[2], orphans, wordings)
        /\ Track!Revises(q[1], q[2], orphans, wordings)
    BY <1>1
  <2>2. p[1] = q[1] /\ p[2] = q[2]
    BY <1>3, <1>4, <1>6, <2>1
  <2> QED BY <2>1, <2>2
<1> QED BY <1>5, <1>6 DEF orphans, wordings

Changed(r, status, at, sure) == [r EXCEPT !.status = status, !.at = at, !.sure = sure]

\* A row whose state changes keeps its number and its fingerprint.
LEMMA RowChanged ==
  ASSUME NEW r \in CommitRow, NEW status \in CommitStates, NEW at \in Nat,
         NEW sure \in Sureness
  PROVE  LET q == Changed(r, status, at, sure)
         IN /\ q \in CommitRow /\ q.id = r.id /\ q.source = r.source /\ q.step = r.step
            /\ q.old = r.old /\ q.status = status
<1> PICK q : q = Changed(r, status, at, sure)
  OBVIOUS
<1>1. /\ r = [id |-> r.id, source |-> r.source, step |-> r.step, old |-> r.old,
              status |-> r.status, at |-> r.at, sure |-> r.sure]
      /\ r.id \in Nat /\ r.source \in Nat /\ r.step \in Steps /\ r.old \in BOOLEAN
  BY DEF CommitRow
<1>2. q = [id |-> r.id, source |-> r.source, step |-> r.step, old |-> r.old,
           status |-> status, at |-> at, sure |-> sure]
  BY <1>1 DEF Changed
<1>3. q \in CommitRow
  BY <1>1, <1>2 DEF CommitRow
<1>4. /\ q.id = r.id /\ q.source = r.source /\ q.step = r.step /\ q.old = r.old
      /\ q.status = status
  BY <1>2
<1> QED BY <1>3, <1>4

\* What a diff makes of one row.
Becomes(derived, pairs, e, respelled, r) ==
  IF \E s \in derived : Track!Holds(r, s) THEN Track!Kept(r, e, respelled)
  ELSE IF \E p \in pairs : p[1] = r
       THEN Track!Revised(r, (CHOOSE p \in pairs : p[1] = r)[2], e)
  ELSE Track!Gone(r)

\* It stays the row it is: open with its step in the text, open with the wording
\* it is the only match of, or no longer open.
Became(derived, pairs, r, q) ==
  /\ q \in CommitRow /\ q.id = r.id /\ q.source = r.source
  /\ \/ /\ \E s \in derived : Track!Holds(r, s)
        /\ q.step = r.step /\ ~q.old /\ ~r.old /\ q.status = "open"
     \/ /\ ~\E s \in derived : Track!Holds(r, s)
        /\ <<r, q.step>> \in pairs /\ ~q.old /\ q.status = "open"
     \/ /\ ~\E s \in derived : Track!Holds(r, s)
        /\ ~\E p \in pairs : p[1] = r
        /\ q.step = r.step /\ q.old = r.old /\ q.status # "open"
        /\ r.status # "open" => q = r

LEMMA BecomesHolds ==
  ASSUME NEW respelled, NEW rs \in SUBSET CommitRow, NEW derived \in SUBSET Steps, NEW e \in StatusEntry,
         age \in Nat, NEW r \in rs
  PROVE  Became(derived, Track!Revisions(rs, derived), r,
                Becomes(derived, Track!Revisions(rs, derived), e, respelled, r))
<1> DEFINE pairs == Track!Revisions(rs, derived)
<1> PICK q : q = Becomes(derived, pairs, e, respelled, r)
  OBVIOUS
<1>1. /\ pairs \subseteq Track!Orphans(rs, derived) \X Track!Fresh(rs, derived)
      /\ Track!Fresh(rs, derived) \subseteq Steps
  BY RevisionsHold DEF Track!Fresh
<1>2. \A at : Track!Confidence(at) \in Sureness
  BY DEF Track!Confidence, Sureness
<1>3. r \in CommitRow /\ e.at \in Nat
  BY DEF StatusEntry
<1> HIDE DEF pairs
<1>4. CASE \E s \in derived : Track!Holds(r, s)
  <2>1. q = Track!Kept(r, e, respelled) /\ ~r.old
    BY <1>4 DEF Becomes, Track!Holds
  <2>2. \E at \in Nat, sure \in Sureness :
          q = Changed(r, "open", at, sure)
    <3>1. r.at \in Nat /\ r.sure \in Sureness
      BY <1>3 DEF CommitRow
    <3>2. CASE r.status = "open" /\ r.step \notin respelled
      <4> DEFINE sure == IF Track!Confidence(r.at) < r.sure THEN Track!Confidence(r.at) ELSE r.sure
      <4>1. sure \in Sureness
        BY <1>2, <3>1 DEF Sureness
      <4>2. q = [r EXCEPT !.sure = sure]
        BY <2>1, <3>2 DEF Track!Kept
      <4> HIDE DEF sure
      <4>3. [r EXCEPT !.sure = sure] = Changed(r, "open", r.at, sure)
        BY <1>3, <3>2 DEF CommitRow, Changed
      <4> QED BY <3>1, <4>1, <4>2, <4>3
    <3>3. CASE ~(r.status = "open" /\ r.step \notin respelled)
      <4>1. q = Changed(r, "open", age, Track!Confidence(e.at))
        BY <2>1, <3>3 DEF Track!Kept, Changed
      <4> QED BY <1>2, <4>1
    <3> QED BY <3>2, <3>3
  <2>3. /\ q \in CommitRow /\ q.id = r.id /\ q.source = r.source /\ q.step = r.step
        /\ q.old = r.old /\ q.status = "open"
    <3>1. PICK at \in Nat, sure \in Sureness :
            q = Changed(r, "open", at, sure)
      BY <2>2
    <3>2. /\ r \in CommitRow /\ "open" \in CommitStates
          /\ at \in Nat /\ sure \in Sureness
      BY <1>3, <3>1 DEF CommitStates
    <3> QED BY <3>1, <3>2, RowChanged
  <2> QED BY <1>4, <2>1, <2>3 DEF Became, pairs
<1>5. CASE ~(\E s \in derived : Track!Holds(r, s)) /\ \E p \in pairs : p[1] = r
  <2>1. PICK p \in pairs : p[1] = r /\ p = CHOOSE x \in pairs : x[1] = r
    BY <1>5
  <2>2. p = <<r, p[2]>> /\ p[2] \in Steps
    BY <1>1, <2>1
  <2>3. q = Track!Revised(r, p[2], e)
    BY <1>5, <2>1 DEF Becomes
  <2>4. /\ q \in CommitRow /\ q.id = r.id /\ q.source = r.source /\ q.step = p[2]
        /\ q.old = FALSE /\ q.status = "open"
    <3> DEFINE sure == Track!Confidence(e.at)
    <3>1. /\ r = [id |-> r.id, source |-> r.source, step |-> r.step, old |-> r.old,
                  status |-> r.status, at |-> r.at, sure |-> r.sure]
          /\ r.id \in Nat /\ r.source \in Nat /\ sure \in Sureness
      BY <1>2, <1>3 DEF CommitRow
    <3>2. q = [id |-> r.id, source |-> r.source, step |-> p[2], old |-> FALSE,
               status |-> "open", at |-> age, sure |-> sure]
      BY <2>3, <3>1 DEF Track!Revised
    <3> HIDE DEF sure
    <3> QED BY <2>2, <3>1, <3>2 DEF CommitRow, CommitStates
  <2>5. <<r, q.step>> \in pairs
    BY <2>1, <2>2, <2>4
  <2> QED BY <1>5, <2>4, <2>5 DEF Became, pairs
<1>6. CASE ~(\E s \in derived : Track!Holds(r, s)) /\ ~\E p \in pairs : p[1] = r
  <2>1. q = Track!Gone(r)
    BY <1>6 DEF Becomes
  <2>2. CASE r.status = "open"
    <3>1. q = [r EXCEPT !.status = Track!Resolved(r), !.at = 0, !.sure = 0]
      BY <2>1, <2>2 DEF Track!Gone, Track!Closed
    <3>2. Track!Resolved(r) \in {"done", "cancelled"}
      BY DEF Track!Resolved
    <3>3. /\ q \in CommitRow /\ q.id = r.id /\ q.source = r.source /\ q.step = r.step
          /\ q.old = r.old /\ q.status # "open"
      <4>1. PICK status \in {"done", "cancelled"} :
              q = Changed(r, status, 0, 0)
        BY <3>1, <3>2 DEF Changed
      <4>2. /\ r \in CommitRow /\ status \in CommitStates /\ status # "open"
            /\ 0 \in Nat /\ 0 \in Sureness
        BY <1>3, <4>1 DEF CommitStates, Sureness
      <4> QED BY <4>1, <4>2, RowChanged
    <3> QED BY <1>6, <2>2, <3>3 DEF Became, pairs
  <2>3. CASE r.status # "open"
    <3>1. q = r
      BY <2>1, <2>3 DEF Track!Gone
    <3> QED BY <1>3, <1>6, <2>3, <3>1 DEF Became, pairs
  <2> QED BY <2>2, <2>3
<1> QED BY <1>4, <1>5, <1>6 DEF Became, pairs

\* The new rows of some wordings: one for each, with numbers no row has.
NewRows(new, all, wordings, e) ==
  /\ new \subseteq CommitRow /\ IsFiniteSet(new)
  /\ \A q \in new : q.source = e.source /\ q.step \in wordings /\ q.old = FALSE /\ q.status = "open"
  /\ \A q \in new : q.at = e.at
  /\ \A s \in wordings : \E q \in new : q.step = s
  /\ \A q, t \in new : q.step = t.step \/ q.id = t.id => q = t
  /\ \A q \in new, r \in all : q.id # r.id

\* There are as many new rows as wordings, and their numbers follow on.
NewNumbers(new, all, size) ==
  /\ Cardinality(new) = size
  /\ \A m \in Nat : (\A r \in all : r.id <= m) => \A q \in new : q.id \in 1 .. (m + size)

LEMMA InsertedHolds ==
  ASSUME NEW all, Table(all), NEW wordings \in SUBSET Steps, NEW e \in StatusEntry, age \in Nat
  PROVE  /\ NewRows(Track!Inserted(wordings, all, e), all, wordings, e)
         /\ NewNumbers(Track!Inserted(wordings, all, e), all, Cardinality(wordings))
<1> DEFINE ids == {r.id : r \in all}
           last == IF all = {} THEN 0 ELSE CHOOSE n \in ids : \A r \in all : r.id <= n
           size == Cardinality(wordings)
           Orders == {f \in [wordings -> 1 .. size] : \A s, t \in wordings : f[s] = f[t] => s = t}
           order == CHOOSE f \in [wordings -> 1 .. size] :
                      \A s, t \in wordings : f[s] = f[t] => s = t
           row(s) == [id |-> last + order[s], source |-> e.source, step |-> s, old |-> FALSE,
                      status |-> "open", at |-> e.at, sure |-> Track!Confidence(e.at)]
<1>1. Track!Inserted(wordings, all, e) = {row(s) : s \in wordings}
  <2>1. \A S : Track!Cardinality(S) = Cardinality(S)
    BY DEF Track!Cardinality, Cardinality
  <2> QED BY <2>1 DEF Track!Inserted
<1>2. /\ last \in Nat /\ \A r \in all : r.id <= last
      /\ \A m \in Nat : (\A r \in all : r.id <= m) => last <= m
  <2>1. CASE all = {}
    BY <2>1
  <2>2. CASE all # {}
    <3>1. ids \in SUBSET Nat /\ ids # {}
      BY <2>2 DEF Table, CommitRow
    <3>2. IsFiniteSet(ids)
      <4> DEFINE f == [r \in all |-> r.id]
      <4>1. f \in Surjection(all, ids)
        BY DEF Surjection
      <4> HIDE DEF f, ids
      <4> QED BY <4>1, FS_Surjection DEF Table
    <3>3. \E n \in ids : \A r \in all : r.id <= n
      <4>1. \E n \in ids : \A m \in ids : m <= n
        <5> HIDE DEF ids
        <5> QED BY <3>1, <3>2, HasHighest
      <4> QED BY <4>1
    <3>4. last \in ids /\ \A r \in all : r.id <= last
      <4> HIDE DEF ids
      <4> QED BY <2>2, <3>3
    <3> QED BY <3>1, <3>4
  <2> QED BY <2>1, <2>2
<1>3. IsFiniteSet(wordings) /\ size \in Nat
  BY CommitmentsAssumption, FS_Subset, FS_CardinalityType
<1>4. order \in [wordings -> 1 .. size] /\ \A s, t \in wordings : order[s] = order[t] => s = t
  <2>1. IsFiniteSet(1 .. size) /\ Cardinality(1 .. size) = size
    BY <1>3, FS_Interval
  <2>2. ExistsBijection(wordings, 1 .. size)
    BY <1>3, <2>1, FS_SameCardinalityBij
  <2>3. PICK f \in Bijection(wordings, 1 .. size) : TRUE
    BY <2>2 DEF ExistsBijection
  <2>4. f \in [wordings -> 1 .. size] /\ \A s, t \in wordings : f[s] = f[t] => s = t
    BY <2>3 DEF Bijection, Injection, IsInjective
  <2> HIDE DEF size
  <2> QED BY <2>4
<1> HIDE DEF last, order, size, ids
<1>5. PICK conf \in Sureness : conf = Track!Confidence(e.at)
  BY DEF Track!Confidence, Sureness
<1>6. PICK n \in Nat, f \in [wordings -> Nat \ {0}] :
        /\ \A s \in wordings : row(s) = [id |-> n + f[s], source |-> e.source, step |-> s,
              old |-> FALSE, status |-> "open", at |-> e.at, sure |-> conf]
        /\ \A s, t \in wordings : f[s] = f[t] => s = t
        /\ \A r \in all : r.id <= n
        /\ \A m \in Nat : (\A r \in all : r.id <= m) => n <= m
        /\ \A s \in wordings : f[s] <= Cardinality(wordings)
  <2>1. order \in [wordings -> Nat \ {0}] /\ \A s \in wordings : order[s] <= Cardinality(wordings)
    BY <1>3, <1>4 DEF size
  <2> QED BY <1>2, <1>4, <1>5, <2>1
<1>7. PICK new : new = {row(s) : s \in wordings}
  OBVIOUS
<1>8. ASSUME NEW s \in wordings
      PROVE  /\ row(s) \in CommitRow /\ row(s).id = n + f[s] /\ row(s).source = e.source
             /\ row(s).step = s /\ row(s).old = FALSE /\ row(s).status = "open"
             /\ row(s).at = e.at
  <2>1. /\ n + f[s] \in Nat /\ e.source \in Nat /\ s \in Steps /\ e.at \in Nat /\ conf \in Sureness
        /\ "open" \in CommitStates
    BY <1>5, <1>6 DEF StatusEntry, CommitStates
  <2>2. PICK q : q = row(s)
    OBVIOUS
  <2> HIDE DEF row
  <2>3. q = [id |-> n + f[s], source |-> e.source, step |-> s, old |-> FALSE,
             status |-> "open", at |-> e.at, sure |-> conf]
    BY <1>6, <2>2
  <2>4. q \in CommitRow
    BY <2>1, <2>3 DEF CommitRow
  <2> QED BY <2>2, <2>3, <2>4
<1>9. IsFiniteSet(new)
  <2> DEFINE g == [s \in wordings |-> row(s)]
  <2> HIDE DEF row
  <2>1. g \in Surjection(wordings, new)
    BY <1>7 DEF Surjection
  <2> HIDE DEF g
  <2> QED BY <1>3, <2>1, FS_Surjection
<1> HIDE DEF row
<1>10. new \in SUBSET CommitRow
  BY <1>7, <1>8
<1>11. ASSUME NEW q \in new
       PROVE  /\ q.source = e.source /\ q.step \in wordings /\ q.old = FALSE /\ q.status = "open"
              /\ q.at = e.at
  <2>1. PICK s \in wordings : q = row(s)
    BY <1>7
  <2>2. q.source = e.source /\ q.step = s
    BY <1>8, <2>1
  <2>3. q.old = FALSE
    BY <1>8, <2>1
  <2>4. q.status = "open" /\ q.at = e.at
    BY <1>8, <2>1
  <2> QED BY <2>2, <2>3, <2>4
<1>12. \A s \in wordings : \E q \in new : q.step = s
  BY <1>7, <1>8
<1>13. ASSUME NEW q \in new, NEW t \in new, q.step = t.step \/ q.id = t.id
       PROVE  q = t
  <2>1. PICK s \in wordings : q = row(s)
    BY <1>7
  <2>2. PICK u \in wordings : t = row(u)
    BY <1>7
  <2>3. q.step = s /\ t.step = u /\ q.id = n + f[s] /\ t.id = n + f[u]
    BY <1>8, <2>1, <2>2
  <2>4. f[s] \in Nat /\ f[u] \in Nat
    BY <1>6
  <2>5. s = u
    BY <1>6, <1>13, <2>3, <2>4
  <2> QED BY <2>1, <2>2, <2>5
<1>14. ASSUME NEW q \in new, NEW r \in all PROVE q.id # r.id
  <2>1. PICK s \in wordings : q = row(s)
    BY <1>7
  <2>2. q.id = n + f[s] /\ r.id <= n /\ r.id \in Nat /\ f[s] \in Nat \ {0}
    BY <1>6, <1>8, <2>1 DEF Table, CommitRow
  <2> QED BY <2>2
<1>15. NewRows(new, all, wordings, e)
  BY <1>9, <1>10, <1>11, <1>12, <1>13, <1>14 DEF NewRows
<1>16. Cardinality(new) = Cardinality(wordings)
  <2> DEFINE g == [s \in wordings |-> row(s)]
  <2>1. g \in [wordings -> new] /\ \A q \in new : \E s \in wordings : g[s] = q
    BY <1>7
  <2>2. ASSUME NEW s \in wordings, NEW t \in wordings, g[s] = g[t] PROVE s = t
    <3>1. row(s) = row(t)
      BY <2>2
    <3> QED BY <1>8, <3>1
  <2> HIDE DEF g
  <2>3. g \in Bijection(wordings, new)
    BY <2>1, <2>2 DEF Bijection, Injection, Surjection, IsInjective
  <2> QED BY <1>3, <2>3, FS_Bijection DEF ExistsBijection
<1>17. ASSUME NEW q \in new
       PROVE  \A m \in Nat : (\A r \in all : r.id <= m) => q.id \in 1 .. (m + Cardinality(wordings))
  <2>1. PICK s \in wordings : q = row(s)
    BY <1>7
  <2>2. q.id = n + f[s]
    BY <1>8, <2>1
  <2>3. PICK z \in Nat, k \in Nat : z = Cardinality(wordings) /\ k = f[s] /\ k # 0 /\ k <= z
    BY <1>3, <1>6 DEF size
  <2>4. ASSUME NEW m \in Nat, n <= m PROVE n + k \in 1 .. (m + z)
    BY <2>3, <2>4
  <2> QED BY <1>6, <2>2, <2>3, <2>4
<1>18. NewNumbers(new, all, Cardinality(wordings))
  BY <1>16, <1>17 DEF NewNumbers
<1> QED BY <1>1, <1>7, <1>15, <1>18

\* An open step is reported done only for one of these reasons.
Excused(r, all, e) ==
  LET heirs == {s \in Track!Derived(e) : Track!Kind(s) = Track!Kind(r.step) /\ Alike[r.step][s] > 0}
  IN \/ heirs = {}
     \/ \E s \in heirs : \E p \in all : p.source = r.source /\ Track!Holds(p, s)
     \/ \E s, t \in heirs : s # t
     \/ \E s \in heirs, p \in all :
          p # r /\ p.source = r.source /\ Track!Score(p, s) >= Track!Score(r, s)

\* An open row that revises no wording is excused.
LEMMA UnpairedIsExcused ==
  ASSUME NEW all, Table(all), NEW e \in StatusEntry, NEW r \in all, r.status = "open",
         NEW mine, mine = {q \in all : q.source = r.source},
         ~\E s \in Track!Derived(e) : Track!Holds(r, s),
         ~\E p \in Track!Revisions(mine, Track!Derived(e)) : p[1] = r
  PROVE  Excused(r, all, e)
<1> DEFINE derived == Track!Derived(e)
           orphans == Track!Orphans(mine, derived)
           wordings == Track!Fresh(mine, derived)
           heirs == {s \in derived : Track!Kind(s) = Track!Kind(r.step) /\ Alike[r.step][s] > 0}
<1>1. derived \in SUBSET Steps
  BY DEF Track!Derived, StatusEntry
<1>2. r \in orphans /\ orphans \in SUBSET mine
  BY DEF Track!Orphans
<1>3. ASSUME NEW s \in heirs, ~\E p \in all : p.source = r.source /\ Track!Holds(p, s),
             \A t \in heirs : t = s,
             \A p \in all : p # r /\ p.source = r.source => ~(Track!Score(p, s) >= Track!Score(r, s))
      PROVE  FALSE
  <2>1. s \in wordings
    BY <1>3 DEF Track!Fresh
  <2>2. \A q \in CommitRow, t \in Steps : Track!Score(q, t) \in Nat
    <3>1. \A q \in CommitRow : q.step \in Steps
      BY DEF CommitRow
    <3> QED BY <3>1, CommitmentsAssumption DEF Track!Score
  <2>3. r \in CommitRow /\ mine \in SUBSET CommitRow /\ r.step \in Steps
    BY DEF Table, CommitRow
  <2>4. Track!Score(r, s) > 0
    BY <1>3 DEF Track!Score
  <2>5. ASSUME NEW t \in wordings \ {s} PROVE Track!Score(r, t) < Track!Score(r, s)
    <3>1. t \in derived /\ t \notin heirs
      BY <1>3 DEF Track!Fresh
    <3>2. Alike[r.step][t] \in Nat
      BY <1>1, <2>3, <3>1, CommitmentsAssumption
    <3>3. Track!Score(r, t) = 0
      BY <3>1, <3>2 DEF Track!Score
    <3> QED BY <2>4, <3>3
  <2>6. ASSUME NEW q \in orphans \ {r} PROVE Track!Score(q, s) < Track!Score(r, s)
    <3>1. q \in all /\ q # r /\ q.source = r.source /\ q \in CommitRow
      BY <1>2 DEF Table
    <3>2. Track!Score(q, s) \in Nat /\ Track!Score(r, s) \in Nat
      BY <1>1, <1>3, <2>2, <2>3, <3>1
    <3> QED BY <1>3, <3>1, <3>2
  <2>7. Track!Revises(r, s, orphans, wordings)
    BY <2>4, <2>5, <2>6 DEF Track!Revises
  <2>8. <<r, s>> \in Track!Revisions(mine, derived)
    BY <1>2, <2>1, <2>7 DEF Track!Revisions
  <2> QED BY <2>8
<1> HIDE DEF heirs
<1>4. \/ heirs = {}
      \/ \E s \in heirs : \E p \in all : p.source = r.source /\ Track!Holds(p, s)
      \/ \E s, t \in heirs : s # t
      \/ \E s \in heirs, p \in all :
           p # r /\ p.source = r.source /\ Track!Score(p, s) >= Track!Score(r, s)
  BY <1>3
<1> QED BY <1>4 DEF Excused, heirs

\* A row that is done was done before, or is open, excused and out of the text.
DoneFairly(r, all, e, derived) ==
  \/ r.status = "done"
  \/ /\ r.status = "open" /\ Excused(r, all, e)
     /\ ~\E s \in derived : Track!Holds(r, s)

\* What a diff of a table whose open rows are all of the entry's source leaves.
Diffs(all, e, rs) ==
  /\ Table(rs)
  /\ {r.step : r \in {q \in rs : q.status = "open"}} =
       IF e.restricted THEN {} ELSE Track!Derived(e)
  /\ \A r \in rs : r.status = "open" => r.source = e.source /\ r.old = FALSE
  /\ e.restricted => rs \subseteq all
  /\ \A r \in all : ~e.restricted /\ r.source = e.source => \E q \in rs : q.id = r.id
  /\ \A r \in all, q \in rs : r.id = q.id /\ q.status = "done" =>
       DoneFairly(r, all, e, Track!Derived(e))

LEMMA RestrictedDiffs ==
  ASSUME NEW all, Table(all), NEW e \in StatusEntry, e.restricted,
         \A r \in all : r.status = "open" => r.source = e.source,
         NEW rs, rs = {r \in all : r.source # e.source}
  PROVE  Diffs(all, e, rs)
<1>1. Table(rs)
  <2>1. rs \in SUBSET all
    OBVIOUS
  <2>2. IsFiniteSet(rs)
    BY <2>1, FS_Subset DEF Table
  <2> QED BY <2>1, <2>2 DEF Table
<1>2. \A r \in rs : r.status # "open"
  OBVIOUS
<1>3. \A r \in all, q \in rs : r.id = q.id /\ q.status = "done" => r.status = "done"
  BY DEF Table
<1>5. \A r \in all, q \in rs : r.id = q.id /\ q.status = "done" =>
        DoneFairly(r, all, e, Track!Derived(e))
  BY <1>3 DEF DoneFairly
<1>4. {r.step : r \in {q \in rs : q.status = "open"}} = {}
  BY <1>2
<1> QED BY <1>1, <1>2, <1>4, <1>5 DEF Diffs

\* Rows of other sources, rows that were there and new ones make a table.
Merges(all, mine, f, new, source, rs) ==
  /\ mine \subseteq all /\ IsFiniteSet(rs) /\ rs \subseteq CommitRow
  /\ \A q \in rs : q \in all \ mine \/ (\E r \in mine : q = f[r]) \/ q \in new
  /\ \A r \in mine : f[r].id = r.id /\ f[r].source = source
  /\ \A q \in new : q.source = source
  /\ \A r \in all \ mine : r.source # source
  /\ \A q, t \in new : q.step = t.step \/ q.id = t.id => q = t
  /\ \A q \in new, r \in all : q.id # r.id
  /\ \A r, q \in mine : f[r].step = f[q].step /\ f[r].old = f[q].old => r = q
  /\ \A r \in mine, q \in new : ~(f[r].step = q.step /\ f[r].old = q.old)

LEMMA MergedTable ==
  ASSUME NEW all, Table(all), NEW mine, NEW f, NEW new, NEW source, NEW rs,
         Merges(all, mine, f, new, source, rs)
  PROVE  Table(rs)
<1> USE DEF Merges
<1>1. \A r, q \in all : r.id = q.id => r = q
  BY DEF Table
<1>2. \A r, q \in all : r.source = q.source /\ r.step = q.step /\ r.old = q.old => r = q
  BY DEF Table
<1>3. ASSUME NEW x \in rs, NEW y \in rs, x.id = y.id
      PROVE  x = y
  <2>1. CASE x \in all \ mine
    <3>1. CASE y \in all \ mine
      BY <1>1, <1>3, <2>1, <3>1
    <3>2. ASSUME NEW q \in mine, y = f[q] PROVE FALSE
      <4>1. q.id = x.id /\ q \in all /\ x \in all /\ x # q
        BY <1>3, <2>1, <3>2
      <4> QED BY <1>1, <4>1
    <3>3. y \notin new
      BY <1>3, <2>1
    <3> QED BY <3>1, <3>2, <3>3
  <2>2. ASSUME NEW r \in mine, x = f[r] PROVE x = y
    <3>1. CASE y \in all \ mine
      <4>1. r.id = y.id /\ r \in all /\ y \in all /\ y # r
        BY <1>3, <2>2, <3>1
      <4> QED BY <1>1, <4>1
    <3>2. ASSUME NEW q \in mine, y = f[q] PROVE x = y
      <4>1. q.id = r.id /\ q \in all /\ r \in all
        BY <1>3, <2>2, <3>2
      <4> QED BY <1>1, <2>2, <3>2, <4>1
    <3>3. y \notin new
      <4>1. r.id = y.id /\ r \in all
        BY <1>3, <2>2
      <4> QED BY <4>1
    <3> QED BY <3>1, <3>2, <3>3
  <2>3. CASE x \in new
    <3>1. y \notin all
      BY <1>3, <2>3
    <3>2. ASSUME NEW q \in mine, y = f[q] PROVE FALSE
      <4>1. q.id = x.id /\ q \in all
        BY <1>3, <3>2
      <4> QED BY <2>3, <4>1
    <3> QED BY <1>3, <2>3, <3>1, <3>2
  <2> QED BY <2>1, <2>2, <2>3
<1>4. ASSUME NEW x \in rs, NEW y \in rs, x.source = y.source, x.step = y.step, x.old = y.old
      PROVE  x = y
  <2>1. ASSUME NEW q \in rs, q.source = source PROVE q \notin all \ mine
    BY <2>1
  <2>2. ASSUME NEW q \in rs, q.source # source PROVE q \in all \ mine
    <3>1. q \notin new
      BY <2>2
    <3>2. ~\E r \in mine : q = f[r]
      BY <2>2
    <3> QED BY <3>1, <3>2
  <2>3. CASE x.source # source
    BY <1>2, <1>4, <2>2, <2>3
  <2>4. CASE x.source = source
    <3>1. x \notin all \ mine /\ y \notin all \ mine
      BY <1>4, <2>1, <2>4
    <3>2. CASE x \in new
      <4>1. y \in new
        BY <1>4, <3>1, <3>2
      <4> QED BY <1>4, <3>2, <4>1
    <3>3. ASSUME NEW r \in mine, x = f[r] PROVE x = y
      <4>1. y \notin new
        BY <1>4, <3>3
      <4>2. PICK q \in mine : y = f[q]
        BY <3>1, <4>1
      <4> QED BY <1>4, <3>3, <4>2
    <3> QED BY <3>1, <3>2, <3>3
  <2> QED BY <2>3, <2>4
<1> QED BY <1>3, <1>4 DEF Table

\* The same said of the steps one by one.
Synchronized(all, e, derived, rs) ==
  /\ Table(rs)
  /\ \A q \in rs : q.status = "open" => q.step \in derived /\ q.source = e.source /\ q.old = FALSE
  /\ \A s \in derived : \E q \in rs : q.status = "open" /\ q.step = s
  /\ \A r \in all : r.source = e.source => \E q \in rs : q.id = r.id
  /\ \A r \in all, q \in rs : r.id = q.id /\ q.status = "done" => DoneFairly(r, all, e, derived)

LEMMA DiffsMade ==
  ASSUME NEW all, NEW e, ~e.restricted, NEW rs, Synchronized(all, e, Track!Derived(e), rs)
  PROVE  Diffs(all, e, rs)
<1> DEFINE open == {q \in rs : q.status = "open"}
<1>1. {r.step : r \in open} = Track!Derived(e)
  BY DEF Synchronized
<1> QED BY <1>1 DEF Diffs, Synchronized

\* The table after a diff: rows of others, rows that were there, and new ones.
Parted(all, e, respelled, mine, derived, pairs, f, wordings, new, rs) ==
  /\ ~e.restricted
  /\ mine = {r \in all : r.source = e.source}
  /\ derived = Track!Derived(e) /\ pairs = Track!Revisions(mine, derived)
  /\ f \in [mine -> CommitRow] /\ \A r \in mine : f[r] = Becomes(derived, pairs, e, respelled, r)
  /\ wordings = Track!Fresh(mine, derived) \ {p[2] : p \in pairs}
  /\ new = Track!Inserted(wordings, all, e)
  /\ rs = (all \ mine) \cup {f[r] : r \in mine} \cup new

LEMMA MergedDiffs ==
  ASSUME NEW respelled, NEW all, Table(all), NEW e \in StatusEntry, age \in Nat,
         \A r \in all : r.status = "open" => r.source = e.source,
         NEW mine, NEW derived, NEW pairs, NEW f, NEW wordings, NEW new, NEW rs,
         Parted(all, e, respelled, mine, derived, pairs, f, wordings, new, rs)
  PROVE  Diffs(all, e, rs)
<1> USE DEF Parted
<1> DEFINE held(r) == \E s \in derived : Track!Holds(r, s)
           K(r) == held(r) /\ f[r].step = r.step /\ f[r].old = FALSE /\ r.old = FALSE /\ f[r].status = "open"
           V(r) == ~held(r) /\ <<r, f[r].step>> \in pairs /\ f[r].old = FALSE /\ f[r].status = "open"
           G(r) == /\ ~held(r) /\ ~(\E p \in pairs : p[1] = r) /\ f[r].step = r.step
                   /\ f[r].old = r.old /\ f[r].status # "open" /\ (r.status # "open" => f[r] = r)
<1>1. /\ all \in SUBSET CommitRow /\ mine \in SUBSET CommitRow /\ mine \in SUBSET all
      /\ derived \in SUBSET Steps /\ IsFiniteSet(all)
  BY DEF Table, Track!Derived, StatusEntry
<1>2. /\ pairs \subseteq mine \X Track!Fresh(mine, derived)
      /\ \A p \in pairs : p[1] \in Track!Orphans(mine, derived)
      /\ \A p, q \in pairs : p[1] = q[1] \/ p[2] = q[2] => p = q
  <2>1. Track!Orphans(mine, derived) \subseteq mine
    BY DEF Track!Orphans
  <2>2. /\ Track!Revisions(mine, derived) \subseteq
             Track!Orphans(mine, derived) \X Track!Fresh(mine, derived)
        /\ \A p, q \in Track!Revisions(mine, derived) : p[1] = q[1] \/ p[2] = q[2] => p = q
    BY <1>1, RevisionsHold
  <2> HIDE DEF held, K, V, G
  <2> QED BY <2>1, <2>2
<1>25. ASSUME NEW r \in mine PROVE Became(derived, pairs, r, f[r])
  <2>1. Became(derived, Track!Revisions(mine, derived), r,
               Becomes(derived, Track!Revisions(mine, derived), e, respelled, r))
    BY <1>1, BecomesHolds
  <2> QED BY <2>1
<1>3. \A r \in mine : f[r] \in CommitRow /\ f[r].id = r.id /\ f[r].source = e.source
  BY <1>25 DEF Became
<1>4. ASSUME NEW r \in mine PROVE K(r) \/ V(r) \/ G(r)
  <2>1. /\ f[r] \in CommitRow /\ r \in CommitRow
        /\ \/ /\ held(r)
              /\ f[r].step = r.step /\ ~f[r].old /\ ~r.old /\ f[r].status = "open"
           \/ /\ ~held(r)
              /\ <<r, f[r].step>> \in pairs /\ ~f[r].old /\ f[r].status = "open"
           \/ /\ ~held(r)
              /\ ~\E p \in pairs : p[1] = r
              /\ f[r].step = r.step /\ f[r].old = r.old /\ f[r].status # "open"
              /\ r.status # "open" => f[r] = r
    BY <1>1, <1>25 DEF Became
  <2>2. f[r].old \in BOOLEAN /\ r.old \in BOOLEAN
    BY <2>1 DEF CommitRow
  <2> HIDE DEF held
  <2> QED BY <2>1, <2>2
<1>5. \A s : s \in Track!Fresh(mine, derived) <=>
               s \in derived /\ \A r \in mine : r.step = s => r.old # FALSE
  <2>1. \A r \in mine : r.old \in BOOLEAN
    BY <1>1 DEF CommitRow
  <2> QED BY <2>1 DEF Track!Fresh, Track!Holds
<1>6. \A r \in mine : held(r) <=> r.step \in derived /\ r.old = FALSE
  <2>1. \A r \in mine : r.old \in BOOLEAN
    BY <1>1 DEF CommitRow
  <2> QED BY <2>1 DEF Track!Holds
<1>7. /\ new \in SUBSET CommitRow /\ IsFiniteSet(new)
      /\ \A q \in new : q.source = e.source /\ q.step \in wordings /\ q.old = FALSE /\ q.status = "open"
      /\ \A s \in wordings : \E q \in new : q.step = s
      /\ \A q, t \in new : q.step = t.step \/ q.id = t.id => q = t
      /\ \A q \in new, r \in all : q.id # r.id
  <2>1. wordings \in SUBSET Steps
    BY <1>1 DEF Track!Fresh
  <2>2. NewRows(Track!Inserted(wordings, all, e), all, wordings, e)
    BY <2>1, InsertedHolds
  <2> HIDE DEF held, K, V, G
  <2> QED BY <2>2 DEF NewRows
<1> HIDE DEF held, K, V, G
<1>8. IsFiniteSet(rs) /\ rs \subseteq CommitRow
  <2> DEFINE kept == {f[r] : r \in mine}
  <2>1. f \in Surjection(mine, kept)
    BY DEF Surjection
  <2>2. IsFiniteSet(mine) /\ IsFiniteSet(all \ mine)
    BY <1>1, FS_Subset
  <2> HIDE DEF kept
  <2>3. IsFiniteSet(kept)
    BY <2>1, <2>2, FS_Surjection
  <2>4. IsFiniteSet((all \ mine) \cup kept)
    BY <2>2, <2>3, FS_Union
  <2>5. IsFiniteSet(rs)
    BY <1>7, <2>4, FS_Union DEF kept
  <2>6. kept \subseteq CommitRow
    BY <1>3 DEF kept
  <2> QED BY <1>1, <1>7, <2>5, <2>6 DEF kept
<1>9. /\ \A q \in rs : q \in all \ mine \/ (\E r \in mine : q = f[r]) \/ q \in new
      /\ \A r \in mine : f[r] \in rs
      /\ new \subseteq rs
      /\ \A r \in all \ mine : r.source # e.source /\ r.status # "open"
  OBVIOUS
<1>10. \A r \in mine, p \in pairs : p[1] = r => ~held(r)
  BY <1>2 DEF held, Track!Orphans
<1>11. ASSUME NEW r \in mine, NEW s \in Track!Fresh(mine, derived), r.step = s, r.old = FALSE
       PROVE  FALSE
  BY <1>5, <1>11
<1>12. ASSUME NEW r \in mine, NEW q \in mine, f[r].step = f[q].step, f[r].old = f[q].old
       PROVE  r = q
  <2>1. ASSUME NEW x \in mine, NEW y \in mine, f[x].step = f[y].step, f[x].old = f[y].old, V(x)
        PROVE  x = y
    <3>1. <<x, f[x].step>> \in pairs /\ f[x].step \in Track!Fresh(mine, derived) /\ f[x].old = FALSE
      BY <1>2, <2>1 DEF V
    <3>2. CASE K(y)
      BY <1>11, <2>1, <3>1, <3>2 DEF K
    <3>3. CASE V(y)
      BY <1>2, <2>1, <3>1, <3>3 DEF V
    <3>4. CASE G(y)
      BY <1>11, <2>1, <3>1, <3>4 DEF G
    <3> QED BY <1>4, <3>2, <3>3, <3>4
  <2>2. CASE V(r) \/ V(q)
    BY <1>12, <2>1, <2>2
  <2>3. CASE ~V(r) /\ ~V(q)
    <3>1. (K(r) \/ G(r)) /\ (K(q) \/ G(q))
      BY <1>4, <2>3
    <3>2. f[r].step = r.step /\ f[q].step = q.step
      BY <3>1 DEF K, G
    <3>3. f[r].old = r.old /\ f[q].old = q.old
      BY <3>1 DEF K, G
    <3> QED BY <1>12, <3>2, <3>3 DEF Table
  <2> QED BY <2>2, <2>3
<1>13. ASSUME NEW r \in mine, NEW q \in new, f[r].step = q.step, f[r].old = q.old
       PROVE  FALSE
  <2>1. /\ q.step \in Track!Fresh(mine, derived) /\ q.old = FALSE
        /\ ~\E p \in pairs : p[2] = q.step
    <3>1. q.step \in wordings /\ q.old = FALSE
      BY <1>7
    <3>2. \A s \in wordings : s \in Track!Fresh(mine, derived) /\ ~\E p \in pairs : p[2] = s
      OBVIOUS
    <3> QED BY <3>1, <3>2
  <2>2. CASE V(r)
    BY <1>13, <2>1, <2>2 DEF V
  <2>3. CASE K(r)
    BY <1>11, <1>13, <2>1, <2>3 DEF K
  <2>4. CASE G(r)
    BY <1>11, <1>13, <2>1, <2>4 DEF G
  <2> QED BY <1>4, <2>2, <2>3, <2>4
<1>16. Table(rs)
  <2>1. \A r \in all \ mine : r.source # e.source
    BY <1>9
  <2>2. \A r, q \in mine : f[r].step = f[q].step /\ f[r].old = f[q].old => r = q
    BY <1>12
  <2>3. \A r \in mine, q \in new : ~(f[r].step = q.step /\ f[r].old = q.old)
    BY <1>13
  <2>4. \A r \in mine : f[r].id = r.id /\ f[r].source = e.source
    BY <1>3
  <2>5. \A q \in rs : q \in all \ mine \/ (\E r \in mine : q = f[r]) \/ q \in new
    BY <1>9
  <2>6. \A q \in new : q.source = e.source
    BY <1>7
  <2>7. \A q, t \in new : q.step = t.step \/ q.id = t.id => q = t
    BY <1>7
  <2>8. \A q \in new, r \in all : q.id # r.id
    BY <1>7
  <2>9. mine \in SUBSET all /\ IsFiniteSet(rs) /\ rs \subseteq CommitRow
    BY <1>1, <1>8
  <2>10. Merges(all, mine, f, new, e.source, rs)
    BY <2>1, <2>2, <2>3, <2>4, <2>5, <2>6, <2>7, <2>8, <2>9 DEF Merges
  <2> QED BY <2>10, MergedTable
<1>17. ASSUME NEW q \in rs, q.status = "open"
       PROVE  q.step \in derived /\ q.source = e.source /\ q.old = FALSE
  <2>1. CASE q \in new
    BY <1>7, <2>1, wordings \subseteq derived DEF Track!Fresh
  <2>2. ASSUME NEW r \in mine, q = f[r]
        PROVE  q.step \in derived /\ q.source = e.source /\ q.old = FALSE
    <3>1. CASE K(r)
      BY <1>3, <1>6, <2>2, <3>1 DEF K
    <3>2. CASE V(r)
      BY <1>2, <1>3, <1>5, <2>2, <3>2 DEF V
    <3>3. ~G(r)
      BY <1>17, <2>2 DEF G
    <3> QED BY <1>4, <3>1, <3>2, <3>3
  <2> QED BY <1>9, <1>17, <2>1, <2>2
<1>18. ASSUME NEW s \in derived
       PROVE  \E q \in rs : q.status = "open" /\ q.step = s
  <2>1. CASE s \in wordings
    <3>1. PICK q \in new : q.step = s
      BY <1>7, <2>1
    <3>2. q \in rs /\ q.status = "open"
      BY <1>7, <1>9
    <3> QED BY <3>1, <3>2
  <2>2. CASE s \in Track!Fresh(mine, derived) /\ s \notin wordings
    <3>1. PICK p \in pairs : p[2] = s
      BY <2>2
    <3>2. p[1] \in mine /\ p = <<p[1], s>>
      BY <1>2, <3>1
    <3>3. V(p[1])
      <4>1. ~K(p[1]) /\ ~G(p[1])
        BY <1>10, <3>2 DEF K, G
      <4> QED BY <1>4, <3>2, <4>1
    <3>4. f[p[1]].step = s /\ f[p[1]].status = "open"
      <4>1. <<p[1], f[p[1]].step>> \in pairs /\ f[p[1]].status = "open"
        BY <3>3 DEF V
      <4>2. <<p[1], f[p[1]].step>> = p
        BY <1>2, <4>1
      <4> QED BY <3>1, <4>1, <4>2
    <3> QED BY <1>9, <3>2, <3>4
  <2>3. CASE s \notin Track!Fresh(mine, derived)
    <3>1. PICK r \in mine : r.step = s /\ r.old = FALSE
      BY <1>5, <2>3
    <3>2. held(r)
      BY <1>6, <3>1
    <3>3. K(r)
      BY <1>4, <3>2 DEF V, G
    <3> QED BY <1>9, <3>1, <3>3 DEF K
  <2> QED BY <2>1, <2>2, <2>3
<1>19. ASSUME NEW r \in all, NEW q \in rs, r.id = q.id, q.status = "done"
       PROVE  r.status = "done" \/ (r.status = "open" /\ Excused(r, all, e) /\ ~held(r))
  <2>1. CASE q \in all \ mine
    BY <1>19, <2>1 DEF Table
  <2>2. q \notin new
    BY <1>7, <1>19
  <2>3. ASSUME NEW x \in mine, q = f[x]
        PROVE  r.status = "done" \/ (r.status = "open" /\ Excused(r, all, e) /\ ~held(r))
    <3>1. x = r
      BY <1>1, <1>3, <1>19, <2>3 DEF Table
    <3>2. r \in mine /\ q = f[r] /\ r.source = e.source
      BY <2>3, <3>1
    <3>3. G(r)
      BY <1>4, <1>19, <3>2 DEF K, V
    <3>4. ~held(r) /\ ~(\E p \in pairs : p[1] = r) /\ (r.status # "open" => f[r] = r)
      BY <3>3 DEF G
    <3>5. CASE r.status = "open"
      <4>1. ~\E s \in Track!Derived(e) : Track!Holds(r, s)
        BY <3>4 DEF held
      <4>2. mine = {y \in all : y.source = r.source}
        BY <3>2
      <4>3. ~\E p \in Track!Revisions(mine, Track!Derived(e)) : p[1] = r
        BY <3>4
      <4>4. Excused(r, all, e)
        BY <3>5, <4>1, <4>2, <4>3, UnpairedIsExcused
      <4> QED BY <3>4, <3>5, <4>4
    <3>6. CASE r.status # "open"
      BY <1>19, <3>2, <3>4, <3>6
    <3> QED BY <3>5, <3>6
  <2> QED BY <1>9, <2>1, <2>2, <2>3
<1>21. ASSUME NEW r \in all, r.source = e.source PROVE \E q \in rs : q.id = r.id
  <2>1. r \in mine
    BY <1>21
  <2> QED BY <1>3, <1>9, <2>1
<1>20. \A q \in rs : q.status = "open" => q.step \in derived /\ q.source = e.source /\ q.old = FALSE
  BY <1>17
<1>22. \A s \in derived : \E q \in rs : q.status = "open" /\ q.step = s
  BY <1>18
<1>23. \A r \in all, q \in rs : r.id = q.id /\ q.status = "done" => DoneFairly(r, all, e, derived)
  <2>1. ASSUME NEW r \in all, NEW q \in rs, r.id = q.id, q.status = "done"
        PROVE  DoneFairly(r, all, e, derived)
    BY <1>19, <2>1 DEF held, DoneFairly
  <2> QED BY <2>1
<1>24. \A r \in all : r.source = e.source => \E q \in rs : q.id = r.id
  BY <1>21
<1> HIDE DEF held
<1>26. Synchronized(all, e, derived, rs)
  BY <1>16, <1>20, <1>22, <1>23, <1>24 DEF Synchronized
<1> QED BY <1>26, DiffsMade

LEMMA SyncedHolds ==
  ASSUME NEW respelled, NEW all, Table(all), NEW e \in StatusEntry, age \in Nat,
         \A r \in all : r.status = "open" => r.source = e.source
  PROVE  Diffs(all, e, Track!Synced(all, e, respelled))
<1> PICK mine : mine = {r \in all : r.source = e.source}
  OBVIOUS
<1> PICK derived : derived = Track!Derived(e)
  OBVIOUS
<1> PICK pairs : pairs = Track!Revisions(mine, derived)
  OBVIOUS
<1> PICK wordings : wordings = Track!Fresh(mine, derived) \ {p[2] : p \in pairs}
  OBVIOUS
<1> PICK new : new = Track!Inserted(wordings, all, e)
  OBVIOUS
<1> PICK rs : rs = Track!Synced(all, e, respelled)
  OBVIOUS
<1>1. Track!Synced(all, e, respelled) = IF e.restricted THEN all \ mine
        ELSE (all \ mine) \cup {Becomes(derived, pairs, e, respelled, r) : r \in mine} \cup new
  BY DEF Track!Synced, Becomes
<1>2. CASE e.restricted
  <2>1. rs = {r \in all : r.source # e.source}
    BY <1>1, <1>2
  <2> QED BY <1>2, <2>1, RestrictedDiffs
<1>3. CASE ~e.restricted
  <2>1. mine \in SUBSET CommitRow /\ derived \in SUBSET Steps
    BY DEF Table, Track!Derived, StatusEntry
  <2>2. PICK f : f = [r \in mine |-> Becomes(derived, pairs, e, respelled, r)]
    OBVIOUS
  <2>3. \A r \in mine : f[r] = Becomes(derived, pairs, e, respelled, r)
    BY <2>2
  <2>4. f \in [mine -> CommitRow]
    <3>1. ASSUME NEW r \in mine PROVE Becomes(derived, pairs, e, respelled, r) \in CommitRow
      BY <2>1, BecomesHolds DEF Became
    <3> QED BY <2>2, <3>1
  <2>5. rs = (all \ mine) \cup {f[r] : r \in mine} \cup new
    BY <1>1, <1>3, <2>3
  <2>6. Parted(all, e, respelled, mine, derived, pairs, f, wordings, new, rs)
    BY <1>3, <2>3, <2>4, <2>5 DEF Parted
  <2>7. Diffs(all, e, rs)
    BY <2>6, MergedDiffs
  <2> QED BY <2>7
<1> QED BY <1>2, <1>3

LEMMA DiffedHolds ==
  ASSUME NEW respelled, NEW all, Table(all), NEW e \in StatusEntry, age \in Nat, NEW c,
         \A r \in all : r.status = "open" => r.source = e.source
  PROVE  /\ c \in Trackers => Diffs(all, e, Track!Diffed(c, all, e, respelled))
         /\ c \notin Trackers => Track!Diffed(c, all, e, respelled) = all
<1>1. CASE c \in Trackers
  <2>1. Track!Seen(c, e) = e
    BY <1>1 DEF Track!Seen, StatusEntry
  <2>2. Diffs(all, e, Track!Synced(all, e, respelled))
    BY SyncedHolds
  <2>3. Track!Diffed(c, all, e, respelled) = Track!Synced(all, e, respelled)
    BY <1>1, <2>1 DEF Track!Diffed, Track!Tracks
  <2> QED BY <1>1, <2>2, <2>3
<1>2. CASE c \notin Trackers
  BY <1>2 DEF Track!Diffed, Track!Tracks
<1> QED BY <1>1, <1>2

\* The open rows are the steps of the text, and of its entry.
Written(e, rs) ==
  /\ {r.step : r \in {q \in rs : q.status = "open"}} =
       IF e.restricted THEN {} ELSE Track!Derived(e)
  /\ \A r \in rs : r.status = "open" => r.source = e.source /\ r.old = FALSE

TrackInv ==
  /\ entry \in StatusEntry /\ age \in Nat /\ fresh \in BOOLEAN
  /\ Table(rows)
  /\ \A r \in rows : r.status = "open" => r.source = entry.source
  /\ fresh => Written(entry, rows)

\* No open row of some becomes done without an excuse.
Delivered(all, e, rs) ==
  \A r \in all, q \in rs :
    r.id = q.id /\ r.status = "open" /\ q.status = "done" => Excused(r, all, e)

LEMMA NothingDelivered ==
  ASSUME NEW all, Table(all), NEW e
  PROVE  Delivered(all, e, all)
BY DEF Delivered, Table

LEMMA DiffsDeliver ==
  ASSUME NEW all, NEW e, NEW rs, Diffs(all, e, rs)
  PROVE  /\ Delivered(all, e, rs) /\ Written(e, rs) /\ Table(rs)
         /\ \A r \in rs : r.status = "open" => r.source = e.source
BY DEF Diffs, Delivered, DoneFairly, Written

\* A diff of what a diff has left delivers nothing more.
LEMMA TwiceDelivers ==
  ASSUME NEW all, Table(all), NEW e \in StatusEntry,
         \A r \in all : r.status = "open" => r.source = e.source,
         NEW once, Diffs(all, e, once), NEW twice, Diffs(once, e, twice)
  PROVE  Delivered(all, e, twice)
<1> SUFFICES ASSUME NEW r \in all, NEW q \in twice,
                    r.id = q.id, r.status = "open", q.status = "done"
             PROVE  Excused(r, all, e)
  BY DEF Delivered
<1>1. CASE e.restricted
  <2>1. q \in all
    BY <1>1 DEF Diffs
  <2>2. r = q
    BY <2>1 DEF Table
  <2> QED BY <2>2
<1>2. CASE ~e.restricted
  <2>1. PICK x \in once : x.id = r.id
    BY <1>2 DEF Diffs
  <2>2. DoneFairly(x, once, e, Track!Derived(e))
    BY <2>1 DEF Diffs
  <2>3. CASE x.status = "open"
    <3>1. x.step \in {y.step : y \in {z \in once : z.status = "open"}} /\ x.old = FALSE
      BY <2>3 DEF Diffs
    <3>2. x.step \in Track!Derived(e)
      BY <1>2, <3>1 DEF Diffs
    <3>3. Track!Holds(x, x.step)
      BY <3>1 DEF Track!Holds
    <3> QED BY <2>2, <2>3, <3>2, <3>3 DEF DoneFairly
  <2>4. CASE x.status = "done"
    <3>1. DoneFairly(r, all, e, Track!Derived(e))
      BY <2>1, <2>4 DEF Diffs
    <3> QED BY <3>1 DEF DoneFairly
  <2> QED BY <2>2, <2>3, <2>4 DEF DoneFairly
<1> QED BY <1>1, <1>2

LEMMA TrackInitHolds == Track!Init => TrackInv
<1> SUFFICES ASSUME Track!Init PROVE TrackInv
  OBVIOUS
<1>1. PICK s \in Steps \ Dated, st \in {"open", "cancelled"} :
        /\ entry = [source |-> 0, steps |-> {s}, ended |-> FALSE, restricted |-> FALSE, at |-> 0]
        /\ rows = {[id |-> 1, source |-> 0, step |-> s, old |-> TRUE, status |-> st,
                    at |-> 0, sure |-> IF st = "open" THEN 2 ELSE 0]}
        /\ fresh = FALSE
        /\ age = 0
  BY DEF Track!Init
<1> PICK row : row = [id |-> 1, source |-> 0, step |-> s, old |-> TRUE, status |-> st,
                      at |-> 0, sure |-> IF st = "open" THEN 2 ELSE 0]
  OBVIOUS
<1>2. row \in CommitRow /\ row.source = 0 /\ rows = {row}
  BY <1>1 DEF CommitRow, CommitStates, Sureness
<1>3. IsFiniteSet({row})
  BY FS_Singleton
<1>4. entry \in StatusEntry /\ entry.source = 0
  BY <1>1 DEF StatusEntry
<1>5. Table(rows)
  BY <1>2, <1>3 DEF Table
<1> QED BY <1>1, <1>2, <1>4, <1>5 DEF TrackInv

\* What a step makes of the rows, whatever the step.
TrackKept == TrackInv' /\ Delivered(rows, entry', rows')

LEMMA WriteKeeps ==
  ASSUME TrackInv, NEW c, NEW text \in SUBSET Steps, NEW ended \in BOOLEAN,
         NEW restricted \in BOOLEAN, Track!Write(c, text, ended, restricted)
  PROVE  TrackKept
<1> PICK e : e = entry'
  OBVIOUS
<1> PICK all : all = rows
  OBVIOUS
<1>5. PICK respelled \in SUBSET text : rows' = Track!Diffed(c, all, e, respelled)
  BY DEF Track!Write
<1> PICK rs : rs = Track!Diffed(c, all, e, respelled)
  OBVIOUS
<1>1. /\ e \in StatusEntry /\ e.source = entry.source /\ rows' = rs /\ age' = age
      /\ fresh' = (c \in Trackers)
  BY <1>5 DEF TrackInv, Track!Write, Track!Tracks, StatusEntry
<1>2. Table(all) /\ age \in Nat /\ \A r \in all : r.status = "open" => r.source = e.source
  BY <1>1 DEF TrackInv
<1>3. CASE c \in Trackers
  <2>1. Diffs(all, e, rs)
    BY <1>1, <1>2, <1>3, DiffedHolds
  <2>2. /\ Delivered(all, e, rs) /\ Written(e, rs) /\ Table(rs)
        /\ \A r \in rs : r.status = "open" => r.source = e.source
    BY <2>1, DiffsDeliver
  <2> QED BY <1>1, <1>2, <2>2 DEF TrackKept, TrackInv
<1>4. CASE c \notin Trackers
  <2>1. rs = all /\ Delivered(all, e, all)
    BY <1>1, <1>2, <1>4, DiffedHolds, NothingDelivered
  <2>2. ~fresh'
    BY <1>4 DEF Track!Write, Track!Tracks
  <2>3. rows' = all /\ entry' = e /\ rows = all
    BY <1>1, <2>1
  <2> QED BY <1>1, <1>2, <2>1, <2>2, <2>3 DEF TrackKept, TrackInv
<1> QED BY <1>3, <1>4

\* The rows of an entry that is corrected keep their numbers, and none is open.
LEMMA CancelledHolds ==
  ASSUME TrackInv, NEW all, all = {Track!Cancelled(r) : r \in rows}
  PROVE  /\ Table(all) /\ \A q \in all : q.status # "open"
         /\ \A r \in rows, q \in all : r.id = q.id /\ q.status = "done" => r.status = "done"
<1> PICK f : f = [r \in rows |-> Track!Cancelled(r)]
  OBVIOUS
<1>1. ASSUME NEW r \in rows
      PROVE  /\ f[r] \in CommitRow /\ f[r].id = r.id /\ f[r].source = r.source
             /\ f[r].step = r.step /\ f[r].old = r.old /\ f[r].status # "open"
             /\ f[r].status = "done" => r.status = "done"
  <2>1. r \in CommitRow
    BY DEF TrackInv, Table
  <2>2. CASE r.status = "open"
    <3>1. f[r] = Changed(r, "cancelled", 0, 0)
      BY <2>2 DEF Track!Cancelled, Track!Closed, Changed, TrackInv
    <3>2. "cancelled" \in CommitStates /\ 0 \in Nat /\ 0 \in Sureness
      BY DEF CommitStates, Sureness
    <3>3. /\ f[r] \in CommitRow /\ f[r].id = r.id /\ f[r].source = r.source
          /\ f[r].step = r.step /\ f[r].old = r.old /\ f[r].status = "cancelled"
      BY <2>1, <3>1, <3>2, RowChanged
    <3> QED BY <3>3
  <2>3. CASE r.status # "open"
    <3>1. f[r] = r
      BY <2>3 DEF Track!Cancelled
    <3> QED BY <2>1, <2>3, <3>1
  <2> QED BY <2>2, <2>3
<1>2. all = {f[r] : r \in rows}
  OBVIOUS
<1>3. IsFiniteSet(all)
  <2>1. f \in Surjection(rows, all)
    BY <1>2 DEF Surjection
  <2> QED BY <2>1, FS_Surjection DEF TrackInv, Table
<1>4. all \subseteq CommitRow /\ \A q \in all : q.status # "open"
  BY <1>1, <1>2
<1>5. ASSUME NEW x \in all, NEW y \in all,
             x.id = y.id \/ (x.source = y.source /\ x.step = y.step /\ x.old = y.old)
      PROVE  x = y
  <2>1. PICK r \in rows : x = f[r]
    BY <1>2
  <2>2. PICK q \in rows : y = f[q]
    BY <1>2
  <2>3. r.id = q.id \/ (r.source = q.source /\ r.step = q.step /\ r.old = q.old)
    BY <1>1, <1>5, <2>1, <2>2
  <2>4. r = q
    BY <2>3 DEF TrackInv, Table
  <2> QED BY <2>1, <2>2, <2>4
<1>6. ASSUME NEW r \in rows, NEW q \in all, r.id = q.id, q.status = "done"
      PROVE  r.status = "done"
  <2>1. PICK x \in rows : q = f[x]
    BY <1>2
  <2>2. x = r
    BY <1>1, <1>6, <2>1 DEF TrackInv, Table
  <2> QED BY <1>1, <1>6, <2>1, <2>2
<1>7. Table(all)
  BY <1>3, <1>4, <1>5 DEF Table
<1> QED BY <1>4, <1>6, <1>7

LEMMA CorrectKeeps ==
  ASSUME TrackInv, NEW c, NEW text \in SUBSET Steps, Track!Correct(c, text)
  PROVE  TrackKept
<1>5. PICK e : e = entry'
  OBVIOUS
<1>6. PICK all : all = {Track!Cancelled(r) : r \in rows}
  OBVIOUS
<1>7. PICK rs : rs = Track!Diffed(c, all, e, {})
  OBVIOUS
<1>1. e \in StatusEntry
  <2>1. /\ entry = [source |-> entry.source, steps |-> entry.steps, ended |-> entry.ended,
                    restricted |-> entry.restricted, at |-> entry.at]
        /\ entry.source + 1 \in Nat /\ entry.restricted \in BOOLEAN /\ age \in Nat
    BY DEF TrackInv, StatusEntry
  <2>2. e = [source |-> entry.source + 1, steps |-> text, ended |-> FALSE,
             restricted |-> entry.restricted, at |-> age]
    BY <1>5, <2>1 DEF Track!Correct
  <2> QED BY <2>1, <2>2 DEF StatusEntry
<1>8. rows' = rs /\ age' = age /\ entry' = e /\ fresh' = (c \in Trackers)
  BY <1>5, <1>6, <1>7 DEF Track!Correct, Track!Tracks
<1>2. /\ Table(all) /\ age \in Nat /\ \A q \in all : q.status # "open"
      /\ \A r \in rows, q \in all : r.id = q.id /\ q.status = "done" => r.status = "done"
  BY <1>6, CancelledHolds DEF TrackInv
<1>3. CASE c \in Trackers
  <2>1. Diffs(all, e, rs)
    BY <1>1, <1>2, <1>3, <1>7, DiffedHolds
  <2>2. /\ Written(e, rs) /\ Table(rs)
        /\ \A r \in rs : r.status = "open" => r.source = e.source
    BY <2>1, DiffsDeliver
  <2>3. ASSUME NEW r \in rows, NEW q \in rs, r.id = q.id, r.status = "open", q.status = "done"
        PROVE  FALSE
    <3>1. PICK x \in all : x.id = r.id
      <4>1. Track!Cancelled(r) \in all
        BY <1>6
      <4>2. r \in CommitRow
        BY DEF TrackInv, Table
      <4>3. Track!Cancelled(r).id = r.id
        BY <4>2 DEF Track!Cancelled, Track!Closed, CommitRow
      <4> QED BY <4>1, <4>3
    <3>2. DoneFairly(x, all, e, Track!Derived(e))
      BY <2>1, <2>3, <3>1 DEF Diffs
    <3>3. x.status = "done"
      BY <1>2, <3>2 DEF DoneFairly
    <3> QED BY <1>2, <2>3, <3>1, <3>3
  <2>4. Delivered(rows, e, rs)
    BY <2>3 DEF Delivered
  <2> QED BY <1>1, <1>2, <1>8, <2>2, <2>4 DEF TrackKept, TrackInv
<1>4. CASE c \notin Trackers
  <2>1. rs = all
    BY <1>1, <1>2, <1>4, <1>7, DiffedHolds
  <2>2. Delivered(rows, e, all)
    BY <1>2 DEF Delivered
  <2>3. ~fresh' /\ fresh' \in BOOLEAN
    <3>1. ~fresh'
      BY <1>4 DEF Track!Correct, Track!Tracks
    <3>2. fresh' \in BOOLEAN
      BY DEF Track!Correct, Track!Tracks
    <3> QED BY <3>1, <3>2
  <2>4. rows' = all /\ entry' = e
    BY <1>8, <2>1
  <2> QED BY <1>1, <1>2, <1>8, <2>2, <2>3, <2>4 DEF TrackKept, TrackInv
<1> QED BY <1>3, <1>4

LEMMA ReadKeeps ==
  ASSUME TrackInv, NEW c, Track!Read(c)
  PROVE  TrackKept
<1> PICK e : e = entry
  OBVIOUS
<1> PICK all : all = rows
  OBVIOUS
<1>9. PICK respelled \in SUBSET Track!Unseen :
        rows' = Track!Refreshed(c, Track!Diffed(c, all, e, respelled))
  BY DEF Track!Read
<1> PICK once : once = Track!Diffed(c, all, e, respelled)
  OBVIOUS
<1> PICK twice : twice = Track!Refreshed(c, once)
  OBVIOUS
<1>1. /\ entry' = e /\ rows' = twice /\ age' = age /\ fresh' = (fresh \/ c \in Trackers)
      /\ twice = (IF Track!Listed(c, once) = {} THEN once ELSE Track!Diffed(c, once, e, {}))
  BY <1>9 DEF Track!Read, Track!Tracks, Track!Refreshed
<1>2. /\ Table(all) /\ age \in Nat /\ e \in StatusEntry /\ fresh \in BOOLEAN
      /\ \A r \in all : r.status = "open" => r.source = e.source
  BY DEF TrackInv
<1>3. CASE c \in Trackers
  <2>1. Diffs(all, e, once)
    BY <1>2, <1>3, DiffedHolds
  <2>2. /\ Delivered(all, e, once) /\ Written(e, once) /\ Table(once)
        /\ \A r \in once : r.status = "open" => r.source = e.source
    BY <2>1, DiffsDeliver
  <2>3. CASE twice = once
    BY <1>1, <1>2, <2>2, <2>3 DEF TrackKept, TrackInv
  <2>4. CASE twice = Track!Diffed(c, once, e, {})
    <3>1. Diffs(once, e, twice)
      BY <1>2, <1>3, <2>2, <2>4, DiffedHolds
    <3>2. /\ Written(e, twice) /\ Table(twice)
          /\ \A r \in twice : r.status = "open" => r.source = e.source
      BY <3>1, DiffsDeliver
    <3>3. Delivered(all, e, twice)
      BY <1>2, <2>1, <3>1, TwiceDelivers
    <3> QED BY <1>1, <1>2, <3>2, <3>3 DEF TrackKept, TrackInv
  <2> QED BY <1>1, <2>3, <2>4
<1>4. CASE c \notin Trackers
  <2>1. once = all /\ Delivered(all, e, all)
    BY <1>2, <1>4, DiffedHolds, NothingDelivered
  <2>2. twice = all
    BY <1>1, <1>4, <2>1 DEF Track!Listed
  <2>3. fresh' = fresh
    BY <1>1, <1>2, <1>4
  <2> QED BY <1>1, <1>2, <2>1, <2>2, <2>3 DEF TrackKept, TrackInv
<1> QED BY <1>3, <1>4

LEMMA TrackNextKeeps == TrackInv /\ [Track!Next]_(Track!vars) => TrackKept
<1> SUFFICES ASSUME TrackInv, [Track!Next]_(Track!vars) PROVE TrackKept
  OBVIOUS
<1>1. Table(rows) => Delivered(rows, entry', rows)
  <2> PICK e, all : e = entry' /\ all = rows
    OBVIOUS
  <2>1. Table(all) => Delivered(all, e, all)
    BY NothingDelivered
  <2> QED BY <2>1
<1>2. CASE Track!Tick
  BY <1>1, <1>2 DEF Track!Tick, TrackKept, TrackInv
<1>3. CASE UNCHANGED Track!vars
  BY <1>1, <1>3 DEF Track!vars, TrackKept, TrackInv
<1>4. ASSUME NEW c \in Writers, NEW text \in Track!Texts PROVE text \in SUBSET Steps
  BY DEF Track!Texts
<1> QED BY <1>2, <1>3, <1>4, WriteKeeps, CorrectKeeps, ReadKeeps DEF Track!Next

\* Once the text of an entry has been diffed, the open rows are its steps, each
\* once, for any texts, any likeness of wordings, any callers and any order of
\* writes, corrections and reads: the rows are told apart by their fingerprints,
\* and no wording is revised by two rows or revises two.
THEOREM OpenAreWrittenAlways == Track!Spec => []OpenAreWritten
<1>1. TrackInv => OpenAreWritten
  <2> SUFFICES ASSUME TrackInv, fresh PROVE OpenAreWritten
    BY DEF TrackInv, OpenAreWritten, Track!OpenAreWritten
  <2>1. Written(entry, rows) /\ Table(rows)
    BY DEF TrackInv
  <2>2. \A r, q \in rows : r.status = "open" /\ q.status = "open" /\ r.step = q.step => r = q
    BY <2>1 DEF Written, Table
  <2>3. \A r \in rows : r.status = "open" => r.source = entry.source /\ ~r.old
    BY <2>1 DEF Written
  <2> QED BY <2>1, <2>2, <2>3 DEF OpenAreWritten, Track!OpenAreWritten, Written
<1>2. TrackInv /\ [Track!Next]_(Track!vars) => TrackInv'
  BY TrackNextKeeps DEF TrackKept
<1> QED BY <1>1, <1>2, TrackInitHolds, PTL DEF Track!Spec

\* Work is reported done only when it left the text, or when the text could not
\* tell which of several rows or wordings it went on as.
THEOREM RewordingIsNotDeliveryAlways == Track!Spec => RewordingIsNotDelivery
<1> DEFINE Fair == Delivered(rows, entry', rows')
<1>1. TrackInv /\ [Track!Next]_(Track!vars) => TrackInv' /\ [Fair]_(Track!vars)
  BY TrackNextKeeps DEF TrackKept
<1> QED BY <1>1, TrackInitHolds, PTL
        DEF Track!Spec, RewordingIsNotDelivery, Track!RewordingIsNotDelivery, Delivered, Excused

-----------------------------------------------------------------------------
(* CodeHealth: exports *)

\* What lies below each of the members of S is a strict total order of them.
Ordered(S, below) ==
  /\ \A i \in S : below[i] \subseteq S /\ i \notin below[i]
  /\ \A i, j \in S : i # j => i \in below[j] \/ j \in below[i]
  /\ \A i, j \in S : i \in below[j] => below[i] \subseteq below[j]

\* A list of S in that order.
Lists(s, S, below) ==
  /\ s \in [1 .. Cardinality(S) -> S]
  /\ \A a, b \in 1 .. Cardinality(S) : a < b => s[a] \in below[s[b]]

\* A finite set can be listed in order: each has its rank, the number of those
\* below it, and no two have the same.
LEMMA OrderedAreListed ==
  ASSUME NEW S, IsFiniteSet(S), NEW below, Ordered(S, below)
  PROVE  \E s : Lists(s, S, below)
<1> DEFINE n == Cardinality(S)
           rank == [i \in S |-> Cardinality(below[i]) + 1]
           s == [a \in 1 .. n |-> CHOOSE i \in S : rank[i] = a]
<1>1. n \in Nat
  BY FS_CardinalityType
<1>2. ASSUME NEW i \in S
      PROVE  rank[i] \in 1 .. n
  <2>1. below[i] \subseteq S /\ i \notin below[i]
    BY DEF Ordered
  <2>2. IsFiniteSet(below[i]) /\ Cardinality(below[i]) <= n /\ Cardinality(below[i]) # n
    BY <2>1, FS_Subset
  <2>3. Cardinality(below[i]) \in Nat
    BY <2>2, FS_CardinalityType
  <2> QED BY <1>1, <2>2, <2>3
<1>3. ASSUME NEW i \in S, NEW j \in S, i \in below[j]
      PROVE  rank[i] < rank[j]
  <2>1. /\ below[i] \subseteq below[j] /\ below[i] # below[j]
        /\ below[j] \subseteq S /\ below[i] \subseteq S
    BY <1>3 DEF Ordered
  <2>2. IsFiniteSet(below[j]) /\ IsFiniteSet(below[i])
    BY <2>1, FS_Subset
  <2>3. Cardinality(below[i]) <= Cardinality(below[j]) /\ Cardinality(below[i]) # Cardinality(below[j])
    BY <2>1, <2>2, FS_Subset
  <2>4. Cardinality(below[i]) \in Nat /\ Cardinality(below[j]) \in Nat
    BY <2>2, FS_CardinalityType
  <2> QED BY <2>3, <2>4
<1> HIDE DEF n
<1>4. IsFiniteSet(1 .. n) /\ Cardinality(1 .. n) = n
  BY <1>1, FS_Interval
<1>5. rank \in Injection(S, 1 .. n)
  <2>1. rank \in [S -> 1 .. n]
    BY <1>2
  <2>2. \A i \in S : rank[i] \in Int
    BY <1>1, <1>2
  <2> HIDE DEF rank
  <2>3. \A i, j \in S : i # j => rank[i] # rank[j]
    BY <1>3, <2>2 DEF Ordered
  <2> QED BY <2>1, <2>3 DEF Injection, IsInjective
<1> HIDE DEF rank
<1>6. rank \in Surjection(S, 1 .. n)
  BY <1>4, <1>5, FS_Injection DEF n
<1>7. \A a \in 1 .. n : s[a] \in S /\ rank[s[a]] = a
  BY <1>6 DEF Surjection
<1> HIDE DEF s
<1>8. ASSUME NEW a \in 1 .. n, NEW b \in 1 .. n, a < b
      PROVE  s[a] \in below[s[b]]
  <2>1. s[a] # s[b]
    BY <1>1, <1>7, <1>8
  <2>2. ~(s[b] \in below[s[a]])
    BY <1>1, <1>3, <1>7, <1>8
  <2> QED BY <1>7, <2>1, <2>2 DEF Ordered
<1>9. s \in [1 .. n -> S]
  BY <1>7 DEF s
<1> QED BY <1>8, <1>9 DEF Lists, n

\* Such a list has each member once.
LEMMA ListsHaveAll ==
  ASSUME NEW S, IsFiniteSet(S), NEW below, Ordered(S, below), NEW s, Lists(s, S, below)
  PROVE  /\ \A a, b \in 1 .. Cardinality(S) : a # b => s[a] # s[b]
         /\ {s[a] : a \in 1 .. Cardinality(S)} = S
<1> DEFINE n == Cardinality(S)
<1>1. n \in Nat
  BY FS_CardinalityType
<1>2. IsFiniteSet(1 .. n) /\ Cardinality(1 .. n) = n
  BY <1>1, FS_Interval
<1>3. s \in [1 .. n -> S] /\ \A a, b \in 1 .. n : a < b => s[a] \in below[s[b]]
  BY DEF Lists
<1> HIDE DEF n
<1>4. \A a, b \in 1 .. n : a # b => s[a] # s[b]
  BY <1>1, <1>3 DEF Ordered
<1>5. s \in Injection(1 .. n, S)
  BY <1>3, <1>4 DEF Injection, IsInjective
<1>6. s \in Surjection(1 .. n, S)
  BY <1>2, <1>5, FS_Injection DEF n
<1>7. {s[a] : a \in 1 .. n} = S
  BY <1>6 DEF Surjection
<1> QED BY <1>4, <1>7 DEF n

LEMMA RecordsAreCounted == \A S : Health!Cardinality(S) = Cardinality(S)
BY DEF Health!Cardinality, Cardinality

\* The records of the ledger are finitely many, and observation and id order them.
LEMMA EligibleAreOrdered ==
  ASSUME HealthInv, NEW S \in SUBSET Health!Live(ledger)
  PROVE  IsFiniteSet(S) /\ Ordered(S, [i \in S |-> {j \in S : Health!Before(j, i)}])
<1>1. IsFiniteSet(S)
  <2> DEFINE payloads == {ledger[i].payload : i \in S}
             f == [p \in payloads |-> p.id]
  <2>1. \A i \in S : ledger[i].payload \in Records /\ ledger[i].payload.id = i
    BY DEF HealthInv, Health!Live
  <2>2. IsFiniteSet(payloads)
    BY <2>1, HealthAssumption, FS_Subset
  <2>3. \A p \in payloads : f[p] \in S
    BY <2>1
  <2>4. \A i \in S : \E p \in payloads : f[p] = i
    BY <2>1
  <2>5. f \in Surjection(payloads, S)
    BY <2>3, <2>4 DEF Surjection
  <2> HIDE DEF payloads, f
  <2> QED BY <2>2, <2>5, FS_Surjection
<1>2. \A i \in S : i \in Nat /\ ledger[i].payload.observed \in Nat
  BY HealthAssumption DEF HealthInv, Health!Live
<1>3. ASSUME NEW i \in S
      PROVE  ~Health!Before(i, i)
  BY <1>2 DEF Health!Before
<1>4. ASSUME NEW i \in S, NEW j \in S, i # j
      PROVE  Health!Before(i, j) \/ Health!Before(j, i)
  BY <1>2, <1>4 DEF Health!Before
<1>5. ASSUME NEW i \in S, NEW j \in S, NEW k \in S, Health!Before(i, j), Health!Before(j, k)
      PROVE  Health!Before(i, k)
  BY <1>2, <1>5 DEF Health!Before
<1> QED BY <1>1, <1>3, <1>4, <1>5 DEF Ordered

\* A snapshot lists what the caller might see, each record once.
LEMMA SnapshotHolds ==
  ASSUME HealthInv, NEW S \in SUBSET Health!Live(ledger)
  PROVE  /\ IsFiniteSet(S)
         /\ Health!Sorted(S) \in [1 .. Cardinality(S) -> S]
         /\ {Health!Sorted(S)[k] : k \in 1 .. Cardinality(S)} = S
<1> DEFINE below == [i \in S |-> {j \in S : Health!Before(j, i)}]
           isSorted(s) == \A a, b \in DOMAIN s : a < b => Health!Before(s[a], s[b])
<1>1. IsFiniteSet(S) /\ Ordered(S, below)
  BY EligibleAreOrdered
<1>2. \A s : Lists(s, S, below) <=> s \in [1 .. Cardinality(S) -> S] /\ isSorted(s)
  <2>1. ASSUME NEW s \in [1 .. Cardinality(S) -> S], NEW a \in 1 .. Cardinality(S), NEW b \in 1 .. Cardinality(S)
        PROVE  s[a] \in below[s[b]] <=> Health!Before(s[a], s[b])
    OBVIOUS
  <2> HIDE DEF below
  <2> QED BY <2>1 DEF Lists
<1>3. Health!Sorted(S) = CHOOSE s \in [1 .. Cardinality(S) -> S] : isSorted(s)
  BY RecordsAreCounted DEF Health!Sorted
<1> HIDE DEF below, isSorted
<1>4. PICK s : Lists(s, S, below)
  BY <1>1, OrderedAreListed
<1>5. PICK sorted : sorted = Health!Sorted(S)
  OBVIOUS
<1>6. sorted \in [1 .. Cardinality(S) -> S] /\ isSorted(sorted)
  BY <1>2, <1>3, <1>4, <1>5
<1>7. Lists(sorted, S, below)
  BY <1>2, <1>6
<1>8. {sorted[k] : k \in 1 .. Cardinality(S)} = S
  BY <1>1, <1>7, ListsHaveAll
<1> QED BY <1>1, <1>5, <1>6, <1>8

Fields == {"open", "items", "total", "position", "got", "whole", "complete", "invalid", "lost",
           "expires"}

\* What a caller may count on of an export that is good: all of its records are
\* still stored, each is listed once, and those before the position were returned.
Exported(e, live) ==
  /\ e.whole \subseteq live /\ IsFiniteSet(e.whole) /\ e.total = Cardinality(e.whole)
  /\ e.items \in [1 .. e.total -> e.whole] /\ {e.items[k] : k \in 1 .. e.total} = e.whole
  /\ e.position \in 0 .. e.total
  /\ e.got = [k \in 1 .. e.position |-> e.items[k]]
  /\ e.complete => e.position = e.total

\* There are n - m positions from m + 1 to n.
LEMMA UpTo ==
  ASSUME NEW m \in Nat, NEW n \in Nat, m <= n
  PROVE  IsFiniteSet((m + 1) .. n) /\ Cardinality((m + 1) .. n) = n - m
<1>1. m + 1 \in Int /\ n \in Int
  OBVIOUS
<1>2. IsFiniteSet((m + 1) .. n) /\ Cardinality((m + 1) .. n) = IF m + 1 > n THEN 0 ELSE n - (m + 1) + 1
  BY <1>1, FS_Interval
<1>3. (IF m + 1 > n THEN 0 ELSE n - (m + 1) + 1) = n - m
  OBVIOUS
<1> QED BY <1>2, <1>3

\* The size of the page at a position.
PageSize(left) == IF left < ExportPage THEN left ELSE ExportPage

\* While no record of the snapshot was deleted a page is its next ones.
LEMMA PageIsNext ==
  ASSUME NEW e, Exported(e, Health!Live(ledger))
  PROVE  /\ PageSize(e.total - e.position) \in Nat
         /\ PageSize(e.total - e.position) <= e.total - e.position
         /\ Health!Page(e) = [n \in 1 .. PageSize(e.total - e.position) |-> e.items[e.position + n]]
<1>1. PICK total, position, items, whole :
        /\ total = e.total /\ position = e.position /\ items = e.items /\ whole = e.whole
        /\ total \in Nat /\ position \in Nat /\ position <= total /\ items \in [1 .. total -> whole] /\ whole \subseteq Health!Live(ledger)
  <2>1. e.total \in Nat
    BY FS_CardinalityType DEF Exported
  <2> QED BY <2>1 DEF Exported
<1> DEFINE left == (position + 1) .. total
           size == PageSize(total - position)
<1>2. Len(items) = total
  BY <1>1
<1>3. Health!Remaining(e) = left
  BY <1>1, <1>2 DEF Health!Remaining
<1>4. IsFiniteSet(left) /\ Cardinality(left) = total - position
  BY <1>1, UpTo
<1>5. size \in Nat /\ size <= total - position
  BY <1>1, HealthAssumption DEF PageSize
<1>6. ASSUME NEW n \in 1 .. size
      PROVE  Health!Nth(left, n) = position + n
  <2>1. ASSUME NEW k \in left
        PROVE  Cardinality({j \in left : j <= k}) = k - position
    <3>1. {j \in left : j <= k} = (position + 1) .. k
      BY <1>1, <2>1
    <3>2. k \in Nat /\ position <= k
      BY <1>1, <2>1
    <3> QED BY <1>1, <3>1, <3>2, UpTo
  <2>2. position + n \in left /\ \A k \in left : k - position = n <=> k = position + n
    BY <1>1, <1>5
  <2> HIDE DEF left
  <2>3. Health!Nth(left, n) = CHOOSE k \in left : Cardinality({j \in left : j <= k}) = n
    BY RecordsAreCounted DEF Health!Nth
  <2>4. Health!Nth(left, n) \in left /\ Cardinality({j \in left : j <= Health!Nth(left, n)}) = n
    BY <2>1, <2>2, <2>3
  <2> QED BY <2>1, <2>2, <2>4
<1> HIDE DEF left
<1>7. Health!Page(e) = [n \in 1 .. size |-> items[Health!Nth(left, n)]]
  BY <1>1, <1>3, <1>4, RecordsAreCounted DEF Health!Page, PageSize
<1> HIDE DEF size
<1>8. Health!Page(e) = [n \in 1 .. size |-> items[position + n]]
  BY <1>6, <1>7
<1> QED BY <1>1, <1>5, <1>8 DEF size

LEMMA SeqIsFunction ==
  ASSUME NEW W, NEW q \in Seq(W)
  PROVE  q \in [1 .. Len(q) -> W]
OBVIOUS

\* What a list joined to another is.
JoinOf(q, g, p) ==
  /\ DOMAIN q = 1 .. (Len(g) + Len(p)) /\ q = [k \in DOMAIN q |-> q[k]]
  /\ \A k \in 1 .. (Len(g) + Len(p)) : q[k] = IF k <= Len(g) THEN g[k] ELSE p[k - Len(g)]

LEMMA JoinIs ==
  ASSUME NEW W, NEW g \in Seq(W), NEW p \in Seq(W)
  PROVE  JoinOf(g \o p, g, p)
<1> DEFINE q == g \o p
<1>1. /\ Len(g) \in Nat /\ Len(p) \in Nat /\ Len(q) = Len(g) + Len(p) /\ q \in Seq(W)
      /\ DOMAIN q = 1 .. Len(q)
      /\ \A k \in 1 .. Len(q) : q[k] = IF k <= Len(g) THEN g[k] ELSE p[k - Len(g)]
  OBVIOUS
<1>2. q \in [1 .. Len(q) -> W]
  BY <1>1, SeqIsFunction
<1> HIDE DEF q
<1>3. JoinOf(q, g, p)
  BY <1>1, <1>2 DEF JoinOf
<1> QED BY <1>3 DEF q

\* The first n of some items, and the m that follow them.
FirstOf(items, n) == [k \in 1 .. n |-> items[k]]
PartAfter(items, n, m) == [k \in 1 .. m |-> items[n + k]]

\* The first n of some items with the m after them are the first n + m.
PartsJoined(items, n, m) ==
  /\ Len(PartAfter(items, n, m)) = m
  /\ FirstOf(items, n) \o PartAfter(items, n, m) = FirstOf(items, n + m)

LEMMA PartsJoin ==
  ASSUME NEW W, NEW items, NEW total \in Nat, NEW n \in Nat, NEW m \in Nat,
         items \in [1 .. total -> W], n + m <= total
  PROVE  PartsJoined(items, n, m)
<1>1. \A k \in 1 .. n : items[k] \in W
  OBVIOUS
<1>2. \A k \in 1 .. m : items[n + k] \in W
  OBVIOUS
<1>3. PICK g, p : g = FirstOf(items, n) /\ p = PartAfter(items, n, m)
  OBVIOUS
<1>4. g \in Seq(W) /\ Len(g) = n /\ \A k \in 1 .. n : g[k] = items[k]
  BY <1>1, <1>3 DEF FirstOf
<1>5. p \in Seq(W) /\ Len(p) = m /\ \A k \in 1 .. m : p[k] = items[n + k]
  BY <1>2, <1>3 DEF PartAfter
<1>6. JoinOf(g \o p, g, p)
  BY <1>4, <1>5, JoinIs
<1>7. PICK q : q = g \o p
  OBVIOUS
<1>8. /\ DOMAIN q = 1 .. (n + m) /\ q = [k \in DOMAIN q |-> q[k]]
      /\ \A k \in 1 .. (n + m) : q[k] = IF k <= n THEN g[k] ELSE p[k - n]
  BY <1>4, <1>5, <1>6, <1>7 DEF JoinOf
<1>9. ASSUME NEW k \in 1 .. (n + m)
      PROVE  q[k] = items[k]
  <2>1. CASE k <= n
    <3>1. k \in 1 .. n
      BY <2>1
    <3>2. q[k] = g[k]
      BY <1>8, <2>1
    <3> QED BY <1>4, <3>1, <3>2
  <2>2. CASE k > n
    <3>1. k - n \in 1 .. m /\ n + (k - n) = k
      BY <2>2
    <3>2. p[k - n] = items[k]
      BY <1>5, <3>1
    <3>3. ~(k <= n)
      BY <2>2
    <3> QED BY <1>8, <3>2, <3>3
  <2> QED BY <2>1, <2>2
<1>10. q = FirstOf(items, n + m)
  BY <1>8, <1>9 DEF FirstOf
<1> QED BY <1>3, <1>5, <1>7, <1>10 DEF PartsJoined

\* One more page of a good export is good, and it is complete at the end only.
LEMMA AdvancedHolds ==
  ASSUME NEW e, DOMAIN e = Fields, Exported(e, Health!Live(ledger))
  PROVE  /\ DOMAIN Health!Advanced(e) = Fields
         /\ Health!Advanced(e).invalid = e.invalid /\ Health!Advanced(e).lost = e.lost
         /\ Health!Advanced(e).expires = e.expires /\ Health!Advanced(e).complete \in BOOLEAN
         /\ Exported(Health!Advanced(e), Health!Live(ledger))
<1> DEFINE size == PageSize(e.total - e.position)
           page == Health!Page(e)
           a == Health!Advanced(e)
<1>1. /\ e.total \in Nat /\ e.position \in Nat /\ e.position <= e.total
      /\ e.items \in [1 .. e.total -> e.whole]
      /\ e.got = [k \in 1 .. e.position |-> e.items[k]]
  <2>1. e.total \in Nat
    BY FS_CardinalityType DEF Exported
  <2> QED BY <2>1 DEF Exported
<1>2. size \in Nat /\ size <= e.total - e.position
  BY PageIsNext
<1>3. page = [n \in 1 .. size |-> e.items[e.position + n]]
  BY PageIsNext
<1>4. PICK p : p = page
  OBVIOUS
<1>5. a = [e EXCEPT !.got = @ \o p, !.position = @ + Len(p),
                    !.complete = e.position + Len(p) >= e.total]
  BY <1>4 DEF Health!Advanced
<1> HIDE DEF size, page
<1>6. Len(p) = size /\ e.got \o p = FirstOf(e.items, e.position + size)
  <2>1. PICK total, n, m, W, items :
          /\ total = e.total /\ n = e.position /\ m = size /\ W = e.whole /\ items = e.items
    OBVIOUS
  <2>2. total \in Nat /\ n \in Nat /\ m \in Nat /\ items \in [1 .. total -> W] /\ n + m <= total
    BY <1>1, <1>2, <2>1
  <2>3. e.got = FirstOf(items, n) /\ p = PartAfter(items, n, m)
    BY <1>1, <1>3, <1>4, <2>1 DEF FirstOf, PartAfter
  <2>4. PartsJoined(items, n, m)
    BY <2>2, PartsJoin
  <2> QED BY <2>1, <2>3, <2>4 DEF PartsJoined
<1>7. /\ a.open = e.open /\ a.items = e.items /\ a.total = e.total /\ a.whole = e.whole
      /\ a.invalid = e.invalid /\ a.lost = e.lost /\ DOMAIN a = Fields
      /\ a.position = e.position + size /\ a.got = e.got \o p
      /\ a.complete = (e.position + size >= e.total) /\ a.expires = e.expires
  BY <1>5, <1>6 DEF Fields
<1> HIDE DEF a
<1>8. a.got = [k \in 1 .. a.position |-> a.items[k]]
  BY <1>6, <1>7 DEF FirstOf
<1>9. a.position \in 0 .. a.total /\ (a.complete => a.position = a.total)
  <2>1. PICK total \in Nat, n \in Nat, m \in Nat :
          total = e.total /\ n = e.position /\ m = size /\ n <= total /\ m <= total - n
    BY <1>1, <1>2
  <2>2. n + m \in 0 .. total /\ (n + m >= total => n + m = total)
    BY <2>1
  <2> QED BY <1>7, <2>1, <2>2
<1>10. Exported(a, Health!Live(ledger))
  <2>1. /\ a.whole \subseteq Health!Live(ledger) /\ IsFiniteSet(a.whole)
        /\ a.total = Cardinality(a.whole)
        /\ a.items \in [1 .. a.total -> a.whole] /\ {a.items[k] : k \in 1 .. a.total} = a.whole
    BY <1>7 DEF Exported
  <2> QED BY <1>8, <1>9, <2>1 DEF Exported
<1>11. a.complete \in BOOLEAN
  BY <1>7
<1> QED BY <1>7, <1>10, <1>11 DEF a

\* An export was lost, voided, or is good.
ExportHolds(e, live) ==
  \/ e = Health!NoExport
  \/ /\ DOMAIN e = Fields /\ e.invalid \in BOOLEAN /\ e.lost \in BOOLEAN
     /\ e.invalid \/ e.lost \/ Exported(e, live)

ExportsHold(live) == DOMAIN exports = Consumers /\ \A c \in Consumers : ExportHolds(exports[c], live)

\* An export that was voided holds whatever the ledger.
LEMMA VoidedHolds ==
  ASSUME NEW e, NEW live, NEW other, ExportHolds(e, live), e = Health!NoExport \/ ~e.lost
  PROVE  ExportHolds(Health!Invalidated(e), other)
<1>1. CASE e = Health!NoExport
  BY <1>1 DEF Health!Invalidated, ExportHolds
<1>2. CASE e # Health!NoExport
  <2>1. DOMAIN e = Fields /\ e.lost \in BOOLEAN
    BY <1>2 DEF ExportHolds
  <2>2. Health!Invalidated(e) = [e EXCEPT !.invalid = TRUE, !.items = <<>>]
    BY <1>2 DEF Health!Invalidated
  <2>3. PICK v : v = Health!Invalidated(e)
    OBVIOUS
  <2>4. DOMAIN v = Fields /\ v.invalid = TRUE /\ v.lost = e.lost
    BY <2>1, <2>2, <2>3 DEF Fields
  <2> QED BY <2>1, <2>3, <2>4 DEF ExportHolds
<1> QED BY <1>1, <1>2

\* So does one that was swept.
LEMMA SweptHolds ==
  ASSUME NEW e, NEW live, ExportHolds(e, live), NEW v,
         v = IF e # Health!NoExport /\ ~e.lost /\ e.expires <= day
             THEN [e EXCEPT !.lost = TRUE, !.items = <<>>] ELSE e
  PROVE  ExportHolds(v, live)
<1>1. CASE v = e
  BY <1>1
<1>2. CASE e # Health!NoExport /\ v = [e EXCEPT !.lost = TRUE, !.items = <<>>]
  <2>1. DOMAIN e = Fields /\ e.invalid \in BOOLEAN
    BY <1>2 DEF ExportHolds
  <2>2. DOMAIN v = Fields /\ v.lost = TRUE /\ v.invalid = e.invalid
    BY <1>2, <2>1 DEF Fields
  <2> QED BY <2>1, <2>2 DEF ExportHolds
<1> QED BY <1>1, <1>2

\* An export that is good.
Good(e) == /\ DOMAIN e = Fields /\ e.invalid \in BOOLEAN /\ e.lost \in BOOLEAN
           /\ Exported(e, Health!Live(ledger))

\* A page advances an export that is good, be it new or one that the caller had.
LEMMA PageAdvances ==
  ASSUME HealthInv, ExportsHold(Health!Live(ledger)), NEW c \in Consumers,
         Health!Export(c) \/ Health!NextPage(c)
  PROVE  \E e : /\ Good(e) /\ (e.expires = day + Lifetime \/ e = exports[c])
                 /\ exports' = [exports EXCEPT ![c] = Health!Advanced(e)]
<1> DEFINE first == [open |-> TRUE, items |-> Health!Sorted(Health!Eligible(c)),
                     total |-> Health!Cardinality(Health!Eligible(c)), position |-> 0,
                     got |-> <<>>, whole |-> Health!Eligible(c), complete |-> FALSE,
                     invalid |-> FALSE, lost |-> FALSE, expires |-> day + Lifetime]
<1>1. Good(first) /\ first.expires = day + Lifetime
  <2>1. PICK S, sorted : S = Health!Eligible(c) /\ sorted = Health!Sorted(S)
    OBVIOUS
  <2>2. S \in SUBSET Health!Live(ledger)
    BY <2>1 DEF Health!Eligible, Health!Kept
  <2>3. /\ IsFiniteSet(S) /\ sorted \in [1 .. Cardinality(S) -> S]
        /\ {sorted[k] : k \in 1 .. Cardinality(S)} = S
    BY <2>1, <2>2, SnapshotHolds
  <2>4. PICK f : f = first
    OBVIOUS
  <2>5. /\ DOMAIN f = Fields /\ f.invalid = FALSE /\ f.lost = FALSE /\ f.complete = FALSE
        /\ f.items = sorted /\ f.total = Cardinality(S) /\ f.position = 0 /\ f.got = <<>>
        /\ f.whole = S /\ f.expires = day + Lifetime
    BY <2>1, <2>4, RecordsAreCounted DEF Fields
  <2>6. Cardinality(S) \in Nat
    BY <2>3, FS_CardinalityType
  <2>7. f.got = [k \in 1 .. f.position |-> f.items[k]]
    <3>1. 1 .. 0 = {}
      OBVIOUS
    <3>2. <<>> = [k \in 1 .. 0 |-> sorted[k]]
      BY <3>1
    <3> QED BY <2>5, <3>2
  <2> HIDE DEF first
  <2>8. Exported(f, Health!Live(ledger))
    BY <2>2, <2>3, <2>5, <2>6, <2>7 DEF Exported
  <2>9. f.invalid \in BOOLEAN /\ f.lost \in BOOLEAN
    BY <2>5
  <2> QED BY <2>4, <2>5, <2>8, <2>9 DEF Good
<1> HIDE DEF first
<1>2. CASE Health!Export(c)
  <2>1. exports' = [exports EXCEPT ![c] = Health!Advanced(first)]
    BY <1>2 DEF Health!Export, first
  <2> QED BY <1>1, <2>1
<1>3. CASE Health!NextPage(c)
  <2>1. /\ exports[c] # Health!NoExport /\ ~exports[c].invalid /\ ~exports[c].lost
        /\ exports' = [exports EXCEPT ![c] = Health!Advanced(exports[c])]
    BY <1>3 DEF Health!NextPage
  <2>2. Good(exports[c])
    BY <2>1 DEF ExportsHold, ExportHolds, Good
  <2> QED BY <2>1, <2>2
<1> QED BY <1>2, <1>3

\* The first page of an export, and a later one, are good.
LEMMA PagedHold ==
  ASSUME HealthInv, ExportsHold(Health!Live(ledger)), NEW c \in Consumers,
         Health!Export(c) \/ Health!NextPage(c)
  PROVE  UNCHANGED ledger /\ ExportsHold(Health!Live(ledger))'
<1>1. ledger' = ledger
  BY DEF Health!Export, Health!NextPage
<1>2. PICK e : Good(e) /\ exports' = [exports EXCEPT ![c] = Health!Advanced(e)]
  BY PageAdvances
<1>3. Good(Health!Advanced(e))
  BY <1>2, AdvancedHolds DEF Good
<1>4. PICK a : a = Health!Advanced(e)
  OBVIOUS
<1>5. ExportHolds(a, Health!Live(ledger))
  BY <1>3, <1>4 DEF ExportHolds, Good
<1>6. Health!Live(ledger)' = Health!Live(ledger)
  BY <1>1 DEF Health!Live
<1>7. DOMAIN exports' = Consumers /\ \A d \in Consumers : exports'[d] = IF d = c THEN a ELSE exports[d]
  BY <1>2, <1>4 DEF ExportsHold
<1>8. \A d \in Consumers : ExportHolds(exports'[d], Health!Live(ledger'))
  BY <1>1, <1>5, <1>7 DEF ExportsHold
<1> QED BY <1>1, <1>7, <1>8 DEF ExportsHold

\* An export holds as long as no record of its snapshot is deleted.
LEMMA HoldsWithMore ==
  ASSUME NEW e, NEW live, NEW other, live \subseteq other, ExportHolds(e, live)
  PROVE  ExportHolds(e, other)
BY DEF ExportHolds, Exported

\* When records are deleted, every export that was not lost is voided.
LEMMA RemovedHold ==
  ASSUME ExportsHold(Health!Live(ledger)), NEW S, S \subseteq Health!Live(ledger), NEW after,
         S = {} => Health!Live(ledger) \subseteq after,
         NEW c \in Consumers, NEW v,
         v = IF S = {} \/ exports[c] = Health!NoExport \/ exports[c].lost THEN exports[c]
             ELSE Health!Invalidated(exports[c])
  PROVE  ExportHolds(v, after)
<1>1. PICK e, live : e = exports[c] /\ live = Health!Live(ledger)
  OBVIOUS
<1>2. ExportHolds(e, live)
  BY <1>1 DEF ExportsHold
<1>3. CASE S = {}
  BY <1>1, <1>2, <1>3, HoldsWithMore
<1>4. CASE S # {} /\ (e = Health!NoExport \/ e.lost)
  <2>1. v = e
    BY <1>1, <1>4
  <2> QED BY <1>2, <1>4, <2>1 DEF ExportHolds
<1>5. CASE S # {} /\ ~(e = Health!NoExport \/ e.lost)
  <2>1. v = Health!Invalidated(e)
    BY <1>1, <1>5
  <2> QED BY <1>2, <1>5, <2>1, VoidedHolds
<1> QED BY <1>3, <1>4, <1>5

LEMMA DeleteExports ==
  ASSUME ExportsHold(Health!Live(ledger)), DOMAIN ledger = Health!Ids,
         NEW level \in RecordLevels, Health!Delete(level)
  PROVE  ExportsHold(Health!Live(ledger))' /\ Health!Live(ledger') \subseteq Health!Live(ledger)
<1>1. PICK S : /\ S \subseteq Health!Live(ledger) /\ S # {}
               /\ ledger' = [i \in Health!Ids |->
                    IF i \in S THEN Health!Tombstone(ledger[i]) ELSE ledger[i]]
               /\ exports' = [c \in Consumers |->
                    IF S = {} \/ exports[c] = Health!NoExport \/ exports[c].lost THEN exports[c]
                    ELSE Health!Invalidated(exports[c])]
  BY DEF Health!Delete, Health!Removed
<1>2. Health!Live(ledger') \subseteq Health!Live(ledger)
  BY <1>1 DEF Health!Live, Health!Tombstone
<1>3. ASSUME NEW c \in Consumers
      PROVE  ExportHolds(exports'[c], Health!Live(ledger'))
  <2>1. PICK v, after : v = exports'[c] /\ after = Health!Live(ledger')
    OBVIOUS
  <2>2. v = IF S = {} \/ exports[c] = Health!NoExport \/ exports[c].lost THEN exports[c]
            ELSE Health!Invalidated(exports[c])
    BY <1>1, <2>1
  <2> QED BY <1>1, <2>1, <2>2, RemovedHold
<1> QED BY <1>1, <1>2, <1>3 DEF ExportsHold

LEMMA PruneExports ==
  ASSUME ExportsHold(Health!Live(ledger)), HealthInv, Health!Prune
  PROVE  ExportsHold(Health!Live(ledger))' /\ Health!Live(ledger') \subseteq Health!Live(ledger)
<1> DEFINE S == Health!Chain(Health!Affected)
           after == [i \in Health!Ids |->
                       IF i \in S THEN Health!Tombstone(ledger[i]) ELSE ledger[i]]
           voided(e) == IF e = Health!NoExport \/ e.lost \/ S = {} THEN e ELSE Health!Invalidated(e)
           swept(e) == IF e # Health!NoExport /\ ~e.lost /\ e.expires <= day
                       THEN [e EXCEPT !.lost = TRUE, !.items = <<>>] ELSE e
<1>1. /\ ledger' = [i \in Health!Ids |->
           IF after[i].state = "tomb" /\ after[i].expires <= day THEN Health!NoRow ELSE after[i]]
      /\ exports' = [c \in Consumers |-> swept(voided(exports[c]))]
  BY DEF Health!Prune
<1>2. S \subseteq Health!Live(ledger)
  <2>1. Health!Expired \cap Health!Live(ledger) \in SUBSET Health!Live(ledger)
    OBVIOUS
  <2>2. Health!Affected \in SUBSET Health!Live(ledger)
    BY <2>1, DependentsHold DEF Health!Affected
  <2> QED BY <2>2, ChainHolds
<1> HIDE DEF S
<1>3. Health!Live(ledger') = Health!Live(ledger) \ S
  BY <1>1 DEF Health!Live, Health!NoRow, Health!Tombstone
<1>4. ASSUME NEW c \in Consumers
      PROVE  ExportHolds(exports'[c], Health!Live(ledger'))
  <2>1. PICK live, v, w, removed :
          /\ live = Health!Live(ledger') /\ v = voided(exports[c]) /\ w = exports'[c] /\ removed = S
    OBVIOUS
  <2>2. v = IF removed = {} \/ exports[c] = Health!NoExport \/ exports[c].lost THEN exports[c]
            ELSE Health!Invalidated(exports[c])
    BY <2>1
  <2>3. removed \subseteq Health!Live(ledger) /\ (removed = {} => Health!Live(ledger) \subseteq live)
    BY <1>2, <1>3, <2>1
  <2>4. ExportHolds(v, live)
    BY <2>2, <2>3, RemovedHold
  <2>5. w = IF v # Health!NoExport /\ ~v.lost /\ v.expires <= day
            THEN [v EXCEPT !.lost = TRUE, !.items = <<>>] ELSE v
    BY <1>1, <2>1
  <2>6. ExportHolds(w, live)
    BY <2>4, <2>5, SweptHolds
  <2> QED BY <2>1, <2>6
<1>5. DOMAIN exports' = Consumers
  BY <1>1
<1> QED BY <1>3, <1>4, <1>5 DEF ExportsHold

\* Every step keeps the exports as they should be, and gives the ledger no more
\* records when it touches an export.
LEMMA ExportsNextHold ==
  ASSUME HealthInv, ExportsHold(Health!Live(ledger)), [Health!Next]_(Health!vars)
  PROVE  /\ ExportsHold(Health!Live(ledger))'
         /\ Health!Live(ledger') \subseteq Health!Live(ledger) \/ exports' = exports
<1>1. CASE ledger' = ledger /\ (exports' = exports \/ exports' = [c \in Consumers |-> Health!NoExport])
  <2>1. Health!Live(ledger') = Health!Live(ledger)
    BY <1>1 DEF Health!Live
  <2> QED BY <1>1, <2>1 DEF ExportsHold, ExportHolds
<1>2. Health!Restart \/ Health!Tick \/ UNCHANGED Health!vars =>
        /\ ledger' = ledger
        /\ exports' = exports \/ exports' = [c \in Consumers |-> Health!NoExport]
  BY DEF Health!Restart, Health!Tick, Health!vars
<1>3. ASSUME NEW level \in RecordLevels, NEW r \in Records, Health!Store(level, r)
      PROVE  ExportsHold(Health!Live(ledger))' /\ exports' = exports
  <2>1. exports' = exports
    BY <1>3 DEF Health!Store
  <2>2. ASSUME NEW i \in Health!Live(ledger)
        PROVE  i \in Health!Live(ledger')
    <3>1. i \in Health!Ids /\ ledger[i].state = "live"
      BY <2>2 DEF Health!Live
    <3>2. i # r.id
      BY <1>3, <3>1 DEF Health!Store, Health!Unused
    <3>3. ledger'[i].state = "live"
      <4>1. CASE i \in r.corrects
        <5>1. ledger'[i] = [ledger[i] EXCEPT !.current = FALSE]
          BY <1>3, <3>1, <3>2, <4>1 DEF Health!Store
        <5> QED BY <3>1, <5>1
      <4>2. CASE i \notin r.corrects
        BY <1>3, <3>1, <3>2, <4>2 DEF Health!Store
      <4> QED BY <4>1, <4>2
    <3> QED BY <3>1, <3>3 DEF Health!Live
  <2>3. PICK live, other : live = Health!Live(ledger) /\ other = Health!Live(ledger')
    OBVIOUS
  <2>4. ASSUME NEW c \in Consumers
        PROVE  ExportHolds(exports'[c], Health!Live(ledger'))
    <3>1. PICK e : e = exports[c]
      OBVIOUS
    <3>2. ExportHolds(e, live)
      BY <2>3, <3>1 DEF ExportsHold
    <3>3. ExportHolds(e, other)
      BY <2>2, <2>3, <3>2, HoldsWithMore
    <3> QED BY <2>1, <2>3, <3>1, <3>3
  <2> QED BY <2>1, <2>4 DEF ExportsHold
<1>4. ASSUME NEW c \in Consumers, Health!Export(c) \/ Health!NextPage(c)
      PROVE  /\ ExportsHold(Health!Live(ledger))'
             /\ Health!Live(ledger') \subseteq Health!Live(ledger)
  <2>1. ledger' = ledger /\ ExportsHold(Health!Live(ledger))'
    BY <1>4, PagedHold
  <2> QED BY <2>1 DEF Health!Live
<1>5. ASSUME NEW level \in RecordLevels, Health!Delete(level)
      PROVE  /\ ExportsHold(Health!Live(ledger))'
             /\ Health!Live(ledger') \subseteq Health!Live(ledger)
  BY <1>5, DeleteExports DEF HealthInv
<1> QED BY <1>1, <1>2, <1>3, <1>4, <1>5, PruneExports DEF Health!Next

LEMMA ExportsInitHold == Health!Init => ExportsHold(Health!Live(ledger))
BY DEF Health!Init, ExportsHold, ExportHolds

\* A page says complete only when the consumer has been given, each once, all the
\* records it might see when its export began, and all of them are still stored:
\* however the pages, stores, deletes, prunes and restarts follow each other.
THEOREM CompleteMeansAllAlways == Health!Spec => CompleteMeansAll
<1> DEFINE Inv == HealthInv /\ ExportsHold(Health!Live(ledger))
           Complete(c) ==
             exports'[c] # Health!NoExport /\ exports'[c].complete
               /\ ~(exports[c] # Health!NoExport /\ exports[c].complete /\ exports'[c] = exports[c])
               /\ ~exports'[c].invalid /\ ~exports'[c].lost
             => LET e == exports'[c]
                IN /\ {e.got[k] : k \in DOMAIN e.got} = e.whole
                   /\ Len(e.got) = Health!Cardinality(e.whole)
                   /\ e.whole \subseteq Health!Live(ledger)
<1>1. Health!Init => Inv
  BY HealthInitHolds, ExportsInitHold
<1>2. Inv /\ [Health!Next]_(Health!vars) => Inv'
  BY HealthNextKeeps, ExportsNextHold
<1>3. ASSUME Inv, [Health!Next]_(Health!vars), NEW c \in Consumers
      PROVE  Complete(c)
  <2>1. PICK e, live : e = exports'[c] /\ live = Health!Live(ledger')
    OBVIOUS
  <2>2. SUFFICES ASSUME e # Health!NoExport, e.complete, exports' # exports,
                        ~e.invalid, ~e.lost
                 PROVE  /\ {e.got[k] : k \in DOMAIN e.got} = e.whole
                        /\ Len(e.got) = Health!Cardinality(e.whole)
                        /\ e.whole \subseteq Health!Live(ledger)
    BY <2>1
  <2>3. ExportHolds(e, live) /\ live \subseteq Health!Live(ledger)
    BY <1>3, <2>1, <2>2, ExportsNextHold DEF ExportsHold
  <2>4. Exported(e, live)
    BY <2>2, <2>3 DEF ExportHolds
  <2>5. /\ e.got = [k \in 1 .. e.total |-> e.items[k]]
        /\ {e.items[k] : k \in 1 .. e.total} = e.whole
        /\ e.total = Cardinality(e.whole) /\ e.total \in Nat
    BY <2>2, <2>4, FS_CardinalityType DEF Exported
  <2>6. {e.got[k] : k \in DOMAIN e.got} = e.whole /\ Len(e.got) = e.total
    BY <2>5
  <2> QED BY <2>3, <2>4, <2>5, <2>6, RecordsAreCounted DEF Exported
<1>4. Inv /\ [Health!Next]_(Health!vars) => [\A c \in Consumers : Complete(c)]_(Health!vars)
  BY <1>3
<1>5. CompleteMeansAll <=> [][\A c \in Consumers : Complete(c)]_(Health!vars)
  BY DEF CompleteMeansAll, Health!CompleteMeansAll
<1> HIDE DEF Inv, Complete
<1> QED BY <1>1, <1>2, <1>4, <1>5, PTL DEF Health!Spec

-----------------------------------------------------------------------------
(* Types *)

\* A bucket never holds more than it can, and none was seen in the future.
THEOREM AdmissionTypeCorrect == Admit!Spec => []Admit!TypeOK
<1>1. ASSUME AdmitInv, [Admit!Next]_(Admit!vars)
      PROVE  AdmitInv'
  <2>1. CASE UNCHANGED Admit!vars
    BY <1>1, <2>1 DEF Admit!vars, AdmitInv, BucketSound, Idle
  <2> QED BY <1>1, <2>1, RequestKeeps, TickKeeps DEF Admit!Next
<1>2. ASSUME AdmitInv
      PROVE  Admit!TypeOK
  <2>1. ASSUME NEW b \in Admit!Buckets
        PROVE  /\ bucket[b].parts \in 0 .. Admit!Capacity(b) * WindowMs
               /\ bucket[b].lastSeen \in 0 .. time
    <3>1. BucketSound(b)
      BY <1>2 DEF AdmitInv
    <3>2. PICK full \in Nat : full = Admit!Capacity(b) * WindowMs
      BY CapacityNat, AdmissionAssumption
    <3>3. bucket[b].parts \in Nat /\ bucket[b].parts <= full
      BY <3>1, <3>2 DEF BucketSound, Sound
    <3>4. bucket[b].lastSeen \in Nat /\ bucket[b].lastSeen <= time /\ time \in Nat
      BY <1>2, <3>1, AdmissionAssumption DEF AdmitInv, BucketSound, Sound
    <3> QED BY <3>2, <3>3, <3>4
  <2> QED BY <1>2, <2>1 DEF AdmitInv, Admit!TypeOK
<1> QED BY <1>1, <1>2, AdmitInitHolds, PTL DEF Admit!Spec

\* The type of the switches, and of everything else.
DeviceFlags == hotspot \in BOOLEAN /\ link \in BOOLEAN /\ cut \in BOOLEAN

DeviceValues ==
  /\ state \in Device!States /\ hash \in 0 .. MaxKeys /\ env \in 0 .. MaxKeys
  /\ routes \in {"none", "wizard", "claim", "admin"}
  /\ half \in {"none", "claim", "regenerate"}
  /\ attempt \in {"none", "scheduled", "connecting"}
  /\ misses \in 0 .. Threshold /\ keys \in 0 .. MaxKeys /\ shown \in 0 .. MaxKeys
  /\ faults \in 0 .. MaxFaults

LEMMA DeviceFlagsKept ==
  ASSUME DeviceFlags, [Device!Next]_(Device!vars)
  PROVE  DeviceFlags'
<1> USE DEF Device!device, Device!radio, Device!ghosts, DeviceFlags
<1>1. CASE Device!Boot
  <2>1. hotspot' = (routes' = "wizard") /\ UNCHANGED <<link, cut>>
    BY <1>1 DEF Device!Boot
  <2>2. (routes' = "wizard") \in BOOLEAN
    OBVIOUS
  <2> QED BY <2>1, <2>2
<1>2. CASE Device!Crash
  <2>1. hotspot' = FALSE /\ cut' = (cut \/ half = "regenerate") /\ UNCHANGED link
    BY <1>2 DEF Device!Crash
  <2>2. FALSE \in BOOLEAN /\ (cut \/ half = "regenerate") \in BOOLEAN
    OBVIOUS
  <2> QED BY <2>1, <2>2
<1>3. CASE Device!Connect \/ Device!StopHotspot
  BY <1>3 DEF Device!Connect, Device!StopHotspot
<1>4. CASE Device!ConnectSucceeds \/ Device!ConnectFails
  BY <1>4 DEF Device!ConnectSucceeds, Device!ConnectFails
<1>5. CASE Device!Claim \/ Device!Regenerate
  BY <1>5 DEF Device!Claim, Device!Regenerate, Device!NewKey
<1>6. CASE Device!FinishClaim
  BY <1>6 DEF Device!FinishClaim
<1>7. CASE Device!FinishRegenerate
  BY <1>7 DEF Device!FinishRegenerate
<1>8. CASE Device!Reset \/ Device!EnvFileLost \/ Device!StateFileLost \/ Device!Check
  BY <1>8 DEF Device!Reset, Device!EnvFileLost, Device!StateFileLost, Device!Check
<1>9. CASE Device!LinkChanges
  <2>1. link' = ~link /\ UNCHANGED <<hotspot, cut>>
    BY <1>9 DEF Device!LinkChanges
  <2> QED BY <2>1
<1>10. CASE UNCHANGED Device!vars
  BY <1>10 DEF Device!vars
<1> QED BY <1>1, <1>2, <1>3, <1>4, <1>5, <1>6, <1>7, <1>8, <1>9, <1>10 DEF Device!Next

\* A device has routes for the state it boots to, which is none that a step was
\* cut short in.
LEMMA DeviceValuesKept ==
  ASSUME DeviceValues, [Device!Next]_(Device!vars)
  PROVE  DeviceValues'
<1> USE DeviceAssumption DEF DeviceValues, Device!States, Device!device, Device!radio, Device!ghosts
<1>1. CASE Device!Boot
  <2>1. PICK s, h : s = Device!Reconciled[1] /\ h = Device!Reconciled[2]
    OBVIOUS
  <2>2. /\ s \in {"UNCONFIGURED", "SETUP_FALLBACK", "RUNNING_UNCLAIMED", "CLAIMED", "MISSING"}
        /\ h \in {0, hash}
    BY <2>1 DEF Device!Reconciled
  <2>3. PICK r : r = Device!RoutesOf(s)
    OBVIOUS
  <2>4. r \in {"wizard", "claim", "admin"}
    BY <2>2, <2>3 DEF Device!RoutesOf
  <2>5. state' = s /\ hash' = h /\ routes' = r /\ misses' = 0
    BY <1>1, <2>1, <2>3 DEF Device!Boot
  <2> QED BY <1>1, <2>2, <2>4, <2>5 DEF Device!Boot
<1>2. CASE Device!Crash
  BY <1>2 DEF Device!Crash
<1>3. CASE Device!Connect \/ Device!StopHotspot \/ Device!ConnectSucceeds \/ Device!ConnectFails
  BY <1>3 DEF Device!Connect, Device!StopHotspot, Device!ConnectSucceeds, Device!ConnectFails,
              Device!Connected
<1>4. CASE Device!Claim \/ Device!Regenerate
  BY <1>4 DEF Device!Claim, Device!Regenerate, Device!NewKey
<1>5. CASE Device!FinishClaim \/ Device!FinishRegenerate
  BY <1>5 DEF Device!FinishClaim, Device!FinishRegenerate
<1>6. CASE Device!Reset
  BY <1>6 DEF Device!Reset
<1>7. CASE Device!LinkChanges \/ Device!EnvFileLost \/ Device!StateFileLost
  BY <1>7 DEF Device!LinkChanges, Device!EnvFileLost, Device!StateFileLost
<1>8. CASE Device!Check
  <2>1. misses' \in 0 .. Threshold
    BY <1>8 DEF Device!Check
  <2>2. state' \in {state, "SETUP_FALLBACK"}
    BY <1>8 DEF Device!Check
  <2> QED BY <1>8, <2>1, <2>2 DEF Device!Check
<1>9. CASE UNCHANGED Device!vars
  BY <1>9 DEF Device!vars
<1> QED BY <1>1, <1>2, <1>3, <1>4, <1>5, <1>6, <1>7, <1>8, <1>9 DEF Device!Next

\* A device is in one of its states with the routes of one it can boot to, and
\* its keys are among those it has made.
THEOREM DeviceTypeCorrect == Device!Spec => []Device!TypeOK
<1>1. Device!Init => DeviceFlags
  BY DEF Device!Init, DeviceFlags
<1>2. Device!Init => DeviceValues
  BY DeviceAssumption DEF Device!Init, DeviceValues, Device!States
<1>3. DeviceFlags /\ DeviceValues => Device!TypeOK
  BY DEF DeviceFlags, DeviceValues, Device!TypeOK
<1> QED BY <1>1, <1>2, <1>3, DeviceFlagsKept, DeviceValuesKept, PTL DEF Device!Spec

\* Feedback links to an event that there is, and no time lies in the future.
AnalyticsFine ==
  /\ AnalyticsInv /\ hour <= MaxHour /\ events = [i \in DOMAIN events |-> events[i]]
  /\ \A s \in Sessions : sessions[s].at <= hour
  /\ feedback \subseteq [session : Sessions, event : {0} \cup DOMAIN events]

LEMMA AnalyticsTyped ==
  ASSUME AnalyticsFine
  PROVE  Analytics!TypeOK
<1> USE AnalyticsAssumption
<1>1. ASSUME NEW i \in DOMAIN events PROVE events[i] \in Analytics!Row
  <2>1. events[i] \in EventRow /\ events[i].at <= hour
    BY DEF AnalyticsFine, AnalyticsInv, EventFine
  <2>2. 1 <= MaxEvents
    BY DEF AnalyticsFine, AnalyticsInv
  <2>3. events[i].at \in 0 .. MaxHour /\ {0, 1} \subseteq 0 .. MaxEvents
    BY <2>1, <2>2 DEF AnalyticsFine, AnalyticsInv, EventRow
  <2> QED BY <2>1, <2>3 DEF EventRow, Analytics!Row
<1>2. events \in [DOMAIN events -> Analytics!Row]
  <2>1. events = [i \in DOMAIN events |-> events[i]]
    BY DEF AnalyticsFine
  <2> QED BY <1>1, <2>1
<1>3. sessions \in [Sessions -> [last : 0 .. logged, at : 0 .. MaxHour]]
  <2>1. ASSUME NEW s \in Sessions PROVE sessions[s] \in [last : 0 .. logged, at : 0 .. MaxHour]
    BY DEF AnalyticsFine, AnalyticsInv
  <2> QED BY <2>1 DEF AnalyticsFine, AnalyticsInv
<1> QED BY <1>2, <1>3 DEF AnalyticsFine, AnalyticsInv, Analytics!TypeOK

\* Times and links, whatever is logged, followed, pruned or answered.
LEMMA AnalyticsFineKept ==
  ASSUME AnalyticsFine, [Analytics!Next]_(Analytics!vars)
  PROVE  AnalyticsFine'
<1> USE AnalyticsAssumption
<1>1. AnalyticsInv'
  BY AnalyticsNextKeeps DEF AnalyticsFine
<1> DEFINE Events == events' = [i \in DOMAIN events' |-> events'[i]]
           Times == \A s \in Sessions : sessions'[s].at <= hour'
           Links == feedback' \subseteq [session : Sessions, event : {0} \cup DOMAIN events']
<1>2. /\ hour \in Nat /\ \A s \in Sessions : sessions[s].at \in Nat /\ sessions[s].at <= hour
      /\ sessions \in [Sessions -> [last : 0 .. logged, at : Nat]]
  BY DEF AnalyticsFine, AnalyticsInv
<1>3. ASSUME NEW s \in Sessions, NEW results, NEW continues, Analytics!Retrieve(s, results, continues)
      PROVE  Events /\ Times /\ Links /\ hour' = hour
  <2>1. hour' = hour /\ feedback' = feedback
    BY <1>3 DEF Analytics!Retrieve
  <2>2. Events /\ DOMAIN events \subseteq DOMAIN events'
    BY <1>3 DEF Analytics!Retrieve
  <2>3. sessions' = [sessions EXCEPT ![s] = [last |-> logged + 1, at |-> hour]]
    BY <1>3 DEF Analytics!Retrieve, Analytics!Cursor
  <2>4. Times
    BY <1>2, <2>1, <2>3
  <2> QED BY <2>1, <2>2, <2>4 DEF AnalyticsFine
<1>4. ASSUME NEW s \in Sessions,
             \/ \E e \in Results : Analytics!Open(s, e)
             \/ \E n \in Analytics!Areas : Analytics!Change(s, n)
      PROVE  Events /\ Times /\ Links /\ hour' = hour
  <2>1. PICK row : Analytics!Follow(s, row)
    BY <1>4 DEF Analytics!Open, Analytics!Change
  <2>2. /\ UNCHANGED <<sessions, feedback, hour>> /\ DOMAIN events' = DOMAIN events
        /\ Events
    BY <2>1 DEF Analytics!Follow
  <2> QED BY <1>2, <2>2 DEF AnalyticsFine
<1>5. ASSUME NEW s \in Sessions, Analytics!Feedback(s)
      PROVE  Events /\ Times /\ Links /\ hour' = hour
  <2>1. UNCHANGED <<sessions, events, hour>>
    BY <1>5 DEF Analytics!Feedback
  <2>2. /\ feedback' = feedback \cup {[session |-> s, event |-> Analytics!Correlated(s)]}
        /\ Analytics!Correlated(s) \in {0} \cup DOMAIN events
    BY <1>5 DEF Analytics!Feedback
  <2>3. Links
    BY <2>1, <2>2 DEF AnalyticsFine
  <2> QED BY <1>2, <2>1, <2>3 DEF AnalyticsFine
<1>6. ASSUME Analytics!Prune
      PROVE  Events /\ Times /\ Links /\ hour' = hour
  <2>1. PICK kept : kept = {i \in DOMAIN events : events[i].at + EventsKept >= hour}
    OBVIOUS
  <2>2. /\ events' = [i \in kept |-> events[i]] /\ hour' = hour
        /\ feedback' = {[f EXCEPT !.event = IF @ \in kept THEN @ ELSE 0] : f \in feedback}
        /\ \A s \in Sessions : sessions'[s] \in {sessions[s], [last |-> 0, at |-> 0]}
    BY <1>6, <2>1 DEF Analytics!Prune, Analytics!NoSession
  <2>3. ASSUME NEW f \in feedback
        PROVE  [f EXCEPT !.event = IF @ \in kept THEN @ ELSE 0]
                 \in [session : Sessions, event : {0} \cup kept]
    BY DEF AnalyticsFine
  <2>4. Links
    BY <2>2, <2>3
  <2>5. Times
    BY <1>2, <2>2
  <2> QED BY <2>2, <2>4, <2>5
<1>7. ASSUME Analytics!Tick
      PROVE  Events /\ Times /\ Links /\ hour' <= MaxHour
  <2>1. /\ UNCHANGED <<sessions, events, feedback>> /\ hour' = hour + 1 /\ hour < MaxHour
    BY <1>7 DEF Analytics!Tick
  <2>2. Times
    BY <1>2, <2>1
  <2> QED BY <1>2, <2>1, <2>2 DEF AnalyticsFine
<1>8. ASSUME UNCHANGED Analytics!vars
      PROVE  Events /\ Times /\ Links /\ hour' = hour
  BY <1>8 DEF Analytics!vars, AnalyticsFine
<1>9. Events /\ Times /\ Links /\ hour' <= MaxHour
  <2>1. hour' = hour => hour' <= MaxHour
    BY DEF AnalyticsFine
  <2> HIDE DEF Events, Times, Links
  <2> QED BY <1>3, <1>4, <1>5, <1>6, <1>7, <1>8, <2>1 DEF Analytics!Next
<1> QED BY <1>1, <1>9 DEF AnalyticsFine

\* The rows of the retrieval tables name sessions, entries, areas and events
\* that there are, however long they are kept and whatever is pruned.
THEOREM AnalyticsTypeCorrect == Analytics!Spec => []Analytics!TypeOK
<1>1. Analytics!Init => AnalyticsFine
  <2> SUFFICES ASSUME Analytics!Init PROVE AnalyticsFine
    OBVIOUS
  <2>1. /\ events = [i \in {} |-> 0] /\ hour = 0 /\ feedback = {}
        /\ \A s \in Sessions : sessions[s].at = 0
    BY DEF Analytics!Init, Analytics!NoSession
  <2>2. events = [i \in DOMAIN events |-> events[i]]
    BY <2>1
  <2> QED BY <2>1, <2>2, AnalyticsInitHolds, AnalyticsAssumption DEF AnalyticsFine
<1> QED BY <1>1, AnalyticsTyped, AnalyticsFineKept, PTL DEF Analytics!Spec

\* The reader of the audit log holds ids of rows that the log has room for.
LEMMA HistoryTypeKept ==
  ASSUME History!TypeOK, [History!Next]_(History!vars)
  PROVE  History!TypeOK'
<1> USE HistoryAssumption DEF History!TypeOK
<1>1. /\ History!Rows \subseteq 1 .. MaxHistory /\ History!NoCursor = MaxHistory + 1
      /\ \A S : History!Newest(S) \subseteq S /\ History!Oldest(S) \subseteq S
      /\ \A S : History!Visible(S) \subseteq S
  BY DEF History!Rows, History!NoCursor, History!Newest, History!Oldest, History!Visible
<1>2. ASSUME NEW S \in SUBSET (1 .. MaxHistory)
      PROVE  /\ \A n \in 0 .. MaxHistory : History!Highest(S, n) \in 0 .. MaxHistory
             /\ History!Lowest(S, History!NoCursor) \in 1 .. History!NoCursor
  <2>1. IsFiniteSet(S) /\ S \in SUBSET Nat
    <3>1. IsFiniteSet(1 .. MaxHistory)
      BY FS_Interval
    <3>2. IsFiniteSet(S)
      BY <3>1, FS_Subset
    <3> QED BY <3>2
  <2>2. CASE S = {}
    BY <1>1, <2>2 DEF History!Highest, History!Lowest
  <2>3. CASE S # {}
    <3>1. (\E i \in S : \A j \in S : j <= i) /\ (\E i \in S : \A j \in S : i <= j)
      BY <2>1, <2>3, HasHighest, HasLowest
    <3>2. \A n : History!Highest(S, n) \in S /\ History!Lowest(S, n) \in S
      BY <2>3, <3>1 DEF History!Highest, History!Lowest
    <3>3. S \subseteq 0 .. MaxHistory /\ S \subseteq 1 .. History!NoCursor
      BY <1>1
    <3> QED BY <3>2, <3>3
  <2> QED BY <2>2, <2>3
<1> DEFINE Reader == [got : SUBSET (1 .. MaxHistory), older : 1 .. History!NoCursor,
                      sync : 0 .. MaxHistory, begun : BOOLEAN, current : BOOLEAN]
<1>3. ASSUME NEW n \in Paths, History!Log(n) PROVE History!TypeOK'
  <2>1. reader' = [reader EXCEPT !.current = FALSE] /\ UNCHANGED <<rules, filter>>
    BY <1>3 DEF History!Log
  <2>2. reader' \in Reader
    BY <2>1
  <2>3. log' \in Seq(Paths) /\ Len(log') <= MaxHistory
    BY <1>3 DEF History!Log
  <2> QED BY <2>1, <2>2, <2>3
<1>4. CASE History!First
  <2>1. PICK page : page = History!Newest(History!Rows)
    OBVIOUS
  <2>2. page \in SUBSET (1 .. MaxHistory) /\ History!Visible(page) \in SUBSET (1 .. MaxHistory)
    BY <1>1, <2>1
  <2>3. PICK older, sync, got :
          /\ older = History!OlderThan(page, History!Rows) /\ sync = History!FirstSync(page)
          /\ got = History!Visible(page)
    OBVIOUS
  <2>4. older \in 1 .. History!NoCursor
    BY <1>1, <1>2, <2>2, <2>3 DEF History!OlderThan
  <2>7. sync \in 0 .. MaxHistory
    <3>1. 0 \in 0 .. MaxHistory
      OBVIOUS
    <3> QED BY <1>2, <2>2, <2>3, <3>1 DEF History!FirstSync
  <2>5. reader' = [got |-> got, older |-> older, sync |-> sync, begun |-> TRUE, current |-> TRUE]
    BY <1>4, <2>1, <2>3 DEF History!First
  <2>6. reader' \in Reader
    BY <2>2, <2>3, <2>4, <2>5, <2>7
  <2> QED BY <1>4, <2>6 DEF History!First
<1>5. CASE History!Older
  <2>1. PICK all, page : all = {i \in History!Rows : i < reader.older} /\ page = History!Newest(all)
    OBVIOUS
  <2>2. page \in SUBSET (1 .. MaxHistory) /\ History!Visible(page) \in SUBSET (1 .. MaxHistory)
    BY <1>1, <2>1
  <2>3. PICK older, got : older = History!OlderThan(page, all) /\ got = History!Visible(page)
    OBVIOUS
  <2>4. older \in 1 .. History!NoCursor
    BY <1>1, <1>2, <2>2, <2>3 DEF History!OlderThan
  <2>5. reader' = [reader EXCEPT !.got = @ \cup got, !.older = older]
    BY <1>5, <2>1, <2>3 DEF History!Older
  <2>6. reader' \in Reader
    BY <2>2, <2>3, <2>4, <2>5
  <2>7. UNCHANGED <<rules, filter, log>>
    BY <1>5 DEF History!Older
  <2> QED BY <2>6, <2>7
<1>6. CASE History!Poll
  <2>1. PICK all, page : all = {i \in History!Rows : i > reader.sync} /\ page = History!Oldest(all)
    OBVIOUS
  <2>2. page \in SUBSET (1 .. MaxHistory) /\ History!Visible(page) \in SUBSET (1 .. MaxHistory)
    BY <1>1, <2>1
  <2>3. PICK sync, got, current :
          /\ sync = History!Highest(page, reader.sync) /\ got = History!Visible(page)
          /\ current = (page = all)
    OBVIOUS
  <2>4. sync \in 0 .. MaxHistory /\ current \in BOOLEAN
    BY <1>2, <2>2, <2>3
  <2>5. reader' = [reader EXCEPT !.got = @ \cup got, !.sync = sync, !.current = current]
    BY <1>6, <2>1, <2>3 DEF History!Poll
  <2>6. reader' \in Reader
    BY <2>2, <2>3, <2>4, <2>5
  <2>7. UNCHANGED <<rules, filter, log>>
    BY <1>6 DEF History!Poll
  <2> QED BY <2>6, <2>7
<1>7. CASE UNCHANGED History!vars
  BY <1>7 DEF History!vars
<1> QED BY <1>3, <1>4, <1>5, <1>6, <1>7 DEF History!Next

\* A consumer's cursors point into the log or past its end, whatever its rules
\* and its filter are.
THEOREM HistoryTypeCorrect == History!Spec => []History!TypeOK
<1>1. History!Init => History!TypeOK
  <2> SUFFICES ASSUME History!Init PROVE History!TypeOK
    OBVIOUS
  <2>1. MaxHistory + 1 \in 1 .. MaxHistory + 1 /\ 0 \in 0 .. MaxHistory
    BY HistoryAssumption
  <2>2. /\ reader = [got |-> {}, older |-> MaxHistory + 1, sync |-> 0, begun |-> FALSE,
                     current |-> FALSE]
        /\ log = <<>> /\ rules \in RuleSets /\ filter \in Filters
    BY DEF History!Init, History!NoCursor
  <2> QED BY <2>1, <2>2, HistoryAssumption DEF History!TypeOK, History!NoCursor
<1> QED BY <1>1, HistoryTypeKept, PTL DEF History!Spec

-----------------------------------------------------------------------------

\* The principals whose query awaits an embedding.
Askers == {p \in Principals : asking[p] # {}}

\* Every query that is asked has room among those that are ever stored.
QueryFine ==
  /\ QueryInv /\ IsFiniteSet(Askers) /\ pages + Cardinality(Askers) <= MaxQueries
  /\ changes \in 0 .. MaxChanges

LEMMA QueryTyped ==
  ASSUME QueryFine
  PROVE  Query!TypeOK
<1>1. ASSUME NEW s \in snapshots
      PROVE  /\ s.owner \in Principals /\ s.access \in Scopes /\ s.live \in BOOLEAN
             /\ s.results \in Seq(Entries) /\ s.hidden \subseteq Entries
             /\ s.cursors \subseteq Query!Cursor(s.results)
  <2>1. /\ s \in QueryRow /\ \A c \in s.cursors : ShownUpto(s.results, s.hidden, c)
    BY DEF QueryFine, QueryInv, Listed
  <2>2. PICK r \in Seq(Entries), hidden \in SUBSET Entries,
             cursors \in SUBSET [at : Nat, seen : SUBSET Entries] :
          r = s.results /\ hidden = s.hidden /\ cursors = s.cursors
    BY <2>1 DEF QueryRow
  <2>3. ASSUME NEW c \in cursors PROVE c \in Query!Cursor(r)
    <3>1. c \in [at : Nat, seen : SUBSET Entries] /\ ShownUpto(r, hidden, c)
      BY <2>1, <2>2
    <3>2. c.at \in 1 .. Len(r) + 1 /\ c.seen \subseteq Query!ToSet(r)
      BY <3>1 DEF ShownUpto
    <3>3. c = [at |-> c.at, seen |-> c.seen]
      BY <3>1
    <3> QED BY <3>2, <3>3 DEF Query!Cursor
  <2> QED BY <2>1, <2>2, <2>3 DEF QueryRow
<1>2. pages \in 0 .. MaxQueries
  <2>1. pages \in Nat /\ Cardinality(Askers) \in Nat /\ pages + Cardinality(Askers) <= MaxQueries
    BY FS_CardinalityType DEF QueryFine, QueryInv
  <2> QED BY <2>1, QueryAssumption
<1> QED BY <1>1, <1>2 DEF QueryFine, QueryInv, Query!TypeOK, Statuses

\* A query is answered before another takes its room.
LEMMA QueryFineKept ==
  ASSUME QueryFine, [Query!Next]_(Query!vars)
  PROVE  QueryFine'
<1>1. QueryInv'
  BY QueryNextKeeps DEF QueryFine
<1>2. /\ pages \in Nat /\ IsFiniteSet(Askers) /\ Cardinality(Askers) \in Nat
      /\ pages + Cardinality(Askers) <= MaxQueries /\ MaxQueries \in Nat
      /\ asking \in [Principals -> SUBSET Scopes] /\ changes \in 0 .. MaxChanges
  BY FS_CardinalityType, QueryAssumption DEF QueryFine, QueryInv
<1> DEFINE Same == UNCHANGED <<asking, pages>>
           Room == IsFiniteSet(Askers') /\ pages' + Cardinality(Askers') <= MaxQueries
<1>3. ASSUME Same PROVE Room
  <2>1. Askers' = Askers /\ pages' = pages
    BY <1>3 DEF Askers
  <2> QED BY <1>2, <2>1
<1>4. ASSUME NEW p \in Principals, Query!Ask(p) PROVE Room /\ changes' = changes
  <2>1. /\ asking' = [asking EXCEPT ![p] = {access[p]}] /\ pages' = pages /\ changes' = changes
        /\ asking[p] = {} /\ pages + Query!Cardinality({q \in Principals : asking[q] # {}}) < MaxQueries
    BY <1>4 DEF Query!Ask
  <2>2. pages + Cardinality(Askers) < MaxQueries
    BY <2>1, MatchesAreCounted DEF Askers
  <2>3. Askers' = Askers \cup {p} /\ p \notin Askers
    BY <1>2, <2>1 DEF Askers
  <2>4. IsFiniteSet(Askers') /\ Cardinality(Askers') = Cardinality(Askers) + 1
    BY <1>2, <2>3, FS_AddElement
  <2> QED BY <1>2, <2>1, <2>2, <2>4
<1>5. ASSUME NEW p \in Principals, Query!Query(p) PROVE Room /\ changes' = changes
  <2>1. asking' = [asking EXCEPT ![p] = {}] /\ asking[p] # {} /\ changes' = changes
    BY <1>5 DEF Query!Query
  <2>2. pages' = pages \/ pages' = pages + 1
    BY <1>5 DEF Query!Query, Query!Answer
  <2>3. Askers' = Askers \ {p} /\ p \in Askers
    BY <1>2, <2>1 DEF Askers
  <2>4. IsFiniteSet(Askers') /\ Cardinality(Askers') = Cardinality(Askers) - 1
    BY <1>2, <2>3, FS_RemoveElement
  <2> QED BY <1>2, <2>1, <2>2, <2>4
<1>6. ASSUME NEW p, NEW s, NEW c, Query!Resume(p, s, c) PROVE Same /\ changes' = changes
  BY <1>6 DEF Query!Resume
<1>7. ASSUME NEW p, NEW readable, Query!ChangeAccess(p, readable)
      PROVE  Same /\ changes' \in 0 .. MaxChanges
  BY <1>2, <1>7, QueryAssumption DEF Query!ChangeAccess
<1>8. ASSUME NEW e, Query!EntryGoes(e) \/ Query!EntryExpires(e) \/ Query!EntryIsRenewed(e)
      PROVE  Same /\ changes' \in 0 .. MaxChanges
  BY <1>2, <1>8, QueryAssumption
     DEF Query!EntryGoes, Query!EntryExpires, Query!EntryIsRenewed, Query!Changes
<1>9. ASSUME NEW s, Query!SnapshotExpires(s) PROVE Same /\ changes' = changes
  BY <1>9 DEF Query!SnapshotExpires
<1>10. ASSUME UNCHANGED Query!vars PROVE Same /\ changes' = changes
  BY <1>10 DEF Query!vars
<1>11. Room /\ changes' \in 0 .. MaxChanges
  <2> HIDE DEF Same, Room
  <2> QED BY <1>2, <1>3, <1>4, <1>5, <1>6, <1>7, <1>8, <1>9, <1>10 DEF Query!Next
<1> QED BY <1>1, <1>11 DEF QueryFine

\* A snapshot lists entries, for a principal and under an access that exist, and
\* its cursors are places of the list that have seen results of it.
THEOREM QueryTypeCorrect == Query!Spec => []Query!TypeOK
<1>1. Query!Init => QueryFine
  <2> SUFFICES ASSUME Query!Init PROVE QueryFine
    OBVIOUS
  <2>1. Askers = {} /\ pages = 0 /\ changes = 0
    BY DEF Query!Init, Askers
  <2>2. IsFiniteSet(Askers) /\ Cardinality(Askers) = 0
    BY <2>1, FS_EmptySet
  <2> QED BY <2>1, <2>2, QueryInitHolds, QueryAssumption DEF QueryFine
<1> QED BY <1>1, QueryTyped, QueryFineKept, PTL DEF Query!Spec

-----------------------------------------------------------------------------

LiveRow == [state : {"live"}, payload : Records, current : BOOLEAN,
            expires : 0 .. (MaxDay + RecordsKept)]
TombRow == [state : {"tomb"}, payload : Records, expires : 0 .. (MaxDay + RecordsKept)]

\* What an export holds, be it good or not.
ExportTyped(e) ==
  \/ e = Health!NoExport
  \/ /\ DOMAIN e = Fields /\ e.items \in Seq(Health!Ids) /\ e.got \in Seq(Health!Ids)
     /\ e.position \in Nat /\ e.whole \subseteq Health!Ids
     /\ e.complete \in BOOLEAN /\ e.invalid \in BOOLEAN
     /\ e.expires \in 0 .. (MaxDay + Lifetime)

ExportsTyped == DOMAIN exports = Consumers /\ \A c \in Consumers : ExportTyped(exports[c])

HealthFine ==
  /\ HealthInv /\ ExportsHold(Health!Live(ledger)) /\ ExportsTyped
  /\ ledger \in [Health!Ids -> Health!Row]
  /\ torn \subseteq Health!Ids
  /\ deletes \in 0 .. MaxDeletes /\ day \in 0 .. MaxDay

LEMMA HealthTyped ==
  ASSUME HealthFine
  PROVE  Health!TypeOK
<1>1. ASSUME NEW c \in Consumers, exports[c] # Health!NoExport
      PROVE  /\ exports[c].got \in Seq(Health!Ids) /\ exports[c].items \in Seq(Health!Ids)
             /\ exports[c].position \in Nat /\ exports[c].whole \subseteq Health!Ids
             /\ exports[c].complete \in BOOLEAN /\ exports[c].invalid \in BOOLEAN
             /\ exports[c].expires \in 0 .. (MaxDay + Lifetime)
  BY <1>1 DEF HealthFine, ExportsTyped, ExportTyped
<1>2. /\ \A i \in Health!Ids : ledger[i].state # "none" => ledger[i].payload.id = i
      /\ gone \subseteq Records
  BY DEF HealthFine, HealthInv
<1>3. /\ ledger \in [Health!Ids -> Health!Row] /\ torn \subseteq Health!Ids
      /\ deletes \in 0 .. MaxDeletes /\ day \in 0 .. MaxDay
  BY DEF HealthFine
<1> QED BY <1>1, <1>2, <1>3 DEF Health!TypeOK

\* The state of a row tells its shape; one that is no longer current has the
\* shape it had, and a tombstone that of a deleted one.
LEMMA RowShapes ==
  /\ Health!Row = {Health!NoRow} \cup LiveRow \cup TombRow
  /\ \A row \in Health!Row : row.state = "live" => row \in LiveRow
  /\ \A row \in LiveRow : [row EXCEPT !.current = FALSE] \in LiveRow
  /\ \A row \in LiveRow : Health!Tombstone(row) \in TombRow
<1>1. Health!Row = {Health!NoRow} \cup LiveRow \cup TombRow
  BY DEF Health!Row, LiveRow, TombRow
<1>2. ASSUME NEW row \in Health!Row, row.state = "live"
      PROVE  row \in LiveRow
  <2>1. row \notin TombRow /\ row # Health!NoRow
    BY <1>2 DEF TombRow, Health!NoRow
  <2> QED BY <1>1, <2>1
<1>3. ASSUME NEW row \in LiveRow
      PROVE  [row EXCEPT !.current = FALSE] \in LiveRow /\ Health!Tombstone(row) \in TombRow
  BY DEF LiveRow, TombRow, Health!Tombstone
<1> QED BY <1>1, <1>2, <1>3

LEMMA StoreTyped ==
  ASSUME HealthFine, NEW level, NEW r \in Records, Health!Store(level, r)
  PROVE  ledger' \in [Health!Ids -> Health!Row]
<1> DEFINE stored == [state |-> "live", payload |-> r, current |-> TRUE, expires |-> day + RecordsKept]
<1>1. ledger' = [i \in Health!Ids |->
        IF i = r.id THEN stored
        ELSE IF i \in r.corrects THEN [ledger[i] EXCEPT !.current = FALSE] ELSE ledger[i]]
  BY DEF Health!Store
<1>2. stored \in LiveRow
  <2>1. day + RecordsKept \in 0 .. (MaxDay + RecordsKept)
    BY HealthAssumption DEF HealthFine
  <2> QED BY <2>1 DEF LiveRow
<1> HIDE DEF stored
<1>3. ASSUME NEW i \in Health!Ids, i \in r.corrects
      PROVE  [ledger[i] EXCEPT !.current = FALSE] \in Health!Row
  <2>1. ledger[i].state = "live" /\ ledger[i] \in Health!Row
    BY <1>3 DEF Health!Store, HealthFine
  <2> QED BY <2>1, RowShapes
<1>4. \A i \in Health!Ids : ledger[i] \in Health!Row
  BY DEF HealthFine
<1>5. stored \in Health!Row
  BY <1>2, RowShapes
<1>6. ASSUME NEW i \in Health!Ids PROVE ledger'[i] \in Health!Row
  BY <1>1, <1>3, <1>4, <1>5
<1> QED BY <1>1, <1>6

\* A row that is deleted was live.
LEMMA DeletedTyped ==
  ASSUME HealthFine, NEW S \in SUBSET Health!Live(ledger), NEW i \in Health!Ids, NEW row,
         row = IF i \in S THEN Health!Tombstone(ledger[i]) ELSE ledger[i]
  PROVE  row \in Health!Row
<1>1. ledger[i] \in Health!Row /\ (i \in S => ledger[i].state = "live")
  BY DEF HealthFine, Health!Live
<1>2. CASE i \in S
  BY <1>1, <1>2, RowShapes
<1>3. CASE i \notin S
  BY <1>1, <1>3
<1> QED BY <1>2, <1>3

\* What voids or sweeps an export empties it.
LEMMA EmptiedTyped ==
  ASSUME NEW e, ExportTyped(e)
  PROVE  /\ ExportTyped(Health!Invalidated(e))
         /\ e # Health!NoExport => ExportTyped([e EXCEPT !.lost = TRUE, !.items = <<>>])
<1>1. CASE e = Health!NoExport
  BY <1>1 DEF Health!Invalidated, ExportTyped
<1>2. CASE e # Health!NoExport
  <2>1. /\ DOMAIN e = Fields /\ e.got \in Seq(Health!Ids)
        /\ e.position \in Nat /\ e.whole \subseteq Health!Ids
        /\ e.complete \in BOOLEAN /\ e.invalid \in BOOLEAN
        /\ e.expires \in 0 .. (MaxDay + Lifetime)
    BY <1>2 DEF ExportTyped
  <2>2. PICK v, w : /\ v = [e EXCEPT !.invalid = TRUE, !.items = <<>>]
                    /\ w = [e EXCEPT !.lost = TRUE, !.items = <<>>]
    OBVIOUS
  <2>3. /\ DOMAIN v = Fields /\ v.items = <<>> /\ v.got = e.got /\ v.position = e.position
        /\ v.whole = e.whole /\ v.complete = e.complete /\ v.invalid = TRUE /\ v.expires = e.expires
    BY <2>1, <2>2 DEF Fields
  <2>4. /\ DOMAIN w = Fields /\ w.items = <<>> /\ w.got = e.got /\ w.position = e.position
        /\ w.whole = e.whole /\ w.complete = e.complete /\ w.invalid = e.invalid
        /\ w.expires = e.expires
    BY <2>1, <2>2 DEF Fields
  <2>5. <<>> \in Seq(Health!Ids) /\ TRUE \in BOOLEAN
    OBVIOUS
  <2>6. ExportTyped(v)
    BY <2>1, <2>3, <2>5 DEF ExportTyped
  <2>7. ExportTyped(w)
    BY <2>1, <2>4, <2>5 DEF ExportTyped
  <2> QED BY <1>2, <2>2, <2>6, <2>7 DEF Health!Invalidated
<1> QED BY <1>1, <1>2

\* A good export is typed, and so is the one after its next page.
LEMMA GoodIsTyped ==
  ASSUME NEW e, Good(e), e.complete \in BOOLEAN, e.expires \in 0 .. (MaxDay + Lifetime)
  PROVE  ExportTyped(e)
<1>1. e.whole \subseteq Health!Ids
  BY DEF Good, Exported, Health!Live
<1>2. e.total \in Nat /\ e.position \in Nat /\ e.position <= e.total
  <2>1. e.total \in Nat
    BY FS_CardinalityType DEF Good, Exported
  <2> QED BY <2>1 DEF Good, Exported
<1>3. e.items \in Seq(Health!Ids) /\ e.got \in Seq(Health!Ids)
  <2>1. PICK n, m, items, got : n = e.total /\ m = e.position /\ items = e.items /\ got = e.got
    OBVIOUS
  <2>2. \A k \in 1 .. n : items[k] \in Health!Ids
    BY <1>1, <2>1 DEF Good, Exported
  <2>3. items \in [1 .. n -> Health!Ids]
    BY <1>1, <2>1 DEF Good, Exported
  <2>4. got \in [1 .. m -> Health!Ids]
    <3>1. got = [k \in 1 .. m |-> items[k]]
      BY <2>1 DEF Good, Exported
    <3>2. \A k \in 1 .. m : k \in 1 .. n
      BY <1>2, <2>1
    <3> QED BY <2>2, <3>1, <3>2
  <2> QED BY <1>2, <2>1, <2>3, <2>4
<1> QED BY <1>1, <1>2, <1>3 DEF Good, ExportTyped

LEMMA PagedTyped ==
  ASSUME HealthFine, NEW c \in Consumers, Health!Export(c) \/ Health!NextPage(c)
  PROVE  ExportsTyped'
<1>1. HealthInv /\ ExportsHold(Health!Live(ledger)) /\ ExportsTyped /\ day \in 0 .. MaxDay
  BY DEF HealthFine
<1>2. PICK e : /\ Good(e) /\ (e.expires = day + Lifetime \/ e = exports[c])
               /\ exports' = [exports EXCEPT ![c] = Health!Advanced(e)]
  BY <1>1, PageAdvances
<1>3. e.expires \in 0 .. (MaxDay + Lifetime)
  <2>1. CASE e.expires = day + Lifetime
    BY <1>1, <2>1, HealthAssumption
  <2>2. CASE e = exports[c]
    <3>1. e # Health!NoExport
      <4>1. DOMAIN Health!NoExport = {"open"}
        BY DEF Health!NoExport
      <4> QED BY <1>2, <4>1 DEF Good, Fields
    <3> QED BY <1>1, <2>2, <3>1 DEF ExportsTyped, ExportTyped
  <2> QED BY <1>2, <2>1, <2>2
<1>4. PICK a : a = Health!Advanced(e)
  OBVIOUS
<1>5. /\ Good(a) /\ a.complete \in BOOLEAN /\ a.expires = e.expires
  BY <1>2, <1>4, AdvancedHolds DEF Good
<1>6. ExportTyped(a)
  BY <1>3, <1>5, GoodIsTyped
<1>7. DOMAIN exports' = Consumers /\ \A d \in Consumers : exports'[d] = IF d = c THEN a ELSE exports[d]
  BY <1>1, <1>2, <1>4 DEF ExportsTyped
<1> QED BY <1>1, <1>6, <1>7 DEF ExportsTyped

LEMMA DeleteTyped ==
  ASSUME HealthFine, NEW level \in RecordLevels, Health!Delete(level)
  PROVE  ledger' \in [Health!Ids -> Health!Row] /\ ExportsTyped' /\ deletes' \in 0 .. MaxDeletes
<1>1. PICK S : /\ S \in SUBSET Health!Live(ledger) /\ S # {}
               /\ ledger' = [i \in Health!Ids |->
                    IF i \in S THEN Health!Tombstone(ledger[i]) ELSE ledger[i]]
               /\ exports' = [c \in Consumers |->
                    IF S = {} \/ exports[c] = Health!NoExport \/ exports[c].lost THEN exports[c]
                    ELSE Health!Invalidated(exports[c])]
  BY DEF Health!Delete, Health!Removed
<1>2. ASSUME NEW i \in Health!Ids PROVE ledger'[i] \in Health!Row
  <2>1. PICK row : row = ledger'[i]
    OBVIOUS
  <2>2. row = IF i \in S THEN Health!Tombstone(ledger[i]) ELSE ledger[i]
    BY <1>1, <2>1
  <2> QED BY <1>1, <2>1, <2>2, DeletedTyped
<1>3. ASSUME NEW c \in Consumers PROVE ExportTyped(exports'[c])
  <2>1. PICK e : e = exports[c]
    OBVIOUS
  <2>2. ExportTyped(e)
    BY <2>1 DEF HealthFine, ExportsTyped
  <2>3. exports'[c] = e \/ exports'[c] = Health!Invalidated(e)
    BY <1>1, <2>1
  <2> QED BY <2>2, <2>3, EmptiedTyped
<1>4. deletes < MaxDeletes /\ deletes' = deletes + 1
  BY DEF Health!Delete
<1> QED BY <1>1, <1>2, <1>3, <1>4, HealthAssumption DEF HealthFine, ExportsTyped

LEMMA PruneTyped ==
  ASSUME HealthFine, Health!Prune
  PROVE  ledger' \in [Health!Ids -> Health!Row] /\ ExportsTyped' /\ torn' \subseteq Health!Ids
<1> DEFINE S == Health!Chain(Health!Affected)
           after == [i \in Health!Ids |->
                       IF i \in S THEN Health!Tombstone(ledger[i]) ELSE ledger[i]]
           voided(e) == IF e = Health!NoExport \/ e.lost \/ S = {} THEN e ELSE Health!Invalidated(e)
           swept(e) == IF e # Health!NoExport /\ ~e.lost /\ e.expires <= day
                       THEN [e EXCEPT !.lost = TRUE, !.items = <<>>] ELSE e
<1>1. /\ ledger' = [i \in Health!Ids |->
           IF after[i].state = "tomb" /\ after[i].expires <= day THEN Health!NoRow ELSE after[i]]
      /\ exports' = [c \in Consumers |-> swept(voided(exports[c]))]
      /\ torn' = torn \cup (S \ Health!Affected)
  BY DEF Health!Prune
<1>2. S \subseteq Health!Live(ledger)
  <2>1. Health!Expired \cap Health!Live(ledger) \in SUBSET Health!Live(ledger)
    OBVIOUS
  <2>2. Health!Affected \in SUBSET Health!Live(ledger)
    BY <2>1, DependentsHold DEF Health!Affected
  <2> QED BY <2>2, ChainHolds
<1> HIDE DEF S
<1>3. ASSUME NEW i \in Health!Ids PROVE ledger'[i] \in Health!Row
  <2>1. PICK row, T : row = after[i] /\ T = S
    OBVIOUS
  <2>2. row = IF i \in T THEN Health!Tombstone(ledger[i]) ELSE ledger[i]
    BY <2>1
  <2>3. row \in Health!Row
    BY <1>2, <2>1, <2>2, DeletedTyped
  <2>4. ledger'[i] = Health!NoRow \/ ledger'[i] = row
    BY <1>1, <2>1
  <2> QED BY <2>3, <2>4 DEF Health!Row
<1>4. ASSUME NEW c \in Consumers PROVE ExportTyped(exports'[c])
  <2>1. PICK e, v : e = exports[c] /\ v = voided(e)
    OBVIOUS
  <2>2. ExportTyped(e)
    BY <2>1 DEF HealthFine, ExportsTyped
  <2>3. v = e \/ v = Health!Invalidated(e)
    BY <2>1
  <2>4. ExportTyped(v)
    BY <2>2, <2>3, EmptiedTyped
  <2>5. PICK w : w = exports'[c]
    OBVIOUS
  <2>6. w = IF v # Health!NoExport /\ ~v.lost /\ v.expires <= day
            THEN [v EXCEPT !.lost = TRUE, !.items = <<>>] ELSE v
    BY <1>1, <2>1, <2>5
  <2>7. CASE w = v
    BY <2>4, <2>5, <2>7
  <2>8. CASE v # Health!NoExport /\ w = [v EXCEPT !.lost = TRUE, !.items = <<>>]
    BY <2>4, <2>5, <2>8, EmptiedTyped
  <2> QED BY <2>6, <2>7, <2>8
<1>5. torn' \subseteq Health!Ids
  BY <1>1, <1>2 DEF HealthFine, Health!Live
<1> HIDE DEF after, voided, swept
<1> QED BY <1>1, <1>3, <1>4, <1>5 DEF ExportsTyped

LEMMA HealthFineKept ==
  ASSUME HealthFine, [Health!Next]_(Health!vars)
  PROVE  HealthFine'
<1>1. HealthInv' /\ ExportsHold(Health!Live(ledger))'
  BY HealthNextKeeps, ExportsNextHold DEF HealthFine
<1>2. ASSUME NEW level \in RecordLevels, NEW r \in Records, Health!Store(level, r)
      PROVE  HealthFine'
  <2>1. ledger' \in [Health!Ids -> Health!Row]
    BY <1>2, StoreTyped
  <2>2. UNCHANGED <<exports, torn, deletes, day>>
    BY <1>2 DEF Health!Store
  <2> QED BY <1>1, <2>1, <2>2 DEF HealthFine, ExportsTyped
<1>3. ASSUME NEW level \in RecordLevels, Health!Delete(level)
      PROVE  HealthFine'
  <2>1. UNCHANGED <<torn, day>>
    BY <1>3 DEF Health!Delete
  <2> QED BY <1>1, <1>3, <2>1, DeleteTyped DEF HealthFine
<1>4. CASE Health!Prune
  <2>1. UNCHANGED <<deletes, day>>
    BY <1>4 DEF Health!Prune
  <2> QED BY <1>1, <1>4, <2>1, PruneTyped DEF HealthFine
<1>5. ASSUME NEW c \in Consumers, Health!Export(c) \/ Health!NextPage(c)
      PROVE  HealthFine'
  <2>1. UNCHANGED <<ledger, torn, deletes, day>>
    BY <1>5 DEF Health!Export, Health!NextPage
  <2>2. ExportsTyped'
    BY <1>5, PagedTyped
  <2> QED BY <1>1, <2>1, <2>2 DEF HealthFine
<1>6. CASE Health!Restart
  <2>1. UNCHANGED <<ledger, torn, deletes, day>> /\ exports' = [c \in Consumers |-> Health!NoExport]
    BY <1>6 DEF Health!Restart
  <2>2. ExportsTyped'
    BY <2>1 DEF ExportsTyped, ExportTyped
  <2> QED BY <1>1, <2>1, <2>2 DEF HealthFine
<1>7. CASE Health!Tick
  <2>1. UNCHANGED <<ledger, torn, deletes, exports>> /\ day < MaxDay /\ day' = day + 1
    BY <1>7 DEF Health!Tick
  <2>2. day' \in 0 .. MaxDay
    BY <2>1, HealthAssumption DEF HealthFine
  <2> QED BY <1>1, <2>1, <2>2 DEF HealthFine, ExportsTyped
<1>8. CASE UNCHANGED Health!vars
  <2>1. UNCHANGED <<ledger, torn, deletes, exports, day>>
    BY <1>8 DEF Health!vars
  <2> QED BY <1>1, <2>1 DEF HealthFine, ExportsTyped
<1> QED BY <1>2, <1>3, <1>4, <1>5, <1>6, <1>7, <1>8 DEF Health!Next

\* The ledger's rows, the exports of every consumer and the clock keep their
\* types whatever is stored, deleted, pruned and paged through.
THEOREM HealthTypeCorrect == Health!Spec => []Health!TypeOK
<1>1. Health!Init => HealthFine
  <2> SUFFICES ASSUME Health!Init PROVE HealthFine
    OBVIOUS
  <2>1. HealthInv /\ ExportsHold(Health!Live(ledger))
    BY HealthInitHolds, ExportsInitHold
  <2>2. ExportsTyped /\ torn = {} /\ deletes = 0 /\ day = 0
    BY DEF Health!Init, ExportsTyped, ExportTyped
  <2>3. ledger \in [Health!Ids -> Health!Row]
    BY DEF Health!Init, Health!Row
  <2> QED BY <2>1, <2>2, <2>3, HealthAssumption DEF HealthFine
<1> QED BY <1>1, HealthFineKept, HealthTyped, PTL DEF Health!Spec

\* A row is of one of the numbered sources, has a number within the bounds and
\* a date that has come; the numbers of a table are no more than its rows.
Placed(r) == r.id \in 1 .. (MaxRows + MaxSteps) /\ r.source <= MaxSources /\ r.at <= MaxAge
Numbered(rs) == \A r \in rs : r.id <= Cardinality(rs)

\* A restricted entry's rows are deleted and no row is numbered any more.
Fits(all, e) == Table(all) /\ (\A r \in all : Placed(r)) /\ (e.restricted \/ Numbered(all))

EntryFits(e) == e.source <= MaxSources /\ e.at <= MaxAge /\ Cardinality(e.steps) <= MaxSteps

NumbersOf(rs) == {r.id : r \in rs}

LEMMA NumbersCounted ==
  ASSUME NEW rs, IsFiniteSet(rs), \A r, q \in rs : r.id = q.id => r = q
  PROVE  IsFiniteSet(NumbersOf(rs)) /\ Cardinality(NumbersOf(rs)) = Cardinality(rs)
<1> DEFINE f == [r \in rs |-> r.id]
<1>1. /\ f \in [rs -> NumbersOf(rs)] /\ \A n \in NumbersOf(rs) : \E r \in rs : f[r] = n
      /\ \A r, q \in rs : f[r] = f[q] => r = q
  BY DEF NumbersOf
<1> HIDE DEF f
<1>2. f \in Bijection(rs, NumbersOf(rs))
  BY <1>1 DEF Bijection, Injection, Surjection, IsInjective
<1> QED BY <1>2, FS_Bijection DEF ExistsBijection

LEMMA BecomesPlaced ==
  ASSUME NEW respelled, NEW r \in CommitRow, NEW derived, NEW pairs, NEW e
  PROVE  Becomes(derived, pairs, e, respelled, r).at \in {r.at, age, 0}
<1> PICK q : q = Becomes(derived, pairs, e, respelled, r)
  OBVIOUS
<1>1. CASE q = Track!Kept(r, e, respelled)
  <2>1. q = [r EXCEPT !.sure = q.sure] \/ q.at = age
    BY <1>1 DEF Track!Kept, CommitRow
  <2>2. [r EXCEPT !.sure = q.sure].at = r.at
    BY DEF CommitRow
  <2>3. q.at = r.at \/ q.at = age
    BY <2>1, <2>2
  <2> QED BY <2>3
<1>2. ASSUME NEW s, q = Track!Revised(r, s, e) PROVE q.at = age
  BY <1>2 DEF Track!Revised, CommitRow
<1>3. CASE q = Track!Gone(r)
  BY <1>3 DEF Track!Gone, Track!Closed, CommitRow
<1>4. q = Track!Kept(r, e, respelled) \/ (\E s : q = Track!Revised(r, s, e)) \/ q = Track!Gone(r)
  BY DEF Becomes
<1> QED BY <1>1, <1>2, <1>3, <1>4

\* A diff adds a row for each wording that is new, and keeps the others' numbers.
LEMMA MergedNumbers ==
  ASSUME NEW respelled, NEW all, Table(all), NEW e \in StatusEntry, age \in Nat,
         NEW mine, NEW derived, NEW pairs, NEW f, NEW wordings, NEW new, NEW rs,
         Parted(all, e, respelled, mine, derived, pairs, f, wordings, new, rs),
         \A r \in mine : f[r].id = r.id,
         IsFiniteSet(wordings), NewRows(new, all, wordings, e),
         NewNumbers(new, all, Cardinality(wordings)), Table(rs)
  PROVE  /\ Cardinality(rs) = Cardinality(all) + Cardinality(wordings)
         /\ Numbered(all) => Numbered(rs)
<1>1. NumbersOf(rs) = NumbersOf(all) \cup NumbersOf(new)
  <2>1. ASSUME NEW q \in rs PROVE q.id \in NumbersOf(all) \cup NumbersOf(new)
    <3>1. q \in all \/ q \in new \/ \E r \in mine : q = f[r]
      BY DEF Parted
    <3>2. ASSUME NEW r \in mine, q = f[r] PROVE r \in all /\ q.id = r.id
      BY <3>2 DEF Parted
    <3>3. \E r \in all \cup new : q.id = r.id
      BY <3>1, <3>2
    <3> QED BY <3>3 DEF NumbersOf
  <2>2. ASSUME NEW q \in new PROVE q.id \in NumbersOf(rs)
    BY DEF Parted, NumbersOf
  <2>3. ASSUME NEW q \in all PROVE q.id \in NumbersOf(rs)
    <3>1. CASE q \in mine
      <4>1. f[q] \in rs /\ f[q].id = q.id
        BY <3>1 DEF Parted
      <4> QED BY <4>1 DEF NumbersOf
    <3>2. CASE q \notin mine
      BY <3>2 DEF Parted, NumbersOf
    <3> QED BY <3>1, <3>2
  <2> QED BY <2>1, <2>2, <2>3 DEF NumbersOf
<1>2. NumbersOf(all) \cap NumbersOf(new) = {}
  BY DEF NewRows, NumbersOf
<1>3. /\ IsFiniteSet(NumbersOf(all)) /\ Cardinality(NumbersOf(all)) = Cardinality(all)
      /\ Cardinality(NumbersOf(rs)) = Cardinality(rs)
  BY NumbersCounted DEF Table
<1>4. IsFiniteSet(NumbersOf(new)) /\ Cardinality(NumbersOf(new)) = Cardinality(wordings)
  BY NumbersCounted DEF NewRows, NewNumbers
<1>5. Cardinality(all) \in Nat /\ Cardinality(wordings) \in Nat
  BY FS_CardinalityType DEF Table
<1>6. Cardinality(rs) = Cardinality(all) + Cardinality(wordings)
  <2>1. Cardinality({}) = 0
    BY FS_EmptySet
  <2>2. /\ Cardinality(NumbersOf(all) \cup NumbersOf(new))
             = Cardinality(NumbersOf(all)) + Cardinality(NumbersOf(new))
               - Cardinality(NumbersOf(all) \cap NumbersOf(new))
    BY <1>3, <1>4, FS_Union
  <2>3. Cardinality(NumbersOf(all) \cap NumbersOf(new)) = 0
    BY <1>2, <2>1
  <2>4. Cardinality(NumbersOf(all) \cup NumbersOf(new)) = Cardinality(rs)
    BY <1>1, <1>3
  <2>5. Cardinality(rs) = Cardinality(all) + Cardinality(wordings) - 0
    BY <1>3, <1>4, <2>2, <2>3, <2>4
  <2> QED BY <1>5, <2>5
<1>7. ASSUME Numbered(all), NEW q \in rs PROVE q.id <= Cardinality(rs)
  <2>1. CASE q \in all
    <3>1. q.id \in Nat /\ q.id <= Cardinality(all)
      BY <1>7, <2>1 DEF Numbered, Table, CommitRow
    <3> QED BY <1>5, <1>6, <3>1
  <2>2. ASSUME NEW r \in mine, q = f[r] PROVE q.id <= Cardinality(rs)
    <3>1. r \in all /\ q.id = r.id
      BY <2>2 DEF Parted
    <3>2. r.id \in Nat /\ r.id <= Cardinality(all)
      BY <1>7, <3>1 DEF Numbered, Table, CommitRow
    <3> QED BY <1>5, <1>6, <3>1, <3>2
  <2>3. CASE q \in new
    <3>1. \A r \in all : r.id <= Cardinality(all)
      BY <1>7 DEF Numbered
    <3>2. q.id \in 1 .. (Cardinality(all) + Cardinality(wordings))
      BY <1>5, <2>3, <3>1 DEF NewNumbers
    <3> QED BY <1>5, <1>6, <3>2
  <2> QED BY <2>1, <2>2, <2>3 DEF Parted
<1> QED BY <1>6, <1>7 DEF Numbered

\* The rows fit after a diff, which adds no more than the steps of a text.
LEMMA SyncedFits ==
  ASSUME NEW respelled, NEW all, NEW e \in StatusEntry, Fits(all, e), EntryFits(e),
         age \in Nat, age <= MaxAge, Cardinality(all) <= MaxRows,
         \A r \in all : r.status = "open" => r.source = e.source
  PROVE  /\ Fits(Track!Synced(all, e, respelled), e)
         /\ Cardinality(Track!Synced(all, e, respelled)) <= Cardinality(all) + MaxSteps
<1> USE CommitmentsAssumption
<1> PICK mine : mine = {r \in all : r.source = e.source}
  OBVIOUS
<1> PICK derived : derived = Track!Derived(e)
  OBVIOUS
<1> PICK pairs : pairs = Track!Revisions(mine, derived)
  OBVIOUS
<1> PICK wordings : wordings = Track!Fresh(mine, derived) \ {p[2] : p \in pairs}
  OBVIOUS
<1> PICK new : new = Track!Inserted(wordings, all, e)
  OBVIOUS
<1> PICK rs : rs = Track!Synced(all, e, respelled)
  OBVIOUS
<1>1. Track!Synced(all, e, respelled) = IF e.restricted THEN all \ mine
        ELSE (all \ mine) \cup {Becomes(derived, pairs, e, respelled, r) : r \in mine} \cup new
  BY DEF Track!Synced, Becomes
<1>2. Table(all) /\ IsFiniteSet(all) /\ Cardinality(all) \in Nat /\ Table(rs)
  <2>1. Table(all)
    BY DEF Fits
  <2>2. Diffs(all, e, rs)
    BY <2>1, SyncedHolds
  <2> QED BY <2>1, <2>2, FS_CardinalityType DEF Table, Diffs
<1>3. CASE e.restricted
  <2>1. rs \in SUBSET all
    BY <1>1, <1>3
  <2>2. Cardinality(rs) <= Cardinality(all) /\ Cardinality(rs) \in Nat
    BY <1>2, <2>1, FS_Subset, FS_CardinalityType
  <2>3. Cardinality(rs) <= Cardinality(all) + MaxSteps
    BY <1>2, <2>2
  <2> QED BY <1>2, <1>3, <2>1, <2>3 DEF Fits
<1>4. CASE ~e.restricted
  <2>1. mine \in SUBSET CommitRow /\ mine \in SUBSET all /\ derived \in SUBSET e.steps
        /\ derived \in SUBSET Steps
    BY <1>2 DEF Table, Track!Derived, StatusEntry
  <2>2. PICK f : f = [r \in mine |-> Becomes(derived, pairs, e, respelled, r)]
    OBVIOUS
  <2>3. ASSUME NEW r \in mine
        PROVE  /\ f[r] = Becomes(derived, pairs, e, respelled, r) /\ f[r] \in CommitRow /\ f[r].id = r.id
               /\ f[r].source = r.source /\ f[r].at \in {r.at, age, 0}
    <3>1. Became(derived, pairs, r, Becomes(derived, pairs, e, respelled, r))
      BY <2>1, BecomesHolds
    <3>2. Becomes(derived, pairs, e, respelled, r).at \in {r.at, age, 0}
      BY <2>1, BecomesPlaced
    <3> QED BY <2>2, <3>1, <3>2 DEF Became
  <2>4. f \in [mine -> CommitRow]
    BY <2>2, <2>3
  <2>5. rs = (all \ mine) \cup {f[r] : r \in mine} \cup new
    BY <1>1, <1>4, <2>3
  <2>6. Parted(all, e, respelled, mine, derived, pairs, f, wordings, new, rs)
    BY <1>4, <2>3, <2>4, <2>5 DEF Parted
  <2>7. wordings \in SUBSET e.steps /\ wordings \in SUBSET Steps
    BY <2>1 DEF Track!Fresh
  <2>8. NewRows(new, all, wordings, e) /\ NewNumbers(new, all, Cardinality(wordings))
    BY <1>2, <2>7, InsertedHolds
  <2>9. /\ IsFiniteSet(wordings) /\ Cardinality(wordings) \in Nat
        /\ Cardinality(wordings) <= MaxSteps
    <3>1. IsFiniteSet(e.steps)
      BY FS_Subset DEF StatusEntry
    <3>2. IsFiniteSet(wordings) /\ Cardinality(wordings) <= Cardinality(e.steps)
      BY <2>7, <3>1, FS_Subset
    <3>3. Cardinality(wordings) \in Nat /\ Cardinality(e.steps) \in Nat
      BY <3>1, <3>2, FS_CardinalityType
    <3> QED BY <3>2, <3>3 DEF EntryFits
  <2>10. /\ Cardinality(rs) = Cardinality(all) + Cardinality(wordings) /\ Numbered(rs)
    <3>1. \A r \in mine : f[r].id = r.id
      BY <2>3
    <3>2. Numbered(all)
      BY <1>4 DEF Fits
    <3>3. /\ Cardinality(rs) = Cardinality(all) + Cardinality(wordings)
          /\ Numbered(all) => Numbered(rs)
      BY <1>2, <2>6, <2>8, <2>9, <3>1, MergedNumbers
    <3> QED BY <3>2, <3>3
  <2>11. ASSUME NEW q \in rs PROVE Placed(q)
    <3>1. CASE q \in all
      BY <3>1 DEF Fits
    <3>2. ASSUME NEW r \in mine, q = f[r] PROVE Placed(q)
      <4>1. Placed(r) /\ f[r].id = r.id /\ f[r].source = r.source /\ f[r].at \in {r.at, age, 0}
        BY <2>1, <2>3 DEF Fits
      <4> QED BY <3>2, <4>1 DEF Placed
    <3>3. CASE q \in new
      <4>1. q.id \in 1 .. (Cardinality(all) + Cardinality(wordings))
        BY <1>2, <1>4, <2>8, <3>3 DEF NewNumbers, Fits, Numbered
      <4>2. q.source = e.source /\ q.at = e.at
        BY <2>8, <3>3 DEF NewRows
      <4>3. q.id \in 1 .. (MaxRows + MaxSteps)
        BY <1>2, <2>9, <4>1
      <4> QED BY <4>2, <4>3 DEF Placed, EntryFits
    <3> QED BY <2>1, <2>5, <3>1, <3>2, <3>3
  <2>12. Cardinality(rs) <= Cardinality(all) + MaxSteps
    BY <1>2, <2>9, <2>10
  <2> QED BY <1>2, <2>10, <2>11, <2>12 DEF Fits
<1> QED BY <1>3, <1>4

\* So do they after a caller's diff, be it one that tracks the namespace or not.
LEMMA DiffedFits ==
  ASSUME NEW respelled, NEW all, NEW e \in StatusEntry, Fits(all, e), EntryFits(e), NEW c,
         age \in Nat, age <= MaxAge, Cardinality(all) <= MaxRows,
         \A r \in all : r.status = "open" => r.source = e.source
  PROVE  /\ Fits(Track!Diffed(c, all, e, respelled), e)
         /\ Cardinality(Track!Diffed(c, all, e, respelled)) <= Cardinality(all) + MaxSteps
         /\ \A r \in Track!Diffed(c, all, e, respelled) : r.status = "open" => r.source = e.source
<1>1. CASE c \in Trackers
  <2>1. Track!Diffed(c, all, e, respelled) = Track!Synced(all, e, respelled)
    <3>1. Track!Seen(c, e) = e
      BY <1>1 DEF Track!Seen, StatusEntry
    <3> QED BY <1>1, <3>1 DEF Track!Diffed, Track!Tracks
  <2>2. \A r \in Track!Synced(all, e, respelled) : r.status = "open" => r.source = e.source
    <3>1. Table(all)
      BY DEF Fits
    <3>2. Diffs(all, e, Track!Synced(all, e, respelled))
      BY <3>1, SyncedHolds
    <3> QED BY <3>2 DEF Diffs
  <2> QED BY <2>1, <2>2, SyncedFits
<1>2. CASE c \notin Trackers
  <2>1. Track!Diffed(c, all, e, respelled) = all
    BY <1>2 DEF Track!Diffed, Track!Tracks
  <2>2. Cardinality(all) \in Nat
    BY FS_CardinalityType DEF Fits, Table
  <2>3. Cardinality(all) <= Cardinality(all) + MaxSteps
    BY <2>2, CommitmentsAssumption
  <2> QED BY <2>1, <2>3
<1> QED BY <1>1, <1>2

TrackFine == TrackInv /\ EntryFits(entry) /\ age <= MaxAge /\ Fits(rows, entry)

LEMMA StepsAreCounted == \A S : Track!Cardinality(S) = Cardinality(S)
BY DEF Track!Cardinality, Cardinality

LEMMA TrackTyped ==
  ASSUME TrackFine
  PROVE  Track!TypeOK
<1>1. entry \in [source : 0 .. MaxSources, steps : SUBSET Steps, ended : BOOLEAN,
                 restricted : BOOLEAN, at : 0 .. MaxAge]
  BY CommitmentsAssumption DEF TrackFine, TrackInv, StatusEntry, EntryFits
<1>2. ASSUME NEW r \in rows PROVE r \in Track!Rows
  <2>1. r \in CommitRow /\ Placed(r)
    BY DEF TrackFine, TrackInv, Fits, Table
  <2>2. r.source \in 0 .. MaxSources /\ r.at \in 0 .. MaxAge
    BY <2>1, CommitmentsAssumption DEF CommitRow, Placed
  <2> QED BY <2>1, <2>2 DEF CommitRow, Placed, Track!Rows, CommitStates, Sureness
<1>3. fresh \in BOOLEAN
  BY DEF TrackFine, TrackInv
<1>4. age \in 0 .. MaxAge
  BY CommitmentsAssumption DEF TrackFine, TrackInv
<1> QED BY <1>1, <1>2, <1>3, <1>4 DEF Track!TypeOK

LEMMA WriteFits ==
  ASSUME TrackFine, NEW c, NEW text \in Track!Texts, NEW ended \in BOOLEAN,
         NEW restricted \in BOOLEAN, Track!Write(c, text, ended, restricted)
  PROVE  TrackFine'
<1>1. TrackInv' /\ text \in SUBSET Steps /\ Cardinality(text) <= MaxSteps
  BY WriteKeeps, StepsAreCounted DEF TrackFine, TrackKept, Track!Texts
<1> PICK e : e = entry'
  OBVIOUS
<1> PICK all : all = rows
  OBVIOUS
<1>2. /\ e \in StatusEntry /\ e.source = entry.source /\ e.steps = text /\ e.at = age
      /\ entry.restricted => e.restricted
  BY <1>1 DEF TrackFine, TrackInv, Track!Write, StatusEntry
<1>3. age \in Nat /\ age <= MaxAge /\ EntryFits(e)
  BY <1>1, <1>2 DEF TrackFine, TrackInv, EntryFits
<1>4. Fits(all, e) /\ \A r \in all : r.status = "open" => r.source = e.source
  BY <1>2 DEF TrackFine, TrackInv, Fits
<1>5. Cardinality(all) <= MaxRows
  <2>1. Cardinality(all) <= MaxRows - MaxSteps /\ Cardinality(all) \in Nat
    BY <1>4, StepsAreCounted, FS_CardinalityType DEF Track!Write, Fits, Table
  <2> QED BY <2>1, CommitmentsAssumption
<1>7. PICK respelled \in SUBSET text : rows' = Track!Diffed(c, all, e, respelled)
  BY DEF Track!Write
<1>8. age' = age
  BY DEF Track!Write
<1>6. Fits(Track!Diffed(c, all, e, respelled), e)
  BY <1>2, <1>3, <1>4, <1>5, DiffedFits
<1> QED BY <1>1, <1>3, <1>6, <1>7, <1>8 DEF TrackFine

LEMMA CorrectFits ==
  ASSUME TrackFine, NEW c, NEW text \in Track!Texts, Track!Correct(c, text)
  PROVE  TrackFine'
<1>1. TrackInv' /\ text \in SUBSET Steps /\ Cardinality(text) <= MaxSteps
  BY CorrectKeeps, StepsAreCounted DEF TrackFine, TrackKept, Track!Texts
<1> PICK e : e = entry'
  OBVIOUS
<1> PICK all : all = {Track!Cancelled(r) : r \in rows}
  OBVIOUS
<1>2. e \in StatusEntry
  BY <1>1 DEF TrackInv
<1>3. /\ e.source = entry.source + 1 /\ entry.source < MaxSources /\ e.steps = text
      /\ e.at = age /\ e.restricted = entry.restricted
  BY DEF TrackFine, TrackInv, Track!Correct, StatusEntry
<1>4. age \in Nat /\ age <= MaxAge /\ EntryFits(e)
  <2>1. entry.source \in Nat
    BY DEF TrackFine, TrackInv, StatusEntry
  <2>2. e.source <= MaxSources
    BY <1>3, <2>1, CommitmentsAssumption
  <2> QED BY <1>1, <1>3, <2>2 DEF TrackFine, TrackInv, EntryFits
<1>5. Table(all) /\ \A q \in all : q.status # "open"
  BY CancelledHolds DEF TrackFine
<1>6. ASSUME NEW r \in rows
      PROVE  /\ Track!Cancelled(r).id = r.id /\ Track!Cancelled(r).source = r.source
             /\ Track!Cancelled(r).at \in {r.at, 0}
  <2>1. r \in CommitRow
    BY DEF TrackFine, TrackInv, Table
  <2>2. CASE r.source = entry.source /\ r.status = "open"
    <3>1. Track!Cancelled(r) = [r EXCEPT !.status = "cancelled", !.at = 0, !.sure = 0]
      BY <2>2 DEF Track!Cancelled, Track!Closed
    <3> QED BY <2>1, <3>1 DEF CommitRow
  <2>3. CASE ~(r.source = entry.source /\ r.status = "open")
    <3>1. Track!Cancelled(r) = r
      BY <2>3 DEF Track!Cancelled
    <3> QED BY <3>1
  <2> QED BY <2>2, <2>3
<1>7. Cardinality(all) = Cardinality(rows) /\ Cardinality(rows) \in Nat
  <2>1. NumbersOf(all) = NumbersOf(rows)
    BY <1>6 DEF NumbersOf
  <2>2. PICK before : before = rows
    OBVIOUS
  <2>3. Table(before)
    BY <2>2 DEF TrackFine, TrackInv
  <2>4. /\ Cardinality(NumbersOf(all)) = Cardinality(all)
        /\ Cardinality(NumbersOf(before)) = Cardinality(before) /\ Cardinality(before) \in Nat
    BY <1>5, <2>3, NumbersCounted, FS_CardinalityType DEF Table
  <2> QED BY <2>1, <2>2, <2>4
<1>8. Fits(all, e)
  <2>1. ASSUME NEW q \in all PROVE Placed(q) /\ (e.restricted \/ q.id <= Cardinality(all))
    <3>1. PICK r \in rows : q = Track!Cancelled(r)
      OBVIOUS
    <3>2. Placed(r) /\ (entry.restricted \/ r.id <= Cardinality(rows))
      BY DEF TrackFine, Fits, Numbered
    <3>3. q.id = r.id /\ q.source = r.source /\ q.at \in {r.at, 0}
      BY <1>6, <3>1
    <3> QED BY <1>3, <1>7, <3>2, <3>3, CommitmentsAssumption DEF Placed
  <2> QED BY <1>5, <2>1 DEF Fits, Numbered
<1>9. Cardinality(all) <= MaxRows
  <2>1. Cardinality(rows) <= MaxRows - MaxSteps
    BY StepsAreCounted DEF Track!Correct
  <2> QED BY <1>7, <2>1, CommitmentsAssumption
<1>10. Fits(Track!Diffed(c, all, e, {}), e)
  BY <1>2, <1>4, <1>5, <1>8, <1>9, DiffedFits
<1>11. rows' = Track!Diffed(c, all, e, {}) /\ age' = age
  BY DEF Track!Correct
<1> QED BY <1>1, <1>4, <1>10, <1>11 DEF TrackFine

LEMMA ReadFits ==
  ASSUME TrackFine, NEW c, Track!Read(c)
  PROVE  TrackFine'
<1>1. TrackInv'
  BY ReadKeeps DEF TrackFine, TrackKept
<1> PICK e : e = entry
  OBVIOUS
<1> PICK all : all = rows
  OBVIOUS
<1>9. PICK respelled \in SUBSET Track!Unseen :
        rows' = Track!Refreshed(c, Track!Diffed(c, all, e, respelled))
  BY DEF Track!Read
<1> PICK once : once = Track!Diffed(c, all, e, respelled)
  OBVIOUS
<1>2. /\ entry' = e /\ age' = age
      /\ rows' = once \/ rows' = Track!Diffed(c, once, e, {})
  BY <1>9 DEF Track!Read, Track!Refreshed
<1>3. /\ e \in StatusEntry /\ EntryFits(e) /\ age \in Nat /\ age <= MaxAge /\ Fits(all, e)
      /\ \A r \in all : r.status = "open" => r.source = e.source
  BY DEF TrackFine, TrackInv
<1>4. Cardinality(all) <= MaxRows - MaxSteps /\ Cardinality(all) \in Nat
  BY <1>3, StepsAreCounted, FS_CardinalityType DEF Track!Read, Fits, Table
<1>5. Cardinality(all) <= MaxRows
  BY <1>4, CommitmentsAssumption
<1>6. /\ Fits(once, e) /\ Cardinality(once) <= Cardinality(all) + MaxSteps
      /\ \A r \in once : r.status = "open" => r.source = e.source
  BY <1>3, <1>5, DiffedFits
<1>7. Cardinality(once) <= MaxRows
  <2>1. Cardinality(once) \in Nat
    BY <1>6, FS_CardinalityType DEF Fits, Table
  <2> QED BY <1>4, <1>6, <2>1, CommitmentsAssumption
<1>8. Fits(Track!Diffed(c, once, e, {}), e)
  BY <1>3, <1>6, <1>7, DiffedFits
<1> QED BY <1>1, <1>2, <1>3, <1>6, <1>8 DEF TrackFine

LEMMA TrackInitFits == Track!Init => TrackFine
<1> SUFFICES ASSUME Track!Init PROVE TrackFine
  OBVIOUS
<1>1. PICK s \in Steps \ Dated, st \in {"open", "cancelled"} :
        /\ entry = [source |-> 0, steps |-> {s}, ended |-> FALSE, restricted |-> FALSE, at |-> 0]
        /\ rows = {[id |-> 1, source |-> 0, step |-> s, old |-> TRUE, status |-> st,
                    at |-> 0, sure |-> IF st = "open" THEN 2 ELSE 0]}
        /\ age = 0
  BY DEF Track!Init
<1> PICK row : row = [id |-> 1, source |-> 0, step |-> s, old |-> TRUE, status |-> st,
                      at |-> 0, sure |-> IF st = "open" THEN 2 ELSE 0]
  OBVIOUS
<1>2. rows = {row} /\ row.id = 1 /\ row.source = 0 /\ row.at = 0
  BY <1>1
<1>3. Cardinality(rows) = 1 /\ Cardinality(entry.steps) = 1
  BY <1>1, <1>2, FS_Singleton
<1>4. TrackInv /\ Table(rows)
  BY TrackInitHolds DEF TrackInv
<1>5. Fits(rows, entry)
  <2>1. Placed(row) /\ row.id <= Cardinality(rows)
    BY <1>2, <1>3, CommitmentsAssumption DEF Placed
  <2> QED BY <1>2, <1>4, <2>1 DEF Fits, Numbered
<1>6. EntryFits(entry)
  BY <1>1, <1>3, CommitmentsAssumption DEF EntryFits
<1> QED BY <1>1, <1>4, <1>5, <1>6, CommitmentsAssumption DEF TrackFine

LEMMA TrackFineKept ==
  ASSUME TrackFine, [Track!Next]_(Track!vars)
  PROVE  TrackFine'
<1>1. CASE Track!Tick
  <2>1. TrackInv'
    BY TrackNextKeeps DEF TrackFine, TrackKept
  <2>2. UNCHANGED <<entry, rows>> /\ age < MaxAge /\ age' = age + 1
    BY <1>1 DEF Track!Tick
  <2>3. age' <= MaxAge
    BY <2>2, CommitmentsAssumption DEF TrackFine, TrackInv
  <2> QED BY <2>1, <2>2, <2>3 DEF TrackFine
<1>2. CASE UNCHANGED Track!vars
  <2>1. TrackInv'
    BY TrackNextKeeps DEF TrackFine, TrackKept
  <2>2. UNCHANGED <<entry, rows, age>>
    BY <1>2 DEF Track!vars
  <2> QED BY <2>1, <2>2 DEF TrackFine
<1> QED BY <1>1, <1>2, WriteFits, CorrectFits, ReadFits DEF Track!Next

\* A status entry and the rows of its commitments keep their types: a diff gives
\* the table no more rows than its text has steps and no number beyond them.
THEOREM TrackTypeCorrect == Track!Spec => []Track!TypeOK
BY TrackInitFits, TrackFineKept, TrackTyped, PTL DEF Track!Spec

-----------------------------------------------------------------------------

\* All eight parts of the server keep their types together, whatever any of them
\* does: each has an inductive invariant of its own, and none is bounded by more
\* than the bounds that its actions name.
THEOREM PartsTypeCorrect ==
  Admit!Spec /\ Stop!Spec /\ Query!Spec /\ Device!Spec /\ Track!Spec /\ Health!Spec
    /\ History!Spec /\ Analytics!Spec => []PartsTypeOK
BY AdmissionTypeCorrect, StopTypeCorrect, QueryTypeCorrect, DeviceTypeCorrect, TrackTypeCorrect,
   HealthTypeCorrect, HistoryTypeCorrect, AnalyticsTypeCorrect, PTL DEF PartsTypeOK

=============================================================================
