-------------------------- MODULE ConsolidationProofs --------------------------
(* Theorems about the consolidation worker, for any number of processes,    *)
(* namespaces, logs and edits, any clock and any limits.                    *)
EXTENDS Consolidation, FiniteSetTheorems, TLAPS

-----------------------------------------------------------------------------
(* Numbers and positions *)

\* A finite set has a member that nothing in it lies beyond.
LEMMA Greatest ==
  ASSUME NEW W, IsFiniteSet(W), W # {}, NEW R,
         \A i \in W : <<i, i>> \notin R,
         \A i, j, k \in W : <<i, j>> \in R /\ <<j, k>> \in R => <<i, k>> \in R
  PROVE  \E i \in W : \A j \in W : <<j, i>> \notin R
<1> DEFINE Above(i) == {j \in W : <<j, i>> \in R}
           Sets == {Above(i) : i \in W}
<1>1. \A i \in W : Above(i) \in FiniteSubsetsOf(W)
  BY FS_Subset DEF FiniteSubsetsOf
<1>2. Sets \subseteq FiniteSubsetsOf(W) /\ Sets # {}
  <2> HIDE DEF Above
  <2>1. PICK i \in W : TRUE
    OBVIOUS
  <2>2. Above(i) \in Sets
    BY <2>1
  <2> QED BY <1>1, <2>2
<1>3. PICK A \in Sets : \A B \in Sets : <<B, A>> \notin StrictSubsetOrdering(W)
  <2> HIDE DEF Sets
  <2> QED BY <1>2, FS_StrictSubsetOrderingWellFounded, WFMin
<1>4. PICK i \in W : A = Above(i)
  OBVIOUS
<1>5. SUFFICES ASSUME NEW j \in W, <<j, i>> \in R PROVE FALSE
  OBVIOUS
<1>6. Above(j) \subseteq Above(i)
  BY <1>5
<1>7. j \in Above(i) /\ j \notin Above(j)
  BY <1>5
<1>8. <<Above(j), A>> \in StrictSubsetOrdering(W)
  BY <1>4, <1>6, <1>7 DEF StrictSubsetOrdering
<1> QED BY <1>3, <1>8

LEMMA BeyondIsStrict ==
  ASSUME NEW p \in Position, NEW q \in Position, NEW r \in Position
  PROVE  /\ ~Beyond(p, p)
         /\ Beyond(p, q) /\ Beyond(q, r) => Beyond(p, r)
         /\ Beyond(p, q) \/ Beyond(q, p) \/ p = q
<1>1. p.at \in Nat /\ p.rank \in Nat /\ q.at \in Nat /\ q.rank \in Nat
      /\ r.at \in Nat /\ r.rank \in Nat
  BY DEF Position
<1>2. p = [at |-> p.at, rank |-> p.rank] /\ q = [at |-> q.at, rank |-> q.rank]
  BY DEF Position
<1> QED BY <1>1, <1>2 DEF Beyond

-----------------------------------------------------------------------------
(* The invariant *)

\* Logs are numbered in the order they come.
Indexed == \E k \in Nat : DOMAIN logs = 1 .. k

\* A log's id is its own.
RanksDiffer == \A i, j \in DOMAIN logs : logs[i].rank = logs[j].rank => i = j

\* Nothing was made from a log that is not there yet.
UnusedAreFresh == \A i \in Numbers \ DOMAIN logs : uses[i] = 0

\* What a model works on, or has worked on, had logs and could be sent.
Sendable ==
  \A p \in Processes :
    /\ \A j \in job[p] \cup review[p] : j.snapshot.window # {} /\ Permitted(j.snapshot)
    /\ \A s \in previews[p] : s.window # {} /\ Permitted(s)

IInv ==
  /\ TypeOK /\ Indexed /\ RanksDiffer /\ UnusedAreFresh
  /\ Sendable /\ DrainedOnce

LEMMA LogHasPosition ==
  ASSUME TypeOK, NEW i \in DOMAIN logs
  PROVE  PositionOf(i) \in Position /\ PositionOf(i).rank = logs[i].rank
<1>1. logs[i] \in Log
  BY DEF TypeOK
<1>2. logs[i].created_at \in Nat /\ logs[i].rank \in Nat
  BY <1>1 DEF Log, Numbers
<1> QED BY <1>2 DEF PositionOf, Position

\* Of two logs one is beyond the other.
LEMMA LogsAreOrdered ==
  ASSUME TypeOK, RanksDiffer, NEW i \in DOMAIN logs, NEW j \in DOMAIN logs, i # j
  PROVE  Beyond(PositionOf(i), PositionOf(j)) \/ Beyond(PositionOf(j), PositionOf(i))
<1>1. PositionOf(i) # PositionOf(j)
  BY LogHasPosition DEF RanksDiffer
<1> QED BY <1>1, LogHasPosition, BeyondIsStrict

LEMMA FiniteLogs ==
  ASSUME TypeOK
  PROVE  /\ IsFiniteSet(Numbers)
         /\ IsFiniteSet(DOMAIN logs)
         /\ \A n : IsFiniteSet(Backlog(n)) /\ IsFiniteSet(Window(n))
         /\ \A n : Window(n) \subseteq Backlog(n) /\ Backlog(n) \subseteq Numbers
<1>1. IsFiniteSet(Numbers)
  BY ConsolidationAssumption, FS_Interval DEF Numbers
<1>2. IsFiniteSet(DOMAIN logs)
  BY <1>1, FS_Subset DEF TypeOK
<1>3. \A n : Window(n) \subseteq Backlog(n) /\ Backlog(n) \subseteq DOMAIN logs
  BY DEF Window, Backlog
<1>4. \A n : IsFiniteSet(Backlog(n)) /\ IsFiniteSet(Window(n))
  BY <1>2, <1>3, FS_Subset
<1> QED BY <1>1, <1>2, <1>3, <1>4 DEF TypeOK

\* A log with an id not used yet has a number: there are not more logs than ids.
LEMMA NumberForOneMore ==
  ASSUME TypeOK, Indexed, RanksDiffer, NEW r \in Fresh
  PROVE  LET i == Cardinality(DOMAIN logs) + 1
         IN  i \in Numbers /\ DOMAIN logs \cup {i} = 1 .. i /\ i \notin DOMAIN logs
<1>1. PICK k \in Nat : DOMAIN logs = 1 .. k
  BY DEF Indexed
<1>2. Cardinality(DOMAIN logs) = k
  BY <1>1, FS_Interval
<1> DEFINE others == Numbers \ {r}
           ranks == [i \in DOMAIN logs |-> logs[i].rank]
<1>3. r \in Numbers /\ \A i \in DOMAIN logs : logs[i].rank \in others
  BY DEF Fresh, TypeOK, Log
<1>4. MaxLogs \in Nat /\ IsFiniteSet(Numbers) /\ Cardinality(Numbers) = MaxLogs
  <2>1. MaxLogs \in Nat
    BY ConsolidationAssumption
  <2> QED BY <2>1, FS_Interval DEF Numbers
<1>5. IsFiniteSet(others) /\ Cardinality(others) = MaxLogs - 1
  BY <1>3, <1>4, FS_RemoveElement
<1>6. ranks \in Injection(DOMAIN logs, others)
  BY <1>3 DEF Injection, IsInjective, RanksDiffer
<1>7. k <= MaxLogs - 1
  BY <1>2, <1>5, <1>6, FS_Injection
<1> QED BY <1>1, <1>2, <1>4, <1>7 DEF Numbers

\* Adding a log, with some of those there no longer current, keeps the table
\* and what is drained in order.
LEMMA LogAdded ==
  ASSUME TypeOK, Indexed, RanksDiffer, UnusedAreFresh, DrainedOnce,
         NEW n \in Namespaces, NEW t \in 1 .. MaxTime, NEW r \in Fresh,
         NEW table \in [DOMAIN logs -> Log],
         \A i \in DOMAIN logs :
           /\ table[i].ns = logs[i].ns /\ table[i].created_at = logs[i].created_at
           /\ table[i].rank = logs[i].rank
           /\ table[i].is_current => logs[i].is_current,
         logs' = WithLog(table, n, t, r), late' = LateWith(n, t, r),
         meta' = meta, uses' = uses
  PROVE  /\ DOMAIN logs' \subseteq Numbers /\ logs' \in [DOMAIN logs' -> Log]
         /\ late' \subseteq DOMAIN logs'
         /\ Indexed' /\ RanksDiffer' /\ UnusedAreFresh' /\ DrainedOnce'
<1> DEFINE k == Cardinality(DOMAIN logs) + 1
           row == [ns |-> n, created_at |-> t, rank |-> r, is_current |-> TRUE]
<1>1. k \in Numbers /\ DOMAIN logs \cup {k} = 1 .. k /\ k \notin DOMAIN logs
  BY NumberForOneMore
<1> HIDE DEF k
<1>2. logs' = [j \in DOMAIN logs \cup {k} |-> IF j = k THEN row ELSE table[j]]
  BY DEF WithLog, k
<1>3. row \in Log
  BY DEF Log, Fresh
<1>4. DOMAIN logs' \subseteq Numbers /\ logs' \in [DOMAIN logs' -> Log]
  BY <1>1, <1>2, <1>3 DEF TypeOK
<1>5. late' = late \/ late' = late \cup {k}
  BY DEF LateWith, k
<1>6. late' \subseteq DOMAIN logs'
  BY <1>2, <1>5 DEF TypeOK
<1>7. k \in Nat
  BY <1>1, ConsolidationAssumption DEF Numbers
<1>8. Indexed'
  BY <1>1, <1>2, <1>7 DEF Indexed
<1>9. RanksDiffer'
  BY <1>1, <1>2 DEF RanksDiffer, Fresh
<1>10. UnusedAreFresh'
  BY <1>2 DEF UnusedAreFresh
<1>11. \A i \in DOMAIN logs :
         /\ PositionOf(i)' = PositionOf(i) /\ logs'[i].ns = logs[i].ns
         /\ logs'[i].is_current => logs[i].is_current
  BY <1>1, <1>2 DEF PositionOf
<1>12. DrainedOnce'
  <2> SUFFICES ASSUME NEW i \in DOMAIN logs'
               PROVE  /\ uses'[i] <= 1
                      /\ uses'[i] = 1 => ~Beyond(PositionOf(i)', meta'[logs'[i].ns].cursor)
                      /\ (logs'[i].is_current /\ uses'[i] = 0)
                           => (i \in Backlog(logs[i].ns)' \/ i \in late')
    BY DEF DrainedOnce
  <2>1. CASE i \in DOMAIN logs
    <3>1. Beyond(PositionOf(i), meta[logs[i].ns].cursor) /\ logs'[i].is_current
            => i \in Backlog(logs[i].ns)'
      BY <2>1, <1>2, <1>11 DEF Backlog
    <3>2. i \in Backlog(logs[i].ns) => Beyond(PositionOf(i), meta[logs[i].ns].cursor)
      BY DEF Backlog
    <3> QED BY <2>1, <1>5, <1>11, <3>1, <3>2 DEF DrainedOnce
  <2>2. CASE i = k
    <3>1. uses'[i] = 0
      BY <2>2, <1>1 DEF UnusedAreFresh
    <3>2. logs'[i] = row
      BY <2>2, <1>2
    <3>3. PositionOf(i)' = [at |-> t, rank |-> r]
      BY <3>2 DEF PositionOf
    <3>4. Beyond(PositionOf(i)', meta[n].cursor) => i \in Backlog(n)'
      BY <3>2, <3>3 DEF Backlog
    <3>5. ~Beyond(PositionOf(i)', meta[n].cursor) => i \in late'
      BY <2>2, <3>3 DEF LateWith, k
    <3> QED BY <3>1, <3>2, <3>4, <3>5
  <2> QED BY <1>2, <2>1, <2>2
<1> QED BY <1>4, <1>6, <1>8, <1>9, <1>10, <1>12

-----------------------------------------------------------------------------
(* Windows *)

LEMMA WindowHasLast ==
  ASSUME TypeOK, RanksDiffer, NEW n, Window(n) # {}
  PROVE  \E i \in Window(n) : \A j \in Window(n) \ {i} : Beyond(PositionOf(i), PositionOf(j))
<1> DEFINE R == {e \in Window(n) \X Window(n) : Beyond(PositionOf(e[1]), PositionOf(e[2]))}
<1>1. Window(n) \subseteq DOMAIN logs /\ IsFiniteSet(Window(n))
  BY FiniteLogs DEF Backlog
<1>2. \A i \in Window(n) : PositionOf(i) \in Position
  BY <1>1, LogHasPosition
<1>3. \A i, j \in Window(n) : <<i, j>> \in R <=> Beyond(PositionOf(i), PositionOf(j))
  OBVIOUS
<1> HIDE DEF R
<1>4. \A i \in Window(n) : <<i, i>> \notin R
  BY <1>2, <1>3, BeyondIsStrict
<1>5. \A i, j, k \in Window(n) : <<i, j>> \in R /\ <<j, k>> \in R => <<i, k>> \in R
  BY <1>2, <1>3, BeyondIsStrict
<1>6. PICK i \in Window(n) : \A j \in Window(n) : <<j, i>> \notin R
  BY <1>1, <1>4, <1>5, Greatest
<1>7. \A j \in Window(n) \ {i} : Beyond(PositionOf(i), PositionOf(j))
  BY <1>1, <1>3, <1>6, LogsAreOrdered
<1> QED BY <1>7

\* What is in the backlog and not in the window comes after all of the window.
LEMMA WindowComesFirst ==
  ASSUME TypeOK, RanksDiffer, NEW n, NEW i \in Backlog(n) \ Window(n), NEW j \in Window(n)
  PROVE  Beyond(PositionOf(i), PositionOf(j))
<1> DEFINE before(x) == {y \in Backlog(n) : Beyond(PositionOf(x), PositionOf(y))}
<1>1. Backlog(n) \subseteq DOMAIN logs /\ Window(n) \subseteq Backlog(n) /\ IsFiniteSet(Backlog(n))
  BY FiniteLogs DEF Backlog
<1>2. \A x \in Backlog(n) : PositionOf(x) \in Position
  BY <1>1, LogHasPosition
<1>3. SUFFICES ASSUME ~Beyond(PositionOf(i), PositionOf(j)) PROVE FALSE
  OBVIOUS
<1>4. Beyond(PositionOf(j), PositionOf(i))
  BY <1>1, <1>3, LogsAreOrdered
<1>5. before(i) \subseteq before(j)
  BY <1>1, <1>2, <1>4, BeyondIsStrict
<1>6. before(j) \subseteq Backlog(n)
  OBVIOUS
<1>7. IsFiniteSet(before(j)) /\ Cardinality(before(j)) \in Nat
  BY <1>1, <1>6, FS_Subset, FS_CardinalityType
<1>8. Cardinality(before(i)) <= Cardinality(before(j)) /\ Cardinality(before(i)) \in Nat
  BY <1>5, <1>7, FS_Subset, FS_CardinalityType
<1>9. MaxLogsPerRun \in Nat
  BY ConsolidationAssumption
<1>10. Cardinality(before(j)) < MaxLogsPerRun
  BY DEF Window
<1>11. i \in Window(n)
  BY <1>7, <1>8, <1>9, <1>10 DEF Window
<1> QED BY <1>11

LEMMA SynthesisStored ==
  ASSUME TypeOK, RanksDiffer, UnusedAreFresh, DrainedOnce,
         NEW s \in Snapshot, s.window # {}, Storable(s),
         NEW found \in SUBSET Targets, Persist(s, found), logs' = logs, late' = late
  PROVE  /\ inputs' \in [Namespaces -> Nat] /\ level' \in [Namespaces -> Levels]
         /\ meta' \in [Namespaces -> [cursor: Position, draining: BOOLEAN]]
         /\ refs' \in [Namespaces -> SUBSET Targets]
         /\ synthesis' \in [Namespaces -> SUBSET Snapshot]
         /\ uses' \in [Numbers -> Nat]
         /\ UnusedAreFresh' /\ DrainedOnce'
<1> DEFINE n == s.ns
           last == CHOOSE i \in s.window :
                     \A j \in s.window \ {i} : Beyond(PositionOf(i), PositionOf(j))
           more == \E i \in Backlog(n) : Beyond(PositionOf(i), PositionOf(last))
           draining == meta[n].draining \/ more
<1>1. n \in Namespaces
  BY DEF Snapshot
<1>2. s.window = Window(n)
  BY DEF Storable, IsCurrent, SnapshotOf
<1>3. last \in Window(n)
      /\ \A j \in Window(n) \ {last} : Beyond(PositionOf(last), PositionOf(j))
  BY <1>2, WindowHasLast
<1>4. /\ meta' = Metadata(n, last, more)
      /\ refs' = [refs EXCEPT ![n] = CrossReferences(n, found, draining)]
      /\ inputs' = [inputs EXCEPT ![n] = @ + 1]
      /\ synthesis' = [synthesis EXCEPT ![n] = {s}]
      /\ uses' = [i \in Numbers |-> IF i \in Window(n) THEN uses[i] + 1 ELSE uses[i]]
      /\ level' = level
  BY <1>2 DEF Persist
<1>5. more \in BOOLEAN
  OBVIOUS
<1> HIDE DEF n, last, more, draining
<1>6. Window(n) \subseteq Backlog(n) /\ Backlog(n) \subseteq DOMAIN logs
  BY FiniteLogs DEF Backlog
<1>7. PositionOf(last) \in Position
  BY <1>3, <1>6, LogHasPosition
<1>8. meta' = [meta EXCEPT ![n] = [cursor |-> PositionOf(last), draining |-> more]]
  BY <1>4 DEF Metadata
<1>9. meta' \in [Namespaces -> [cursor: Position, draining: BOOLEAN]]
  BY <1>1, <1>5, <1>7, <1>8 DEF TypeOK
<1>10. refs' \in [Namespaces -> SUBSET Targets]
  BY <1>1, <1>4 DEF TypeOK, CrossReferences
<1>11. inputs' \in [Namespaces -> Nat] /\ level' \in [Namespaces -> Levels]
  <2>1. inputs \in [Namespaces -> Nat] /\ level \in [Namespaces -> Levels]
    BY DEF TypeOK
  <2> QED BY <1>1, <1>4, <2>1
<1>12. synthesis' \in [Namespaces -> SUBSET Snapshot]
  BY <1>4 DEF TypeOK
<1>13. uses' \in [Numbers -> Nat]
  BY <1>4 DEF TypeOK
<1>14. UnusedAreFresh'
  BY <1>4, <1>6 DEF UnusedAreFresh
<1>15. DrainedOnce'
  <2> SUFFICES ASSUME NEW i \in DOMAIN logs
               PROVE  /\ uses'[i] <= 1
                      /\ uses'[i] = 1 => ~Beyond(PositionOf(i), meta'[logs[i].ns].cursor)
                      /\ (logs[i].is_current /\ uses'[i] = 0)
                           => (i \in Backlog(logs[i].ns)' \/ i \in late)
    BY DEF DrainedOnce, PositionOf
  <2>1. i \in Numbers /\ PositionOf(i) \in Position /\ logs[i].ns \in Namespaces
        /\ uses[i] \in Nat
    BY LogHasPosition DEF TypeOK, Log
  <2>2. logs[i].ns # n => meta'[logs[i].ns] = meta[logs[i].ns] /\ i \notin Window(n)
    BY <1>6, <1>8, <2>1 DEF TypeOK, Backlog
  <2>3. logs[i].ns = n => meta'[logs[i].ns].cursor = PositionOf(last)
    BY <1>1, <1>8 DEF TypeOK
  <2>4. /\ uses[i] <= 1
        /\ uses[i] = 1 => ~Beyond(PositionOf(i), meta[logs[i].ns].cursor)
        /\ (logs[i].is_current /\ uses[i] = 0) => (i \in Backlog(logs[i].ns) \/ i \in late)
    BY DEF DrainedOnce
  <2>5. CASE i \in Window(n)
    <3>1. logs[i].ns = n /\ Beyond(PositionOf(i), meta[n].cursor)
      BY <2>5, <1>6 DEF Backlog
    <3>2. uses[i] = 0 /\ uses'[i] = 1
      BY <2>1, <2>4, <2>5, <3>1, <1>4
    <3>3. ~Beyond(PositionOf(i), PositionOf(last))
      BY <1>3, <1>7, <2>1, <2>5, BeyondIsStrict
    <3> QED BY <2>3, <3>1, <3>2, <3>3
  <2>6. CASE i \notin Window(n)
    <3>1. uses'[i] = uses[i]
      BY <1>4, <2>1, <2>6
    <3>2. CASE logs[i].ns # n
      <4>1. i \in Backlog(logs[i].ns) => i \in Backlog(logs[i].ns)'
        BY <2>2, <3>2 DEF Backlog, PositionOf
      <4> QED BY <2>2, <2>4, <3>1, <3>2, <4>1
    <3>3. CASE logs[i].ns = n
      <4>1. meta[n].cursor \in Position /\ Beyond(PositionOf(last), meta[n].cursor)
        BY <1>1, <1>3, <1>6 DEF TypeOK, Backlog
      <4>2. Beyond(PositionOf(i), PositionOf(last)) => Beyond(PositionOf(i), meta[n].cursor)
        BY <1>7, <2>1, <4>1, BeyondIsStrict
      <4>3. i \in Backlog(n) => Beyond(PositionOf(i), PositionOf(last))
        BY <1>3, <2>6, WindowComesFirst
      <4>4. i \in Backlog(n) => i \in Backlog(logs[i].ns)'
        BY <2>3, <3>3, <4>3 DEF Backlog, PositionOf
      <4> QED BY <2>3, <2>4, <3>1, <3>3, <4>2, <4>4
    <3> QED BY <3>2, <3>3
  <2> QED BY <2>5, <2>6
<1> QED BY <1>9, <1>10, <1>11, <1>12, <1>13, <1>14, <1>15

-----------------------------------------------------------------------------
(* The invariant in three parts: entries, what is stored, and processes *)

EntriesOK ==
  /\ DOMAIN logs \subseteq Numbers /\ logs \in [DOMAIN logs -> Log]
  /\ edits \in 0 .. MaxEdits /\ late \subseteq DOMAIN logs
  /\ Indexed /\ RanksDiffer /\ UnusedAreFresh /\ DrainedOnce

StoredOK ==
  /\ inputs \in [Namespaces -> Nat] /\ level \in [Namespaces -> Levels]
  /\ meta \in [Namespaces -> [cursor: Position, draining: BOOLEAN]]
  /\ refs \in [Namespaces -> SUBSET Targets]
  /\ synthesis \in [Namespaces -> SUBSET Snapshot]
  /\ uses \in [Numbers -> Nat]

JobsOK ==
  /\ queue \in [Processes -> Seq(Namespaces)]
  /\ job \in [Processes -> SUBSET Job] /\ review \in [Processes -> SUBSET Job]
  /\ previews \in [Processes -> SUBSET Snapshot]
  /\ Sendable

BreakerOK ==
  /\ failures \in [Processes -> 0 .. MaxFailures] /\ tripped \in [Processes -> BOOLEAN]
  /\ lastWritten \in [Processes -> Statuses] /\ alert \in Statuses

LifeOK == running \subseteq Processes /\ exits \in 0 .. MaxExits

LEMMA InParts == IInv <=> EntriesOK /\ StoredOK /\ JobsOK /\ BreakerOK /\ LifeOK
BY DEF IInv, TypeOK, EntriesOK, StoredOK, JobsOK, BreakerOK, LifeOK

LEMMA FromParts ==
  ASSUME EntriesOK', StoredOK', JobsOK', BreakerOK', LifeOK'
  PROVE  IInv'
BY DEF IInv, TypeOK, EntriesOK, StoredOK, JobsOK, BreakerOK, LifeOK

LEMMA EntriesKept ==
  ASSUME EntriesOK, logs' = logs, late' = late, meta' = meta, uses' = uses,
         edits' \in 0 .. MaxEdits
  PROVE  EntriesOK'
<1>1. \A i : PositionOf(i)' = PositionOf(i)
  BY DEF PositionOf
<1>2. \A n : Backlog(n)' = Backlog(n)
  BY <1>1 DEF Backlog
<1>3. DrainedOnce'
  BY <1>1, <1>2 DEF EntriesOK, DrainedOnce
<1> QED BY <1>3 DEF EntriesOK, Indexed, RanksDiffer, UnusedAreFresh

LEMMA StoredKept ==
  ASSUME StoredOK, UNCHANGED stored
  PROVE  StoredOK'
BY DEF StoredOK, stored

LEMMA BreakerKept ==
  ASSUME BreakerOK, UNCHANGED breaker
  PROVE  BreakerOK'
BY DEF BreakerOK, breaker

\* A worker takes up, takes up again or lays down what it works on.
LEMMA JobReplaced ==
  ASSUME JobsOK, NEW p \in Processes, NEW S \in SUBSET Job,
         \A j \in S : j.snapshot.window # {} /\ Permitted(j.snapshot),
         job' = [job EXCEPT ![p] = S], review' = review, previews' = previews,
         queue' \in [Processes -> Seq(Namespaces)]
  PROVE  JobsOK'
<1>1. job' \in [Processes -> SUBSET Job]
  BY DEF JobsOK
<1>2. \A q \in Processes : job'[q] = IF q = p THEN S ELSE job[q]
  BY DEF JobsOK
<1>3. Sendable'
  BY <1>2 DEF JobsOK, Sendable, Permitted
<1> QED BY <1>1, <1>3 DEF JobsOK

LEMMA SnapshotHasType ==
  ASSUME IInv, NEW n \in Namespaces
  PROVE  SnapshotOf(n) \in Snapshot
<1>1. Window(n) \subseteq Numbers
  BY FiniteLogs DEF IInv
<1>2. meta[n].cursor \in Position /\ meta[n].draining \in BOOLEAN
      /\ inputs[n] \in Nat /\ level[n] \in Levels
  BY DEF IInv, TypeOK
<1> QED BY <1>1, <1>2 DEF SnapshotOf, Snapshot

-----------------------------------------------------------------------------
(* Entries *)

LEMMA AppendLogKeeps ==
  ASSUME IInv, NEW n \in Namespaces, NEW t \in 1 .. MaxTime, NEW r \in Numbers,
         AppendLog(n, t, r)
  PROVE  IInv'
<1>1. r \in Fresh /\ logs' = WithLog(logs, n, t, r) /\ late' = LateWith(n, t, r)
      /\ UNCHANGED <<edits, stored, running, queue, job, review, previews, breaker, exits>>
  BY DEF AppendLog
<1>2. EntriesOK'
  <2>1. logs \in [DOMAIN logs -> Log]
    BY DEF IInv, TypeOK
  <2>2. meta' = meta /\ uses' = uses /\ edits' = edits
    BY <1>1 DEF stored
  <2> QED BY <1>1, <2>1, <2>2, LogAdded DEF IInv, EntriesOK, TypeOK
<1>3. StoredOK' /\ BreakerOK'
  BY <1>1, InParts, StoredKept, BreakerKept
<1>4. JobsOK' /\ LifeOK'
  BY <1>1, InParts DEF JobsOK, LifeOK, Sendable, Permitted
<1> QED BY <1>2, <1>3, <1>4, FromParts

LEMMA CorrectLogKeeps ==
  ASSUME IInv, NEW i \in DOMAIN logs, NEW t \in 1 .. MaxTime, NEW r \in Numbers,
         CorrectLog(i, t, r)
  PROVE  IInv'
<1> DEFINE table == [logs EXCEPT ![i].is_current = FALSE]
<1>1. r \in Fresh /\ logs' = WithLog(table, logs[i].ns, t, r) /\ late' = LateWith(logs[i].ns, t, r)
      /\ UNCHANGED <<edits, stored, running, queue, job, review, previews, breaker, exits>>
  BY DEF CorrectLog
<1>2. EntriesOK'
  <2>1. logs \in [DOMAIN logs -> Log]
    BY DEF IInv, TypeOK
  <2>2. logs[i].ns \in Namespaces /\ logs[i] \in Log
    BY <2>1 DEF Log
  <2>3. \A j \in DOMAIN logs :
          table[j] = IF j = i THEN [logs[i] EXCEPT !.is_current = FALSE] ELSE logs[j]
    OBVIOUS
  <2>4. table \in [DOMAIN logs -> Log]
    BY <2>1, <2>3 DEF Log
  <2>5. \A j \in DOMAIN logs :
          /\ table[j].ns = logs[j].ns /\ table[j].created_at = logs[j].created_at
          /\ table[j].rank = logs[j].rank
          /\ table[j].is_current => logs[j].is_current
    BY <2>1, <2>2, <2>3 DEF Log
  <2>6. meta' = meta /\ uses' = uses /\ edits' = edits
    BY <1>1 DEF stored
  <2> HIDE DEF table
  <2> QED BY <1>1, <2>2, <2>4, <2>5, <2>6, LogAdded DEF IInv, EntriesOK, TypeOK
<1>3. StoredOK' /\ BreakerOK'
  BY <1>1, InParts, StoredKept, BreakerKept
<1>4. JobsOK' /\ LifeOK'
  BY <1>1, InParts DEF JobsOK, LifeOK, Sendable, Permitted
<1> QED BY <1>2, <1>3, <1>4, FromParts

LEMMA ChangeInputsKeeps ==
  ASSUME IInv, NEW n \in Namespaces, NEW l \in Levels, ChangeInputs(n, l)
  PROVE  IInv'
<1>1. MaxEdits \in Nat
  BY ConsolidationAssumption
<1>2. edits' \in 0 .. MaxEdits
  BY <1>1 DEF ChangeInputs, IInv, TypeOK
<1>3. EntriesOK'
  BY <1>2, InParts, EntriesKept DEF ChangeInputs
<1>4. StoredOK'
  <2>1. inputs \in [Namespaces -> Nat] /\ level \in [Namespaces -> Levels]
    BY DEF IInv, TypeOK
  <2>2. inputs' \in [Namespaces -> Nat] /\ level' \in [Namespaces -> Levels]
    BY <2>1 DEF ChangeInputs
  <2> QED BY <2>2, InParts DEF ChangeInputs, StoredOK
<1>5. BreakerOK'
  BY InParts, BreakerKept DEF ChangeInputs
<1>6. JobsOK' /\ LifeOK'
  BY InParts DEF ChangeInputs, JobsOK, LifeOK, Sendable, Permitted
<1> QED BY <1>3, <1>4, <1>5, <1>6, FromParts

LEMMA DeleteNamespaceKeeps ==
  ASSUME IInv, NEW n \in Namespaces, DeleteNamespace(n)
  PROVE  IInv'
<1>1. MaxEdits \in Nat /\ Floor[n] \in Levels
  BY ConsolidationAssumption
<1>2. edits' \in 0 .. MaxEdits
  BY <1>1 DEF DeleteNamespace, IInv, TypeOK
<1>3. /\ logs' = [i \in DOMAIN logs |->
                    IF logs[i].ns = n THEN [logs[i] EXCEPT !.is_current = FALSE] ELSE logs[i]]
      /\ UNCHANGED <<late, meta, refs, synthesis, uses, running, queue, job, review,
                     previews, breaker, exits>>
  BY DEF DeleteNamespace
<1>4. logs \in [DOMAIN logs -> Log] /\ DOMAIN logs \subseteq Numbers
  BY DEF IInv, TypeOK
<1>5. \A i \in DOMAIN logs :
        /\ logs'[i] \in Log /\ logs'[i].ns = logs[i].ns
        /\ logs'[i].created_at = logs[i].created_at /\ logs'[i].rank = logs[i].rank
        /\ logs'[i].is_current => logs[i].is_current
  BY <1>3, <1>4 DEF Log
<1>6. DOMAIN logs' = DOMAIN logs /\ logs' \in [DOMAIN logs -> Log]
  BY <1>3, <1>5
<1>7. \A i \in DOMAIN logs : PositionOf(i)' = PositionOf(i)
  BY <1>5 DEF PositionOf
<1>8. \A m, i : i \in Backlog(m) /\ logs'[i].is_current => i \in Backlog(m)'
  BY <1>3, <1>5, <1>6, <1>7 DEF Backlog
<1>9. DrainedOnce'
  <2> SUFFICES ASSUME NEW i \in DOMAIN logs
               PROVE  /\ uses[i] <= 1
                      /\ uses[i] = 1 => ~Beyond(PositionOf(i), meta[logs[i].ns].cursor)
                      /\ (logs'[i].is_current /\ uses[i] = 0)
                           => (i \in Backlog(logs[i].ns)' \/ i \in late)
    BY <1>3, <1>5, <1>6, <1>7 DEF DrainedOnce
  <2> QED BY <1>5, <1>8 DEF IInv, DrainedOnce
<1>10. Indexed' /\ RanksDiffer' /\ UnusedAreFresh'
  BY <1>3, <1>5, <1>6 DEF IInv, Indexed, RanksDiffer, UnusedAreFresh
<1>11. EntriesOK'
  BY <1>2, <1>3, <1>4, <1>6, <1>9, <1>10 DEF EntriesOK, IInv, TypeOK
<1>12. StoredOK'
  <2>1. inputs \in [Namespaces -> Nat] /\ level \in [Namespaces -> Levels]
    BY DEF IInv, TypeOK
  <2>2. inputs' \in [Namespaces -> Nat] /\ level' \in [Namespaces -> Levels]
    BY <1>1, <2>1 DEF DeleteNamespace
  <2> QED BY <1>3, <2>2, InParts DEF StoredOK
<1>13. BreakerOK'
  BY <1>3, InParts, BreakerKept
<1>14. JobsOK' /\ LifeOK'
  BY <1>3, InParts DEF JobsOK, LifeOK, Sendable, Permitted
<1> QED BY <1>11, <1>12, <1>13, <1>14, FromParts

-----------------------------------------------------------------------------
(* The breaker and the alarm *)

LEMMA AlertHasType ==
  ASSUME BreakerOK, NEW p \in Processes, NEW status \in Statuses \cup {"failing"},
         Alert(p, status)
  PROVE  lastWritten' \in [Processes -> Statuses] /\ alert' \in Statuses
<1>1. lastWritten \in [Processes -> Statuses] /\ alert \in Statuses
  BY DEF BreakerOK
<1>2. CASE UNCHANGED <<lastWritten, alert>>
  BY <1>1, <1>2
<1>3. CASE status \in Statuses /\ alert' = status
           /\ lastWritten' = [lastWritten EXCEPT ![p] = status]
  BY <1>1, <1>3
<1> QED BY <1>2, <1>3 DEF Alert

LEMMA FailsHasType ==
  ASSUME BreakerOK, NEW p \in Processes, queue \in [Processes -> Seq(Namespaces)], Fails(p)
  PROVE  BreakerOK' /\ queue' \in [Processes -> Seq(Namespaces)]
<1> DEFINE trips == failures[p] + 1 >= MaxFailures
           status == IF tripped[p] \/ trips THEN "tripped" ELSE "failing"
<1>1. MaxFailures \in Nat /\ failures \in [Processes -> 0 .. MaxFailures]
      /\ tripped \in [Processes -> BOOLEAN]
  BY ConsolidationAssumption DEF BreakerOK
<1>2. /\ failures' = [failures EXCEPT ![p] = IF @ < MaxFailures THEN @ + 1 ELSE @]
      /\ tripped' = [tripped EXCEPT ![p] = @ \/ trips]
      /\ queue' = [queue EXCEPT ![p] = IF trips THEN <<>> ELSE @]
      /\ Alert(p, status)
  BY DEF Fails
<1>3. failures' \in [Processes -> 0 .. MaxFailures]
  BY <1>1, <1>2
<1>4. trips \in BOOLEAN /\ status \in Statuses \cup {"failing"}
  BY DEF Statuses
<1> HIDE DEF trips, status
<1>5. tripped' \in [Processes -> BOOLEAN]
  BY <1>1, <1>2
<1>6. queue' \in [Processes -> Seq(Namespaces)]
  BY <1>2
<1>7. lastWritten' \in [Processes -> Statuses] /\ alert' \in Statuses
  BY <1>2, <1>4, AlertHasType
<1> QED BY <1>3, <1>5, <1>6, <1>7 DEF BreakerOK

LEMMA SucceedsHasType ==
  ASSUME BreakerOK, NEW p \in Processes, Succeeds(p)
  PROVE  BreakerOK'
<1>1. MaxFailures \in Nat
  BY ConsolidationAssumption
<1>2. failures' \in [Processes -> 0 .. MaxFailures] /\ tripped' \in [Processes -> BOOLEAN]
  BY <1>1 DEF Succeeds, BreakerOK
<1>3. lastWritten' \in [Processes -> Statuses] /\ alert' \in Statuses
  BY AlertHasType DEF Succeeds, Statuses
<1> QED BY <1>2, <1>3 DEF BreakerOK

-----------------------------------------------------------------------------
(* The worker *)

LEMMA StartWorkerKeeps ==
  ASSUME IInv, NEW p \in Processes, StartWorker(p)
  PROVE  IInv'
<1>1. EntriesOK' /\ StoredOK'
  BY InParts, EntriesKept, StoredKept DEF StartWorker, entries, stored, EntriesOK
<1>2. BreakerOK'
  BY InParts DEF StartWorker, TakeBackAlarm, BreakerOK, Statuses
<1>3. JobsOK' /\ LifeOK'
  BY InParts DEF StartWorker, JobsOK, LifeOK, Sendable, Permitted
<1> QED BY <1>1, <1>2, <1>3, FromParts

LEMMA ExitKeeps ==
  ASSUME IInv, NEW p \in Processes, Exit(p)
  PROVE  IInv'
<1>1. MaxExits \in Nat /\ MaxFailures \in Nat
  BY ConsolidationAssumption
<1>2. EntriesOK' /\ StoredOK'
  BY InParts, EntriesKept, StoredKept DEF Exit, entries, stored, EntriesOK
<1>3. BreakerOK'
  BY <1>1, InParts DEF Exit, BreakerOK, Statuses
<1>4. JobsOK'
  <2>1. JobsOK /\ \A q \in Processes :
          /\ job'[q] = IF q = p THEN {} ELSE job[q]
          /\ review'[q] = IF q = p THEN {} ELSE review[q]
          /\ previews'[q] = IF q = p THEN {} ELSE previews[q]
    BY InParts DEF Exit, JobsOK
  <2>2. /\ queue' \in [Processes -> Seq(Namespaces)]
        /\ job' \in [Processes -> SUBSET Job] /\ review' \in [Processes -> SUBSET Job]
        /\ previews' \in [Processes -> SUBSET Snapshot]
    BY <2>1 DEF Exit, JobsOK
  <2>3. Sendable'
    BY <2>1 DEF JobsOK, Sendable, Permitted
  <2> QED BY <2>2, <2>3 DEF JobsOK
<1>5. LifeOK'
  BY <1>1, InParts DEF Exit, LifeOK
<1> QED BY <1>2, <1>3, <1>4, <1>5, FromParts

LEMMA StartBatchKeeps ==
  ASSUME IInv, NEW p \in Processes, StartBatch(p)
  PROVE  IInv'
<1>1. PICK q \in Batches : queue' = [queue EXCEPT ![p] = q]
  BY DEF StartBatch
<1>2. q \in Seq(Namespaces)
  <2>1. Candidates \subseteq Namespaces
    BY DEF Candidates
  <2>2. Cardinality(Candidates) \in Nat /\ BatchSize \in Nat
    BY <2>1, ConsolidationAssumption, FS_Subset, FS_CardinalityType
  <2>3. PICK size \in Nat : q \in [1 .. size -> Candidates]
    BY <2>2 DEF Batches
  <2> QED BY <2>1, <2>3
<1>3. EntriesOK' /\ StoredOK' /\ BreakerOK'
  BY InParts, EntriesKept, StoredKept, BreakerKept DEF StartBatch, entries, stored, EntriesOK
<1>4. JobsOK' /\ LifeOK'
  BY <1>1, <1>2, InParts DEF StartBatch, JobsOK, LifeOK, Sendable, Permitted
<1> QED BY <1>3, <1>4, FromParts

\* A snapshot taken now, with logs in it and not above what may be sent, is
\* something to work on.
LEMMA JobHasType ==
  ASSUME IInv, NEW n \in Namespaces
  PROVE  [snapshot |-> SnapshotOf(n), attempt |-> 1] \in Job
<1>1. 1 \in 1 .. MaxAttempts
  BY ConsolidationAssumption
<1> QED BY <1>1, SnapshotHasType DEF Job

LEMMA TakeCandidateKeeps ==
  ASSUME IInv, NEW p \in Processes, TakeCandidate(p)
  PROVE  IInv'
<1> DEFINE n == Head(queue[p])
           s == SnapshotOf(n)
<1>1. queue \in [Processes -> Seq(Namespaces)] /\ queue[p] # <<>>
      /\ queue' = [queue EXCEPT ![p] = Tail(@)]
  BY DEF TakeCandidate, IInv, TypeOK
<1>2. n \in Namespaces /\ queue' \in [Processes -> Seq(Namespaces)]
  BY <1>1
<1>3. EntriesOK' /\ StoredOK' /\ LifeOK'
  BY InParts, EntriesKept, StoredKept DEF TakeCandidate, entries, stored, EntriesOK, LifeOK
<1>4. BreakerOK'
  BY InParts, BreakerKept, SucceedsHasType DEF TakeCandidate
<1>5. [snapshot |-> s, attempt |-> 1] \in Job
  BY <1>2, JobHasType
<1>6. \/ job' = job
      \/ /\ s.window # {} /\ Permitted(s)
         /\ job' = [job EXCEPT ![p] = {[snapshot |-> s, attempt |-> 1]}]
  BY DEF TakeCandidate
<1> HIDE DEF s
<1>7. JobsOK'
  <2>1. review' = review /\ previews' = previews
    BY DEF TakeCandidate
  <2>2. CASE job' = job
    BY <1>2, <2>1, <2>2, InParts DEF JobsOK, Sendable, Permitted
  <2>3. CASE job' # job
    <3> DEFINE work == {[snapshot |-> s, attempt |-> 1]}
    <3>1. work \in SUBSET Job
      BY <1>5
    <3>2. \A j \in work : j.snapshot.window # {} /\ Permitted(j.snapshot)
      BY <1>6, <2>3
    <3>3. job' = [job EXCEPT ![p] = work]
      BY <1>6, <2>3
    <3> HIDE DEF work
    <3> QED BY <1>2, <2>1, <3>1, <3>2, <3>3, InParts, JobReplaced
  <2> QED BY <2>2, <2>3
<1> QED BY <1>3, <1>4, <1>7, FromParts

LEMMA SynthesisSucceedsKeeps ==
  ASSUME IInv, NEW p \in Processes, SynthesisSucceeds(p)
  PROVE  IInv'
<1>1. PICK j \in job[p], found \in Discovered :
        /\ Storable(j.snapshot)
        /\ Persist(j.snapshot, found \cap Linkable(j.snapshot))
        /\ job' = [job EXCEPT ![p] = {}]
        /\ Succeeds(p)
        /\ UNCHANGED <<entries, running, queue, review, previews, exits>>
  BY DEF SynthesisSucceeds
<1>2. j.snapshot \in Snapshot /\ j.snapshot.window # {}
  <2>1. job[p] \subseteq Job
    BY DEF IInv, TypeOK
  <2> QED BY <2>1 DEF IInv, Sendable, Job
<1>3. found \cap Linkable(j.snapshot) \in SUBSET Targets
  BY DEF Linkable
<1>4. logs' = logs /\ late' = late /\ edits' = edits
  BY <1>1 DEF entries
<1>5. StoredOK' /\ UnusedAreFresh' /\ DrainedOnce'
  BY <1>1, <1>2, <1>3, <1>4, SynthesisStored DEF IInv, StoredOK
<1>6. EntriesOK'
  BY <1>4, <1>5, InParts DEF EntriesOK, Indexed, RanksDiffer
<1>7. BreakerOK'
  BY <1>1, InParts, SucceedsHasType
<1>8. JobsOK' /\ LifeOK'
  BY <1>1, InParts DEF JobsOK, LifeOK, Sendable, Permitted
<1> QED BY <1>5, <1>6, <1>7, <1>8, FromParts

LEMMA AskAgainKeeps ==
  ASSUME IInv, NEW p \in Processes, AskAgain(p)
  PROVE  IInv'
<1>1. PICK j \in job[p] :
        /\ j.attempt < MaxAttempts
        /\ job' = [job EXCEPT ![p] = {[j EXCEPT !.attempt = @ + 1]}]
        /\ UNCHANGED <<entries, stored, running, queue, review, previews, breaker, exits>>
  BY DEF AskAgain
<1> DEFINE again == [j EXCEPT !.attempt = @ + 1]
<1>2. j \in Job
  BY DEF IInv, TypeOK
<1>3. again \in Job /\ again.snapshot = j.snapshot
  BY <1>1, <1>2, ConsolidationAssumption DEF Job
<1>4. EntriesOK' /\ StoredOK' /\ BreakerOK'
  BY <1>1, InParts, EntriesKept, StoredKept, BreakerKept DEF entries, stored, EntriesOK
<1> HIDE DEF again
<1>5. JobsOK' /\ LifeOK'
  BY <1>1, <1>3, InParts DEF again, JobsOK, LifeOK, Sendable, Permitted
<1> QED BY <1>4, <1>5, FromParts

LEMMA SynthesisFailsKeeps ==
  ASSUME IInv, NEW p \in Processes, SynthesisFails(p)
  PROVE  IInv'
<1>1. EntriesOK' /\ StoredOK' /\ LifeOK'
  BY InParts, EntriesKept, StoredKept DEF SynthesisFails, entries, stored, EntriesOK, LifeOK
<1>2. BreakerOK' /\ queue' \in [Processes -> Seq(Namespaces)]
  BY InParts, FailsHasType DEF SynthesisFails, JobsOK
<1>3. JobsOK'
  BY <1>2, InParts, JobReplaced DEF SynthesisFails
<1> QED BY <1>1, <1>2, <1>3, FromParts

-----------------------------------------------------------------------------
(* Previews *)

\* The previews are right.
PreviewsOK ==
  /\ previews \in [Processes -> SUBSET Snapshot]
  /\ \A p \in Processes : \A s \in previews[p] : s.window # {} /\ Permitted(s)

\* As JobReplaced, for what a preview's model works on.
LEMMA ReviewReplaced ==
  ASSUME JobsOK, NEW p \in Processes, NEW S \in SUBSET Job,
         \A j \in S : j.snapshot.window # {} /\ Permitted(j.snapshot),
         review' = [review EXCEPT ![p] = S], UNCHANGED <<queue, job>>, PreviewsOK'
  PROVE  JobsOK'
<1>1. review' \in [Processes -> SUBSET Job]
  BY DEF JobsOK
<1>2. \A q \in Processes : review'[q] = IF q = p THEN S ELSE review[q]
  BY DEF JobsOK
<1>3. Sendable'
  BY <1>2 DEF JobsOK, Sendable, Permitted, PreviewsOK
<1> QED BY <1>1, <1>3 DEF JobsOK, PreviewsOK

LEMMA PreviewsKept ==
  ASSUME JobsOK, previews' = previews
  PROVE  PreviewsOK'
BY DEF JobsOK, Sendable, Permitted, PreviewsOK

LEMMA RequestPreviewKeeps ==
  ASSUME IInv, NEW p \in Processes, NEW n \in Namespaces, RequestPreview(p, n)
  PROVE  IInv'
<1> DEFINE s == SnapshotOf(n)
           work == {[snapshot |-> s, attempt |-> 1]}
<1>1. EntriesOK' /\ StoredOK' /\ BreakerOK' /\ LifeOK'
  BY InParts, EntriesKept, StoredKept, BreakerKept
     DEF RequestPreview, entries, stored, EntriesOK, LifeOK
<1>2. work \in SUBSET Job
  BY JobHasType
<1>3. \A j \in work : j.snapshot.window # {} /\ Permitted(j.snapshot)
  BY DEF RequestPreview, SnapshotOf
<1>4. review' = [review EXCEPT ![p] = work] /\ UNCHANGED <<queue, job, previews>>
  BY DEF RequestPreview
<1> HIDE DEF work
<1>5. JobsOK'
  BY <1>2, <1>3, <1>4, InParts, ReviewReplaced, PreviewsKept
<1> QED BY <1>1, <1>5, FromParts

LEMMA PreviewArrivesKeeps ==
  ASSUME IInv, NEW p \in Processes, PreviewArrives(p)
  PROVE  IInv'
<1>1. PICK j \in review[p] :
        /\ review' = [review EXCEPT ![p] = {}]
        /\ previews' = previews \/ previews' = [previews EXCEPT ![p] = @ \cup {j.snapshot}]
        /\ UNCHANGED <<entries, stored, running, queue, job, breaker, exits>>
  BY DEF PreviewArrives
<1> DEFINE T == previews[p] \cup {j.snapshot}
<1>2. review[p] \subseteq Job /\ previews[p] \subseteq Snapshot
  BY DEF IInv, TypeOK
<1>3. T \in SUBSET Snapshot /\ \A s \in T : s.window # {} /\ Permitted(s)
  BY <1>2 DEF Job, IInv, Sendable
<1>4. PreviewsOK'
  <2>1. CASE previews' = previews
    BY <2>1, InParts, PreviewsKept
  <2>2. CASE previews' = [previews EXCEPT ![p] = T]
    <3> HIDE DEF T
    <3> QED BY <1>3, <2>2 DEF PreviewsOK, IInv, TypeOK, Sendable, Permitted
  <2> QED BY <1>1, <2>1, <2>2
<1>5. EntriesOK' /\ StoredOK' /\ BreakerOK' /\ LifeOK'
  BY <1>1, InParts, EntriesKept, StoredKept, BreakerKept DEF entries, stored, EntriesOK, LifeOK
<1> HIDE DEF T
<1>6. JobsOK'
  <2> DEFINE none == {}
  <2>1. none \in SUBSET Job /\ \A w \in none : w.snapshot.window # {} /\ Permitted(w.snapshot)
    OBVIOUS
  <2>2. review' = [review EXCEPT ![p] = none]
    BY <1>1
  <2> HIDE DEF none
  <2> QED BY <1>1, <1>4, <2>1, <2>2, InParts, ReviewReplaced
<1> QED BY <1>5, <1>6, FromParts

LEMMA PreviewAskedAgainKeeps ==
  ASSUME IInv, NEW p \in Processes, PreviewAskedAgain(p)
  PROVE  IInv'
<1>1. PICK j \in review[p] :
        /\ j.attempt < MaxAttempts
        /\ review' = [review EXCEPT ![p] = {[j EXCEPT !.attempt = @ + 1]}]
        /\ UNCHANGED <<entries, stored, running, queue, job, previews, breaker, exits>>
  BY DEF PreviewAskedAgain
<1> DEFINE again == [j EXCEPT !.attempt = @ + 1]
           work == {again}
<1>2. j \in Job
  BY DEF IInv, TypeOK
<1>3. again \in Job /\ again.snapshot = j.snapshot
  BY <1>1, <1>2, ConsolidationAssumption DEF Job
<1>4. EntriesOK' /\ StoredOK' /\ BreakerOK' /\ LifeOK'
  BY <1>1, InParts, EntriesKept, StoredKept, BreakerKept DEF entries, stored, EntriesOK, LifeOK
<1>5. work \in SUBSET Job /\ \A w \in work : w.snapshot.window # {} /\ Permitted(w.snapshot)
  <2> HIDE DEF again
  <2> QED BY <1>3 DEF IInv, Sendable
<1>6. review' = [review EXCEPT ![p] = work]
  BY <1>1
<1> HIDE DEF work
<1>7. JobsOK'
  BY <1>1, <1>5, <1>6, InParts, ReviewReplaced, PreviewsKept
<1> QED BY <1>4, <1>7, FromParts

\* A preview is taken back.
LEMMA PreviewSpent ==
  ASSUME JobsOK, NEW p \in Processes, NEW s \in previews[p],
         previews' = [previews EXCEPT ![p] = @ \ {s}], UNCHANGED <<queue, job, review>>
  PROVE  JobsOK'
<1>1. previews' \in [Processes -> SUBSET Snapshot]
      /\ \A q \in Processes : previews'[q] \subseteq previews[q]
  BY DEF JobsOK
<1> QED BY <1>1 DEF JobsOK, Sendable, Permitted

LEMMA ConfirmPreviewKeeps ==
  ASSUME IInv, NEW p \in Processes, NEW s \in previews[p], ConfirmPreview(p, s)
  PROVE  IInv'
<1>1. UNCHANGED <<entries, running, queue, job, review, breaker, exits>>
      /\ previews' = [previews EXCEPT ![p] = @ \ {s}]
  BY DEF ConfirmPreview
<1>2. BreakerOK' /\ LifeOK' /\ JobsOK'
  BY <1>1, InParts, BreakerKept, PreviewSpent DEF LifeOK
<1>3. CASE Storable(s) /\ Persist(s, {})
  <2>1. logs' = logs /\ late' = late /\ edits' = edits
    BY <1>1 DEF entries
  <2>2. s \in Snapshot /\ s.window # {}
    BY DEF IInv, TypeOK, Sendable
  <2>3. StoredOK' /\ UnusedAreFresh' /\ DrainedOnce'
    BY <1>3, <2>1, <2>2, SynthesisStored DEF IInv, StoredOK
  <2>4. EntriesOK'
    BY <2>1, <2>3, InParts DEF EntriesOK, Indexed, RanksDiffer
  <2> QED BY <1>2, <2>3, <2>4, FromParts
<1>4. CASE UNCHANGED stored
  <2>1. EntriesOK' /\ StoredOK'
    BY <1>1, <1>4, InParts, EntriesKept, StoredKept DEF entries, stored, EntriesOK
  <2> QED BY <1>2, <2>1, FromParts
<1> QED BY <1>3, <1>4 DEF ConfirmPreview

LEMMA PreviewExpiresKeeps ==
  ASSUME IInv, NEW p \in Processes, NEW s \in previews[p], PreviewExpires(p, s)
  PROVE  IInv'
<1>1. EntriesOK' /\ StoredOK' /\ BreakerOK' /\ LifeOK'
  BY InParts, EntriesKept, StoredKept, BreakerKept
     DEF PreviewExpires, entries, stored, EntriesOK, LifeOK
<1>2. JobsOK'
  BY InParts, PreviewSpent DEF PreviewExpires
<1> QED BY <1>1, <1>2, FromParts

-----------------------------------------------------------------------------
(* Theorems *)

LEMMA InitHolds == Init => IInv
<1> SUFFICES ASSUME Init PROVE IInv
  OBVIOUS
<1>1. DOMAIN logs = {} /\ logs \in [DOMAIN logs -> Log]
  BY DEF Init
<1>2. Indexed /\ RanksDiffer /\ DrainedOnce
  <2>1. DOMAIN logs = 1 .. 0
    BY <1>1
  <2> QED BY <1>1, <2>1 DEF Indexed, RanksDiffer, DrainedOnce
<1>3. /\ MaxEdits \in Nat /\ MaxExits \in Nat /\ MaxFailures \in Nat
      /\ \A n \in Namespaces : Floor[n] \in Levels
  BY ConsolidationAssumption
<1>4. EntriesOK
  BY <1>1, <1>2, <1>3 DEF Init, EntriesOK, UnusedAreFresh
<1>5. StoredOK
  BY <1>3 DEF Init, StoredOK, Position, Start
<1>6. JobsOK
  BY DEF Init, JobsOK, Sendable
<1>7. BreakerOK /\ LifeOK
  BY <1>3 DEF Init, BreakerOK, LifeOK, Statuses
<1> QED BY <1>4, <1>5, <1>6, <1>7, InParts

LEMMA NextKeeps == IInv /\ [Next]_vars => IInv'
<1> SUFFICES ASSUME IInv, [Next]_vars PROVE IInv'
  OBVIOUS
<1>1. ASSUME NEW t \in 1 .. MaxTime, NEW r \in Numbers,
             \/ \E n \in Namespaces : AppendLog(n, t, r)
             \/ \E i \in DOMAIN logs : CorrectLog(i, t, r)
      PROVE  IInv'
  BY <1>1, AppendLogKeeps, CorrectLogKeeps
<1>2. ASSUME NEW n \in Namespaces, DeleteNamespace(n) \/ \E l \in Levels : ChangeInputs(n, l)
      PROVE  IInv'
  BY <1>2, ChangeInputsKeeps, DeleteNamespaceKeeps
<1>3. ASSUME NEW p \in Processes, StartWorker(p) \/ Exit(p) \/ Worker(p)
      PROVE  IInv'
  BY <1>3, StartWorkerKeeps, ExitKeeps, StartBatchKeeps, TakeCandidateKeeps,
     SynthesisSucceedsKeeps, AskAgainKeeps, SynthesisFailsKeeps DEF Worker
<1>4. ASSUME NEW p \in Processes,
             \/ PreviewArrives(p) \/ PreviewAskedAgain(p)
             \/ \E n \in Namespaces : RequestPreview(p, n)
             \/ \E s \in previews[p] : ConfirmPreview(p, s) \/ PreviewExpires(p, s)
      PROVE  IInv'
  BY <1>4, PreviewArrivesKeeps, PreviewAskedAgainKeeps, RequestPreviewKeeps,
     ConfirmPreviewKeeps, PreviewExpiresKeeps
<1>5. CASE UNCHANGED vars
  <2>1. UNCHANGED <<entries, stored, running, queue, job, review, previews, breaker, exits>>
    BY <1>5 DEF vars
  <2>2. EntriesOK' /\ StoredOK' /\ BreakerOK' /\ LifeOK'
    BY <2>1, InParts, EntriesKept, StoredKept, BreakerKept DEF entries, stored, EntriesOK, LifeOK
  <2>3. JobsOK'
    BY <2>1, InParts DEF JobsOK, Sendable, Permitted
  <2> QED BY <2>2, <2>3, FromParts
<1> QED BY <1>1, <1>2, <1>3, <1>4, <1>5 DEF Next

\* Every variable keeps its type: cursors are positions, what is worked on is a
\* snapshot of the database.
THEOREM TypeCorrect == Spec => []TypeOK
<1>1. IInv => TypeOK
  BY DEF IInv
<1> QED BY <1>1, InitHolds, NextKeeps, PTL DEF Spec

\* A log is drained into one synthesis at most and none is passed over, whoever
\* drains, whatever the clock does and however often processes end.
THEOREM DrainedOnceAlways == Spec => []DrainedOnce
<1>1. IInv => DrainedOnce
  BY DEF IInv
<1> QED BY <1>1, InitHolds, NextKeeps, PTL DEF Spec

LEMMA PersistIsNotStale ==
  ASSUME IInv, NEW s \in Snapshot, Permitted(s), Storable(s), NEW found, Persist(s, found),
         NEW n \in Namespaces, meta'[n] # meta[n]
  PROVE  /\ synthesis'[n] = {SnapshotOf(n)} /\ level[n] <= Approved
         /\ meta[n].draining => refs[n] \subseteq refs'[n]
<1> DEFINE last == CHOOSE i \in s.window :
                     \A j \in s.window \ {i} : Beyond(PositionOf(i), PositionOf(j))
           more == \E i \in Backlog(s.ns) : Beyond(PositionOf(i), PositionOf(last))
<1>1. /\ meta' = [meta EXCEPT ![s.ns] = [cursor |-> PositionOf(last), draining |-> more]]
      /\ refs' = [refs EXCEPT ![s.ns] =
                    CrossReferences(s.ns, found, meta[s.ns].draining \/ more)]
      /\ synthesis' = [synthesis EXCEPT ![s.ns] = {s}]
  BY DEF Persist, Metadata
<1> HIDE DEF last, more
<1>2. n = s.ns
  BY <1>1 DEF IInv, TypeOK
<1>3. s = SnapshotOf(n) /\ s.level = level[n]
  BY <1>2 DEF Storable, IsCurrent, SnapshotOf
<1>4. synthesis'[n] = {SnapshotOf(n)} /\ level[n] <= Approved
  BY <1>1, <1>2, <1>3 DEF IInv, TypeOK, Permitted
<1>5. meta[n].draining => refs[n] \subseteq refs'[n]
  BY <1>1, <1>2 DEF IInv, TypeOK, CrossReferences
<1> QED BY <1>4, <1>5

LEMMA StepIsNotStale ==
  ASSUME IInv, [Next]_vars, NEW n \in Namespaces, meta'[n] # meta[n]
  PROVE  /\ synthesis'[n] = {SnapshotOf(n)} /\ level[n] <= Approved
         /\ meta[n].draining => refs[n] \subseteq refs'[n]
<1>1. CASE \E p \in Processes : SynthesisSucceeds(p)
  <2>0. PICK p \in Processes : SynthesisSucceeds(p)
    BY <1>1
  <2>1. PICK j \in job[p], found \in Discovered :
          Storable(j.snapshot) /\ Persist(j.snapshot, found \cap Linkable(j.snapshot))
    BY <2>0 DEF SynthesisSucceeds
  <2>2. job[p] \subseteq Job
    BY DEF IInv, TypeOK
  <2>3. j.snapshot \in Snapshot /\ Permitted(j.snapshot)
    BY <2>2 DEF Job, IInv, Sendable
  <2> QED BY <2>1, <2>3, PersistIsNotStale
<1>2. CASE \E p \in Processes : \E s \in previews[p] : ConfirmPreview(p, s)
  <2>1. PICK p \in Processes : \E s \in previews[p] : ConfirmPreview(p, s)
    BY <1>2
  <2>2. PICK s \in previews[p] : ConfirmPreview(p, s)
    BY <2>1
  <2>3. Storable(s) /\ Persist(s, {})
    BY <2>2 DEF ConfirmPreview, stored
  <2>4. s \in Snapshot /\ Permitted(s)
    BY DEF IInv, TypeOK, Sendable
  <2> QED BY <2>3, <2>4, PersistIsNotStale
<1>3. ASSUME NEW t, NEW r, NEW m, AppendLog(m, t, r) \/ CorrectLog(m, t, r)
             \/ ChangeInputs(m, t) \/ DeleteNamespace(m) \/ RequestPreview(t, m)
             \/ PreviewExpires(t, m)
      PROVE  FALSE
  BY <1>3 DEF AppendLog, CorrectLog, ChangeInputs, DeleteNamespace, RequestPreview,
              PreviewExpires, stored
<1>4. ASSUME NEW p, StartWorker(p) \/ Exit(p) \/ StartBatch(p) \/ TakeCandidate(p)
             \/ AskAgain(p) \/ SynthesisFails(p) \/ PreviewArrives(p) \/ PreviewAskedAgain(p)
      PROVE  FALSE
  BY <1>4 DEF StartWorker, Exit, StartBatch, TakeCandidate, AskAgain, SynthesisFails,
              PreviewArrives, PreviewAskedAgain, stored
<1>5. CASE UNCHANGED vars
  BY <1>5 DEF vars, stored
<1> QED BY <1>1, <1>2, <1>3, <1>4, <1>5 DEF Next, Worker

\* Whatever is written while the language model works, nothing is stored but a
\* synthesis of what the database says as it is stored, and of nothing above
\* what may be sent; no link is lost from one slice of a drain to the next.
THEOREM NeverFromStaleAlways == Spec => NeverFromStale
<1> DEFINE Kept == \A n \in Namespaces :
                     meta'[n] # meta[n] =>
                       /\ synthesis'[n] = {SnapshotOf(n)} /\ level[n] <= Approved
                       /\ meta[n].draining => refs[n] \subseteq refs'[n]
<1>1. IInv /\ [Next]_vars => [Kept]_vars
  BY StepIsNotStale
<1> QED BY <1>1, InitHolds, NextKeeps, PTL DEF Spec, NeverFromStale

================================================================================
