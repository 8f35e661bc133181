-------------------------- MODULE EntryStoreProofs --------------------------
(***************************************************************************)
(* Theorems about EntryStore, for any keys, clients, contents and bounds.  *)
(*                                                                         *)
(* The argument is an inductive invariant in layers: TypeOK; the soundness *)
(* of the correction lineage, LineageSound, inductive over TypeOK; and on  *)
(* top of both Remembered, which bounds what any client remembers of a row *)
(* by what the row holds now, and Written, which ties the writings of a    *)
(* key to its rows and links.  Each operation on the tables gets a lemma;  *)
(* the tools are built from those operations.                              *)
(***************************************************************************)
EXTENDS EntryStore, FiniteSetTheorems, TLAPS

USE EntryStoreAssumption

-----------------------------------------------------------------------------
(* Types *)

\* A sighting of a current row, or of none, is well typed.
LEMMA SightType ==
  ASSUME TypeOK, NEW k \in Keys
  PROVE  \A i \in Current(k) : Sight(i) \in Sighting
BY DEF TypeOK, Current, StateRows, Sight, Sighting, Row

\* An inserted row is well typed, whatever it corrects.
LEMMA NewRowType ==
  ASSUME TypeOK,
         NEW kind \in {"state", "log"}, NEW k \in Keys \cup {NoKey},
         NEW owner \in Clients, NEW content \in Contents \cup LogContents,
         NEW validFrom \in Nat
  PROVE  NewRow(kind, k, owner, content, validFrom) \in Row
BY DEF TypeOK, NewRow, Row

\* INSERT keeps the table's type, and its ids below the next write's number.
LEMMA WithRowType ==
  ASSUME TypeOK, NEW table, NEW row \in Row,
         DOMAIN table \subseteq 1 .. nextRev - 1,
         table \in [DOMAIN table -> Row]
  PROVE  /\ DOMAIN WithRow(table, row) \subseteq 1 .. (nextRev + 1) - 1
         /\ WithRow(table, row) \in [DOMAIN WithRow(table, row) -> Row]
BY DEF TypeOK, WithRow

\* A rewrite is stamped after everything the row recorded.
LEMMA MutationTimeAdvances ==
  ASSUME TypeOK, NEW i \in DOMAIN rows
  PROVE  /\ MutationTime(rows[i]) \in Nat
         /\ MutationTime(rows[i]) > rows[i].updated_at
         /\ MutationTime(rows[i]) > rows[i].valid_from
BY DEF TypeOK, Row, MutationTime, Later

LEMMA RewrittenType ==
  ASSUME TypeOK, NEW row \in Row, NEW content \in Contents, NEW stamp \in Nat
  PROVE  Rewritten(row, content, stamp) \in Row
BY DEF TypeOK, Rewritten, Row

LEMMA CreateStateType ==
  ASSUME TypeOK, NEW c \in Clients, NEW k \in Keys, NEW content \in Contents,
         CreateState(c, k, content), merging' \in [Clients -> Merge]
  PROVE  TypeOK'
<1>1. NewRow("state", k, c, content, now) \in Row
  BY NewRowType DEF TypeOK
<1>2. /\ DOMAIN rows' \subseteq 1 .. nextRev' - 1
      /\ rows' \in [DOMAIN rows' -> Row]
  BY <1>1, WithRowType DEF TypeOK, CreateState
<1>3. seen' \in [Clients -> [Keys -> Sighting]]
  BY DEF TypeOK, CreateState, Learn, Sighting
<1>4. said' \in [Keys -> Seq([from: Nat, rev: Nat])]
  BY DEF TypeOK, CreateState, Say
<1> QED
  BY <1>2, <1>3, <1>4 DEF TypeOK, CreateState

LEMMA RewriteStateType ==
  ASSUME TypeOK, NEW c \in Clients, NEW k \in Keys, NEW content \in Contents,
         RewriteState(c, k, content), merging' \in [Clients -> Merge]
  PROVE  TypeOK'
<1>1. PICK i \in Current(k) :
        LET stamp == MutationTime(rows[i]) IN
          /\ rows' = [rows EXCEPT ![i] = Rewritten(rows[i], content, stamp)]
          /\ Learn(c, k, i, stamp)
          /\ Say(k, stamp)
  BY DEF RewriteState
<1>2. i \in DOMAIN rows /\ i \in Nat
  BY DEF Current, StateRows, TypeOK
<1>3. MutationTime(rows[i]) \in Nat
  BY <1>2, MutationTimeAdvances
<1>4. nextRev' = nextRev + 1
  BY DEF RewriteState
<1>5. DOMAIN rows' = DOMAIN rows
  BY <1>1
<1>6. rows' \in [DOMAIN rows -> Row]
  BY <1>1, <1>2, <1>3, RewrittenType DEF TypeOK
<1>7. seen' \in [Clients -> [Keys -> Sighting]]
  BY <1>1, <1>2, <1>3 DEF TypeOK, Learn, Sighting
<1>8. said' \in [Keys -> Seq([from: Nat, rev: Nat])]
  BY <1>1, <1>3 DEF TypeOK, Say
<1> QED
  BY <1>4, <1>5, <1>6, <1>7, <1>8 DEF TypeOK, RewriteState

LEMMA SupersedeType ==
  ASSUME TypeOK, NEW i \in DOMAIN rows, NEW content \in Contents \cup LogContents,
         NEW validFrom \in Nat, Supersede(i, content, validFrom),
         seen' \in [Clients -> [Keys -> Sighting]],
         said' \in [Keys -> Seq([from: Nat, rev: Nat])]
  PROVE  TypeOK'
<1> DEFINE retired == [rows EXCEPT ![i] = Retired(rows[i])]
           row == NewRow(rows[i].kind, rows[i].key, rows[i].owner, content, validFrom)
<1>1. rows[i] \in Row /\ i \in Nat
  BY DEF TypeOK
<1>2. row \in Row
  BY <1>1, NewRowType DEF Row
<1>3. retired \in [DOMAIN rows -> Row] /\ DOMAIN retired \subseteq 1 .. nextRev - 1
  <2>1. Retired(rows[i]) \in Row
    BY <1>1 DEF Retired, Row
  <2> QED
    BY <2>1 DEF TypeOK
<1>4. rows' = WithRow(retired, row) /\ nextRev' = nextRev + 1
  BY DEF Supersede
<1>5. DOMAIN rows' \subseteq 1 .. nextRev' - 1 /\ rows' \in [DOMAIN rows' -> Row]
  <2> HIDE DEF retired, row
  <2> QED
    BY <1>2, <1>3, <1>4, WithRowType
<1>6. supersessions' \subseteq Supersession
  BY <1>1 DEF Supersede, Supersession, TypeOK
<1>7. now' = now /\ tokens' = tokens /\ merging' = merging
  BY DEF Supersede
<1>8. nextRev' \in Nat \ {0}
  BY <1>4 DEF TypeOK
<1> QED
  BY <1>5, <1>6, <1>7, <1>8 DEF TypeOK

LEMMA ConfirmDeleteType ==
  ASSUME TypeOK, NEW c \in Clients, NEW token, NEW scope, ConfirmDelete(c, token, scope)
  PROVE  TypeOK'
<1>1. rows' \in [DOMAIN rows' -> Row] /\ DOMAIN rows' \subseteq DOMAIN rows
  BY DEF TypeOK, ConfirmDelete
<1>2. supersessions' \subseteq supersessions
  BY DEF ConfirmDelete, LineageWithout
<1>3. tokens' \in [Clients -> SUBSET DeleteToken]
  BY DEF TypeOK, ConfirmDelete, SpendToken
<1>4. said' \in [Keys -> Seq([from: Nat, rev: Nat])]
  BY DEF TypeOK, ConfirmDelete
<1>5. now' = now /\ nextRev' = nextRev /\ seen' = seen /\ merging' = merging
  BY DEF ConfirmDelete
<1> QED
  BY <1>1, <1>2, <1>3, <1>4, <1>5 DEF TypeOK

\* The preview's prints and its expiry are well typed, so the token is.
LEMMA PreviewDeleteType ==
  ASSUME TypeOK, NEW c \in Clients, NEW scope \in DeleteScopes, PreviewDelete(c, scope)
  PROVE  TypeOK'
<1> DEFINE targets == DeleteTargets(c, scope)
           token == [scope |-> scope, prints |-> PrintsOf(targets),
                     expires |-> now + DeleteTokenTTL]
<1>1. scope \in Keys \cup {NoKey}
  BY DEF DeleteScopes
<1>2. PrintsOf(targets) \in SUBSET RowPrint
  BY DEF TypeOK, PrintsOf, DeleteTargets, RowPrint, Row
<1>3. now + DeleteTokenTTL \in Nat
  BY DEF TypeOK
<1>4. token \in DeleteToken
  BY <1>1, <1>2, <1>3 DEF DeleteToken
<1>5. tokens' \in [Clients -> SUBSET DeleteToken]
  BY <1>4 DEF PreviewDelete, TypeOK
<1> QED
  BY <1>5 DEF TypeOK, PreviewDelete

\* Every step keeps the types, one tool at a time.
LEMMA NextType ==
  ASSUME TypeOK, [Next]_vars
  PROVE  TypeOK'
<1>1. CASE Tick
  BY <1>1 DEF Tick, TypeOK
<1>2. ASSUME NEW c \in Clients, NEW k \in Keys, MemoryRead(c, k)
      PROVE  TypeOK'
  <2>1. NoSighting \in Sighting
    BY DEF NoSighting, Sighting, NoStamp
  <2>2. seen' \in [Clients -> [Keys -> Sighting]]
    BY <1>2, <2>1, SightType DEF MemoryRead, TypeOK
  <2> QED
    BY <1>2, <2>2 DEF MemoryRead, TypeOK
<1>3. ASSUME NEW c \in Clients, NEW k \in StatusKeys, UpdateStatusRead(c, k)
      PROVE  TypeOK'
  <2> DEFINE base == IF Current(k) = {} THEN NoSighting
                     ELSE Sight(CHOOSE i \in Current(k) : TRUE)
  <2>1. base \in Sighting /\ k \in Keys
    BY SightType DEF NoSighting, Sighting, NoStamp
  <2>2. PICK expected \in Nat :
          merging' = [merging EXCEPT ![c] = [key |-> k, base |-> base, expected |-> expected]]
    <3>1. base.updated_at \in Nat /\ seen[c][k].updated_at \in Nat /\ NoStamp \in Nat
      BY <2>1 DEF Sighting, TypeOK, NoStamp
    <3> QED
      BY <1>3, <3>1 DEF UpdateStatusRead
  <2>3. merging' \in [Clients -> Merge]
    BY <2>1, <2>2 DEF Merge, TypeOK
  <2> QED
    BY <1>3, <2>3 DEF UpdateStatusRead, TypeOK
<1>4. ASSUME NEW c \in Clients, NEW k \in Keys, NEW content \in Contents,
             \/ MemoryWrite(c, k, content)
             \/ CompareAndSwap(c, k, content)
             \/ MemoryCreateIfAbsent(c, k, content)
             \/ MemoryPatch(c, k, content)
      PROVE  TypeOK'
  <2>1. merging' \in [Clients -> Merge]
    BY <1>4 DEF TypeOK, MemoryWrite, CompareAndSwap, MemoryCreateIfAbsent, MemoryPatch
  <2>2. CreateState(c, k, content) \/ RewriteState(c, k, content)
    BY <1>4 DEF WriteState, MemoryWrite, CompareAndSwap, MemoryCreateIfAbsent, MemoryPatch
  <2> QED
    BY <2>1, <2>2, CreateStateType, RewriteStateType
<1>5. ASSUME NEW c \in Clients, NEW k \in Keys, NEW content \in Contents,
             MemorySupersede(c, k, content)
      PROVE  TypeOK'
  <2> DEFINE i == seen[c][k].id
  <2>1. i \in DOMAIN rows
    BY <1>5 DEF MemorySupersede, StateRows
  <2>2. PICK validFrom \in CorrectionTimes(c, i) :
          Supersede(i, content, validFrom) /\ Say(k, validFrom)
    BY <1>5 DEF MemorySupersede
  <2>3. validFrom \in Nat
    BY <2>1 DEF CorrectionTimes, Later, TypeOK, Row
  <2>4. seen' \in [Clients -> [Keys -> Sighting]]
    BY <1>5 DEF MemorySupersede, Learn, Sighting, TypeOK
  <2>5. said' \in [Keys -> Seq([from: Nat, rev: Nat])]
    BY <2>2, <2>3 DEF Say, TypeOK
  <2> QED
    BY <2>1, <2>2, <2>3, <2>4, <2>5, SupersedeType
<1>6. ASSUME NEW c \in Clients, NEW content \in Contents, UpdateStatusWrite(c, content)
      PROVE  TypeOK'
  <2>1. NoMerge \in Merge
    BY DEF NoMerge, Merge, NoSighting, Sighting, NoStamp
  <2>2. merging' \in [Clients -> Merge]
    BY <1>6, <2>1 DEF UpdateStatusWrite, TypeOK
  <2>3. merging[c].key \in Keys
    BY <1>6 DEF UpdateStatusWrite
  <2>4. CreateState(c, merging[c].key, content) \/ RewriteState(c, merging[c].key, content)
    BY <1>6 DEF UpdateStatusWrite, WriteState
  <2> QED
    BY <2>2, <2>3, <2>4, CreateStateType, RewriteStateType
<1>7. ASSUME NEW c \in Clients, UpdateStatusRefused(c) \/ Restart(c)
      PROVE  TypeOK'
  <2>1. NoMerge \in Merge
    BY DEF NoMerge, Merge, NoSighting, Sighting, NoStamp
  <2> QED
    BY <1>7, <2>1 DEF UpdateStatusRefused, Restart, TypeOK
<1>8. ASSUME NEW c \in Clients, NEW content \in LogContents, AppendLog(c, content)
      PROVE  TypeOK'
  <2>1. NewRow("log", NoKey, c, content, now) \in Row
    BY NewRowType DEF TypeOK
  <2>2. DOMAIN rows' \subseteq 1 .. nextRev' - 1 /\ rows' \in [DOMAIN rows' -> Row]
    BY <1>8, <2>1, WithRowType DEF AppendLog, TypeOK
  <2> QED
    BY <1>8, <2>2 DEF AppendLog, TypeOK
<1>9. ASSUME NEW c \in Clients, NEW content \in LogContents, SupersedeLog(c, content)
      PROVE  TypeOK'
  <2>1. PICK i \in CurrentLogs : \E validFrom \in rows[i].valid_from .. now \cup {now} :
          Supersede(i, content, validFrom)
    BY <1>9 DEF SupersedeLog
  <2>4. PICK validFrom \in rows[i].valid_from .. now \cup {now} :
          Supersede(i, content, validFrom)
    BY <2>1
  <2>2. i \in DOMAIN rows /\ validFrom \in Nat
    BY DEF CurrentLogs, TypeOK, Row
  <2>3. /\ seen' \in [Clients -> [Keys -> Sighting]]
        /\ said' \in [Keys -> Seq([from: Nat, rev: Nat])]
    BY <1>9 DEF SupersedeLog, TypeOK
  <2> QED
    BY <2>2, <2>3, <2>4, SupersedeType
<1>10. ASSUME NEW c \in Clients, NEW scope \in DeleteScopes, PreviewDelete(c, scope)
       PROVE  TypeOK'
  BY <1>10, PreviewDeleteType
<1>11. ASSUME NEW c \in Clients, NEW token \in tokens[c], NEW scope \in DeleteScopes,
              ConfirmDelete(c, token, scope) \/ ConfirmDeleteFails(c, token, scope)
       PROVE  TypeOK'
  <2>1. CASE ConfirmDelete(c, token, scope)
    BY <2>1, ConfirmDeleteType
  <2>2. CASE ConfirmDeleteFails(c, token, scope)
    BY <2>2 DEF ConfirmDeleteFails, SpendToken, TypeOK
  <2> QED
    BY <1>11, <2>1, <2>2
<1>12. ASSUME NEW c \in Clients, SweepTokens(c)
       PROVE  TypeOK'
  BY <1>12 DEF SweepTokens, TypeOK
<1>13. CASE UNCHANGED vars
  BY <1>13 DEF vars, TypeOK
<1> QED
  BY <1>1, <1>2, <1>3, <1>4, <1>5, <1>6, <1>7, <1>8, <1>9, <1>10, <1>11, <1>12, <1>13
     DEF Next

LEMMA InitType == Init => TypeOK
BY DEF Init, TypeOK, NoSighting, NoMerge, Sighting, Merge, NoStamp

\* The types hold for every number of keys, clients and writes.
THEOREM TypeCorrect == Spec => []TypeOK
BY InitType, NextType, PTL DEF Spec

-----------------------------------------------------------------------------
(* The lineage *)

\* INSERT adds one row under a fresh id and changes no other.
LEMMA WithRowEffect ==
  ASSUME TypeOK, NEW table, DOMAIN table = DOMAIN rows, NEW row,
         rows' = WithRow(table, row)
  PROVE  /\ nextRev \notin DOMAIN rows
         /\ DOMAIN rows' = DOMAIN rows \cup {nextRev}
         /\ rows'[nextRev] = row
         /\ \A j \in DOMAIN rows : rows'[j] = table[j]
BY DEF TypeOK, WithRow

\* Creating the current row of a key that has none.
LEMMA CreateStateLineage ==
  ASSUME TypeOK, LineageSound, NEW c \in Clients, NEW k \in Keys,
         NEW content \in Contents, CreateState(c, k, content)
  PROVE  LineageSound'
<1> DEFINE row == NewRow("state", k, c, content, now)
<1>1. /\ nextRev \notin DOMAIN rows
      /\ DOMAIN rows' = DOMAIN rows \cup {nextRev}
      /\ rows'[nextRev] = row
      /\ \A j \in DOMAIN rows : rows'[j] = rows[j]
  <2>1. rows' = WithRow(rows, row)
    BY DEF CreateState
  <2> HIDE DEF row
  <2> QED
    BY <2>1, WithRowEffect
<1>2. /\ row.kind = "state" /\ row.key = k /\ row.owner = c /\ row.is_current = TRUE
      /\ supersessions' = supersessions
  BY DEF NewRow, CreateState
<1>3. StateRows(k) = {}
  BY DEF CreateState, LineageSound, HistoryHasHead
<1> HIDE DEF row
<1>4. \A l \in Keys : StateRows(l)' = IF l = k THEN {nextRev} ELSE StateRows(l)
  BY <1>1, <1>2, <1>3 DEF StateRows, IsState
<1>5. OneCurrentRow'
  BY <1>1, <1>4 DEF LineageSound, OneCurrentRow, Current, StateRows
<1>6. RetiredIffSuperseded'
  BY <1>1, <1>2 DEF LineageSound, RetiredIffSuperseded, HasSuccessor, LinksJoinRevisions
<1>7. LinksJoinRevisions'
  BY <1>1, <1>2 DEF LineageSound, LinksJoinRevisions
<1>8. LinksFormChains'
  BY <1>2 DEF LineageSound, LinksFormChains
<1>9. HistoryHasHead'
  BY <1>1, <1>2, <1>4 DEF LineageSound, HistoryHasHead, Current, StateRows
<1>10. OneOwner'
  BY <1>1, <1>4 DEF LineageSound, OneOwner, StateRows
<1> QED
  BY <1>5, <1>6, <1>7, <1>8, <1>9, <1>10 DEF LineageSound

\* Rewriting the current row in place: it heads its chain, so only the link into
\* it can notice, and its validity only moves forward.
LEMMA RewriteStateLineage ==
  ASSUME TypeOK, LineageSound, NEW c \in Clients, NEW k \in Keys,
         NEW content \in Contents, RewriteState(c, k, content)
  PROVE  LineageSound'
<1>1. PICK i \in Current(k) :
        rows' = [rows EXCEPT ![i] = Rewritten(rows[i], content, MutationTime(rows[i]))]
  BY DEF RewriteState
<1>2. supersessions' = supersessions
  BY DEF RewriteState
<1>3. i \in DOMAIN rows /\ rows[i].is_current
  BY DEF Current, StateRows
<1>4. /\ DOMAIN rows' = DOMAIN rows
      /\ \A j \in DOMAIN rows :
           /\ rows'[j].kind = rows[j].kind /\ rows'[j].key = rows[j].key
           /\ rows'[j].owner = rows[j].owner /\ rows'[j].is_current = rows[j].is_current
           /\ j # i => rows'[j] = rows[j]
      /\ rows'[i].valid_from = MutationTime(rows[i])
  <2>1. rows[i] \in Row
    BY <1>3 DEF TypeOK
  <2> QED
    BY <1>1, <1>3, <2>1 DEF Rewritten, Row
<1>5. \A l \in Keys : StateRows(l)' = StateRows(l) /\ Current(l)' = Current(l)
  BY <1>4 DEF StateRows, IsState, Current
<1>6. OneCurrentRow' /\ HistoryHasHead'
  BY <1>5 DEF LineageSound, OneCurrentRow, HistoryHasHead
<1>7. RetiredIffSuperseded'
  BY <1>2, <1>4 DEF LineageSound, RetiredIffSuperseded, HasSuccessor
<1>8. LinksJoinRevisions'
  <2> SUFFICES ASSUME NEW s \in supersessions
               PROVE  /\ {s.predecessor, s.successor} \subseteq DOMAIN rows'
                      /\ s.predecessor < s.successor
                      /\ rows'[s.predecessor].kind = rows'[s.successor].kind
                      /\ rows'[s.predecessor].key = rows'[s.successor].key
                      /\ rows'[s.predecessor].owner = rows'[s.successor].owner
                      /\ rows'[s.predecessor].valid_from <= s.effective_at
                      /\ s.effective_at <= rows'[s.successor].valid_from
    BY <1>2 DEF LinksJoinRevisions
  <2>1. /\ {s.predecessor, s.successor} \subseteq DOMAIN rows
        /\ s.predecessor < s.successor
        /\ rows[s.predecessor].kind = rows[s.successor].kind
        /\ rows[s.predecessor].key = rows[s.successor].key
        /\ rows[s.predecessor].owner = rows[s.successor].owner
        /\ rows[s.predecessor].valid_from <= s.effective_at
        /\ s.effective_at <= rows[s.successor].valid_from
    BY DEF LineageSound, LinksJoinRevisions
  <2>2. s.predecessor # i
    BY <1>3 DEF LineageSound, RetiredIffSuperseded, HasSuccessor
  <2>3. /\ s.effective_at \in Nat
        /\ rows[s.successor].valid_from \in Nat
        /\ rows'[s.successor].valid_from \in Nat
        /\ rows'[s.successor].valid_from >= rows[s.successor].valid_from
    <3>1. s.effective_at \in Nat
      BY DEF TypeOK, Supersession
    <3>2. rows[s.successor].valid_from \in Nat
      BY <2>1 DEF TypeOK, Row
    <3>3. CASE s.successor = i
      BY <3>1, <3>2, <3>3, <1>3, <1>4, MutationTimeAdvances
    <3>4. CASE s.successor # i
      BY <3>1, <3>2, <3>4, <2>1, <1>4
    <3> QED
      BY <3>3, <3>4
  <2> QED
    BY <2>1, <2>2, <2>3, <1>4
<1>9. LinksFormChains'
  BY <1>2 DEF LineageSound, LinksFormChains
<1>10. OneOwner'
  BY <1>4, <1>5 DEF LineageSound, OneOwner, StateRows
<1> QED
  BY <1>6, <1>7, <1>8, <1>9, <1>10 DEF LineageSound

\* A correction retires its target and becomes the new head under its owner.
LEMMA SupersedeLineage ==
  ASSUME TypeOK, LineageSound, NEW i \in DOMAIN rows, NEW content, NEW validFrom \in Nat,
         Supersede(i, content, validFrom)
  PROVE  LineageSound'
<1> DEFINE retired == [rows EXCEPT ![i] = Retired(rows[i])]
           row == NewRow(rows[i].kind, rows[i].key, rows[i].owner, content, validFrom)
           link == [predecessor |-> i, successor |-> nextRev, effective_at |-> validFrom]
<1>0. rows[i] \in Row /\ i \in 1 .. nextRev - 1 /\ nextRev \in Nat
  BY DEF TypeOK
<1>1. /\ rows[i].is_current /\ ~HasSuccessor(i) /\ validFrom >= rows[i].valid_from
      /\ supersessions' = supersessions \cup {link}
  BY DEF Supersede
<1>2. /\ nextRev \notin DOMAIN rows
      /\ DOMAIN rows' = DOMAIN rows \cup {nextRev}
      /\ rows'[nextRev] = row
      /\ \A j \in DOMAIN rows : rows'[j] = retired[j]
  <2>1. rows' = WithRow(retired, row) /\ DOMAIN retired = DOMAIN rows
    BY DEF Supersede
  <2> HIDE DEF row, retired
  <2> QED
    BY <2>1, WithRowEffect
<1>3. /\ \A j \in DOMAIN rows : j # i => rows'[j] = rows[j]
      /\ rows'[i].kind = rows[i].kind /\ rows'[i].key = rows[i].key
      /\ rows'[i].owner = rows[i].owner /\ rows'[i].valid_from = rows[i].valid_from
      /\ rows'[i].is_current = FALSE
  BY <1>0, <1>2 DEF Retired, Row
<1>4. /\ rows'[nextRev].kind = rows[i].kind /\ rows'[nextRev].key = rows[i].key
      /\ rows'[nextRev].owner = rows[i].owner /\ rows'[nextRev].valid_from = validFrom
      /\ rows'[nextRev].is_current = TRUE
  BY <1>2 DEF NewRow
<1>5. \A s \in supersessions : {s.predecessor, s.successor} \subseteq DOMAIN rows
  BY DEF LineageSound, LinksJoinRevisions
<1>6. \A k \in Keys : StateRows(k)' = IF IsState(k, i) THEN StateRows(k) \cup {nextRev}
                                      ELSE StateRows(k)
  BY <1>2, <1>3, <1>4 DEF StateRows, IsState
<1>7. \A k \in Keys : Current(k)' = IF IsState(k, i) THEN {nextRev} ELSE Current(k)
  <2> SUFFICES ASSUME NEW k \in Keys
               PROVE  Current(k)' = IF IsState(k, i) THEN {nextRev} ELSE Current(k)
    OBVIOUS
  <2>1. CASE IsState(k, i)
    <3>1. i \in Current(k)
      BY <2>1, <1>1 DEF Current, StateRows
    <3>2. \A j \in StateRows(k) : j # i => ~rows[j].is_current
      BY <3>1 DEF LineageSound, OneCurrentRow, Current
    <3> QED
      BY <2>1, <3>2, <1>2, <1>3, <1>4, <1>6 DEF Current, StateRows
  <2>2. CASE ~IsState(k, i)
    BY <2>2, <1>2, <1>3, <1>6 DEF Current, StateRows
  <2> QED
    BY <2>1, <2>2
<1>8. OneCurrentRow'
  BY <1>7 DEF LineageSound, OneCurrentRow
<1>9. HistoryHasHead'
  BY <1>6, <1>7 DEF LineageSound, HistoryHasHead
<1>10. OneOwner'
  <2>1. \A k \in Keys : \A j \in StateRows(k)' :
          IF IsState(k, i) THEN rows'[j].owner = rows[i].owner
          ELSE j \in StateRows(k) /\ rows'[j].owner = rows[j].owner
    BY <1>2, <1>3, <1>4, <1>6 DEF LineageSound, OneOwner, StateRows
  <2> QED
    BY <2>1 DEF LineageSound, OneOwner
<1>11. RetiredIffSuperseded'
  <2>1. link \in supersessions' /\ link.predecessor = i
    BY <1>1
  <2>2. \A s \in supersessions' : s.predecessor # nextRev
    BY <1>0, <1>1, <1>2, <1>5
  <2>3. \A j \in DOMAIN rows : j # i =>
          ((\E s \in supersessions' : s.predecessor = j) <=> HasSuccessor(j))
    BY <1>1 DEF HasSuccessor
  <2> HIDE DEF link, row, retired
  <2> SUFFICES ASSUME NEW j \in DOMAIN rows'
               PROVE  ~rows'[j].is_current <=> \E s \in supersessions' : s.predecessor = j
    BY DEF RetiredIffSuperseded, HasSuccessor
  <2>4. CASE j = i
    BY <2>1, <2>4, <1>3
  <2>5. CASE j = nextRev
    BY <2>2, <2>5, <1>4
  <2>6. CASE j # i /\ j # nextRev
    BY <2>3, <2>6, <1>2, <1>3 DEF LineageSound, RetiredIffSuperseded
  <2> QED
    BY <2>4, <2>5, <2>6
<1>12. LinksJoinRevisions'
  <2>1. /\ i < nextRev
        /\ i \in DOMAIN rows' /\ nextRev \in DOMAIN rows'
        /\ rows'[i].valid_from <= validFrom
    BY <1>0, <1>1, <1>2, <1>3 DEF Row
  <2>2. \A s \in supersessions :
          /\ rows'[s.predecessor].kind = rows[s.predecessor].kind
          /\ rows'[s.predecessor].key = rows[s.predecessor].key
          /\ rows'[s.predecessor].owner = rows[s.predecessor].owner
          /\ rows'[s.predecessor].valid_from = rows[s.predecessor].valid_from
          /\ rows'[s.successor].kind = rows[s.successor].kind
          /\ rows'[s.successor].key = rows[s.successor].key
          /\ rows'[s.successor].owner = rows[s.successor].owner
          /\ rows'[s.successor].valid_from = rows[s.successor].valid_from
    BY <1>3, <1>5
  <2> QED
    BY <2>1, <2>2, <1>1, <1>2, <1>3, <1>4 DEF LineageSound, LinksJoinRevisions
<1>13. LinksFormChains'
  BY <1>1, <1>2, <1>5 DEF LineageSound, LinksFormChains, HasSuccessor
<1> QED
  BY <1>8, <1>9, <1>10, <1>11, <1>12, <1>13 DEF LineageSound

\* A delete's scope takes all the state rows of a key or none: they share an owner.
LEMMA ScopeTakesWholeKeys ==
  ASSUME TypeOK, LineageSound, NEW c \in Clients, NEW scope \in Keys \cup {NoKey},
         NEW k \in Keys, NEW i \in StateRows(k), NEW j \in StateRows(k),
         InScope(c, scope, i)
  PROVE  InScope(c, scope, j)
<1>1. rows[i].owner = rows[j].owner
  BY DEF LineageSound, OneOwner
<1>2. rows[i].kind = "state" /\ rows[i].key = k /\ rows[j].kind = "state" /\ rows[j].key = k
  BY DEF StateRows, IsState
<1> QED
  BY <1>1, <1>2 DEF InScope, IsState

\* A confirmed delete leaves whole chains behind.
LEMMA ConfirmDeleteLineage ==
  ASSUME TypeOK, LineageSound, NEW c \in Clients, NEW token,
         NEW scope \in Keys \cup {NoKey}, ConfirmDelete(c, token, scope)
  PROVE  LineageSound'
<1> DEFINE targets == DeleteTargets(c, scope)
           gone == Removed(c, scope)
<1>1. gone = {} \/ gone = targets
  BY DEF Removed
<1>2. CompleteLineage(targets)
  BY DEF ConfirmDelete, Confirms
<1>3. /\ DOMAIN rows' = DOMAIN rows \ gone
      /\ \A j \in DOMAIN rows \ gone : rows'[j] = rows[j]
      /\ supersessions' = {s \in supersessions : s.predecessor \notin gone
                                              /\ s.successor \notin gone}
  BY DEF ConfirmDelete, LineageWithout
<1>4. \A s \in supersessions : s.predecessor \in gone <=> s.successor \in gone
  BY <1>1, <1>2 DEF CompleteLineage
<1>5. \A k \in Keys : \A i, j \in StateRows(k) : i \in gone => j \in gone
  <2>1. CASE gone = {}
    BY <2>1
  <2>2. CASE gone = targets
    <3> SUFFICES ASSUME NEW k \in Keys, NEW i \in StateRows(k), NEW j \in StateRows(k),
                        i \in targets
                 PROVE  j \in targets
      BY <2>2
    <3>1. InScope(c, scope, i)
      BY DEF DeleteTargets
    <3>2. InScope(c, scope, j)
      BY <3>1, ScopeTakesWholeKeys
    <3> QED
      BY <3>2 DEF DeleteTargets, StateRows
  <2> QED
    BY <1>1, <2>1, <2>2
<1> HIDE DEF gone, targets
<1>6. \A k \in Keys : StateRows(k)' = StateRows(k) \ gone /\ Current(k)' = Current(k) \ gone
  BY <1>3 DEF StateRows, IsState, Current
<1>7. OneCurrentRow'
  BY <1>6 DEF LineageSound, OneCurrentRow
<1>8. RetiredIffSuperseded'
  BY <1>3, <1>4 DEF LineageSound, RetiredIffSuperseded, HasSuccessor
<1>9. LinksJoinRevisions'
  BY <1>3 DEF LineageSound, LinksJoinRevisions
<1>10. LinksFormChains'
  BY <1>3 DEF LineageSound, LinksFormChains
<1>11. HistoryHasHead'
  <2> SUFFICES ASSUME NEW k \in Keys, NEW j \in StateRows(k) \ gone
               PROVE  \E i \in Current(k) : i \notin gone
    BY <1>6 DEF HistoryHasHead
  <2>1. PICK i \in Current(k) : TRUE
    BY DEF LineageSound, HistoryHasHead
  <2>2. i \in StateRows(k)
    BY DEF Current
  <2> QED
    BY <1>5, <2>1, <2>2
<1>12. OneOwner'
  BY <1>3, <1>6 DEF LineageSound, OneOwner, StateRows
<1> QED
  BY <1>7, <1>8, <1>9, <1>10, <1>11, <1>12 DEF LineageSound

\* The lineage is a matter of the two tables alone.
LEMMA TablesUnchanged ==
  ASSUME LineageSound, UNCHANGED <<rows, supersessions>>
  PROVE  LineageSound'
BY DEF LineageSound, OneCurrentRow, RetiredIffSuperseded, LinksJoinRevisions,
       LinksFormChains, HistoryHasHead, OneOwner, Current, StateRows, IsState, HasSuccessor

\* A new log is linked to nothing and is no state entry's row.
LEMMA AppendLogLineage ==
  ASSUME TypeOK, LineageSound, NEW c \in Clients, NEW content \in LogContents,
         AppendLog(c, content)
  PROVE  LineageSound'
<1> DEFINE row == NewRow("log", NoKey, c, content, now)
<1>1. /\ nextRev \notin DOMAIN rows
      /\ DOMAIN rows' = DOMAIN rows \cup {nextRev}
      /\ rows'[nextRev] = row
      /\ \A j \in DOMAIN rows : rows'[j] = rows[j]
  <2>1. rows' = WithRow(rows, row)
    BY DEF AppendLog
  <2> HIDE DEF row
  <2> QED
    BY <2>1, WithRowEffect
<1>2. row.kind = "log" /\ row.is_current = TRUE /\ supersessions' = supersessions
  BY DEF NewRow, AppendLog
<1> HIDE DEF row
<1>3. \A k \in Keys : StateRows(k)' = StateRows(k) /\ Current(k)' = Current(k)
  BY <1>1, <1>2 DEF StateRows, IsState, Current
<1>4. OneCurrentRow' /\ HistoryHasHead'
  BY <1>3 DEF LineageSound, OneCurrentRow, HistoryHasHead
<1>5. RetiredIffSuperseded'
  BY <1>1, <1>2 DEF LineageSound, RetiredIffSuperseded, HasSuccessor, LinksJoinRevisions
<1>6. LinksJoinRevisions' /\ LinksFormChains'
  BY <1>1, <1>2 DEF LineageSound, LinksJoinRevisions, LinksFormChains
<1>7. OneOwner'
  BY <1>1, <1>3 DEF LineageSound, OneOwner, StateRows
<1> QED
  BY <1>4, <1>5, <1>6, <1>7 DEF LineageSound

LEMMA NextLineage ==
  ASSUME TypeOK, LineageSound, [Next]_vars
  PROVE  LineageSound'
<1>1. CASE UNCHANGED <<rows, supersessions>>
  BY <1>1, TablesUnchanged
<1>2. ASSUME NEW c \in Clients, NEW k \in Keys, NEW content \in Contents,
             CreateState(c, k, content) \/ RewriteState(c, k, content)
      PROVE  LineageSound'
  BY <1>2, CreateStateLineage, RewriteStateLineage
<1>3. ASSUME NEW i \in DOMAIN rows, NEW content, NEW validFrom \in Nat,
             Supersede(i, content, validFrom)
      PROVE  LineageSound'
  BY <1>3, SupersedeLineage
<1>4. ASSUME NEW c \in Clients, NEW k \in Keys, NEW content \in Contents,
             \/ MemoryWrite(c, k, content)
             \/ CompareAndSwap(c, k, content)
             \/ MemoryCreateIfAbsent(c, k, content)
             \/ MemoryPatch(c, k, content)
      PROVE  LineageSound'
  BY <1>2, <1>4 DEF MemoryWrite, CompareAndSwap, MemoryCreateIfAbsent, MemoryPatch, WriteState
<1>5. ASSUME NEW c \in Clients, NEW content \in Contents, UpdateStatusWrite(c, content)
      PROVE  LineageSound'
  BY <1>2, <1>5 DEF UpdateStatusWrite, WriteState
<1>6. ASSUME NEW c \in Clients, NEW k \in Keys, NEW content \in Contents,
             MemorySupersede(c, k, content)
      PROVE  LineageSound'
  <2>1. seen[c][k].id \in DOMAIN rows
    BY <1>6 DEF MemorySupersede, StateRows
  <2>2. \A validFrom \in CorrectionTimes(c, seen[c][k].id) : validFrom \in Nat
    BY <2>1 DEF CorrectionTimes, Later, TypeOK, Row
  <2> QED
    BY <1>3, <1>6, <2>1, <2>2 DEF MemorySupersede
<1>7. ASSUME NEW c \in Clients, NEW content \in LogContents, SupersedeLog(c, content)
      PROVE  LineageSound'
  <2>1. \A i \in CurrentLogs : i \in DOMAIN rows /\ rows[i].valid_from \in Nat
    BY DEF CurrentLogs, TypeOK, Row
  <2> QED
    BY <1>3, <1>7, <2>1 DEF SupersedeLog, TypeOK
<1>8. ASSUME NEW c \in Clients, NEW token, NEW scope \in DeleteScopes,
             ConfirmDelete(c, token, scope)
      PROVE  LineageSound'
  BY <1>8, ConfirmDeleteLineage DEF DeleteScopes
<1>9. ASSUME NEW c \in Clients, NEW content \in LogContents, AppendLog(c, content)
      PROVE  LineageSound'
  BY <1>9, AppendLogLineage
<1> QED
  BY <1>1, <1>4, <1>5, <1>6, <1>7, <1>8, <1>9
     DEF Next, vars, Tick, MemoryRead, UpdateStatusRead, UpdateStatusRefused,
         PreviewDelete, ConfirmDeleteFails, SweepTokens, Restart

\* However overwrites, corrections, deletes and re-creations interleave, each key
\* has at most one current row, retired rows are exactly the superseded ones, and
\* the links form chains of one entry and one owner that end at the current row.
THEOREM LineageAlwaysSound == Spec => []LineageSound
<1>1. Init => LineageSound
  BY DEF Init, LineageSound, OneCurrentRow, RetiredIffSuperseded, LinksJoinRevisions,
         LinksFormChains, HistoryHasHead, OneOwner, Current, StateRows, HasSuccessor
<1> QED
  BY <1>1, TypeCorrect, NextLineage, PTL DEF Spec

-----------------------------------------------------------------------------
(* What clients remember *)

\* A memory of a row is either behind the row's stamp or is the row's own write:
\* what makes StampIdentifiesRevision inductive, since a client may look away
\* while the row moves on.
Remembers(s) ==
  /\ s.id < nextRev
  /\ s.id \in DOMAIN rows =>
       \/ s.updated_at < rows[s.id].updated_at
       \/ s.updated_at = rows[s.id].updated_at /\ s.rev = rows[s.id].rev

Remembered ==
  \A c \in Clients : /\ \A k \in Keys : Remembers(seen[c][k])
                     /\ Remembers(merging[c].base)

\* A step replaces a row's write only together with its stamp, by a later one;
\* every other row is new.
Advance ==
  /\ nextRev <= nextRev'
  /\ \A i \in DOMAIN rows' :
       \/ i = nextRev /\ nextRev < nextRev'
       \/ /\ i \in DOMAIN rows
          /\ \/ rows[i].updated_at < rows'[i].updated_at
             \/ rows'[i].updated_at = rows[i].updated_at /\ rows'[i].rev = rows[i].rev

\* s agrees with the row it names, as the step leaves it.
Fresh(s) ==
  /\ s.id < nextRev'
  /\ s.id \in DOMAIN rows' =>
       s.updated_at = rows'[s.id].updated_at /\ s.rev = rows'[s.id].rev

\* A memory kept through a step stays true of the tables after it.
LEMMA MemoryKept ==
  ASSUME TypeOK, TypeOK', Advance, NEW s \in Sighting, Remembers(s)
  PROVE  /\ s.id < nextRev'
         /\ s.id \in DOMAIN rows' =>
              \/ s.updated_at < rows'[s.id].updated_at
              \/ s.updated_at = rows'[s.id].updated_at /\ s.rev = rows'[s.id].rev
<1>1. s.id \in Nat /\ s.updated_at \in Nat /\ nextRev \in Nat /\ nextRev' \in Nat
  BY DEF Sighting, TypeOK
<1>2. s.id < nextRev'
  BY <1>1 DEF Advance, Remembers
<1>3. ASSUME s.id \in DOMAIN rows'
      PROVE  \/ s.updated_at < rows'[s.id].updated_at
             \/ s.updated_at = rows'[s.id].updated_at /\ s.rev = rows'[s.id].rev
  <2>1. s.id # nextRev
    BY <1>1 DEF Remembers
  <2>2. s.id \in DOMAIN rows
    BY <1>3, <2>1 DEF Advance
  <2>3. rows[s.id].updated_at \in Nat /\ rows'[s.id].updated_at \in Nat
    BY <1>3, <2>2 DEF TypeOK, Row
  <2> QED
    BY <1>1, <1>3, <2>1, <2>2, <2>3 DEF Advance, Remembers
<1> QED
  BY <1>2, <1>3

LEMMA CreateStateAdvance ==
  ASSUME TypeOK, NEW c \in Clients, NEW k \in Keys, NEW content, CreateState(c, k, content)
  PROVE  /\ Advance
         /\ Fresh([id |-> nextRev, updated_at |-> now, rev |-> nextRev])
<1> DEFINE row == NewRow("state", k, c, content, now)
<1>1. rows' = WithRow(rows, row) /\ nextRev' = nextRev + 1
  BY DEF CreateState
<1>2. row.updated_at = now /\ row.rev = nextRev
  BY DEF NewRow
<1> HIDE DEF row
<1>3. /\ DOMAIN rows' = DOMAIN rows \cup {nextRev} /\ rows'[nextRev] = row
      /\ \A j \in DOMAIN rows : rows'[j] = rows[j]
  BY <1>1, WithRowEffect
<1> QED
  BY <1>1, <1>2, <1>3 DEF Advance, Fresh, TypeOK

LEMMA RewriteStateAdvance ==
  ASSUME TypeOK, NEW c \in Clients, NEW k \in Keys, NEW content, RewriteState(c, k, content)
  PROVE  /\ Advance
         /\ \E i \in DOMAIN rows :
              LET stamp == MutationTime(rows[i]) IN
                Learn(c, k, i, stamp) /\ Fresh([id |-> i, updated_at |-> stamp, rev |-> nextRev])
<1>1. PICK i \in Current(k) :
        /\ rows' = [rows EXCEPT ![i] = Rewritten(rows[i], content, MutationTime(rows[i]))]
        /\ Learn(c, k, i, MutationTime(rows[i]))
  BY DEF RewriteState
<1>2. i \in DOMAIN rows /\ rows[i] \in Row /\ i \in 1 .. nextRev - 1
  BY DEF Current, StateRows, TypeOK
<1>3. /\ DOMAIN rows' = DOMAIN rows /\ nextRev' = nextRev + 1
      /\ \A j \in DOMAIN rows : j # i => rows'[j] = rows[j]
      /\ rows'[i].updated_at = MutationTime(rows[i]) /\ rows'[i].rev = nextRev
  BY <1>1, <1>2 DEF RewriteState, Rewritten, Row
<1>4. MutationTime(rows[i]) > rows[i].updated_at /\ MutationTime(rows[i]) \in Nat
  BY <1>2, MutationTimeAdvances
<1>5. Advance
  <2>1. rows[i].updated_at < rows'[i].updated_at
    BY <1>2, <1>3, <1>4 DEF Row
  <2>2. nextRev <= nextRev'
    BY <1>3 DEF TypeOK
  <2> QED
    BY <1>3, <2>1, <2>2 DEF Advance
<1>6. Fresh([id |-> i, updated_at |-> MutationTime(rows[i]), rev |-> nextRev])
  BY <1>2, <1>3 DEF Fresh, TypeOK
<1> QED
  BY <1>1, <1>2, <1>5, <1>6

LEMMA SupersedeAdvance ==
  ASSUME TypeOK, NEW i \in DOMAIN rows, NEW content, NEW validFrom,
         Supersede(i, content, validFrom)
  PROVE  /\ Advance
         /\ Fresh([id |-> nextRev, updated_at |-> now, rev |-> nextRev])
<1> DEFINE retired == [rows EXCEPT ![i] = Retired(rows[i])]
           row == NewRow(rows[i].kind, rows[i].key, rows[i].owner, content, validFrom)
<1>1. rows' = WithRow(retired, row) /\ nextRev' = nextRev + 1 /\ DOMAIN retired = DOMAIN rows
  BY DEF Supersede
<1>2. row.updated_at = now /\ row.rev = nextRev
  BY DEF NewRow
<1>3. \A j \in DOMAIN rows :
        retired[j].updated_at = rows[j].updated_at /\ retired[j].rev = rows[j].rev
  BY DEF Retired, Row, TypeOK
<1> HIDE DEF row, retired
<1>4. /\ DOMAIN rows' = DOMAIN rows \cup {nextRev} /\ rows'[nextRev] = row
      /\ \A j \in DOMAIN rows : rows'[j] = retired[j]
  BY <1>1, WithRowEffect
<1> QED
  BY <1>1, <1>2, <1>3, <1>4 DEF Advance, Fresh, TypeOK

\* Sightings are taken of stored rows.
LEMMA SightFresh ==
  ASSUME TypeOK, TypeOK'
  PROVE  /\ Fresh(NoSighting)
         /\ rows' = rows => \A k \in Keys : \A i \in Current(k) : Fresh(Sight(i))
<1>1. Fresh(NoSighting)
  BY DEF TypeOK, Fresh, NoSighting
<1>2. ASSUME rows' = rows, NEW k \in Keys, NEW i \in Current(k)
      PROVE  Fresh(Sight(i))
  <2>1. i \in DOMAIN rows' /\ i \in 1 .. nextRev' - 1
    BY <1>2 DEF Current, StateRows, TypeOK
  <2> QED
    BY <1>2, <2>1 DEF TypeOK, Fresh, Sight
<1> QED
  BY <1>1, <1>2

\* What a step must show: rows only advance, and what is learned is fresh.
LEMMA StepRemembers ==
  ASSUME TypeOK, TypeOK', Remembered, Advance,
         \A c \in Clients :
           /\ \A k \in Keys : seen'[c][k] = seen[c][k] \/ Fresh(seen'[c][k])
           /\ merging'[c].base = merging[c].base \/ Fresh(merging'[c].base)
  PROVE  Remembered'
<1>1. ASSUME NEW s \in Sighting, Remembers(s) \/ Fresh(s)
      PROVE  /\ s.id < nextRev'
             /\ s.id \in DOMAIN rows' =>
                  \/ s.updated_at < rows'[s.id].updated_at
                  \/ s.updated_at = rows'[s.id].updated_at /\ s.rev = rows'[s.id].rev
  BY <1>1, MemoryKept DEF Fresh
<1>2. ASSUME NEW c \in Clients, NEW k \in Keys
      PROVE  seen'[c][k] \in Sighting /\ (Remembers(seen'[c][k]) \/ Fresh(seen'[c][k]))
  BY DEF TypeOK, Remembered
<1>3. ASSUME NEW c \in Clients
      PROVE  /\ merging'[c].base \in Sighting
             /\ Remembers(merging'[c].base) \/ Fresh(merging'[c].base)
  BY DEF TypeOK, Merge, Remembered
<1> QED
  BY <1>1, <1>2, <1>3 DEF Remembered, Remembers

\* A write by c of the key k: the client learns what it wrote.
LEMMA WriteRemembers ==
  ASSUME TypeOK, TypeOK', Remembered, NEW c \in Clients, NEW k \in Keys, NEW content,
         CreateState(c, k, content) \/ RewriteState(c, k, content),
         \A d \in Clients : merging'[d].base \in {merging[d].base, NoSighting}
  PROVE  Remembered'
<1>1. Advance
  BY CreateStateAdvance, RewriteStateAdvance
<1>2. \E id, stamp : /\ Learn(c, k, id, stamp)
                     /\ Fresh([id |-> id, updated_at |-> stamp, rev |-> nextRev])
  <2>1. CASE CreateState(c, k, content)
    BY <2>1, CreateStateAdvance DEF CreateState
  <2>2. CASE RewriteState(c, k, content)
    BY <2>2, RewriteStateAdvance
  <2> QED
    BY <2>1, <2>2
<1>3. \A d \in Clients, l \in Keys : seen'[d][l] = seen[d][l] \/ Fresh(seen'[d][l])
  BY <1>2 DEF Learn, TypeOK
<1> QED
  BY <1>1, <1>3, SightFresh, StepRemembers

LEMMA NextRemembers ==
  ASSUME TypeOK, TypeOK', Remembered, [Next]_vars
  PROVE  Remembered'
<1>0. rows' = rows /\ nextRev' = nextRev => Advance
  BY DEF Advance, TypeOK
<1>1. ASSUME NEW c \in Clients, NEW k \in Keys, MemoryRead(c, k)
      PROVE  Remembered'
  <2>1. Advance /\ merging' = merging /\ rows' = rows
    BY <1>0, <1>1 DEF MemoryRead
  <2>2. \A d \in Clients, l \in Keys : seen'[d][l] = seen[d][l] \/ Fresh(seen'[d][l])
    BY <1>1, <2>1, SightFresh DEF MemoryRead, TypeOK
  <2> QED
    BY <2>1, <2>2, StepRemembers
<1>2. ASSUME NEW c \in Clients, NEW k \in StatusKeys, UpdateStatusRead(c, k)
      PROVE  Remembered'
  <2> DEFINE base == IF Current(k) = {} THEN NoSighting
                     ELSE Sight(CHOOSE i \in Current(k) : TRUE)
  <2>1. Advance /\ seen' = seen /\ rows' = rows
    BY <1>0, <1>2 DEF UpdateStatusRead
  <2>2. PICK expected :
          merging' = [merging EXCEPT ![c] = [key |-> k, base |-> base, expected |-> expected]]
    BY <1>2 DEF UpdateStatusRead
  <2>3. k \in Keys
    OBVIOUS
  <2>4. Fresh(base)
    BY <2>1, <2>3, SightFresh
  <2> HIDE DEF base
  <2>5. \A d \in Clients : merging'[d].base = merging[d].base \/ Fresh(merging'[d].base)
    BY <2>2, <2>4 DEF TypeOK
  <2> QED
    BY <2>1, <2>5, StepRemembers
<1>3. ASSUME NEW c \in Clients, NEW k \in Keys, NEW content \in Contents,
             \/ MemoryWrite(c, k, content)
             \/ CompareAndSwap(c, k, content)
             \/ MemoryCreateIfAbsent(c, k, content)
             \/ MemoryPatch(c, k, content)
      PROVE  Remembered'
  <2>1. merging' = merging /\ (CreateState(c, k, content) \/ RewriteState(c, k, content))
    BY <1>3 DEF WriteState, MemoryWrite, CompareAndSwap, MemoryCreateIfAbsent, MemoryPatch
  <2> QED
    BY <2>1, WriteRemembers
<1>4. ASSUME NEW c \in Clients, NEW content \in Contents, UpdateStatusWrite(c, content)
      PROVE  Remembered'
  <2>1. /\ merging[c].key \in Keys
        /\ \/ CreateState(c, merging[c].key, content)
           \/ RewriteState(c, merging[c].key, content)
    BY <1>4 DEF UpdateStatusWrite, WriteState
  <2>2. \A d \in Clients : merging'[d].base \in {merging[d].base, NoSighting}
    BY <1>4 DEF UpdateStatusWrite, NoMerge, TypeOK
  <2> QED
    BY <2>1, <2>2, WriteRemembers
<1>5. ASSUME NEW c \in Clients, NEW k \in Keys, NEW content \in Contents,
             MemorySupersede(c, k, content)
      PROVE  Remembered'
  <2>1. seen[c][k].id \in DOMAIN rows
    BY <1>5 DEF MemorySupersede, StateRows
  <2>2. PICK validFrom : Supersede(seen[c][k].id, content, validFrom)
    BY <1>5 DEF MemorySupersede
  <2>3. Advance /\ Fresh([id |-> nextRev, updated_at |-> now, rev |-> nextRev])
    BY <2>1, <2>2, SupersedeAdvance
  <2>4. \A d \in Clients, l \in Keys : seen'[d][l] = seen[d][l] \/ Fresh(seen'[d][l])
    BY <1>5, <2>3 DEF MemorySupersede, Learn, TypeOK
  <2>5. merging' = merging
    BY <2>2 DEF Supersede
  <2> QED
    BY <2>3, <2>4, <2>5, StepRemembers
<1>6. ASSUME NEW c \in Clients, NEW content \in LogContents, SupersedeLog(c, content)
      PROVE  Remembered'
  <2>1. PICK i \in CurrentLogs : \E validFrom : Supersede(i, content, validFrom)
    BY <1>6 DEF SupersedeLog
  <2>2. PICK validFrom : Supersede(i, content, validFrom)
    BY <2>1
  <2>3. i \in DOMAIN rows
    BY DEF CurrentLogs
  <2>4. Advance /\ seen' = seen /\ merging' = merging
    BY <1>6, <2>2, <2>3, SupersedeAdvance DEF Supersede, SupersedeLog
  <2> QED
    BY <2>4, StepRemembers
<1>7. ASSUME NEW c \in Clients, NEW content \in LogContents, AppendLog(c, content)
      PROVE  Remembered'
  <2> DEFINE row == NewRow("log", NoKey, c, content, now)
  <2>1. rows' = WithRow(rows, row) /\ nextRev' = nextRev + 1
    BY <1>7 DEF AppendLog
  <2> HIDE DEF row
  <2>2. /\ DOMAIN rows' = DOMAIN rows \cup {nextRev}
        /\ \A j \in DOMAIN rows : rows'[j] = rows[j]
    BY <2>1, WithRowEffect
  <2>3. Advance
    BY <2>1, <2>2 DEF Advance, TypeOK
  <2> QED
    BY <1>7, <2>3, StepRemembers DEF AppendLog
<1>8. ASSUME NEW c \in Clients, NEW token, NEW scope, ConfirmDelete(c, token, scope)
      PROVE  Remembered'
  <2>1. Advance /\ seen' = seen /\ merging' = merging
    BY <1>8 DEF ConfirmDelete, Advance, TypeOK
  <2> QED
    BY <2>1, StepRemembers
<1>9. CASE UNCHANGED <<rows, nextRev, seen, merging>>
  BY <1>0, <1>9, StepRemembers
<1>10. ASSUME NEW c \in Clients, UpdateStatusRefused(c) \/ Restart(c)
       PROVE  Remembered'
  <2>0. merging' = [merging EXCEPT ![c] = NoMerge]
    BY <1>10 DEF UpdateStatusRefused, Restart
  <2>1. \A d \in Clients : merging'[d].base \in {merging[d].base, NoSighting}
    BY <2>0 DEF NoMerge, TypeOK
  <2>2. Advance /\ seen' = seen
    BY <1>0, <1>10 DEF UpdateStatusRefused, Restart
  <2> QED
    BY <2>1, <2>2, SightFresh, StepRemembers
<1> QED
  BY <1>1, <1>2, <1>3, <1>4, <1>5, <1>6, <1>7, <1>8, <1>9, <1>10
     DEF Next, vars, Tick, PreviewDelete, ConfirmDeleteFails, SweepTokens

\* Whatever a client remembers under an id and an updated_at that still match is
\* still the write it remembers, at any rate of writes and any clock.
THEOREM StampsIdentify == Spec => []StampIdentifiesRevision
<1>1. Init => Remembered
  BY DEF Init, Remembered, Remembers, NoSighting, NoMerge
<1>2. TypeOK /\ Remembered => StampIdentifiesRevision
  <2> SUFFICES ASSUME TypeOK, Remembered,
                      NEW s \in Sighting, Remembers(s), StillMatches(s)
               PROVE  rows[s.id].rev = s.rev
    BY DEF StampIdentifiesRevision, Remembered, TypeOK, Merge
  <2>1. s.updated_at \in Nat
    BY DEF Sighting
  <2> QED
    BY <2>1 DEF Remembers, StillMatches
<1> QED
  BY <1>1, <1>2, TypeCorrect, NextRemembers, PTL DEF Spec

-----------------------------------------------------------------------------
(* What a preview showed *)

\* A print of a preview is a memory of a row, kept in a token.
PrintSight(p) == [id |-> p.id, updated_at |-> p.updated_at, rev |-> p.rev]

PreviewsRemembered ==
  \A c \in Clients : \A token \in tokens[c] : \A p \in token.prints : Remembers(PrintSight(p))

\* Only a confirmation removes rows; every other step adds rows or moves them on.
Grows == Advance /\ DOMAIN rows \subseteq DOMAIN rows'

LEMMA WriteGrows ==
  ASSUME TypeOK, NEW c \in Clients, NEW k \in Keys, NEW content,
         CreateState(c, k, content) \/ RewriteState(c, k, content)
  PROVE  Grows
<1>1. CASE CreateState(c, k, content)
  <2>1. Advance
    BY <1>1, CreateStateAdvance
  <2>2. DOMAIN rows' = DOMAIN rows \cup {nextRev}
    BY <1>1 DEF CreateState, WithRow
  <2> QED
    BY <2>1, <2>2 DEF Grows
<1>2. CASE RewriteState(c, k, content)
  <2>1. Advance
    BY <1>2, RewriteStateAdvance
  <2>2. DOMAIN rows' = DOMAIN rows
    BY <1>2 DEF RewriteState
  <2> QED
    BY <2>1, <2>2 DEF Grows
<1> QED
  BY <1>1, <1>2

LEMMA SupersedeGrows ==
  ASSUME TypeOK, NEW i \in DOMAIN rows, NEW content, NEW validFrom,
         Supersede(i, content, validFrom)
  PROVE  Grows
<1>1. Advance
  BY SupersedeAdvance
<1>2. DOMAIN rows' = DOMAIN rows \cup {nextRev}
  BY DEF Supersede, WithRow
<1> QED
  BY <1>1, <1>2 DEF Grows

LEMMA AppendLogGrows ==
  ASSUME TypeOK, NEW c \in Clients, NEW content, AppendLog(c, content)
  PROVE  Grows
<1> DEFINE row == NewRow("log", NoKey, c, content, now)
<1>1. rows' = WithRow(rows, row) /\ nextRev' = nextRev + 1
  BY DEF AppendLog
<1> HIDE DEF row
<1>2. /\ DOMAIN rows' = DOMAIN rows \cup {nextRev}
      /\ \A j \in DOMAIN rows : rows'[j] = rows[j]
  BY <1>1, WithRowEffect
<1> QED
  BY <1>1, <1>2 DEF Grows, Advance, TypeOK

\* What a step does to the tokens: it keeps or drops them, or takes a new preview
\* of the rows as they stand.
TokensKept == \A c \in Clients : tokens'[c] \subseteq tokens[c]

NextGrows ==
  \/ Grows /\ TokensKept
  \/ rows' = rows /\ nextRev' = nextRev /\ \E c \in Clients : \E scope : PreviewDelete(c, scope)
  \/ \E c \in Clients : \E scope : \E token \in tokens[c] : ConfirmDelete(c, token, scope)

LEMMA NextGrowsHolds ==
  ASSUME TypeOK, [Next]_vars
  PROVE  NextGrows
<1>0. rows' = rows /\ nextRev' = nextRev => Grows
  BY DEF Grows, Advance, TypeOK
<1>1. ASSUME NEW c \in Clients, NEW k \in Keys, NEW content \in Contents,
             \/ MemoryWrite(c, k, content)
             \/ CompareAndSwap(c, k, content)
             \/ MemoryCreateIfAbsent(c, k, content)
             \/ MemoryPatch(c, k, content)
      PROVE  NextGrows
  <2>1. CreateState(c, k, content) \/ RewriteState(c, k, content)
    BY <1>1 DEF WriteState, MemoryWrite, CompareAndSwap, MemoryCreateIfAbsent, MemoryPatch
  <2>2. tokens' = tokens
    BY <2>1 DEF CreateState, RewriteState
  <2> QED
    BY <2>1, <2>2, WriteGrows DEF NextGrows, TokensKept
<1>2. ASSUME NEW c \in Clients, NEW content \in Contents, UpdateStatusWrite(c, content)
      PROVE  NextGrows
  <2>1. /\ merging[c].key \in Keys
        /\ \/ CreateState(c, merging[c].key, content)
           \/ RewriteState(c, merging[c].key, content)
    BY <1>2 DEF UpdateStatusWrite, WriteState
  <2>2. tokens' = tokens
    BY <2>1 DEF CreateState, RewriteState
  <2> QED
    BY <2>1, <2>2, WriteGrows DEF NextGrows, TokensKept
<1>3. ASSUME NEW c \in Clients, NEW k \in Keys, NEW content \in Contents,
             MemorySupersede(c, k, content)
      PROVE  NextGrows
  <2>1. seen[c][k].id \in DOMAIN rows
    BY <1>3 DEF MemorySupersede, StateRows
  <2>2. PICK validFrom : Supersede(seen[c][k].id, content, validFrom)
    BY <1>3 DEF MemorySupersede
  <2>3. tokens' = tokens
    BY <2>2 DEF Supersede
  <2> QED
    BY <2>1, <2>2, <2>3, SupersedeGrows DEF NextGrows, TokensKept
<1>4. ASSUME NEW c \in Clients, NEW content \in LogContents, SupersedeLog(c, content)
      PROVE  NextGrows
  <2>1. PICK i \in CurrentLogs : \E validFrom : Supersede(i, content, validFrom)
    BY <1>4 DEF SupersedeLog
  <2>2. PICK validFrom : Supersede(i, content, validFrom)
    BY <2>1
  <2>3. i \in DOMAIN rows /\ tokens' = tokens
    BY <2>2 DEF CurrentLogs, Supersede
  <2> QED
    BY <2>2, <2>3, SupersedeGrows DEF NextGrows, TokensKept
<1>5. ASSUME NEW c \in Clients, NEW content \in LogContents, AppendLog(c, content)
      PROVE  NextGrows
  <2>1. tokens' = tokens
    BY <1>5 DEF AppendLog
  <2> QED
    BY <1>5, <2>1, AppendLogGrows DEF NextGrows, TokensKept
<1>6. ASSUME NEW c \in Clients, NEW token \in tokens[c], NEW scope,
             ConfirmDeleteFails(c, token, scope)
      PROVE  NextGrows
  <2>1. tokens' = [tokens EXCEPT ![c] = @ \ {token}] /\ rows' = rows /\ nextRev' = nextRev
    BY <1>6 DEF ConfirmDeleteFails, SpendToken
  <2>2. TokensKept
    BY <2>1 DEF TokensKept, TypeOK
  <2> QED
    BY <1>0, <2>1, <2>2 DEF NextGrows
<1>7. ASSUME NEW c \in Clients, SweepTokens(c)
      PROVE  NextGrows
  <2>1. /\ tokens' = [tokens EXCEPT ![c] = {t \in @ : t.expires >= now}]
        /\ rows' = rows /\ nextRev' = nextRev
    BY <1>7 DEF SweepTokens
  <2>2. TokensKept
    BY <2>1 DEF TokensKept, TypeOK
  <2> QED
    BY <1>0, <2>1, <2>2 DEF NextGrows
<1>8. ASSUME NEW c \in Clients, Restart(c)
      PROVE  NextGrows
  <2>1. tokens' = [tokens EXCEPT ![c] = {}] /\ rows' = rows /\ nextRev' = nextRev
    BY <1>8 DEF Restart
  <2>2. TokensKept
    BY <2>1 DEF TokensKept, TypeOK
  <2> QED
    BY <1>0, <2>1, <2>2 DEF NextGrows
<1>9. CASE UNCHANGED <<rows, nextRev, tokens>>
  BY <1>0, <1>9 DEF NextGrows, TokensKept
<1>10. ASSUME NEW c \in Clients, NEW scope \in DeleteScopes, PreviewDelete(c, scope)
       PROVE  NextGrows
  BY <1>10 DEF NextGrows, PreviewDelete
<1>11. ASSUME NEW c \in Clients, NEW token \in tokens[c], NEW scope \in DeleteScopes,
              ConfirmDelete(c, token, scope)
       PROVE  NextGrows
  BY <1>11 DEF NextGrows
<1>12. ASSUME NEW c \in Clients, NEW k \in Keys, MemoryRead(c, k) \/ UpdateStatusRead(c, k)
       PROVE  NextGrows
  BY <1>9, <1>12 DEF MemoryRead, UpdateStatusRead
<1>13. ASSUME NEW c \in Clients, UpdateStatusRefused(c)
       PROVE  NextGrows
  BY <1>9, <1>13 DEF UpdateStatusRefused
<1>14. ASSUME Tick \/ UNCHANGED vars
       PROVE  NextGrows
  BY <1>9, <1>14 DEF Tick, vars
<1>15. StatusKeys \subseteq Keys
  BY EntryStoreAssumption
<1> QED
  BY <1>1, <1>2, <1>3, <1>4, <1>5, <1>6, <1>7, <1>8, <1>10, <1>11, <1>12, <1>13, <1>14, <1>15
     DEF Next

\* A confirmation keeps the other tokens, and the rows it leaves stay as they are.
LEMMA ConfirmDeleteAdvance ==
  ASSUME TypeOK, NEW c \in Clients, NEW token \in tokens[c], NEW scope,
         ConfirmDelete(c, token, scope)
  PROVE  Advance /\ TokensKept /\ token \notin tokens'[c]
<1>1. /\ rows' = [i \in DOMAIN rows \ Removed(c, scope) |-> rows[i]]
      /\ nextRev' = nextRev /\ tokens' = [tokens EXCEPT ![c] = @ \ {token}]
  BY DEF ConfirmDelete, SpendToken
<1>2. TokensKept /\ token \notin tokens'[c]
  BY <1>1 DEF TypeOK, TokensKept
<1>3. Advance
  BY <1>1 DEF Advance, TypeOK
<1> QED
  BY <1>2, <1>3

\* A preview kept through a step stays true of the tables after it.
LEMMA PreviewKept ==
  ASSUME TypeOK, TypeOK', Advance, NEW p \in RowPrint, Remembers(PrintSight(p))
  PROVE  Remembers(PrintSight(p))'
<1>1. PrintSight(p) \in Sighting
  BY DEF RowPrint, PrintSight, Sighting
<1>2. PrintSight(p).id = p.id /\ PrintSight(p).updated_at = p.updated_at /\ PrintSight(p).rev = p.rev
  BY DEF PrintSight
<1> QED
  BY <1>1, <1>2, MemoryKept DEF Remembers

LEMMA NextPreviews ==
  ASSUME TypeOK, TypeOK', PreviewsRemembered, [Next]_vars
  PROVE  PreviewsRemembered'
<1>1. ASSUME NEW c \in Clients, NEW token \in tokens[c], NEW p \in token.prints
      PROVE  p \in RowPrint /\ Remembers(PrintSight(p))
  BY DEF TypeOK, DeleteToken, PreviewsRemembered
<1>2. ASSUME Advance, TokensKept
      PROVE  PreviewsRemembered'
  BY <1>1, <1>2, PreviewKept DEF PreviewsRemembered, TokensKept
<1>3. ASSUME NEW c \in Clients, NEW scope, PreviewDelete(c, scope),
             rows' = rows, nextRev' = nextRev
      PROVE  PreviewsRemembered'
  <2> DEFINE prints == PrintsOf(DeleteTargets(c, scope))
  <2>1. \A d \in Clients : \A token \in tokens'[d] : token \in tokens[d] \/ token.prints = prints
    BY <1>3 DEF PreviewDelete, TypeOK
  <2>2. ASSUME NEW p \in prints
        PROVE  Remembers(PrintSight(p))
    <3>1. PICK i \in DOMAIN rows :
            p.id = i /\ p.updated_at = rows[i].updated_at /\ p.rev = rows[i].rev
      BY <2>2 DEF PrintsOf, DeleteTargets
    <3>2. i < nextRev
      BY DEF TypeOK
    <3> QED
      BY <3>1, <3>2 DEF Remembers, PrintSight
  <2> HIDE DEF prints
  <2>3. ASSUME NEW p, Remembers(PrintSight(p))
        PROVE  Remembers(PrintSight(p))'
    BY <1>3, <2>3 DEF Remembers, PrintSight
  <2> QED
    BY <1>1, <2>1, <2>2, <2>3 DEF PreviewsRemembered
<1>4. ASSUME NEW c \in Clients, NEW scope, NEW token \in tokens[c],
             ConfirmDelete(c, token, scope)
      PROVE  PreviewsRemembered'
  BY <1>2, <1>4, ConfirmDeleteAdvance
<1> QED
  BY <1>2, <1>3, <1>4, NextGrowsHolds DEF NextGrows, Grows

\* Sets of prints with one fingerprint show the same rows at the same stamps.
LEMMA SamePrints ==
  ASSUME NEW A, NEW B, Fingerprint(A) = Fingerprint(B)
  PROVE  \A a \in A : \E b \in B : b.id = a.id /\ b.updated_at = a.updated_at
<1>1. ASSUME NEW a \in A
      PROVE  \E b \in B : b.id = a.id /\ b.updated_at = a.updated_at
  <2>1. <<a.id, a.updated_at, a.content>> \in Fingerprint(B)
    BY DEF Fingerprint
  <2>2. PICK b \in B : <<a.id, a.updated_at, a.content>> = <<b.id, b.updated_at, b.content>>
    BY <2>1 DEF Fingerprint
  <2> QED
    BY <2>2
<1> QED
  BY <1>1

\* The fingerprints agree, so every previewed row is there under its stamp, and a
\* row under its stamp is at the write that was shown.
LEMMA ConfirmedIsPreviewed ==
  ASSUME TypeOK, PreviewsRemembered, NEW c \in Clients, NEW scope,
         NEW token \in tokens[c], ConfirmDelete(c, token, scope)
  PROVE  {<<i, rows[i].rev>> : i \in DeleteTargets(c, scope)}
           = {<<p.id, p.rev>> : p \in token.prints}
<1> DEFINE targets == DeleteTargets(c, scope)
           found == PrintsOf(targets)
<1>1. targets \subseteq DOMAIN rows
  BY DEF DeleteTargets
<1>2. ASSUME NEW i \in targets
      PROVE  \E q \in found : q.id = i /\ q.updated_at = rows[i].updated_at
  <2> DEFINE q == [id |-> i, updated_at |-> rows[i].updated_at, content |-> rows[i].content,
                   rev |-> rows[i].rev]
  <2>1. q \in found
    BY DEF PrintsOf
  <2>2. q.id = i /\ q.updated_at = rows[i].updated_at
    OBVIOUS
  <2> QED
    BY <2>1, <2>2
<1>3. ASSUME NEW q \in found
      PROVE  \E i \in targets : q.id = i /\ q.updated_at = rows[i].updated_at
  BY DEF PrintsOf
<1>4. Fingerprint(found) = Fingerprint(token.prints)
  BY DEF ConfirmDelete, Confirms
<1>5. ASSUME NEW i \in targets, NEW p \in token.prints,
             p.id = i, p.updated_at = rows[i].updated_at
      PROVE  p.rev = rows[i].rev
  <2>1. Remembers(PrintSight(p)) /\ rows[i].updated_at \in Nat
    BY <1>1 DEF PreviewsRemembered, TypeOK, Row
  <2> QED
    BY <1>1, <1>5, <2>1 DEF Remembers, PrintSight
<1> HIDE DEF targets, found
<1>6. /\ \A q \in found : \E p \in token.prints : p.id = q.id /\ p.updated_at = q.updated_at
      /\ \A p \in token.prints : \E q \in found : q.id = p.id /\ q.updated_at = p.updated_at
  <2>1. Fingerprint(token.prints) = Fingerprint(found)
    BY <1>4
  <2> QED
    BY <1>4, <2>1, SamePrints
<1>7. ASSUME NEW i \in targets
      PROVE  \E p \in token.prints : p.id = i /\ p.updated_at = rows[i].updated_at
  BY <1>2, <1>6
<1>8. ASSUME NEW p \in token.prints
      PROVE  \E i \in targets : p.id = i /\ p.updated_at = rows[i].updated_at
  BY <1>3, <1>6
<1>9. {<<i, rows[i].rev>> : i \in targets} = {<<p.id, p.rev>> : p \in token.prints}
  BY <1>5, <1>7, <1>8
<1> QED
  BY <1>9 DEF targets

\* What a single step may delete.
LEMMA StepDeletes ==
  ASSUME TypeOK, PreviewsRemembered, [Next]_vars
  PROVE  LET gone == DOMAIN rows \ DOMAIN rows' IN
           gone # {} => \E c \in Clients : \E token \in tokens[c] \ tokens'[c] :
             /\ token.expires >= now
             /\ {<<i, rows[i].rev>> : i \in gone} = {<<p.id, p.rev>> : p \in token.prints}
<1> DEFINE gone == DOMAIN rows \ DOMAIN rows'
<1>1. ASSUME gone # {}
      PROVE  \E c \in Clients : \E token \in tokens[c] \ tokens'[c] :
               /\ token.expires >= now
               /\ {<<i, rows[i].rev>> : i \in gone} = {<<p.id, p.rev>> : p \in token.prints}
  <2>1. PICK c \in Clients : \E scope : \E token \in tokens[c] : ConfirmDelete(c, token, scope)
    BY <1>1, NextGrowsHolds DEF NextGrows, Grows
  <2>2. PICK scope : \E token \in tokens[c] : ConfirmDelete(c, token, scope)
    BY <2>1
  <2>3. PICK token \in tokens[c] : ConfirmDelete(c, token, scope)
    BY <2>2
  <2>4. DOMAIN rows' = DOMAIN rows \ Removed(c, scope) /\ token.expires >= now
    BY <2>3 DEF ConfirmDelete, Confirms
  <2>5. Removed(c, scope) \in {{}, DeleteTargets(c, scope)}
    BY DEF Removed
  <2>6. gone = DeleteTargets(c, scope)
    BY <1>1, <2>4, <2>5 DEF DeleteTargets
  <2>7. token \in tokens[c] \ tokens'[c]
    BY <2>3, ConfirmDeleteAdvance
  <2>8. {<<i, rows[i].rev>> : i \in DeleteTargets(c, scope)} = {<<p.id, p.rev>> : p \in token.prints}
    BY <2>3, ConfirmedIsPreviewed
  <2> QED
    BY <2>4, <2>6, <2>7, <2>8
<1> QED
  BY <1>1

\* However writes, corrections and restarts come between a preview and its
\* confirmation, what is deleted is what was shown, at the writes that were shown.
THEOREM DeletesOnlyThePreviewed == Spec => DeletesOnlyWhatWasPreviewed
<1>1. Init => PreviewsRemembered
  BY DEF Init, PreviewsRemembered
<1>2. TypeOK /\ PreviewsRemembered /\ [Next]_vars =>
        [LET gone == DOMAIN rows \ DOMAIN rows' IN
           gone # {} => \E c \in Clients : \E token \in tokens[c] \ tokens'[c] :
             /\ token.expires >= now
             /\ {<<i, rows[i].rev>> : i \in gone} = {<<p.id, p.rev>> : p \in token.prints}]_vars
  BY StepDeletes
<1>3. TypeOK /\ TypeOK' /\ PreviewsRemembered /\ [Next]_vars => PreviewsRemembered'
  BY NextPreviews
<1> QED
  BY <1>1, <1>2, <1>3, TypeCorrect, PTL DEF Spec, DeletesOnlyWhatWasPreviewed

-----------------------------------------------------------------------------
(* What a guarded write replaces *)

\* A memory is of nothing, or of a row and its stamp.
Sighted(s) == s = NoSighting \/ s.updated_at # NoStamp

\* A status merge into an entry is guarded by that entry's stamp.
Guarded(m) == m.base = NoSighting \/ (m.expected = m.base.updated_at /\ m.expected # NoStamp)

\* No row is without a stamp, so a stamp a caller passes is always compared.
Stamped ==
  /\ \A i \in DOMAIN rows : rows[i].updated_at # NoStamp
  /\ \A c \in Clients : Guarded(merging[c]) /\ \A k \in Keys : Sighted(seen[c][k])

\* What a step must show: a new row is stamped, and so is what is learned.
LEMMA StepStamped ==
  ASSUME TypeOK, TypeOK', Stamped, Advance,
         nextRev < nextRev' /\ nextRev \in DOMAIN rows' => rows'[nextRev].updated_at # NoStamp,
         \A c \in Clients :
           /\ \A k \in Keys : seen'[c][k] = seen[c][k] \/ Sighted(seen'[c][k])
           /\ merging'[c] = merging[c] \/ Guarded(merging'[c])
  PROVE  Stamped'
<1>1. ASSUME NEW i \in DOMAIN rows'
      PROVE  rows'[i].updated_at # NoStamp
  <2>1. rows'[i].updated_at \in Nat
    BY DEF TypeOK, Row
  <2>2. ASSUME i \in DOMAIN rows
        PROVE  rows[i].updated_at \in Nat /\ rows[i].updated_at # 0
    BY <2>2 DEF TypeOK, Row, Stamped, NoStamp
  <2> QED
    BY <2>1, <2>2 DEF Advance, NoStamp
<1>2. ASSUME NEW c \in Clients, NEW k \in Keys
      PROVE  Sighted(seen'[c][k])
  BY DEF Stamped
<1>3. ASSUME NEW c \in Clients
      PROVE  Guarded(merging'[c])
  BY DEF Stamped
<1>4. \A c \in Clients : Guarded(merging[c])' <=> Guarded(merging'[c])
  BY DEF Guarded
<1>5. \A c \in Clients, k \in Keys : Sighted(seen[c][k])' <=> Sighted(seen'[c][k])
  BY DEF Sighted
<1> QED
  BY <1>1, <1>2, <1>3, <1>4, <1>5 DEF Stamped

\* A read learns the stamp of a row, or that there is none.
LEMMA SightStamped ==
  ASSUME TypeOK, Stamped, NEW k \in Keys
  PROVE  LET base == IF Current(k) = {} THEN NoSighting
                     ELSE Sight(CHOOSE i \in Current(k) : TRUE)
         IN /\ Sighted(base)
            /\ base # NoSighting => base.updated_at # NoStamp
<1>1. \A i \in Current(k) : Sight(i).updated_at # NoStamp
  BY DEF Current, StateRows, Sight, Stamped
<1> QED
  BY <1>1 DEF Sighted

\* A write by c of the key k stamps its row and tells c the stamp.
LEMMA WriteStamped ==
  ASSUME TypeOK, TypeOK', Stamped, NEW c \in Clients, NEW k \in Keys, NEW content,
         CreateState(c, k, content) \/ RewriteState(c, k, content),
         \A d \in Clients : merging'[d] \in {merging[d], NoMerge}
  PROVE  Stamped'
<1>1. Guarded(NoMerge)
  BY DEF Guarded, NoMerge
<1>2. CASE CreateState(c, k, content)
  <2>1. /\ Advance /\ nextRev' = nextRev + 1
        /\ Fresh([id |-> nextRev, updated_at |-> now, rev |-> nextRev])
    BY <1>2, CreateStateAdvance DEF CreateState
  <2>2. now # NoStamp
    BY DEF TypeOK, NoStamp
  <2>3. nextRev \in DOMAIN rows' => rows'[nextRev].updated_at # NoStamp
    BY <2>1, <2>2 DEF Fresh
  <2>4. \A d \in Clients, l \in Keys : seen'[d][l] = seen[d][l] \/ Sighted(seen'[d][l])
    BY <1>2, <2>2 DEF CreateState, Learn, TypeOK, Sighted
  <2> QED
    BY <1>1, <2>1, <2>3, <2>4, StepStamped
<1>3. CASE RewriteState(c, k, content)
  <2>1. PICK i \in DOMAIN rows : Learn(c, k, i, MutationTime(rows[i]))
    BY <1>3, RewriteStateAdvance
  <2>2. MutationTime(rows[i]) # NoStamp
    <3>1. rows[i].updated_at \in Nat
      BY DEF TypeOK, Row
    <3> QED
      BY <3>1, MutationTimeAdvances DEF NoStamp
  <2>3. \A d \in Clients, l \in Keys : seen'[d][l] = seen[d][l] \/ Sighted(seen'[d][l])
    BY <2>1, <2>2 DEF Learn, TypeOK, Sighted
  <2>4. nextRev \notin DOMAIN rows'
    BY <1>3 DEF RewriteState, TypeOK
  <2> QED
    BY <1>1, <1>3, <2>3, <2>4, RewriteStateAdvance, StepStamped
<1> QED
  BY <1>2, <1>3

LEMMA NextStamped ==
  ASSUME TypeOK, TypeOK', Stamped, [Next]_vars
  PROVE  Stamped'
<1>0. rows' = rows /\ nextRev' = nextRev => Advance
  BY DEF Advance, TypeOK
<1>1. ASSUME NEW c \in Clients, NEW k \in Keys, MemoryRead(c, k)
      PROVE  Stamped'
  <2> DEFINE base == IF Current(k) = {} THEN NoSighting
                     ELSE Sight(CHOOSE i \in Current(k) : TRUE)
  <2>1. Advance /\ merging' = merging /\ nextRev' = nextRev /\ seen' = [seen EXCEPT ![c][k] = base]
    BY <1>0, <1>1 DEF MemoryRead
  <2>2. Sighted(base)
    BY SightStamped
  <2> HIDE DEF base
  <2>3. \A d \in Clients, l \in Keys : seen'[d][l] = seen[d][l] \/ Sighted(seen'[d][l])
    BY <2>1, <2>2 DEF TypeOK
  <2> QED
    BY <2>1, <2>3, StepStamped DEF TypeOK
<1>2. ASSUME NEW c \in Clients, NEW k \in Keys, UpdateStatusRead(c, k)
      PROVE  Stamped'
  <2> DEFINE base == IF Current(k) = {} THEN NoSighting
                     ELSE Sight(CHOOSE i \in Current(k) : TRUE)
  <2>1. Advance /\ seen' = seen /\ nextRev' = nextRev
    BY <1>0, <1>2 DEF UpdateStatusRead
  <2>2. PICK expected \in (IF base = NoSighting THEN {NoStamp, seen[c][k].updated_at}
                           ELSE {base.updated_at}) :
          merging' = [merging EXCEPT ![c] = [key |-> k, base |-> base, expected |-> expected]]
    BY <1>2 DEF UpdateStatusRead
  <2>3. base # NoSighting => base.updated_at # NoStamp
    BY SightStamped
  <2> HIDE DEF base
  <2>4. Guarded([key |-> k, base |-> base, expected |-> expected])
    BY <2>3 DEF Guarded
  <2>5. \A d \in Clients : merging'[d] = merging[d] \/ Guarded(merging'[d])
    BY <2>2, <2>4 DEF TypeOK
  <2> QED
    BY <2>1, <2>5, StepStamped DEF TypeOK
<1>3. ASSUME NEW c \in Clients, NEW k \in Keys, NEW content \in Contents,
             \/ MemoryWrite(c, k, content)
             \/ CompareAndSwap(c, k, content)
             \/ MemoryCreateIfAbsent(c, k, content)
             \/ MemoryPatch(c, k, content)
      PROVE  Stamped'
  <2>1. merging' = merging /\ (CreateState(c, k, content) \/ RewriteState(c, k, content))
    BY <1>3 DEF WriteState, MemoryWrite, CompareAndSwap, MemoryCreateIfAbsent, MemoryPatch
  <2> QED
    BY <2>1, WriteStamped
<1>4. ASSUME NEW c \in Clients, NEW content \in Contents, UpdateStatusWrite(c, content)
      PROVE  Stamped'
  <2>1. /\ merging[c].key \in Keys
        /\ \/ CreateState(c, merging[c].key, content)
           \/ RewriteState(c, merging[c].key, content)
    BY <1>4 DEF UpdateStatusWrite, WriteState
  <2>2. \A d \in Clients : merging'[d] \in {merging[d], NoMerge}
    BY <1>4 DEF UpdateStatusWrite, TypeOK
  <2> QED
    BY <2>1, <2>2, WriteStamped
<1>5. ASSUME NEW c \in Clients, NEW k \in Keys, NEW content \in Contents,
             MemorySupersede(c, k, content)
      PROVE  Stamped'
  <2>1. seen[c][k].id \in DOMAIN rows
    BY <1>5 DEF MemorySupersede, StateRows
  <2>2. PICK validFrom : Supersede(seen[c][k].id, content, validFrom)
    BY <1>5 DEF MemorySupersede
  <2>3. Advance /\ Fresh([id |-> nextRev, updated_at |-> now, rev |-> nextRev])
    BY <2>1, <2>2, SupersedeAdvance
  <2>4. now # NoStamp
    BY DEF TypeOK, NoStamp
  <2>5. \A d \in Clients, l \in Keys : seen'[d][l] = seen[d][l] \/ Sighted(seen'[d][l])
    BY <1>5, <2>4 DEF MemorySupersede, Learn, TypeOK, Sighted
  <2>6. merging' = merging
    BY <2>2 DEF Supersede
  <2>7. nextRev \in DOMAIN rows' => rows'[nextRev].updated_at # NoStamp
    BY <2>3, <2>4 DEF Fresh
  <2> QED
    BY <2>3, <2>5, <2>6, <2>7, StepStamped
<1>6. ASSUME NEW c \in Clients, NEW content \in LogContents, SupersedeLog(c, content)
      PROVE  Stamped'
  <2>1. PICK i \in CurrentLogs : \E validFrom : Supersede(i, content, validFrom)
    BY <1>6 DEF SupersedeLog
  <2>2. PICK validFrom : Supersede(i, content, validFrom)
    BY <2>1
  <2>3. i \in DOMAIN rows
    BY DEF CurrentLogs
  <2>4. /\ Advance /\ seen' = seen /\ merging' = merging
        /\ Fresh([id |-> nextRev, updated_at |-> now, rev |-> nextRev])
    BY <1>6, <2>2, <2>3, SupersedeAdvance DEF Supersede, SupersedeLog
  <2>5. nextRev \in DOMAIN rows' => rows'[nextRev].updated_at # NoStamp
    BY <2>4 DEF Fresh, TypeOK, NoStamp
  <2> QED
    BY <2>4, <2>5, StepStamped
<1>7. ASSUME NEW c \in Clients, NEW content \in LogContents, AppendLog(c, content)
      PROVE  Stamped'
  <2> DEFINE row == NewRow("log", NoKey, c, content, now)
  <2>1. rows' = WithRow(rows, row)
    BY <1>7 DEF AppendLog
  <2>2. row.updated_at # NoStamp
    BY DEF NewRow, TypeOK, NoStamp
  <2> HIDE DEF row
  <2>3. rows'[nextRev].updated_at # NoStamp
    BY <2>1, <2>2, WithRowEffect
  <2>4. Advance /\ seen' = seen /\ merging' = merging
    BY <1>7, AppendLogGrows DEF Grows, AppendLog
  <2> QED
    BY <2>3, <2>4, StepStamped
<1>8. ASSUME NEW c \in Clients, NEW token \in tokens[c], NEW scope, ConfirmDelete(c, token, scope)
      PROVE  Stamped'
  <2>1. Advance /\ nextRev' = nextRev /\ seen' = seen /\ merging' = merging
    BY <1>8, ConfirmDeleteAdvance DEF ConfirmDelete
  <2> QED
    BY <2>1, StepStamped DEF TypeOK
<1>9. CASE UNCHANGED <<rows, nextRev, seen, merging>>
  BY <1>0, <1>9, StepStamped DEF TypeOK
<1>10. ASSUME NEW c \in Clients, UpdateStatusRefused(c) \/ Restart(c)
       PROVE  Stamped'
  <2>1. merging' = [merging EXCEPT ![c] = NoMerge] /\ nextRev' = nextRev /\ seen' = seen
    BY <1>10 DEF UpdateStatusRefused, Restart
  <2>2. \A d \in Clients : merging'[d] = merging[d] \/ Guarded(merging'[d])
    BY <2>1 DEF Guarded, NoMerge, TypeOK
  <2>3. Advance
    BY <1>0, <1>10 DEF UpdateStatusRefused, Restart
  <2> QED
    BY <2>1, <2>2, <2>3, StepStamped DEF TypeOK
<1>11. StatusKeys \subseteq Keys
  BY EntryStoreAssumption
<1> QED
  BY <1>1, <1>2, <1>3, <1>4, <1>5, <1>6, <1>7, <1>8, <1>9, <1>10, <1>11
     DEF Next, vars, Tick, PreviewDelete, ConfirmDeleteFails, SweepTokens

\* The current row of k is at the very write remembered; or the remembered row is
\* gone or retired and another bears its stamp.
ReplacesSeen(k, s) ==
  \A i \in Current(k) :
    \/ rows[i].rev = s.rev
    \/ s.id \notin Current(k) /\ rows[i].updated_at = s.updated_at

\* What the code's guards give: accepted under a remembered stamp, a swap and a
\* status merge replace what was read, but for the one escape the stamp leaves (a
\* row of another id in the same instant); a correction, which also names the id,
\* has no such escape.
GuardedWritesReplaceWhatWasRead ==
  [][\A c \in Clients, content \in Contents :
       /\ \A k \in Keys :
            /\ CompareAndSwap(c, k, content) => ReplacesSeen(k, seen[c][k])
            /\ MemorySupersede(c, k, content) => rows[seen[c][k].id].rev = seen[c][k].rev
       /\ UpdateStatusWrite(c, content) /\ merging[c].base # NoSighting
            => ReplacesSeen(merging[c].key, merging[c].base)]_vars

\* The row a client remembers, under the stamp it remembers, is at its write.
LEMMA GuardReplaces ==
  ASSUME TypeOK, LineageSound, NEW k \in Keys, NEW s \in Sighting, Remembers(s),
         \A i \in Current(k) : rows[i].updated_at = s.updated_at
  PROVE  ReplacesSeen(k, s)
<1> SUFFICES ASSUME NEW i \in Current(k), s.id \in Current(k)
             PROVE  rows[i].rev = s.rev
  BY DEF ReplacesSeen
<1>1. i = s.id /\ i \in DOMAIN rows
  BY DEF LineageSound, OneCurrentRow, Current, StateRows
<1>2. rows[i].updated_at \in Nat
  BY <1>1 DEF TypeOK, Row
<1> QED
  BY <1>1, <1>2 DEF Remembers

\* An accepted compare-and-swap, correction or status merge replaces the write its
\* caller read, whatever others wrote in between and whatever the clock does; only
\* where a correction, or a deletion and a creation, put another row under the same
\* stamp may a swap or a merge replace one that was not read.
THEOREM WritesReplaceWhatWasRead == Spec => GuardedWritesReplaceWhatWasRead
<1>1. Init => Remembered /\ Stamped
  BY DEF Init, Remembered, Remembers, NoSighting, NoMerge, Stamped, Sighted, Guarded
<1>2. ASSUME TypeOK, LineageSound, Remembered, Stamped, NEW c \in Clients,
             NEW content \in Contents, NEW k \in Keys, CompareAndSwap(c, k, content)
      PROVE  ReplacesSeen(k, seen[c][k])
  <2>1. PICK s : s = seen[c][k]
    OBVIOUS
  <2>2. s \in Sighting /\ Remembers(s) /\ s.updated_at # NoStamp
    BY <1>2, <2>1 DEF TypeOK, Remembered, Stamped, Sighted, CompareAndSwap
  <2>3. \A i \in Current(k) : rows[i].updated_at = s.updated_at
    BY <1>2, <2>1, <2>2 DEF CompareAndSwap, WriteState, Unmodified
  <2>4. ReplacesSeen(k, s)
    BY <1>2, <2>2, <2>3, GuardReplaces
  <2> QED
    BY <2>1, <2>4
<1>3. ASSUME TypeOK, Remembered, NEW c \in Clients,
             NEW content \in Contents, NEW k \in Keys, MemorySupersede(c, k, content)
      PROVE  rows[seen[c][k].id].rev = seen[c][k].rev
  <2>1. /\ seen[c][k].id \in DOMAIN rows
        /\ rows[seen[c][k].id].updated_at = seen[c][k].updated_at
    BY <1>3 DEF MemorySupersede, StateRows
  <2>2. seen[c][k].updated_at \in Nat /\ Remembers(seen[c][k])
    BY <1>3 DEF TypeOK, Sighting, Remembered
  <2> QED
    BY <2>1, <2>2 DEF Remembers
<1>4. ASSUME TypeOK, LineageSound, Remembered, Stamped, NEW c \in Clients,
             NEW content \in Contents, UpdateStatusWrite(c, content),
             merging[c].base # NoSighting
      PROVE  ReplacesSeen(merging[c].key, merging[c].base)
  <2>1. PICK s, k : s = merging[c].base /\ k = merging[c].key
    OBVIOUS
  <2>2. s \in Sighting /\ Remembers(s) /\ k \in Keys
    BY <1>4, <2>1 DEF TypeOK, Merge, Remembered, UpdateStatusWrite
  <2>3. merging[c].expected = s.updated_at /\ s.updated_at # NoStamp
    BY <1>4, <2>1 DEF Stamped, Guarded
  <2>4. \A i \in Current(k) : rows[i].updated_at = s.updated_at
    BY <1>4, <2>1, <2>3 DEF UpdateStatusWrite, WriteState, Unmodified
  <2>5. ReplacesSeen(k, s)
    BY <1>4, <2>2, <2>4, GuardReplaces
  <2> QED
    BY <2>1, <2>5
<1>5. TypeOK /\ LineageSound /\ Remembered /\ Stamped =>
        [\A c \in Clients, content \in Contents :
           /\ \A k \in Keys :
                /\ CompareAndSwap(c, k, content) => ReplacesSeen(k, seen[c][k])
                /\ MemorySupersede(c, k, content) => rows[seen[c][k].id].rev = seen[c][k].rev
           /\ UpdateStatusWrite(c, content) /\ merging[c].base # NoSighting
                => ReplacesSeen(merging[c].key, merging[c].base)]_vars
  BY <1>2, <1>3, <1>4
<1>6. TypeOK /\ TypeOK' /\ Remembered /\ Stamped /\ [Next]_vars => Remembered' /\ Stamped'
  BY NextRemembers, NextStamped
<1> QED
  BY <1>1, <1>5, <1>6, TypeCorrect, LineageAlwaysSound, PTL
     DEF Spec, GuardedWritesReplaceWhatWasRead

-----------------------------------------------------------------------------
(* What a key was said to be *)

\* Was the entry on record at t in the wording of row i or an earlier one of it?
OnRecord(i, t) ==
  \/ rows[i].created_at <= t
  \/ \E s \in supersessions : s.successor = i /\ s.effective_at <= t

\* Writes are numbered once, and a row is of one of them.
RevsDiffer ==
  /\ \A i \in DOMAIN rows : rows[i].rev < nextRev
  /\ \A i, j \in DOMAIN rows : rows[i].rev = rows[j].rev => i = j

\* The writings of a key follow each other in number and in validity.
SaidInOrder(k) ==
  \A n \in DOMAIN said[k] :
    /\ said[k][n].rev < nextRev
    /\ \A m \in DOMAIN said[k] : m < n =>
         said[k][m].from <= said[k][n].from /\ said[k][m].rev < said[k][n].rev

\* A row holds one of the writings, and was on record by then.
RowsSaid(k) ==
  \A i \in StateRows(k) :
    /\ \E n \in DOMAIN said[k] :
         said[k][n].from = rows[i].valid_from /\ said[k][n].rev = rows[i].rev
    /\ OnRecord(i, rows[i].valid_from)

\* The current row holds the last.
LastIsCurrent(k) ==
  \A i \in Current(k) : \A n \in DOMAIN said[k] : said[k][n].rev <= rows[i].rev

\* What was said after a retired row begins with its correction.
LinksSaid(k) ==
  \A s \in supersessions : s.predecessor \in StateRows(k) =>
    /\ \E n \in DOMAIN said[k] :
         said[k][n].from = s.effective_at /\ said[k][n].rev > rows[s.predecessor].rev
    /\ \A n \in DOMAIN said[k] :
         said[k][n].rev > rows[s.predecessor].rev => said[k][n].from >= s.effective_at

\* Each writing went into a row that was on record by then, and may have been
\* rewritten since.
SaidOfRows(k) ==
  \A n \in DOMAIN said[k] : \E i \in StateRows(k) :
    said[k][n].rev <= rows[i].rev /\ OnRecord(i, said[k][n].from)

WrittenKey(k) ==
  SaidInOrder(k) /\ RowsSaid(k) /\ LastIsCurrent(k) /\ LinksSaid(k) /\ SaidOfRows(k)

Written == RevsDiffer /\ \A k \in Keys : WrittenKey(k)

\* The types that the comparisons rest on.
LEMMA SaidTypes ==
  ASSUME TypeOK
  PROVE  /\ nextRev \in Nat /\ now \in Nat
         /\ \A i \in DOMAIN rows : /\ i \in Nat /\ i < nextRev
                                   /\ rows[i] \in Row /\ rows[i].rev \in Nat
                                   /\ rows[i].valid_from \in Nat /\ rows[i].created_at \in Nat
         /\ \A s \in supersessions : s.effective_at \in Nat
         /\ \A k \in Keys : /\ DOMAIN said[k] \subseteq Nat
                            /\ \A n \in DOMAIN said[k] : said[k][n].from \in Nat /\ said[k][n].rev \in Nat
<1>1. ASSUME NEW k \in Keys
      PROVE  /\ DOMAIN said[k] \subseteq Nat
             /\ \A n \in DOMAIN said[k] : said[k][n].from \in Nat /\ said[k][n].rev \in Nat
  <2> DEFINE Writing == [from : Nat, rev : Nat]
             q == said[k]
  <2>1. q \in Seq(Writing)
    BY DEF TypeOK
  <2>2. DOMAIN q \subseteq Nat /\ \A n \in DOMAIN q : q[n] \in Writing
    <3> HIDE DEF Writing, q
    <3> QED BY <2>1
  <2> QED BY <2>2
<1> QED BY <1>1 DEF TypeOK, Row, Supersession

\* A key of whose rows, links and writings nothing changed.
LEMMA KeyUndisturbed ==
  ASSUME NEW k \in Keys, WrittenKey(k), TypeOK,
         said'[k] = said[k], StateRows(k)' = StateRows(k),
         \A i \in StateRows(k) : rows'[i] = rows[i],
         nextRev' \in Nat, nextRev' >= nextRev,
         \A s \in supersessions' : s.predecessor \in StateRows(k) => s \in supersessions,
         \A s \in supersessions : s.successor \in StateRows(k) => s \in supersessions'
  PROVE  WrittenKey(k)'
<1>1. \A i \in StateRows(k) : i \in DOMAIN rows
  BY DEF StateRows
<1>2. Current(k)' = Current(k)
  BY DEF Current
<1>3. \A i \in StateRows(k), t \in Nat : OnRecord(i, t) => OnRecord(i, t)'
  BY DEF OnRecord
<1>4. SaidInOrder(k)'
  BY SaidTypes DEF WrittenKey, SaidInOrder
<1>5. RowsSaid(k)'
  BY <1>1, <1>3, SaidTypes DEF WrittenKey, RowsSaid
<1>6. LastIsCurrent(k)'
  BY <1>2 DEF WrittenKey, LastIsCurrent, Current
<1>7. LinksSaid(k)'
  BY DEF WrittenKey, LinksSaid
<1>8. SaidOfRows(k)'
  BY <1>1, <1>3, SaidTypes DEF WrittenKey, SaidOfRows
<1> QED BY <1>4, <1>5, <1>6, <1>7, <1>8 DEF WrittenKey

\* A writing comes after those before it.
SaidNext(k, from, p) ==
  /\ p \in Nat /\ DOMAIN said'[k] = DOMAIN said[k] \cup {p}
  /\ \A n \in DOMAIN said[k] : n < p /\ said'[k][n] = said[k][n]
  /\ said'[k][p].from = from /\ said'[k][p].rev = nextRev

LEMMA SayAppends ==
  ASSUME TypeOK, NEW k \in Keys, NEW from \in Nat, Say(k, from)
  PROVE  /\ \E p : SaidNext(k, from, p)
         /\ \A l \in Keys : l # k => said'[l] = said[l]
<1>1. said'[k] = Append(said[k], [from |-> from, rev |-> nextRev])
  BY DEF Say, TypeOK
<1>2. said[k] \in Seq([from : Nat, rev : Nat])
  BY DEF TypeOK
<1>3. SaidNext(k, from, Len(said[k]) + 1)
  BY <1>1, <1>2 DEF SaidNext
<1> QED BY <1>3 DEF Say, TypeOK

\* The current row's writing is the last and the latest.
LEMMA CurrentIsLatest ==
  ASSUME TypeOK, NEW k \in Keys, WrittenKey(k), NEW i \in Current(k)
  PROVE  /\ i \in DOMAIN rows
         /\ \A n \in DOMAIN said[k] :
              said[k][n].from <= rows[i].valid_from /\ said[k][n].rev <= rows[i].rev
<1>1. i \in StateRows(k) /\ i \in DOMAIN rows
  BY DEF Current, StateRows
<1>2. PICK last \in DOMAIN said[k] :
        said[k][last].from = rows[i].valid_from /\ said[k][last].rev = rows[i].rev
  BY <1>1 DEF WrittenKey, RowsSaid
<1>3. ASSUME NEW n \in DOMAIN said[k]
      PROVE  said[k][n].from <= rows[i].valid_from /\ said[k][n].rev <= rows[i].rev
  <2>1. said[k][n].rev <= rows[i].rev
    BY DEF WrittenKey, LastIsCurrent
  <2>2. CASE last < n
    BY <1>1, <1>2, <2>1, <2>2, SaidTypes DEF WrittenKey, SaidInOrder
  <2>3. CASE n < last
    BY <1>2, <2>1, <2>3 DEF WrittenKey, SaidInOrder
  <2>4. n = last \/ last < n \/ n < last
    BY SaidTypes
  <2> QED BY <1>1, <1>2, <2>1, <2>2, <2>3, <2>4, SaidTypes
<1> QED BY <1>1, <1>3

\* A writing that comes no earlier than the last keeps the order.
LEMMA OrderExtends ==
  ASSUME TypeOK, NEW k \in Keys, WrittenKey(k), NEW from \in Nat, NEW p, SaidNext(k, from, p),
         nextRev' = nextRev + 1, \A n \in DOMAIN said[k] : said[k][n].from <= from
  PROVE  SaidInOrder(k)'
<1> SUFFICES ASSUME NEW n \in DOMAIN said'[k]
             PROVE  /\ said'[k][n].rev < nextRev'
                    /\ \A m \in DOMAIN said'[k] : m < n =>
                         said'[k][m].from <= said'[k][n].from /\ said'[k][m].rev < said'[k][n].rev
  BY DEF SaidInOrder
<1>1. CASE n = p
  BY <1>1, SaidTypes DEF SaidNext, WrittenKey, SaidInOrder
<1>2. CASE n \in DOMAIN said[k]
  BY <1>2, SaidTypes DEF SaidNext, WrittenKey, SaidInOrder
<1> QED BY <1>1, <1>2 DEF SaidNext

\* A key comes to be: what was said of it begins anew.
LEMMA CreateStateSaid ==
  ASSUME TypeOK, LineageSound, Written, NEW c \in Clients, NEW k \in Keys,
         NEW content \in Contents, CreateState(c, k, content)
  PROVE  Written'
<1> DEFINE row == NewRow("state", k, c, content, now)
<1>1. /\ nextRev \notin DOMAIN rows
      /\ DOMAIN rows' = DOMAIN rows \cup {nextRev}
      /\ rows'[nextRev] = row
      /\ \A j \in DOMAIN rows : rows'[j] = rows[j]
  <2>1. rows' = WithRow(rows, row)
    BY DEF CreateState
  <2> HIDE DEF row
  <2> QED BY <2>1, WithRowEffect
<1>2. /\ row.kind = "state" /\ row.key = k /\ row.is_current = TRUE /\ row.rev = nextRev
      /\ row.valid_from = now /\ row.created_at = now
      /\ supersessions' = supersessions /\ nextRev' = nextRev + 1
  BY DEF NewRow, CreateState
<1>3. StateRows(k) = {} /\ now \in Nat /\ nextRev \in Nat /\ Say(k, now)
  BY SaidTypes DEF CreateState, LineageSound, HistoryHasHead
<1> HIDE DEF row
<1>4. \A l \in Keys : StateRows(l)' = IF l = k THEN {nextRev} ELSE StateRows(l)
  BY <1>1, <1>2, <1>3 DEF StateRows, IsState
<1>5. RevsDiffer'
  BY <1>1, <1>2, SaidTypes DEF Written, RevsDiffer
<1>6. ASSUME NEW l \in Keys, l # k PROVE WrittenKey(l)'
  <2>1. said'[l] = said[l]
    BY <1>3, <1>6, SayAppends
  <2>2. \A i \in StateRows(l) : rows'[i] = rows[i]
    BY <1>1 DEF StateRows
  <2> QED BY <1>2, <1>3, <1>4, <1>6, <2>1, <2>2, KeyUndisturbed DEF Written
<1>7. PICK p : SaidNext(k, now, p)
  BY <1>3, SayAppends
<1>8. DOMAIN said[k] = {} /\ WrittenKey(k)
  BY <1>3 DEF Written, WrittenKey, SaidOfRows
<1>9. /\ DOMAIN said'[k] = {p} /\ said'[k][p].from = now /\ said'[k][p].rev = nextRev
      /\ StateRows(k)' = {nextRev}
      /\ rows'[nextRev].valid_from = now /\ rows'[nextRev].rev = nextRev
      /\ rows'[nextRev].created_at = now
  BY <1>1, <1>2, <1>4, <1>7, <1>8 DEF SaidNext
<1>10. SaidInOrder(k)'
  <2>1. PICK from \in Nat : from = now
    BY <1>3
  <2> QED BY <1>2, <1>7, <1>8, <2>1, OrderExtends
<1>12. RowsSaid(k)'
  BY <1>3, <1>9 DEF RowsSaid, OnRecord
<1>13. LastIsCurrent(k)'
  BY <1>3, <1>9 DEF LastIsCurrent, Current
<1>14. LinksSaid(k)'
  <2>1. \A s \in supersessions : s.predecessor # nextRev
    BY <1>1 DEF LineageSound, LinksJoinRevisions
  <2> QED BY <1>2, <1>9, <2>1 DEF LinksSaid
<1>15. SaidOfRows(k)'
  BY <1>3, <1>9 DEF SaidOfRows, OnRecord
<1>16. WrittenKey(k)'
  BY <1>10, <1>12, <1>13, <1>14, <1>15 DEF WrittenKey
<1> QED BY <1>5, <1>6, <1>16 DEF Written

\* The current row takes the next writing.
LEMMA RewriteStateSaid ==
  ASSUME TypeOK, LineageSound, Written, NEW c \in Clients, NEW k \in Keys,
         NEW content \in Contents, RewriteState(c, k, content)
  PROVE  Written'
<1>1. PICK i \in Current(k) :
        /\ rows' = [rows EXCEPT ![i] = Rewritten(rows[i], content, MutationTime(rows[i]))]
        /\ Say(k, MutationTime(rows[i]))
  BY DEF RewriteState
<1>2. PICK stamp : stamp = MutationTime(rows[i])
  OBVIOUS
<1>3. supersessions' = supersessions /\ nextRev' = nextRev + 1 /\ nextRev \in Nat
  BY SaidTypes DEF RewriteState
<1>4. /\ i \in StateRows(k) /\ i \in DOMAIN rows /\ rows[i].is_current
      /\ stamp \in Nat /\ stamp > rows[i].valid_from
      /\ rows[i].valid_from \in Nat /\ rows[i].rev \in Nat
  BY <1>2, MutationTimeAdvances, SaidTypes DEF Current, StateRows
<1>5. /\ DOMAIN rows' = DOMAIN rows
      /\ \A j \in DOMAIN rows :
           /\ rows'[j].kind = rows[j].kind /\ rows'[j].key = rows[j].key
           /\ rows'[j].is_current = rows[j].is_current
           /\ rows'[j].created_at = rows[j].created_at
           /\ j # i => rows'[j] = rows[j]
      /\ rows'[i].valid_from = stamp /\ rows'[i].rev = nextRev
  <2>1. rows[i] \in Row
    BY <1>4, SaidTypes
  <2> QED BY <1>1, <1>2, <1>4, <2>1 DEF Rewritten, Row
<1>6. \A l \in Keys : StateRows(l)' = StateRows(l) /\ Current(l)' = Current(l)
  BY <1>5 DEF StateRows, IsState, Current
<1>7. RevsDiffer'
  BY <1>3, <1>4, <1>5, SaidTypes DEF Written, RevsDiffer
<1>8. ASSUME NEW l \in Keys, l # k PROVE WrittenKey(l)'
  <2>1. said'[l] = said[l]
    BY <1>1, <1>2, <1>4, <1>8, SayAppends
  <2>2. \A j \in StateRows(l) : rows'[j] = rows[j]
    BY <1>4, <1>5, <1>8 DEF StateRows, IsState
  <2> QED BY <1>3, <1>6, <2>1, <2>2, KeyUndisturbed DEF Written
<1>9. PICK p : SaidNext(k, stamp, p)
  BY <1>1, <1>2, <1>4, SayAppends
<1>10. WrittenKey(k)
  BY DEF Written
<1>11. \A n \in DOMAIN said[k] :
         /\ said[k][n].from <= rows[i].valid_from /\ said[k][n].rev <= rows[i].rev
         /\ said[k][n].from \in Nat /\ said[k][n].rev \in Nat
         /\ said'[k][n] = said[k][n] /\ n \in DOMAIN said'[k]
  BY <1>9, <1>10, CurrentIsLatest, SaidTypes DEF SaidNext
<1>12. /\ p \in DOMAIN said'[k] /\ said'[k][p].from = stamp /\ said'[k][p].rev = nextRev
       /\ \A n \in DOMAIN said'[k] : n = p \/ n \in DOMAIN said[k]
  BY <1>9 DEF SaidNext
<1>13. SaidInOrder(k)'
  <2>1. \A n \in DOMAIN said[k] : said[k][n].from <= stamp
    BY <1>4, <1>11
  <2> QED BY <1>3, <1>4, <1>9, <1>10, <2>1, OrderExtends
<1>14. \A j \in DOMAIN rows, t \in Nat : OnRecord(j, t)' <=> OnRecord(j, t)
  BY <1>3, <1>5 DEF OnRecord
<1>15. OnRecord(i, stamp)
  BY <1>4, <1>10, SaidTypes DEF WrittenKey, RowsSaid, OnRecord
<1>16. RowsSaid(k)'
  <2> SUFFICES ASSUME NEW j \in StateRows(k)
               PROVE  /\ \E n \in DOMAIN said'[k] :
                           said'[k][n].from = rows'[j].valid_from /\ said'[k][n].rev = rows'[j].rev
                      /\ OnRecord(j, rows[j].valid_from)'
    BY <1>6 DEF RowsSaid
  <2>1. j \in DOMAIN rows
    BY DEF StateRows
  <2>2. CASE j = i
    BY <1>4, <1>5, <1>12, <1>14, <1>15, <2>2
  <2>3. CASE j # i
    <3>1. rows'[j] = rows[j] /\ rows[j].valid_from \in Nat
      BY <1>5, <2>1, <2>3, SaidTypes
    <3>2. PICK n \in DOMAIN said[k] :
            said[k][n].from = rows[j].valid_from /\ said[k][n].rev = rows[j].rev
      BY <1>10 DEF WrittenKey, RowsSaid
    <3>3. OnRecord(j, rows[j].valid_from)
      BY <1>10 DEF WrittenKey, RowsSaid
    <3>4. OnRecord(j, rows[j].valid_from)'
      BY <1>3, <3>1, <3>3 DEF OnRecord
    <3> QED BY <1>11, <3>1, <3>2, <3>4
  <2> QED BY <2>2, <2>3
<1>17. LastIsCurrent(k)'
  <2>1. \A j \in Current(k) : j = i
    BY DEF LineageSound, OneCurrentRow
  <2>2. \A n \in DOMAIN said'[k] : said'[k][n].rev <= nextRev
    BY <1>3, <1>10, <1>11, <1>12 DEF WrittenKey, SaidInOrder
  <2> QED BY <1>5, <1>6, <2>1, <2>2 DEF LastIsCurrent
<1>18. LinksSaid(k)'
  <2> SUFFICES ASSUME NEW s \in supersessions, s.predecessor \in StateRows(k)
               PROVE  /\ \E n \in DOMAIN said'[k] : /\ said'[k][n].from = s.effective_at
                                                    /\ said'[k][n].rev > rows'[s.predecessor].rev
                      /\ \A n \in DOMAIN said'[k] :
                           said'[k][n].rev > rows'[s.predecessor].rev =>
                             said'[k][n].from >= s.effective_at
    BY <1>3, <1>6 DEF LinksSaid
  <2>1. s.predecessor # i
    BY <1>4 DEF LineageSound, RetiredIffSuperseded, HasSuccessor
  <2>2. rows'[s.predecessor] = rows[s.predecessor]
    BY <1>5, <2>1 DEF StateRows
  <2>3. PICK n \in DOMAIN said[k] :
          said[k][n].from = s.effective_at /\ said[k][n].rev > rows[s.predecessor].rev
    BY <1>10 DEF WrittenKey, LinksSaid
  <2>4. \A m \in DOMAIN said[k] :
          said[k][m].rev > rows[s.predecessor].rev => said[k][m].from >= s.effective_at
    BY <1>10 DEF WrittenKey, LinksSaid
  <2>5. stamp >= s.effective_at
    BY <1>4, <1>11, <2>3
  <2> QED BY <1>11, <1>12, <2>2, <2>3, <2>4, <2>5
<1>19. SaidOfRows(k)'
  <2> SUFFICES ASSUME NEW n \in DOMAIN said'[k]
               PROVE  \E j \in StateRows(k)' :
                        said'[k][n].rev <= rows'[j].rev /\ OnRecord(j, said[k][n].from)'
    BY DEF SaidOfRows
  <2>1. CASE n = p
    <3>1. said'[k][n].rev <= rows'[i].rev
      BY <1>3, <1>5, <1>12, <2>1
    <3>2. OnRecord(i, said[k][n].from)'
      BY <1>3, <1>5, <1>4, <1>12, <1>15, <2>1 DEF OnRecord
    <3> QED BY <1>4, <1>6, <3>1, <3>2
  <2>2. CASE n \in DOMAIN said[k]
    <3>1. PICK j \in StateRows(k) : said[k][n].rev <= rows[j].rev /\ OnRecord(j, said[k][n].from)
      BY <1>10, <2>2 DEF WrittenKey, SaidOfRows
    <3>2. j \in DOMAIN rows
      BY DEF StateRows
    <3>3. said'[k][n].rev <= rows'[j].rev
      BY <1>3, <1>5, <1>11, <2>2, <3>1, <3>2, SaidTypes DEF Written, RevsDiffer
    <3>4. OnRecord(j, said[k][n].from)'
      BY <1>3, <1>5, <1>11, <2>2, <3>1, <3>2 DEF OnRecord
    <3> QED BY <1>6, <3>1, <3>3, <3>4
  <2> QED BY <1>12, <2>1, <2>2
<1>20. WrittenKey(k)'
  BY <1>13, <1>16, <1>17, <1>18, <1>19 DEF WrittenKey
<1> QED BY <1>7, <1>8, <1>20 DEF Written

\* A correction takes the next writing from the row it retires.
LEMMA SupersedeSaid ==
  ASSUME TypeOK, LineageSound, Written, NEW k \in Keys, NEW i \in StateRows(k), NEW content,
         NEW validFrom \in Nat, Supersede(i, content, validFrom), Say(k, validFrom)
  PROVE  Written'
<1> DEFINE retired == [rows EXCEPT ![i] = Retired(rows[i])]
           row == NewRow(rows[i].kind, rows[i].key, rows[i].owner, content, validFrom)
<1>1. PICK q : q = nextRev
  OBVIOUS
<1>2. /\ i \in DOMAIN rows /\ rows[i] \in Row /\ i \in Current(k)
      /\ rows[i].rev \in Nat /\ rows[i].valid_from \in Nat /\ q \in Nat
      /\ rows[i].kind = "state" /\ rows[i].key = k
      /\ validFrom >= rows[i].valid_from /\ ~HasSuccessor(i)
  BY <1>1, SaidTypes DEF StateRows, IsState, Supersede, Current
<1>3. /\ q \notin DOMAIN rows
      /\ DOMAIN rows' = DOMAIN rows \cup {q}
      /\ rows'[q] = row
      /\ \A j \in DOMAIN rows : rows'[j] = retired[j]
  <2>1. rows' = WithRow(retired, row) /\ DOMAIN retired = DOMAIN rows
    BY DEF Supersede
  <2> HIDE DEF row, retired
  <2> QED BY <1>1, <2>1, WithRowEffect
<1>4. /\ row.kind = "state" /\ row.key = k /\ row.is_current = TRUE /\ row.rev = q
      /\ row.valid_from = validFrom
  BY <1>1, <1>2 DEF NewRow
<1>5. \A j \in DOMAIN rows :
        /\ rows'[j].kind = rows[j].kind /\ rows'[j].key = rows[j].key
        /\ rows'[j].rev = rows[j].rev /\ rows'[j].valid_from = rows[j].valid_from
        /\ rows'[j].created_at = rows[j].created_at
        /\ j # i => rows'[j] = rows[j]
        /\ rows'[i].is_current = FALSE
  <2>1. /\ retired[i].kind = rows[i].kind /\ retired[i].key = rows[i].key
        /\ retired[i].rev = rows[i].rev /\ retired[i].valid_from = rows[i].valid_from
        /\ retired[i].created_at = rows[i].created_at /\ retired[i].is_current = FALSE
    BY <1>2 DEF Retired, Row
  <2>2. \A j \in DOMAIN rows : j # i => retired[j] = rows[j]
    OBVIOUS
  <2> HIDE DEF retired
  <2> QED BY <1>2, <1>3, <2>1, <2>2
<1> DEFINE link == [predecessor |-> i, successor |-> q, effective_at |-> validFrom]
<1>6. supersessions' = supersessions \cup {link} /\ nextRev' = q + 1
  BY <1>1 DEF Supersede
<1>7. link.predecessor = i /\ link.successor = q /\ link.effective_at = validFrom
  OBVIOUS
<1> HIDE DEF row, retired, link
<1>8. \A l \in Keys : StateRows(l)' = IF l = k THEN StateRows(l) \cup {q} ELSE StateRows(l)
  BY <1>3, <1>4, <1>5 DEF StateRows, IsState
<1>9. RevsDiffer'
  BY <1>1, <1>3, <1>4, <1>5, <1>6, SaidTypes DEF Written, RevsDiffer
<1>10. ASSUME NEW l \in Keys, l # k PROVE WrittenKey(l)'
  <2>1. said'[l] = said[l]
    BY <1>10, SayAppends
  <2>2. i \notin StateRows(l) /\ q \notin StateRows(l)
    BY <1>2, <1>3, <1>10 DEF StateRows, IsState
  <2>3. \A j \in StateRows(l) : rows'[j] = rows[j]
    BY <1>5, <2>2 DEF StateRows
  <2>4. \A s \in supersessions' : s.predecessor \in StateRows(l) => s \in supersessions
    BY <1>6, <1>7, <2>2
  <2>5. \A s \in supersessions : s \in supersessions'
    BY <1>6
  <2>6. nextRev' \in Nat /\ nextRev' >= nextRev /\ StateRows(l)' = StateRows(l)
    BY <1>1, <1>2, <1>6, <1>8, <1>10
  <2> QED BY <2>1, <2>3, <2>4, <2>5, <2>6, KeyUndisturbed DEF Written
<1>11. PICK p : SaidNext(k, validFrom, p)
  BY SayAppends
<1>12. WrittenKey(k)
  BY DEF Written
<1>13. \A n \in DOMAIN said[k] :
         /\ said[k][n].from <= rows[i].valid_from /\ said[k][n].rev <= rows[i].rev
         /\ said[k][n].from \in Nat /\ said[k][n].rev \in Nat
         /\ said'[k][n] = said[k][n] /\ n \in DOMAIN said'[k]
  BY <1>2, <1>11, <1>12, CurrentIsLatest, SaidTypes DEF SaidNext
<1>14. /\ p \in DOMAIN said'[k] /\ said'[k][p].from = validFrom /\ said'[k][p].rev = q
       /\ \A n \in DOMAIN said'[k] : n = p \/ n \in DOMAIN said[k]
  BY <1>1, <1>11 DEF SaidNext
<1>15. SaidInOrder(k)'
  <2>1. \A n \in DOMAIN said[k] : said[k][n].from <= validFrom
    BY <1>2, <1>13
  <2> QED BY <1>1, <1>6, <1>11, <1>12, <2>1, OrderExtends
<1>16. rows[i].rev < q
  BY <1>1, <1>2 DEF Written, RevsDiffer
<1>17. RowsSaid(k)'
  <2> SUFFICES ASSUME NEW j \in StateRows(k)'
               PROVE  /\ \E n \in DOMAIN said'[k] :
                           said'[k][n].from = rows'[j].valid_from /\ said'[k][n].rev = rows'[j].rev
                      /\ OnRecord(j, rows[j].valid_from)'
    BY DEF RowsSaid
  <2>1. CASE j = q
    BY <1>3, <1>4, <1>6, <1>7, <1>14, <2>1 DEF OnRecord
  <2>2. CASE j # q
    <3>1. j \in StateRows(k) /\ j \in DOMAIN rows
      BY <1>8, <2>2 DEF StateRows
    <3>2. PICK n \in DOMAIN said[k] :
            said[k][n].from = rows[j].valid_from /\ said[k][n].rev = rows[j].rev
      BY <1>12, <3>1 DEF WrittenKey, RowsSaid
    <3>3. OnRecord(j, rows[j].valid_from)
      BY <1>12, <3>1 DEF WrittenKey, RowsSaid
    <3>4. OnRecord(j, rows[j].valid_from)'
      BY <1>5, <1>6, <3>1, <3>3 DEF OnRecord
    <3> QED BY <1>5, <1>13, <3>1, <3>2, <3>4
  <2> QED BY <2>1, <2>2
<1>18. LastIsCurrent(k)'
  <2>1. \A j \in Current(k)' : j = q
    <3>1. \A j \in Current(k) : j = i
      BY <1>2 DEF LineageSound, OneCurrentRow
    <3> QED BY <1>2, <1>5, <1>8, <3>1 DEF Current, StateRows
  <2>2. \A n \in DOMAIN said'[k] : said'[k][n].rev <= q
    BY <1>2, <1>13, <1>14, <1>16
  <2> QED BY <1>3, <1>4, <2>1, <2>2 DEF LastIsCurrent
<1>19. LinksSaid(k)'
  <2> SUFFICES ASSUME NEW s \in supersessions', s.predecessor \in StateRows(k)'
               PROVE  /\ \E n \in DOMAIN said'[k] : /\ said'[k][n].from = s.effective_at
                                                    /\ said'[k][n].rev > rows'[s.predecessor].rev
                      /\ \A n \in DOMAIN said'[k] :
                           said'[k][n].rev > rows'[s.predecessor].rev =>
                             said'[k][n].from >= s.effective_at
    BY DEF LinksSaid
  <2>1. CASE s = link
    BY <1>2, <1>5, <1>7, <1>13, <1>14, <1>16, <2>1
  <2>2. CASE s \in supersessions
    <3>1. s.predecessor \in DOMAIN rows /\ s.predecessor # i
      BY <1>2, <2>2 DEF LineageSound, LinksJoinRevisions, HasSuccessor
    <3>2. s.predecessor \in StateRows(k)
      BY <1>3, <1>8, <3>1
    <3>3. PICK n \in DOMAIN said[k] :
            said[k][n].from = s.effective_at /\ said[k][n].rev > rows[s.predecessor].rev
      BY <1>12, <2>2, <3>2 DEF WrittenKey, LinksSaid
    <3>4. \A m \in DOMAIN said[k] :
            said[k][m].rev > rows[s.predecessor].rev => said[k][m].from >= s.effective_at
      BY <1>12, <2>2, <3>2 DEF WrittenKey, LinksSaid
    <3>5. validFrom >= s.effective_at
      BY <1>2, <1>13, <3>3
    <3> QED BY <1>5, <1>13, <1>14, <3>1, <3>3, <3>4, <3>5
  <2> QED BY <1>6, <2>1, <2>2
<1>20. SaidOfRows(k)'
  <2> SUFFICES ASSUME NEW n \in DOMAIN said'[k]
               PROVE  \E j \in StateRows(k)' :
                        said'[k][n].rev <= rows'[j].rev /\ OnRecord(j, said[k][n].from)'
    BY DEF SaidOfRows
  <2>1. CASE n = p
    <3>1. q \in StateRows(k)' /\ said'[k][n].rev <= rows'[q].rev
      BY <1>2, <1>3, <1>4, <1>8, <1>14, <2>1
    <3>2. OnRecord(q, said[k][n].from)'
      BY <1>6, <1>7, <1>14, <2>1 DEF OnRecord
    <3> QED BY <3>1, <3>2
  <2>2. CASE n \in DOMAIN said[k]
    <3>1. PICK j \in StateRows(k) : said[k][n].rev <= rows[j].rev /\ OnRecord(j, said[k][n].from)
      BY <1>12, <2>2 DEF WrittenKey, SaidOfRows
    <3>2. j \in DOMAIN rows /\ j \in StateRows(k)'
      BY <1>8 DEF StateRows
    <3>3. OnRecord(j, said[k][n].from)'
      BY <1>5, <1>6, <1>13, <2>2, <3>1, <3>2 DEF OnRecord
    <3> QED BY <1>5, <1>13, <2>2, <3>1, <3>2, <3>3
  <2> QED BY <1>14, <2>1, <2>2
<1>21. WrittenKey(k)'
  BY <1>15, <1>17, <1>18, <1>19, <1>20 DEF WrittenKey
<1> QED BY <1>9, <1>10, <1>21 DEF Written

\* Logs take part in no key's history.
LEMMA LogSaid ==
  ASSUME TypeOK, LineageSound, Written, NEW content \in LogContents,
         \/ \E c \in Clients : AppendLog(c, content)
         \/ \E i \in CurrentLogs, validFrom \in Nat : Supersede(i, content, validFrom),
         UNCHANGED said
  PROVE  Written'
<1>1. PICK q : q = nextRev
  OBVIOUS
<1>2. /\ q \in Nat /\ q \notin DOMAIN rows /\ nextRev' = q + 1
      /\ DOMAIN rows' = DOMAIN rows \cup {q}
      /\ rows'[q].kind = "log" /\ rows'[q].rev = q
      /\ \A j \in DOMAIN rows : /\ rows'[j].kind = rows[j].kind /\ rows'[j].rev = rows[j].rev
                                /\ rows[j].kind = "state" => rows'[j] = rows[j]
      /\ supersessions \subseteq supersessions'
      /\ \A s \in supersessions' : s \in supersessions \/ rows[s.predecessor].kind = "log"
  <2>1. ASSUME NEW c \in Clients, AppendLog(c, content)
        PROVE  <1>2!:
    <3> DEFINE row == NewRow("log", NoKey, c, content, now)
    <3>1. rows' = WithRow(rows, row)
      BY <2>1 DEF AppendLog
    <3>2. row.kind = "log" /\ row.rev = q
      BY <1>1 DEF NewRow
    <3> HIDE DEF row
    <3>3. /\ q \notin DOMAIN rows /\ DOMAIN rows' = DOMAIN rows \cup {q} /\ rows'[q] = row
          /\ \A j \in DOMAIN rows : rows'[j] = rows[j]
      BY <1>1, <3>1, WithRowEffect
    <3> QED BY <1>1, <2>1, <3>2, <3>3, SaidTypes DEF AppendLog
  <2>2. ASSUME NEW i \in CurrentLogs, NEW validFrom \in Nat, Supersede(i, content, validFrom)
        PROVE  <1>2!:
    <3> DEFINE row == NewRow(rows[i].kind, rows[i].key, rows[i].owner, content, validFrom)
               retired == [rows EXCEPT ![i] = Retired(rows[i])]
    <3>1. rows' = WithRow(retired, row) /\ DOMAIN retired = DOMAIN rows
      BY <2>2 DEF Supersede
    <3>2. i \in DOMAIN rows /\ rows[i].kind = "log" /\ rows[i] \in Row
      BY SaidTypes DEF CurrentLogs
    <3>3. row.kind = "log" /\ row.rev = q
      BY <1>1, <3>2 DEF NewRow
    <3>4. \A j \in DOMAIN rows : /\ retired[j].kind = rows[j].kind /\ retired[j].rev = rows[j].rev
                                 /\ rows[j].kind = "state" => retired[j] = rows[j]
      BY <3>2 DEF Retired, Row
    <3> HIDE DEF row, retired
    <3>5. /\ q \notin DOMAIN rows /\ DOMAIN rows' = DOMAIN rows \cup {q} /\ rows'[q] = row
          /\ \A j \in DOMAIN rows : rows'[j] = retired[j]
      BY <1>1, <3>1, WithRowEffect
    <3>6. /\ nextRev' = q + 1 /\ supersessions \subseteq supersessions'
          /\ \A s \in supersessions' : s \in supersessions \/ s.predecessor = i
      BY <1>1, <2>2 DEF Supersede
    <3> QED BY <1>1, <3>2, <3>3, <3>4, <3>5, <3>6, SaidTypes
  <2> QED BY <2>1, <2>2
<1>3. RevsDiffer'
  BY <1>1, <1>2, SaidTypes DEF Written, RevsDiffer
<1>4. ASSUME NEW k \in Keys PROVE WrittenKey(k)'
  <2>1. \A j \in StateRows(k) : j \in DOMAIN rows /\ rows[j].kind = "state" /\ rows'[j] = rows[j]
    BY <1>2 DEF StateRows, IsState
  <2>2. StateRows(k)' = StateRows(k)
    BY <1>2 DEF StateRows, IsState
  <2>3. \A s \in supersessions' : s.predecessor \in StateRows(k) => s \in supersessions
    BY <1>2, <2>1
  <2>4. nextRev' \in Nat /\ nextRev' >= nextRev
    BY <1>1, <1>2
  <2> QED BY <1>2, <2>1, <2>2, <2>3, <2>4, KeyUndisturbed DEF Written
<1> QED BY <1>3, <1>4 DEF Written

\* A delete takes the rows of a key with all that was said of it, or leaves both.
LEMMA ConfirmDeleteSaid ==
  ASSUME TypeOK, LineageSound, Written, NEW c \in Clients, NEW token,
         NEW scope \in Keys \cup {NoKey}, ConfirmDelete(c, token, scope)
  PROVE  Written'
<1> DEFINE gone == Removed(c, scope)
<1>1. /\ DOMAIN rows' = DOMAIN rows \ gone
      /\ \A j \in DOMAIN rows' : rows'[j] = rows[j]
      /\ supersessions' = {s \in supersessions : s.predecessor \notin gone
                                              /\ s.successor \notin gone}
      /\ \A k \in Keys : said'[k] = IF StateRows(k) \subseteq gone THEN <<>> ELSE said[k]
      /\ nextRev' = nextRev
  BY DEF ConfirmDelete, LineageWithout
<1>2. ASSUME NEW k \in Keys, NEW i \in StateRows(k), NEW j \in StateRows(k), i \in gone
      PROVE  j \in gone
  <2>1. gone = DeleteTargets(c, scope)
    BY <1>2 DEF Removed
  <2>2. InScope(c, scope, i)
    BY <1>2, <2>1 DEF DeleteTargets
  <2>3. InScope(c, scope, j)
    BY <2>2, ScopeTakesWholeKeys
  <2> QED BY <2>1, <2>3 DEF DeleteTargets, StateRows
<1> HIDE DEF gone
<1>3. RevsDiffer'
  BY <1>1 DEF Written, RevsDiffer
<1>4. ASSUME NEW k \in Keys PROVE WrittenKey(k)'
  <2>1. StateRows(k)' = StateRows(k) \ gone
    BY <1>1 DEF StateRows, IsState
  <2>2. CASE StateRows(k) \subseteq gone
    <3>1. StateRows(k)' = {} /\ DOMAIN said'[k] = {} /\ Current(k)' = {}
      BY <1>1, <2>1, <2>2 DEF Current
    <3> QED BY <3>1 DEF WrittenKey, SaidInOrder, RowsSaid, LastIsCurrent, LinksSaid, SaidOfRows
  <2>3. CASE ~(StateRows(k) \subseteq gone)
    <3>1. \A j \in StateRows(k) : j \notin gone
      BY <1>2, <2>3
    <3>2. StateRows(k)' = StateRows(k) /\ said'[k] = said[k]
      BY <1>1, <2>1, <2>3, <3>1
    <3>3. \A j \in StateRows(k) : rows'[j] = rows[j]
      BY <1>1, <3>1 DEF StateRows
    <3>4. \A s \in supersessions : s.successor \in StateRows(k) => s.predecessor \in StateRows(k)
      BY DEF LineageSound, LinksJoinRevisions, StateRows, IsState
    <3>5. \A s \in supersessions : s.successor \in StateRows(k) => s \in supersessions'
      BY <1>1, <3>1, <3>4
    <3>6. nextRev' \in Nat /\ nextRev' >= nextRev
      BY <1>1, SaidTypes
    <3> QED BY <1>1, <3>2, <3>3, <3>5, <3>6, KeyUndisturbed DEF Written
  <2> QED BY <2>2, <2>3
<1> QED BY <1>3, <1>4 DEF Written

LEMMA NextSaid ==
  ASSUME TypeOK, LineageSound, Written, [Next]_vars
  PROVE  Written'
<1>1. CASE UNCHANGED <<rows, supersessions, nextRev, said>>
  BY <1>1 DEF Written, RevsDiffer, WrittenKey, SaidInOrder, RowsSaid, LastIsCurrent, LinksSaid,
              SaidOfRows, OnRecord, Current, StateRows, IsState
<1>2. ASSUME NEW c \in Clients, NEW k \in Keys, NEW content \in Contents,
             CreateState(c, k, content) \/ RewriteState(c, k, content)
      PROVE  Written'
  BY <1>2, CreateStateSaid, RewriteStateSaid
<1>3. ASSUME NEW c \in Clients, NEW k \in Keys, NEW content \in Contents,
             \/ MemoryWrite(c, k, content)
             \/ CompareAndSwap(c, k, content)
             \/ MemoryCreateIfAbsent(c, k, content)
             \/ MemoryPatch(c, k, content)
      PROVE  Written'
  BY <1>2, <1>3 DEF MemoryWrite, CompareAndSwap, MemoryCreateIfAbsent, MemoryPatch, WriteState
<1>4. ASSUME NEW c \in Clients, NEW content \in Contents, UpdateStatusWrite(c, content)
      PROVE  Written'
  BY <1>2, <1>4 DEF UpdateStatusWrite, WriteState
<1>5. ASSUME NEW c \in Clients, NEW k \in Keys, NEW content \in Contents,
             MemorySupersede(c, k, content)
      PROVE  Written'
  <2>1. PICK i \in StateRows(k) : i = seen[c][k].id
    BY <1>5 DEF MemorySupersede
  <2>2. PICK validFrom \in CorrectionTimes(c, i) :
          Supersede(i, content, validFrom) /\ Say(k, validFrom)
    BY <1>5, <2>1 DEF MemorySupersede
  <2>3. validFrom \in Nat
    BY SaidTypes DEF CorrectionTimes, Later, StateRows
  <2> QED BY <2>2, <2>3, SupersedeSaid
<1>6. ASSUME NEW c \in Clients, NEW content \in LogContents, SupersedeLog(c, content)
      PROVE  Written'
  <2>1. PICK i \in CurrentLogs : \E validFrom \in rows[i].valid_from .. now \cup {now} :
          Supersede(i, content, validFrom)
    BY <1>6 DEF SupersedeLog
  <2>2. PICK validFrom \in rows[i].valid_from .. now \cup {now} : Supersede(i, content, validFrom)
    BY <2>1
  <2>3. validFrom \in Nat
    BY SaidTypes DEF CurrentLogs
  <2> QED BY <1>6, <2>2, <2>3, LogSaid DEF SupersedeLog
<1>7. ASSUME NEW c \in Clients, NEW token, NEW scope \in DeleteScopes,
             ConfirmDelete(c, token, scope)
      PROVE  Written'
  BY <1>7, ConfirmDeleteSaid DEF DeleteScopes
<1>8. ASSUME NEW c \in Clients, NEW content \in LogContents, AppendLog(c, content)
      PROVE  Written'
  BY <1>8, LogSaid DEF AppendLog
<1> QED
  BY <1>1, <1>3, <1>4, <1>5, <1>6, <1>7, <1>8
     DEF Next, vars, Tick, MemoryRead, UpdateStatusRead, UpdateStatusRefused,
         PreviewDelete, ConfirmDeleteFails, SweepTokens, Restart

LEMMA WrittenAlways == Spec => []Written
<1>1. Init => Written
  BY DEF Init, Written, RevsDiffer, WrittenKey, SaidInOrder, RowsSaid, LastIsCurrent, LinksSaid,
         SaidOfRows, Current, StateRows
<1> QED BY <1>1, TypeCorrect, LineageAlwaysSound, NextSaid, PTL DEF Spec

-----------------------------------------------------------------------------
(* Reading as of an instant *)

\* A finite set of numbers has a last one.
LEMMA LastOne ==
  ASSUME NEW S \in SUBSET Nat, IsFiniteSet(S), S # {}
  PROVE  \E n \in S : \A m \in S : m <= n
<1> DEFINE Above(i) == {j \in S : j > i}
           Sets == {Above(i) : i \in S}
<1>1. Sets \subseteq FiniteSubsetsOf(S) /\ Sets # {}
  <2>1. \A i \in S : Above(i) \in FiniteSubsetsOf(S)
    BY FS_Subset DEF FiniteSubsetsOf
  <2> HIDE DEF Above
  <2>2. PICK i \in S : TRUE
    OBVIOUS
  <2>3. Above(i) \in Sets
    BY <2>2
  <2> QED BY <2>1, <2>3
<1>2. PICK A \in Sets : \A B \in Sets : <<B, A>> \notin StrictSubsetOrdering(S)
  <2> HIDE DEF Sets
  <2> QED BY <1>1, FS_StrictSubsetOrderingWellFounded, WFMin
<1>3. PICK i \in S : A = Above(i)
  OBVIOUS
<1>4. SUFFICES ASSUME NEW j \in S, j > i PROVE FALSE
  OBVIOUS
<1>5. Above(j) \subseteq Above(i) /\ j \in Above(i) /\ j \notin Above(j)
  <2>1. i \in Nat /\ j \in Nat /\ \A m \in S : m \in Nat
    OBVIOUS
  <2>2. ASSUME NEW m \in S, m > j PROVE m > i
    <3>1. m \in Nat
      BY <2>1
    <3> QED BY <1>4, <2>1, <2>2, <3>1
  <2>3. Above(j) \subseteq Above(i)
    BY <2>2
  <2>4. j \in Above(i) /\ j \notin Above(j)
    BY <1>4, <2>1
  <2> QED BY <2>3, <2>4
<1>6. <<Above(j), A>> \in StrictSubsetOrdering(S)
  BY <1>3, <1>5 DEF StrictSubsetOrdering
<1> QED BY <1>2, <1>6

\* The last of the writings is the one that CHOOSE picks.
LEMMA LastSaidIs ==
  ASSUME TypeOK, NEW k \in Keys, NEW t, NEW n \in SaidBy(k, t),
         \A m \in SaidBy(k, t) : m <= n
  PROVE  LastSaid(k, t) = said[k][n]
<1>1. \A m \in SaidBy(k, t) : m \in Nat
  BY SaidTypes DEF SaidBy
<1> QED BY <1>1 DEF LastSaid

\* The valid row of an instant holds the last writing said to hold at it.
LEMMA ValidHoldsLast ==
  ASSUME TypeOK, LineageSound, Written, NEW k \in Keys, NEW t \in Nat, NEW i \in ValidAt(k, t)
  PROVE  \E n \in SaidBy(k, t) : /\ \A m \in SaidBy(k, t) : m <= n
                                 /\ said[k][n].rev = rows[i].rev
<1>1. /\ i \in StateRows(k) /\ i \in DOMAIN rows /\ rows[i].valid_from <= t
      /\ \A s \in supersessions : s.predecessor = i => s.effective_at > t
  BY SaidTypes DEF ValidAt, StateRows
<1>2. WrittenKey(k)
  BY DEF Written
<1>3. PICK n \in DOMAIN said[k] :
        said[k][n].from = rows[i].valid_from /\ said[k][n].rev = rows[i].rev
  BY <1>1, <1>2 DEF WrittenKey, RowsSaid
<1>4. ASSUME NEW m \in SaidBy(k, t) PROVE m <= n
  <2>1. m \in DOMAIN said[k] /\ said[k][m].from <= t
    BY DEF SaidBy
  <2>2. SUFFICES ASSUME n < m PROVE FALSE
    BY <2>1, SaidTypes
  <2>3. said[k][m].rev > rows[i].rev
    BY <1>1, <1>2, <1>3, <2>1, <2>2, SaidTypes DEF WrittenKey, SaidInOrder
  <2>4. CASE rows[i].is_current
    <3>1. i \in Current(k)
      BY <1>1, <2>4 DEF Current
    <3> QED BY <1>1, <1>2, <2>1, <2>3, <3>1, SaidTypes DEF WrittenKey, LastIsCurrent
  <2>5. CASE ~rows[i].is_current
    <3>1. PICK s \in supersessions : s.predecessor = i
      BY <1>1, <2>5 DEF LineageSound, RetiredIffSuperseded, HasSuccessor
    <3>2. said[k][m].from >= s.effective_at
      BY <1>1, <1>2, <2>1, <2>3, <3>1 DEF WrittenKey, LinksSaid
    <3> QED BY <1>1, <2>1, <3>1, <3>2, SaidTypes
  <2> QED BY <2>4, <2>5
<1>5. n \in SaidBy(k, t)
  BY <1>1, <1>3 DEF SaidBy
<1> QED BY <1>3, <1>4, <1>5

\* So there is one valid row at most, and the read returns it.
LEMMA ReadIsValid ==
  ASSUME TypeOK, LineageSound, Written, NEW k \in Keys, NEW t \in Nat, NEW i \in ValidAt(k, t)
  PROVE  ReadAsOf(k, t) = i
<1>1. ASSUME NEW j \in ValidAt(k, t) PROVE j = i
  <2>1. PICK n \in SaidBy(k, t) : (\A m \in SaidBy(k, t) : m <= n) /\ said[k][n].rev = rows[i].rev
    BY ValidHoldsLast
  <2>2. PICK o \in SaidBy(k, t) : (\A m \in SaidBy(k, t) : m <= o) /\ said[k][o].rev = rows[j].rev
    BY ValidHoldsLast
  <2>3. n = o
    BY <2>1, <2>2, SaidTypes DEF SaidBy
  <2> QED BY <2>1, <2>2, <2>3 DEF Written, RevsDiffer, ValidAt, StateRows
<1>2. rows[i].valid_from = rows[i].valid_from /\ i <= i
  BY SaidTypes DEF ValidAt, StateRows
<1> QED BY <1>1, <1>2 DEF ReadAsOf

LEMMA InstantsAreTimes ==
  ASSUME TypeOK, NEW k \in Keys, NEW t \in Instants(k)
  PROVE  t \in Nat
<1>1. \/ \E i \in StateRows(k) : t \in {rows[i].valid_from, rows[i].created_at}
      \/ \E s \in supersessions : t = s.effective_at
      \/ \E n \in DOMAIN said[k] : t = said[k][n].from
  <2> DEFINE ofRows == {{rows[i].valid_from, rows[i].created_at} : i \in StateRows(k)}
             ofLinks == {s.effective_at : s \in supersessions}
             ofWritings == {said[k][n].from : n \in DOMAIN said[k]}
  <2>1. t \in UNION ofRows \/ t \in ofLinks \/ t \in ofWritings
    BY DEF Instants
  <2>2. CASE t \in UNION ofRows
    <3>1. PICK times \in ofRows : t \in times
      <4> HIDE DEF ofRows
      <4> QED BY <2>2
    <3> QED BY <3>1
  <2> QED BY <2>1, <2>2
<1> QED BY <1>1, SaidTypes DEF StateRows

\* The two properties of as-of reads, of every instant and not only of those at
\* which their definitions change value.
FaithfulEver ==
  \A k \in Keys : \A t \in Nat :
    ValidAt(k, t) # {} =>
      SaidBy(k, t) # {} /\ rows[ReadAsOf(k, t)].rev = LastSaid(k, t).rev

MissesExplainedEver ==
  \A k \in Keys : \A t \in Nat :
    ValidAt(k, t) = {} /\ SaidBy(k, t) # {} => HistoryUnavailable(k, t)

LEMMA FaithfulHolds ==
  ASSUME TypeOK, LineageSound, Written
  PROVE  FaithfulEver
<1> SUFFICES ASSUME NEW k \in Keys, NEW t \in Nat, NEW i \in ValidAt(k, t)
             PROVE  SaidBy(k, t) # {} /\ rows[ReadAsOf(k, t)].rev = LastSaid(k, t).rev
  BY DEF FaithfulEver
<1>1. t \in Nat
  OBVIOUS
<1>2. PICK n \in SaidBy(k, t) : (\A m \in SaidBy(k, t) : m <= n) /\ said[k][n].rev = rows[i].rev
  BY <1>1, ValidHoldsLast
<1>3. ReadAsOf(k, t) = i
  BY <1>1, ReadIsValid
<1>4. LastSaid(k, t) = said[k][n]
  BY <1>2, LastSaidIs
<1> QED BY <1>2, <1>3, <1>4

\* A row on record at an instant and not valid until later is reported.
LEMMA CoverageSees ==
  ASSUME TypeOK, LineageSound, NEW k \in Keys, NEW t \in Nat, NEW i \in StateRows(k),
         OnRecord(i, t), rows[i].valid_from > t
  PROVE  HistoryUnavailable(k, t)
<1> DEFINE into == {x \in supersessions : x.successor = i}
           lineage == {s.effective_at : s \in into}
           recordedFrom == IF lineage = {} THEN rows[i].created_at
                           ELSE Earlier(CHOOSE e \in lineage : TRUE, rows[i].created_at)
<1>1. rows[i].created_at \in Nat /\ \A e \in lineage : e \in Nat
  BY SaidTypes DEF StateRows
<1>2. \A e, f \in lineage : e = f
  BY DEF LineageSound, LinksFormChains
<1>3. rows[i].created_at <= t \/ \E e \in lineage : e <= t
  BY DEF OnRecord
<1>4. recordedFrom <= t
  <2> HIDE DEF lineage
  <2>1. CASE lineage = {}
    BY <1>1, <1>3, <2>1
  <2>2. CASE lineage # {}
    <3>1. PICK e \in lineage : e = CHOOSE f \in lineage : TRUE
      BY <2>2
    <3>2. recordedFrom = Earlier(e, rows[i].created_at)
      BY <2>2, <3>1
    <3>3. rows[i].created_at <= t \/ e <= t
      BY <1>2, <1>3, <3>1
    <3> QED BY <1>1, <3>1, <3>2, <3>3 DEF Earlier
  <2> QED BY <2>1, <2>2
<1> QED BY <1>4 DEF HistoryUnavailable

LEMMA MissesHold ==
  ASSUME TypeOK, LineageSound, Written
  PROVE  MissesExplainedEver
<1> SUFFICES ASSUME NEW k \in Keys, NEW t \in Nat, ValidAt(k, t) = {}, SaidBy(k, t) # {}
             PROVE  HistoryUnavailable(k, t)
  BY DEF MissesExplainedEver
<1>1. t \in Nat /\ WrittenKey(k)
  BY DEF Written
<1>2. SaidBy(k, t) \in SUBSET Nat /\ IsFiniteSet(SaidBy(k, t))
  <2> DEFINE q == said[k]
             Writing == [from : Nat, rev : Nat]
  <2>1. q \in Seq(Writing)
    BY DEF TypeOK
  <2>2. Len(q) \in Nat /\ DOMAIN q = 1 .. Len(q)
    <3> HIDE DEF q, Writing
    <3> QED BY <2>1
  <2>3. SaidBy(k, t) \in SUBSET (1 .. Len(q))
    BY <2>2 DEF SaidBy
  <2>4. IsFiniteSet(1 .. Len(q))
    BY <2>2, FS_Interval
  <2>5. IsFiniteSet(SaidBy(k, t))
    BY <2>3, <2>4, FS_Subset
  <2> QED BY <2>2, <2>3, <2>5
<1>3. PICK n \in SaidBy(k, t) : \A m \in SaidBy(k, t) : m <= n
  BY <1>2, LastOne
<1>4. n \in DOMAIN said[k] /\ said[k][n].from <= t
  BY DEF SaidBy
<1>5. PICK i \in StateRows(k) : said[k][n].rev <= rows[i].rev /\ OnRecord(i, said[k][n].from)
  BY <1>1, <1>4 DEF WrittenKey, SaidOfRows
<1>6. i \in DOMAIN rows /\ OnRecord(i, t)
  BY <1>1, <1>4, <1>5, SaidTypes DEF OnRecord, StateRows
<1>7. rows[i].valid_from > t
  <2>1. SUFFICES ASSUME rows[i].valid_from <= t PROVE FALSE
    BY <1>1, <1>6, SaidTypes
  <2>2. PICK s \in supersessions : s.predecessor = i /\ s.effective_at <= t
    BY <2>1 DEF ValidAt
  <2>3. PICK m \in DOMAIN said[k] : said[k][m].from = s.effective_at /\ said[k][m].rev > rows[i].rev
    BY <1>1, <2>2 DEF WrittenKey, LinksSaid
  <2>4. m <= n
    BY <1>3, <2>2, <2>3 DEF SaidBy
  <2>5. said[k][m].rev <= said[k][n].rev
    BY <1>1, <1>4, <2>3, <2>4, SaidTypes DEF WrittenKey, SaidInOrder
  <2> QED BY <1>4, <1>5, <1>6, <2>3, <2>5, SaidTypes
<1> QED BY <1>1, <1>5, <1>6, <1>7, CoverageSees

\* An as-of read that finds something finds the last writing said to hold at that
\* instant, whatever the instant, for any mixture of writes, corrections into the
\* past, deletes and re-creations under a clock that may be set back.
THEOREM FaithfulAtAnyTime == Spec => []FaithfulEver
<1>1. TypeOK /\ LineageSound /\ Written => FaithfulEver
  BY FaithfulHolds
<1> QED BY <1>1, TypeCorrect, LineageAlwaysSound, WrittenAlways, PTL

\* As the runs check it, of the instants at which anything changes.
THEOREM AsOfAlwaysFaithful == Spec => []AsOfFaithful
<1>1. TypeOK /\ FaithfulEver => AsOfFaithful
  BY InstantsAreTimes DEF FaithfulEver, AsOfFaithful
<1> QED BY <1>1, TypeCorrect, FaithfulAtAnyTime, PTL

\* An as-of read that finds nothing where something was said to hold, whatever the
\* instant, says that the history is unavailable: the row that held it is on record
\* and has been rewritten.
THEOREM MissesExplainedAtAnyTime == Spec => []MissesExplainedEver
<1>1. TypeOK /\ LineageSound /\ Written => MissesExplainedEver
  BY MissesHold
<1> QED BY <1>1, TypeCorrect, LineageAlwaysSound, WrittenAlways, PTL

\* As the runs check it.
THEOREM AsOfMissesAlwaysExplained == Spec => []AsOfMissesExplained
<1>1. TypeOK /\ MissesExplainedEver => AsOfMissesExplained
  BY InstantsAreTimes DEF MissesExplainedEver, AsOfMissesExplained
<1> QED BY <1>1, TypeCorrect, MissesExplainedAtAnyTime, PTL

=============================================================================
