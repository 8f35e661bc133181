-------------------------- MODULE ReviewInboxProofs --------------------------
(***************************************************************************)
(* Theorems about ReviewInbox, for any keys, retention policy and bounds.  *)
(* The invariant speaks of any table a transaction may see together with   *)
(* the writes made so far (TableOK), so that one lemma carries it through  *)
(* the prune that opens every call, and each action is then judged against *)
(* the pruned table.                                                       *)
(***************************************************************************)
EXTENDS ReviewInbox, TLAPS

USE ReviewInboxAssumption, NothingAssumption

Done == {"approved", "superseded"}

\* w is a history of writes, t a table of proposals, throughout.
TextIn(w, rev) == IF rev = 0 THEN 0 ELSE w[rev].text

WritesOK(w, ids) ==
  \A rev \in DOMAIN w :
    /\ w[rev] \in Write
    /\ w[rev].by \in {0} \cup ids
    /\ w[rev].over \in {0} \cup DOMAIN w
    /\ w[rev].text # 0

\* What one row says of the write it made, or may still make.
RowOK(w, p) ==
  /\ p \in Proposal
  /\ IF p.status \in Done THEN p.applied \in DOMAIN w ELSE p.applied = 0
  /\ p.status \in Open =>
       /\ p.current_operation # Nothing
       /\ p.current_operation.target # Log => p.current_operation.expected = p.basis
  /\ p.applied # 0 =>
       /\ w[p.applied].target # Log => w[p.applied].over = p.basis
       /\ p.current_operation # Nothing =>
            /\ w[p.applied].target = p.current_operation.target
            /\ p.prior = TextIn(w, w[p.applied].over)

\* id made the write its row names, and no other.
WritesOf(w, id) == {rev \in DOMAIN w : w[rev].by = id}
WroteOnce(w, p, id) == WritesOf(w, id) = IF p.status \in Done THEN {p.applied} ELSE {}

\* p, an undo of o, still inverts what o did, or has inverted it.
Inverts(w, p, o) ==
  /\ o.undo_of = 0
  /\ o.status \in Done
  /\ (p.status \in Open /\ ~p.edited) =>
       /\ p.current_operation.target = w[o.applied].target
       /\ p.current_operation.target = Log => p.current_operation.supersedes = o.applied
       /\ p.current_operation.target # Log =>
            /\ p.current_operation.expected = o.applied
            /\ p.current_operation.text # 0
            /\ p.current_operation.text = TextIn(w, w[o.applied].over)
  /\ (p.applied # 0 /\ ~p.edited) =>
       /\ w[p.applied].over = o.applied
       /\ w[o.applied].target # Log => w[p.applied].text = TextIn(w, w[o.applied].over)

UndoOK(w, t, u) ==
  t[u].undo_of # 0 => t[u].undo_of \in DOMAIN t /\ Inverts(w, t[u], t[t[u].undo_of])

UndosOf(t, o) == {u \in DOMAIN t : t[u].undo_of = o /\ t[u].status = "approved"}
OneUndo(t, o) ==
  IF t[o].status = "superseded" THEN \E u \in UndosOf(t, o) : UndosOf(t, o) = {u}
  ELSE UndosOf(t, o) = {}

TableOK(w, t) ==
  /\ \A id \in DOMAIN t : RowOK(w, t[id])
  /\ \A id \in DOMAIN t : WroteOnce(w, t[id], id)
  /\ \A id \in DOMAIN t : UndoOK(w, t, id)
  /\ \A id \in DOMAIN t : OneUndo(t, id)

IInv == TypeOK /\ WritesOK(writes, Ids) /\ TableOK(writes, proposals)

-----------------------------------------------------------------------------
(* Rows that close, and rows the prune touches *)

\* q is p, or p closed without a write, perhaps without its payload.
Settles(p, q) ==
  /\ q \in Proposal
  /\ q.applied = p.applied /\ q.undo_of = p.undo_of
  /\ q.edited = p.edited /\ q.basis = p.basis
  /\ q.status = p.status \/ (p.status \in Open /\ q.status \notin Open \cup Done)
  /\ q.current_operation = Nothing \/ (/\ q.current_operation = p.current_operation
                                       /\ q.prior = p.prior)
  /\ q.status \in Open => q = p

LEMMA SettledRow ==
  ASSUME NEW w, NEW p, NEW q, RowOK(w, p), Settles(p, q)
  PROVE  RowOK(w, q)
<1>1. q.status \in Done <=> p.status \in Done
  BY DEF Settles, Done, Open
<1>2. q.status \in Open => p.status \in Open
  BY DEF Settles
<1> QED
  BY <1>1, <1>2 DEF RowOK, Settles

LEMMA SettledTable ==
  ASSUME NEW w, NEW t, NEW t2, TableOK(w, t),
         DOMAIN t2 = DOMAIN t, \A id \in DOMAIN t : Settles(t[id], t2[id])
  PROVE  TableOK(w, t2)
<1>1. \A id \in DOMAIN t2 : RowOK(w, t2[id])
  BY SettledRow DEF TableOK
<1>2. \A id \in DOMAIN t2 : t2[id].status \in Done <=> t[id].status \in Done
  BY DEF Settles, Done, Open
<1>3. \A id \in DOMAIN t2 : t2[id].status = "superseded" <=> t[id].status = "superseded"
  BY DEF Settles, Done, Open
<1>4. \A id \in DOMAIN t2 : t2[id].status = "approved" <=> t[id].status = "approved"
  BY DEF Settles, Done, Open
<1>5. \A id \in DOMAIN t2 : WroteOnce(w, t2[id], id)
  BY <1>2 DEF TableOK, WroteOnce, Settles
<1>6. ASSUME NEW id \in DOMAIN t2
      PROVE  UndoOK(w, t2, id)
  <2>1. UndoOK(w, t, id) /\ Settles(t[id], t2[id])
    BY DEF TableOK
  <2>2. CASE t2[id].undo_of # 0
    <3> DEFINE o == t[id].undo_of
    <3>1. o \in DOMAIN t /\ t2[id].undo_of = o /\ Inverts(w, t[id], t[o]) /\ Settles(t[o], t2[o])
      BY <2>1, <2>2 DEF UndoOK, Settles
    <3>2. t2[o].applied = t[o].applied /\ t2[o].undo_of = 0 /\ t2[o].status \in Done
      BY <3>1, <1>2 DEF Settles, Inverts
    <3>3. t2[id].applied = t[id].applied /\ t2[id].edited = t[id].edited
          /\ (t2[id].status \in Open => t2[id] = t[id])
      BY <2>1 DEF Settles
    <3>4. Inverts(w, t2[id], t2[o])
      BY <3>1, <3>2, <3>3 DEF Inverts
    <3> QED
      BY <3>1, <3>4 DEF UndoOK
  <2> QED
    BY <2>2 DEF UndoOK
<1>7. ASSUME NEW id \in DOMAIN t2
      PROVE  OneUndo(t2, id)
  <2>1. UndosOf(t2, id) = UndosOf(t, id)
    BY <1>4 DEF UndosOf, Settles
  <2> QED
    BY <2>1, <1>3 DEF TableOK, OneUndo
<1> QED
  BY <1>1, <1>5, <1>6, <1>7 DEF TableOK

LEMMA PrunedRow ==
  ASSUME NEW p \in Proposal
  PROVE  Settles(p, Purged(Expired(p)))
<1> DEFINE e == Expired(p)
<1>1. e \in Proposal /\ Settles(p, e)
  BY DEF Expired, EffectiveStatus, Settles, Proposal, Statuses, Open, Done
<1>2. Tombstone(e) \in Proposal
  BY <1>1 DEF Tombstone, Proposal
<1>3. CASE RetentionOver(e.status, e.terminal_at)
  <2>1. e.status \notin Open
    BY <1>3 DEF RetentionOver
  <2>2. Settles(p, Tombstone(e))
    BY <1>1, <1>2, <2>1 DEF Settles, Tombstone, Proposal
  <2> QED
    BY <2>2, <1>3 DEF Purged
<1>4. CASE ~RetentionOver(e.status, e.terminal_at)
  BY <1>1, <1>4 DEF Purged
<1> QED
  BY <1>3, <1>4

LEMMA PrunedTable ==
  ASSUME IInv
  PROVE  /\ DOMAIN Pruned(proposals) = Ids
         /\ \A id \in Ids : Settles(proposals[id], Pruned(proposals)[id])
         /\ TableOK(writes, Pruned(proposals))
<1>1. DOMAIN Pruned(proposals) = Ids
  BY DEF Pruned, Ids
<1>2. ASSUME NEW id \in Ids
      PROVE  Settles(proposals[id], Pruned(proposals)[id])
  <2>1. Pruned(proposals)[id] = Purged(Expired(proposals[id]))
    BY DEF Pruned, Ids
  <2> QED
    BY <2>1, PrunedRow DEF IInv, TypeOK
<1> QED
  BY <1>1, <1>2, SettledTable DEF IInv, Ids

-----------------------------------------------------------------------------
(* A new proposal *)

LEMMA NewRow ==
  ASSUME NEW w, NEW t, NEW n, NEW row,
         TableOK(w, t), WritesOK(w, DOMAIN t), n \notin DOMAIN t, n # 0, 0 \notin DOMAIN t,
         RowOK(w, row), row.status = "pending",
         row.undo_of # 0 => row.undo_of \in DOMAIN t /\ Inverts(w, row, t[row.undo_of])
  PROVE  TableOK(w, With(t, n, row))
<1> DEFINE t2 == With(t, n, row)
<1>1. DOMAIN t2 = DOMAIN t \cup {n} /\ t2[n] = row /\ \A id \in DOMAIN t : t2[id] = t[id]
  BY DEF With
<1>2. \A id \in DOMAIN t : t2[id].undo_of # n
  BY <1>1 DEF TableOK, UndoOK
<1> HIDE DEF t2
<1>3. \A id \in DOMAIN t2 : RowOK(w, t2[id])
  BY <1>1 DEF TableOK
<1>4. ASSUME NEW id \in DOMAIN t2
      PROVE  WroteOnce(w, t2[id], id)
  <2>1. CASE id = n
    BY <2>1, <1>1 DEF WroteOnce, WritesOf, WritesOK, Done
  <2>2. CASE id \in DOMAIN t
    BY <2>2, <1>1 DEF TableOK
  <2> QED
    BY <2>1, <2>2, <1>1
<1>5. ASSUME NEW id \in DOMAIN t2
      PROVE  UndoOK(w, t2, id)
  <2>1. CASE id = n
    BY <2>1, <1>1 DEF UndoOK
  <2>2. CASE id \in DOMAIN t
    BY <2>2, <1>1 DEF TableOK, UndoOK
  <2> QED
    BY <2>1, <2>2, <1>1
<1>6. ASSUME NEW id \in DOMAIN t2
      PROVE  OneUndo(t2, id)
  <2>1. CASE id = n
    <3>1. UndosOf(t2, n) = {}
      BY <1>1, <1>2 DEF UndosOf
    <3> QED
      BY <3>1, <2>1, <1>1 DEF OneUndo
  <2>2. CASE id \in DOMAIN t
    <3>1. UndosOf(t2, id) = UndosOf(t, id)
      BY <1>1 DEF UndosOf
    <3> QED
      BY <3>1, <2>2, <1>1 DEF OneUndo, TableOK
  <2> QED
    BY <2>1, <2>2, <1>1
<1> QED
  BY <1>3, <1>4, <1>5, <1>6 DEF TableOK, t2

-----------------------------------------------------------------------------
(* Writes to memory *)

\* What Store adds to the history.
NewWrite(by, op, newRow) ==
  LET over == IF op.target = Log THEN op.supersedes ELSE Target(op)
  IN  [by |-> by, target |-> op.target, text |-> IF op.text = 0 THEN nextRev ELSE op.text,
       entry |-> IF newRow \/ over = 0 THEN nextRev ELSE EntryOf(over), over |-> over]

LEMMA StoreWrites ==
  ASSUME IInv, NEW by \in {0} \cup Ids, NEW op \in Operation, NEW newRow \in BOOLEAN,
         op.target = Log => op.supersedes \in {0} \cup logs,
         Store(by, op, newRow)
  PROVE  /\ nextRev' = nextRev + 1
         /\ DOMAIN writes' = DOMAIN writes \cup {nextRev}
         /\ nextRev \notin DOMAIN writes /\ nextRev # 0
         /\ \A rev \in DOMAIN writes : writes'[rev] = writes[rev]
         /\ writes'[nextRev] = NewWrite(by, op, newRow)
         /\ WritesOK(writes', Ids)
         /\ nextRev' \in Nat \ {0} /\ DOMAIN writes' = 1 .. nextRev' - 1
         /\ current' \in [Keys -> {0} \cup DOMAIN writes']
         /\ logs' \subseteq DOMAIN writes'
<1> DEFINE over == IF op.target = Log THEN op.supersedes ELSE Target(op)
<1>1. over \in {0} \cup DOMAIN writes
  BY DEF IInv, TypeOK, Target, Operation
<1>2. /\ nextRev' = nextRev + 1
      /\ writes' = With(writes, nextRev, NewWrite(by, op, newRow))
  BY DEF Store, NewWrite
<1>3. nextRev \in Nat \ {0} /\ DOMAIN writes = 1 .. nextRev - 1 /\ Ids = 1 .. nextProposal - 1
  BY DEF IInv, TypeOK
<1>4. NewWrite(by, op, newRow) \in Write
  <2>1. EntryOf(over) \in Nat
    BY <1>1, <1>3 DEF EntryOf, IInv, TypeOK, Write
  <2>2. by \in Nat /\ over \in Nat
    BY <1>1, <1>3, nextProposal \in Nat DEF IInv, TypeOK
  <2> QED
    BY <2>1, <2>2, <1>3 DEF NewWrite, Write, Operation
<1>5. /\ DOMAIN writes' = DOMAIN writes \cup {nextRev}
      /\ \A rev \in DOMAIN writes : writes'[rev] = writes[rev]
      /\ writes'[nextRev] = NewWrite(by, op, newRow)
  BY <1>2, <1>3 DEF With
<1>6. WritesOK(writes', Ids)
  <2>1. /\ NewWrite(by, op, newRow).by = by
        /\ NewWrite(by, op, newRow).over = over
        /\ NewWrite(by, op, newRow).text # 0
    BY <1>3 DEF NewWrite
  <2> QED
    BY <2>1, <1>1, <1>4, <1>5 DEF WritesOK, IInv
<1>7. current' \in [Keys -> {0} \cup DOMAIN writes'] /\ logs' \subseteq DOMAIN writes'
  BY <1>5 DEF Store, IInv, TypeOK, Operation
<1> QED
  BY <1>2, <1>3, <1>5, <1>6, <1>7

\* w2 is w and the write n.
Grows(w, w2, n) ==
  /\ DOMAIN w2 = DOMAIN w \cup {n} /\ n \notin DOMAIN w /\ n # 0
  /\ \A rev \in DOMAIN w : w2[rev] = w[rev]

LEMMA GrownText ==
  ASSUME NEW w, NEW w2, NEW n, NEW ids, WritesOK(w, ids), Grows(w, w2, n)
  PROVE  /\ \A rev \in {0} \cup DOMAIN w : TextIn(w2, rev) = TextIn(w, rev)
         /\ \A rev \in DOMAIN w : TextIn(w2, w2[rev].over) = TextIn(w, w[rev].over)
BY DEF WritesOK, TextIn, Grows

LEMMA GrownRow ==
  ASSUME NEW w, NEW w2, NEW n, NEW ids, WritesOK(w, ids), Grows(w, w2, n),
         NEW p, RowOK(w, p)
  PROVE  RowOK(w2, p)
<1>1. p.applied # 0 => p.applied \in DOMAIN w
  BY DEF RowOK
<1>2. p.applied # 0 => /\ w2[p.applied] = w[p.applied]
                       /\ TextIn(w2, w2[p.applied].over) = TextIn(w, w[p.applied].over)
  BY <1>1, GrownText DEF Grows
<1>3. p.applied \in DOMAIN w => p.applied \in DOMAIN w2
  BY DEF Grows
<1> QED
  BY <1>2, <1>3 DEF RowOK

LEMMA GrownInverts ==
  ASSUME NEW w, NEW w2, NEW n, NEW ids, WritesOK(w, ids), Grows(w, w2, n),
         NEW p, NEW o, RowOK(w, p), RowOK(w, o), Inverts(w, p, o)
  PROVE  Inverts(w2, p, o)
<1>1. o.applied \in DOMAIN w /\ (p.applied # 0 => p.applied \in DOMAIN w)
  BY DEF RowOK, Inverts
<1> QED
  BY <1>1, GrownText DEF Inverts, Grows

\* A write of no proposal disturbs none.
LEMMA OtherWrite ==
  ASSUME NEW w, NEW w2, NEW t, NEW n, NEW ids, WritesOK(w, ids), TableOK(w, t),
         Grows(w, w2, n), w2[n].by = 0, 0 \notin DOMAIN t
  PROVE  TableOK(w2, t)
<1>1. ASSUME NEW id \in DOMAIN t
      PROVE  RowOK(w2, t[id]) /\ WroteOnce(w2, t[id], id)
  <2>1. RowOK(w2, t[id])
    BY GrownRow DEF TableOK
  <2>2. WritesOf(w2, id) = WritesOf(w, id)
    BY DEF WritesOf, Grows
  <2> QED
    BY <2>1, <2>2 DEF WroteOnce, TableOK
<1>2. ASSUME NEW u \in DOMAIN t
      PROVE  UndoOK(w2, t, u)
  BY GrownInverts DEF UndoOK, TableOK
<1> QED
  BY <1>1, <1>2 DEF TableOK

-----------------------------------------------------------------------------
(* Approval *)

\* What Approve does to the pruned table.
LEMMA ApprovedTable ==
  ASSUME IInv, NEW id \in Ids, Approve(id)
  PROVE  \E t, t2 :
           /\ t = Pruned(proposals) /\ t2 = proposals'
           /\ DOMAIN t = Ids /\ DOMAIN t2 = Ids /\ TableOK(writes, t)
           /\ t[id].status \in Open /\ RowOK(writes, t[id])
           /\ t[id].current_operation \in Operation
           /\ t2[id] = Approved(t[id])
           /\ t[id].undo_of # 0 =>
                /\ t[id].undo_of \in Ids /\ t[id].undo_of # id
                /\ t[t[id].undo_of].status = "approved"
                /\ t[t[id].undo_of].undo_of = 0
                /\ t2[t[id].undo_of] = Superseded(t[t[id].undo_of])
           /\ \A x \in Ids : x # id /\ x # t[id].undo_of => t2[x] = t[x]
<1> DEFINE t == Pruned(proposals)
<1>1. DOMAIN t = Ids /\ TableOK(writes, t)
  BY PrunedTable
<1>2. WouldWrite(t[id]) /\ CanMark(t, id)
  BY DEF Approve
<1>3. proposals' = [MarkedBy(t, id) EXCEPT ![id] = Approved(@)]
  BY DEF Approve
<1> HIDE DEF t
<1>4. t[id].status \in Open /\ RowOK(writes, t[id]) /\ t[id].current_operation \in Operation
  BY <1>1, <1>2 DEF WouldWrite, TableOK, RowOK, Proposal
<1>5. t[id].undo_of # 0 => /\ t[id].undo_of \in Ids /\ t[id].undo_of # id
                           /\ t[t[id].undo_of].status = "approved"
                           /\ t[t[id].undo_of].undo_of = 0
  BY <1>1, <1>2 DEF CanMark, TableOK, UndoOK, Inverts
<1>6. DOMAIN MarkedBy(t, id) = Ids /\ MarkedBy(t, id)[id] = t[id]
  BY <1>1, <1>5 DEF MarkedBy
<1>7. /\ DOMAIN proposals' = Ids
      /\ proposals'[id] = Approved(t[id])
      /\ \A x \in Ids : x # id => proposals'[x] = MarkedBy(t, id)[x]
  BY <1>3, <1>6
<1>8. t[id].undo_of # 0 => proposals'[t[id].undo_of] = Superseded(t[t[id].undo_of])
  BY <1>1, <1>5, <1>7 DEF MarkedBy
<1>9. \A x \in Ids : x # id /\ x # t[id].undo_of => proposals'[x] = t[x]
  BY <1>1, <1>7 DEF MarkedBy
<1> QED
  BY <1>1, <1>4, <1>5, <1>7, <1>8, <1>9 DEF t

LEMMA ApproveKeeps ==
  ASSUME IInv, NEW id \in Ids, Approve(id)
  PROVE  WritesOK(writes', Ids) /\ TableOK(writes', proposals')
<1>1. PICK t, t2 :
           /\ t = Pruned(proposals) /\ t2 = proposals'
           /\ DOMAIN t = Ids /\ DOMAIN t2 = Ids /\ TableOK(writes, t)
           /\ t[id].status \in Open /\ RowOK(writes, t[id])
           /\ t[id].current_operation \in Operation
           /\ t2[id] = Approved(t[id])
           /\ t[id].undo_of # 0 =>
                /\ t[id].undo_of \in Ids /\ t[id].undo_of # id
                /\ t[t[id].undo_of].status = "approved"
                /\ t[t[id].undo_of].undo_of = 0
                /\ t2[t[id].undo_of] = Superseded(t[t[id].undo_of])
           /\ \A x \in Ids : x # id /\ x # t[id].undo_of => t2[x] = t[x]
  BY ApprovedTable
<1> DEFINE p == t[id]
           op == p.current_operation
           o == p.undo_of
           over == IF op.target = Log THEN op.supersedes ELSE Target(op)
<1>2. TargetUnchanged(op) /\ Store(id, op, op.supersedes # 0)
  BY <1>1 DEF Approve, WouldWrite
<1>3. op.target = Log => op.supersedes \in {0} \cup logs
  BY <1>2 DEF TargetUnchanged
<1>4. op.target # Log => Target(op) = op.expected
  BY <1>2 DEF TargetUnchanged
<1>5. /\ Grows(writes, writes', nextRev)
      /\ writes'[nextRev] = NewWrite(id, op, op.supersedes # 0)
      /\ WritesOK(writes', Ids)
  BY <1>1, <1>2, <1>3, StoreWrites DEF Grows
<1>6. WritesOK(writes, Ids) /\ 0 \notin Ids
  BY DEF IInv, TypeOK
<1>7. over \in {0} \cup DOMAIN writes
  BY <1>1, <1>3 DEF IInv, TypeOK, Target, Operation
<1>8. /\ writes'[nextRev].by = id /\ writes'[nextRev].over = over
      /\ writes'[nextRev].target = op.target
      /\ op.text # 0 => writes'[nextRev].text = op.text
  BY <1>5 DEF NewWrite
<1>9. p.applied = 0
  BY <1>1 DEF RowOK, Open, Done
<1>10. /\ t2[id].status = "approved" /\ t2[id].applied = nextRev
       /\ t2[id].undo_of = o /\ t2[id].edited = p.edited /\ t2[id].basis = p.basis
       /\ t2[id].current_operation = op
       /\ t2[id].prior = TextIn(writes, over) /\ t2[id] \in Proposal
  <2>1. p \in Proposal
    BY <1>1 DEF RowOK
  <2>2. TextIn(writes, over) \in Nat
    BY <1>6, <1>7 DEF TextIn, WritesOK, Write
  <2>3. nextRev \in Nat
    BY DEF IInv, TypeOK
  <2>4. t2[id] = [p EXCEPT !.status = "approved", !.terminal_at = now, !.applied = nextRev,
                           !.prior = TextIn(writes, over)]
    BY <1>1 DEF Approved, TextOf, TextIn
  <2>5. now \in Nat
    BY DEF IInv, TypeOK
  <2> QED
    BY <2>1, <2>2, <2>3, <2>4, <2>5 DEF Proposal, Statuses
<1>11. ASSUME o # 0
       PROVE  /\ t2[o].status = "superseded" /\ t2[o].applied = t[o].applied
              /\ t2[o].undo_of = 0 /\ RowOK(writes, t2[o])
  <2>1. RowOK(writes, t[o]) /\ t[o] \in Proposal /\ now \in Nat
    BY <1>1, <1>11 DEF TableOK, RowOK, IInv, TypeOK
  <2>2. t2[o] = [t[o] EXCEPT !.status = "superseded", !.terminal_at = now]
    BY <1>1, <1>11 DEF Superseded
  <2>3. /\ t2[o] \in Proposal /\ t2[o].status = "superseded" /\ t2[o].applied = t[o].applied
        /\ t2[o].undo_of = t[o].undo_of /\ t2[o].basis = t[o].basis
        /\ t2[o].current_operation = t[o].current_operation /\ t2[o].prior = t[o].prior
    BY <2>1, <2>2 DEF Proposal, Statuses
  <2> QED
    BY <1>1, <1>11, <2>1, <2>3 DEF RowOK, Open, Done
<1>12. \A x \in Ids : x # id => /\ t2[x].status \in Done <=> t[x].status \in Done
                                /\ t2[x].applied = t[x].applied
                                /\ t2[x].undo_of = t[x].undo_of
                                /\ RowOK(writes, t2[x])
  <2>1. ASSUME NEW x \in Ids, x # id, x # o
        PROVE  t2[x] = t[x] /\ RowOK(writes, t2[x])
    BY <2>1, <1>1 DEF TableOK
  <2>2. ASSUME o \in Ids
        PROVE  /\ t2[o].status \in Done /\ t[o].status \in Done
               /\ t2[o].applied = t[o].applied /\ t2[o].undo_of = t[o].undo_of
               /\ RowOK(writes, t2[o])
    BY <2>2, <1>1, <1>6, <1>11 DEF Done
  <2> QED
    BY <2>1, <2>2
<1> HIDE DEF over, op, p, o
<1>13. ASSUME NEW x \in DOMAIN t2
       PROVE  RowOK(writes', t2[x])
  <2>1. CASE x = id
    <3>1. nextRev \in DOMAIN writes' /\ nextRev # 0
      BY <1>5 DEF Grows
    <3>2. TextIn(writes', over) = TextIn(writes, over)
      BY <1>5, <1>6, <1>7, GrownText
    <3>3. op.target # Log => over = p.basis
      BY <1>1, <1>4 DEF over, op, p, RowOK
    <3> QED
      BY <2>1, <3>1, <3>2, <3>3, <1>8, <1>10 DEF RowOK, Done, Open
  <2>2. CASE x # id
    BY <2>2, <1>1, <1>5, <1>6, <1>12, GrownRow
  <2> QED
    BY <2>1, <2>2
<1>14. ASSUME NEW x \in DOMAIN t2
       PROVE  WroteOnce(writes', t2[x], x)
  <2>1. CASE x = id
    <3>1. WritesOf(writes, id) = {}
      BY <1>1 DEF TableOK, WroteOnce, Done, Open
    <3>2. WritesOf(writes', id) = {nextRev}
      BY <3>1, <1>5, <1>8 DEF WritesOf, Grows
    <3> QED
      BY <2>1, <3>2, <1>10 DEF WroteOnce, Done
  <2>2. CASE x # id
    <3>1. WritesOf(writes', x) = WritesOf(writes, x)
      BY <2>2, <1>5, <1>8 DEF WritesOf, Grows
    <3> QED
      BY <2>2, <3>1, <1>1, <1>12 DEF WroteOnce, TableOK
  <2> QED
    BY <2>1, <2>2
<1>15. ASSUME NEW x \in DOMAIN t2
       PROVE  UndoOK(writes', t2, x)
  <2>1. CASE x = id /\ o # 0
    <3>1. RowOK(writes, t[o]) /\ Inverts(writes, p, t[o]) /\ o \in Ids
      BY <2>1, <1>1 DEF o, p, TableOK, UndoOK
    <3>2. t[o].applied \in DOMAIN writes
      BY <3>1 DEF RowOK, Inverts
    <3>3. ~p.edited => over = t[o].applied
      BY <3>1, <1>1, <1>4 DEF Inverts, over, op, p
    <3>4. ~p.edited /\ writes[t[o].applied].target # Log =>
             writes'[nextRev].text = TextIn(writes', writes'[t[o].applied].over)
      BY <3>1, <3>2, <1>1, <1>5, <1>6, <1>8, GrownText DEF Inverts, op, p
    <3>5. writes'[t[o].applied] = writes[t[o].applied]
      BY <3>2, <1>5 DEF Grows
    <3>6. Inverts(writes', t2[id], t2[o])
      BY <3>3, <3>4, <3>5, <2>1, <1>8, <1>10, <1>11 DEF Inverts, Done, Open
    <3> QED
      BY <2>1, <3>1, <3>6, <1>1, <1>10 DEF UndoOK
  <2>2. CASE x = id /\ o = 0
    BY <2>2, <1>10 DEF UndoOK
  <2>3. CASE x # id /\ t2[x].undo_of # 0
    <3> DEFINE q == t[x].undo_of
    <3>1. q \in Ids /\ Inverts(writes, t[x], t[q]) /\ RowOK(writes, t[x])
      BY <2>3, <1>1, <1>12 DEF TableOK, UndoOK
    <3>2. q # id
      BY <3>1, <1>1 DEF Inverts, Open, Done
    <3>3. x # o
      BY <2>3, <1>1, <1>6, <1>11 DEF o, p
    <3>4. t2[x] = t[x]
      BY <2>3, <3>3, <1>1 DEF o, p
    <3>5. Inverts(writes, t[x], t2[q])
      BY <3>1, <3>2, <1>12 DEF Inverts
    <3>6. Inverts(writes', t[x], t2[q])
      BY <3>1, <3>2, <3>5, <1>5, <1>6, <1>12, GrownInverts
    <3> QED
      BY <3>1, <3>4, <3>6, <1>1 DEF UndoOK
  <2>4. CASE x # id /\ t2[x].undo_of = 0
    BY <2>4 DEF UndoOK
  <2> QED
    BY <2>1, <2>2, <2>3, <2>4
<1>16. ASSUME NEW x \in DOMAIN t2
       PROVE  OneUndo(t2, x)
  <2>1. CASE x = o
    <3>1. t[o].status = "approved" /\ o \in Ids /\ t2[o].status = "superseded"
      BY <2>1, <1>1, <1>6, <1>11 DEF o, p
    <3>2. UndosOf(t, o) = {}
      BY <3>1, <1>1 DEF TableOK, OneUndo
    <3>3. \A u \in Ids : u # id /\ t2[u].undo_of = o => t2[u] = t[u]
      BY <3>1, <1>1, <1>6, <1>11 DEF o, p
    <3>4. UndosOf(t2, o) = {id}
      BY <3>2, <3>3, <1>1, <1>10 DEF UndosOf
    <3> QED
      BY <2>1, <3>1, <3>4 DEF OneUndo
  <2>2. CASE x = id
    <3>1. \A u \in Ids : t[u].undo_of # id
      BY <1>1, <1>6 DEF TableOK, UndoOK, Inverts, Open, Done
    <3>2. UndosOf(t2, id) = {}
      <4>1. t2[id].undo_of # id
        BY <3>1, <1>1, <1>10 DEF o, p
      <4> QED
        BY <3>1, <4>1, <1>1, <1>12 DEF UndosOf
    <3> QED
      BY <2>2, <3>2, <1>10 DEF OneUndo
  <2>3. CASE x # id /\ x # o
    <3>1. t2[x] = t[x]
      BY <2>3, <1>1 DEF o, p
    <3>2. UndosOf(t2, x) = UndosOf(t, x)
      <4>1. \A u \in Ids : t2[u].undo_of = x <=> t[u].undo_of = x
        BY <1>10, <1>12 DEF o, p
      <4>2. \A u \in Ids : t2[u].undo_of = x => t2[u] = t[u]
        BY <2>3, <1>1, <1>6, <1>10, <1>11 DEF o, p
      <4> QED
        BY <4>1, <4>2, <1>1 DEF UndosOf
    <3> QED
      BY <3>1, <3>2, <1>1 DEF OneUndo, TableOK
  <2> QED
    BY <2>1, <2>2, <2>3
<1> QED
  BY <1>1, <1>5, <1>13, <1>14, <1>15, <1>16 DEF TableOK

-----------------------------------------------------------------------------
(* Rewording *)

\* q is p with another operation.
Reworded(p, q) ==
  /\ q \in Proposal /\ q.status = "edited" /\ q.edited
  /\ q.current_operation # Nothing /\ q.basis = q.current_operation.expected
  /\ q.applied = p.applied /\ q.undo_of = p.undo_of

LEMMA RewordedTable ==
  ASSUME NEW w, NEW t, NEW t2, NEW id \in DOMAIN t, TableOK(w, t), DOMAIN t2 = DOMAIN t,
         t[id].status \in Open, Reworded(t[id], t2[id]),
         \A x \in DOMAIN t : x # id => t2[x] = t[x]
  PROVE  TableOK(w, t2)
<1>1. RowOK(w, t[id]) /\ t[id].applied = 0
  BY DEF TableOK, RowOK, Open, Done
<1>2. RowOK(w, t2[id])
  BY <1>1 DEF RowOK, Reworded, Open, Done
<1>3. \A x \in DOMAIN t : /\ t2[x].status \in Done <=> t[x].status \in Done
                          /\ t2[x].status \in Done => t2[x] = t[x]
                          /\ t2[x].undo_of = t[x].undo_of
  BY DEF Reworded, Open, Done
<1>4. \A x \in DOMAIN t2 : RowOK(w, t2[x])
  BY <1>2 DEF TableOK
<1>5. \A x \in DOMAIN t2 : WroteOnce(w, t2[x], x)
  BY <1>3 DEF TableOK, WroteOnce
<1>6. ASSUME NEW x \in DOMAIN t2
      PROVE  UndoOK(w, t2, x)
  <2>1. CASE t2[x].undo_of = 0
    BY <2>1 DEF UndoOK
  <2>2. CASE t2[x].undo_of # 0
    <3> DEFINE o == t[x].undo_of
    <3>1. o \in DOMAIN t /\ Inverts(w, t[x], t[o]) /\ t2[x].undo_of = o
      BY <2>2, <1>3 DEF TableOK, UndoOK
    <3>2. t2[o] = t[o]
      BY <3>1, <1>3 DEF Inverts
    <3>3. CASE x = id
      BY <3>1, <3>2, <3>3, <1>1 DEF UndoOK, Inverts, Reworded
    <3>4. CASE x # id
      BY <3>1, <3>2, <3>4 DEF UndoOK
    <3> QED
      BY <3>3, <3>4
  <2> QED
    BY <2>1, <2>2
<1>7. ASSUME NEW x \in DOMAIN t2
      PROVE  OneUndo(t2, x)
  <2>1. UndosOf(t2, x) = UndosOf(t, x)
    <3>1. \A u \in DOMAIN t : t2[u].status = "approved" <=> t[u].status = "approved"
      BY <1>3 DEF Done
    <3> QED
      BY <3>1, <1>3 DEF UndosOf
  <2>2. t2[x].status = "superseded" <=> t[x].status = "superseded"
    BY <1>3 DEF Done
  <2> QED
    BY <2>1, <2>2 DEF TableOK, OneUndo
<1> QED
  BY <1>4, <1>5, <1>6, <1>7 DEF TableOK

-----------------------------------------------------------------------------
(* Every step *)

LEMMA CaptureOK ==
  ASSUME IInv, NEW target \in Keys \cup {Log}
  PROVE  /\ Capture(target) \in Operation /\ Capture(target) # Nothing
         /\ Capture(target).supersedes = 0 /\ Capture(target).target = target
<1>1. target # Log => current[target] \in Nat
  BY DEF IInv, TypeOK
<1>2. Capture(target) \in Operation
  BY <1>1 DEF Capture, Operation
<1> QED
  BY <1>2 DEF Capture

\* A step that changes rows of the table and nothing else.
LEMMA RowsStep ==
  ASSUME IInv, UNCHANGED <<now, nextProposal, current, logs, writes, nextRev>>,
         DOMAIN proposals' = Ids, TableOK(writes, proposals')
  PROVE  IInv'
<1>1. \A id \in DOMAIN proposals' : proposals'[id] \in Proposal
  BY DEF TableOK, RowOK
<1>2. Ids' = Ids
  BY DEF Ids
<1>3. TypeOK'
  BY <1>1, <1>2 DEF IInv, TypeOK, Ids
<1> QED
  BY <1>2, <1>3 DEF IInv

\* A step that adds a proposal to the table.
LEMMA NewRowStep ==
  ASSUME IInv, UNCHANGED <<now, current, logs, writes, nextRev>>,
         nextProposal' = nextProposal + 1,
         NEW t, DOMAIN t = Ids, TableOK(writes, t),
         NEW op \in Operation, NEW refs \in SUBSET Nat, NEW original \in Nat,
         proposals' = With(t, nextProposal, Created(op, refs, original)),
         original # 0 => original \in Ids /\ Inverts(writes, Created(op, refs, original), t[original])
  PROVE  IInv'
<1> DEFINE row == Created(op, refs, original)
<1>1. /\ row \in Proposal /\ row.status = "pending" /\ row.undo_of = original
      /\ row.applied = 0 /\ row.current_operation = op /\ row.basis = op.expected
  BY DEF Created, Proposal, Statuses, Open, IInv, TypeOK, Operation
<1>2. RowOK(writes, row)
  BY <1>1 DEF RowOK, Open, Done
<1>3. nextProposal \notin Ids /\ nextProposal # 0 /\ 0 \notin Ids
  BY DEF IInv, TypeOK
<1> HIDE DEF row
<1>4. TableOK(writes, proposals')
  <2>1. WritesOK(writes, DOMAIN t)
    BY DEF IInv
  <2>2. row.undo_of # 0 => row.undo_of \in DOMAIN t /\ Inverts(writes, row, t[row.undo_of])
    BY <1>1 DEF row
  <2>3. TableOK(writes, With(t, nextProposal, row))
    BY <2>1, <2>2, <1>1, <1>2, <1>3, NewRow
  <2> QED
    BY <2>3 DEF row
<1>5. DOMAIN proposals' = Ids \cup {nextProposal}
  BY DEF With
<1>6. Ids' = 1 .. nextProposal' - 1
  BY <1>5 DEF IInv, TypeOK, Ids
<1>7. \A id \in DOMAIN proposals' : proposals'[id] \in Proposal
  BY <1>4 DEF TableOK, RowOK
<1>8. TypeOK'
  BY <1>6, <1>7 DEF IInv, TypeOK, Ids
<1>9. WritesOK(writes', Ids')
  BY <1>5 DEF IInv, WritesOK, Ids
<1> QED
  BY <1>4, <1>8, <1>9 DEF IInv

LEMMA EditKeeps ==
  ASSUME IInv, NEW id \in Ids, NEW target \in Keys \cup {Log}, Edit(id, target)
  PROVE  IInv'
<1>1. PICK t : t = Pruned(proposals)
  OBVIOUS
<1>2. DOMAIN t = Ids /\ TableOK(writes, t)
  BY <1>1, PrunedTable
<1> DEFINE op == Capture(target)
<1>3. /\ t[id].status \in Open
      /\ proposals' = [t EXCEPT ![id].status = "edited", ![id].edited = TRUE,
                                ![id].current_operation = op, ![id].basis = op.expected]
  BY <1>1 DEF Edit
<1>4. op \in Operation /\ op # Nothing /\ op.expected \in Nat
  BY CaptureOK DEF Operation
<1> HIDE DEF op
<1>5. t[id] \in Proposal
  BY <1>2 DEF TableOK, RowOK
<1>6. DOMAIN proposals' = Ids /\ \A x \in Ids : x # id => proposals'[x] = t[x]
  BY <1>2, <1>3
<1>7. Reworded(t[id], proposals'[id])
  BY <1>2, <1>3, <1>4, <1>5 DEF Reworded, Proposal, Statuses, Open
<1>8. TableOK(writes, proposals')
  <2>1. PICK t2 : t2 = proposals'
    OBVIOUS
  <2>2. /\ id \in DOMAIN t /\ DOMAIN t2 = DOMAIN t /\ Reworded(t[id], t2[id])
        /\ \A x \in DOMAIN t : x # id => t2[x] = t[x]
    BY <2>1, <1>2, <1>6, <1>7
  <2>3. TableOK(writes, t2)
    BY <2>2, <1>2, <1>3, RewordedTable
  <2> QED
    BY <2>1, <2>3
<1> QED
  BY <1>6, <1>8, RowsStep DEF Edit

LEMMA CloseKeeps ==
  ASSUME IInv, NEW id \in Ids, ApproveFails(id) \/ Decline(id)
  PROVE  IInv'
<1>1. PICK t : t = Pruned(proposals)
  OBVIOUS
<1>2. DOMAIN t = Ids /\ TableOK(writes, t)
  BY <1>1, PrunedTable
<1>3. PICK s \in {"failed", "declined"} :
        /\ t[id].status \in Open
        /\ proposals' = [t EXCEPT ![id].status = s, ![id].terminal_at = now]
  BY <1>1 DEF ApproveFails, WouldWrite, Decline
<1>4. \A x \in Ids : t[x] \in Proposal
  BY <1>2 DEF TableOK, RowOK
<1>5. DOMAIN proposals' = Ids /\ \A x \in Ids : x # id => proposals'[x] = t[x]
  BY <1>2, <1>3
<1>6. Settles(t[id], proposals'[id])
  <2>1. proposals'[id] = [t[id] EXCEPT !.status = s, !.terminal_at = now]
    BY <1>2, <1>3
  <2>2. t[id] \in Proposal /\ now \in Nat
    BY <1>4 DEF IInv, TypeOK
  <2>3. s \in Statuses /\ s \notin Open \cup Done
    BY DEF Statuses, Open, Done
  <2>4. proposals'[id] \in Proposal
    BY <2>1, <2>2, <2>3 DEF Proposal
  <2> QED
    BY <2>1, <2>2, <2>3, <2>4, <1>3 DEF Settles, Proposal
<1>7. \A x \in Ids : Settles(t[x], proposals'[x])
  BY <1>4, <1>5, <1>6 DEF Settles
<1>8. TableOK(writes, proposals')
  BY <1>2, <1>5, <1>7, SettledTable
<1> QED
  BY <1>5, <1>8, RowsStep DEF ApproveFails, Decline

LEMMA ExtractKeeps ==
  ASSUME IInv, NEW target \in Keys \cup {Log}, NEW refs \in SUBSET CurrentRevs,
         Extract(target, refs)
  PROVE  IInv'
<1>1. refs \in SUBSET Nat
  BY DEF CurrentRevs, IInv, TypeOK
<1>2. Capture(target) \in Operation
  BY CaptureOK
<1>3. TableOK(writes, proposals) /\ DOMAIN proposals = Ids
  BY DEF IInv, Ids
<1> QED
  BY <1>1, <1>2, <1>3, NewRowStep DEF Extract

LEMMA PrepareUndoKeeps ==
  ASSUME IInv, NEW id \in Ids, PrepareUndo(id)
  PROVE  IInv'
<1>1. PICK t : t = Pruned(proposals)
  OBVIOUS
<1>2. DOMAIN t = Ids /\ TableOK(writes, t)
  BY <1>1, PrunedTable
<1> DEFINE p == t[id]
           done == p.current_operation
           source == IF done.target = Log THEN p.applied ELSE Target(done)
<1>3. /\ Undoable(p)
      /\ proposals' = With(t, nextProposal, Created(Inverse(p), {source}, id))
  BY <1>1 DEF PrepareUndo
<1>4. RowOK(writes, p) /\ p \in Proposal /\ done \in Operation
  BY <1>2, <1>3 DEF TableOK, RowOK, Undoable, Proposal
<1>5. p.status \in Done /\ p.undo_of = 0 /\ p.applied \in DOMAIN writes /\ p.applied # 0
  BY <1>3, <1>4 DEF RowOK, Undoable, Done
<1>6. DOMAIN writes \subseteq Nat /\ WritesOK(writes, Ids) /\ id \in Nat /\ id # 0
  BY DEF IInv, TypeOK
<1>7. source \in Nat
  BY <1>4, <1>5, <1>6 DEF Target, IInv, TypeOK, Operation
<1>8. EntryOf(p.applied) \in Nat
  BY <1>5, <1>6 DEF EntryOf, WritesOK, Write
<1>9. Inverse(p) \in Operation
  BY <1>4, <1>8 DEF Inverse, Operation, Proposal
<1>10. /\ done # Nothing /\ writes[p.applied].target = done.target
       /\ p.prior = TextIn(writes, writes[p.applied].over)
  BY <1>3, <1>4, <1>5 DEF RowOK, Undoable
<1>11. done.target # Log => p.prior # 0
  BY <1>3 DEF Undoable
<1> DEFINE row == Created(Inverse(p), {source}, id)
<1>12. /\ row.current_operation = Inverse(p) /\ row.status = "pending"
       /\ row.applied = 0
  BY DEF Created
<1>13. Inverts(writes, row, p)
  BY <1>5, <1>10, <1>11, <1>12 DEF Inverts, Inverse
<1> QED
  BY <1>2, <1>3, <1>6, <1>7, <1>9, <1>13, NewRowStep DEF PrepareUndo

LEMMA ApproveKeepsAll ==
  ASSUME IInv, NEW id \in Ids, Approve(id)
  PROVE  IInv'
<1>1. WritesOK(writes', Ids) /\ TableOK(writes', proposals')
  BY ApproveKeeps
<1>2. DOMAIN proposals' = Ids
  BY ApprovedTable
<1>3. PICK op \in Operation : /\ Store(id, op, op.supersedes # 0)
                              /\ op.target = Log => op.supersedes \in {0} \cup logs
  <2>1. PICK t : t = Pruned(proposals) /\ t[id].current_operation \in Operation
    BY ApprovedTable
  <2>2. /\ Store(id, t[id].current_operation, t[id].current_operation.supersedes # 0)
        /\ TargetUnchanged(t[id].current_operation)
    BY <2>1 DEF Approve, WouldWrite
  <2> QED
    BY <2>1, <2>2 DEF TargetUnchanged
<1>4. /\ nextRev' \in Nat \ {0} /\ DOMAIN writes' = 1 .. nextRev' - 1
      /\ current' \in [Keys -> {0} \cup DOMAIN writes']
      /\ logs' \subseteq DOMAIN writes'
  BY <1>3, StoreWrites
<1>5. UNCHANGED <<now, nextProposal>>
  BY DEF Approve
<1>6. \A x \in DOMAIN proposals' : proposals'[x] \in Proposal
  BY <1>1 DEF TableOK, RowOK
<1>7. \A rev \in DOMAIN writes' : writes'[rev] \in Write
  BY <1>1 DEF WritesOK
<1>8. TypeOK'
  BY <1>2, <1>4, <1>5, <1>6, <1>7 DEF IInv, TypeOK, Ids
<1> QED
  BY <1>1, <1>2, <1>8 DEF IInv, Ids

LEMMA MemoryWriteKeeps ==
  ASSUME IInv, NEW k \in Keys, NEW newRow \in BOOLEAN, MemoryWrite(k, newRow)
  PROVE  IInv'
<1> DEFINE op == Capture(k)
<1>1. op \in Operation /\ op.supersedes = 0
  BY CaptureOK
<1>2. Store(0, op, newRow) /\ UNCHANGED <<now, proposals, nextProposal>>
  BY DEF MemoryWrite
<1> HIDE DEF op
<1>3. /\ Grows(writes, writes', nextRev)
      /\ writes'[nextRev] = NewWrite(0, op, newRow)
      /\ WritesOK(writes', Ids)
      /\ nextRev' \in Nat \ {0} /\ DOMAIN writes' = 1 .. nextRev' - 1
      /\ current' \in [Keys -> {0} \cup DOMAIN writes']
      /\ logs' \subseteq DOMAIN writes'
  BY <1>1, <1>2, StoreWrites DEF Grows
<1>4. writes'[nextRev].by = 0
  BY <1>3 DEF NewWrite
<1>5. TableOK(writes', proposals)
  <2>1. WritesOK(writes, Ids) /\ TableOK(writes, proposals) /\ 0 \notin DOMAIN proposals
    BY DEF IInv, TypeOK, Ids
  <2> QED
    BY <2>1, <1>3, <1>4, OtherWrite
<1>6. TypeOK'
  BY <1>2, <1>3 DEF IInv, TypeOK, WritesOK, Ids
<1> QED
  BY <1>2, <1>3, <1>5, <1>6 DEF IInv, Ids

LEMMA InitOK == Init => IInv
<1> SUFFICES ASSUME Init PROVE IInv
  OBVIOUS
<1>1. DOMAIN proposals = {} /\ DOMAIN writes = {1}
      /\ writes[1] = [by |-> 0, target |-> First, text |-> 1, entry |-> 1, over |-> 0]
  BY DEF Init
<1>2. TypeOK
  BY <1>1 DEF Init, TypeOK, Ids, Write
<1>3. WritesOK(writes, Ids)
  BY <1>1 DEF WritesOK, Write, Ids
<1>4. TableOK(writes, proposals)
  BY <1>1 DEF TableOK
<1> QED
  BY <1>2, <1>3, <1>4 DEF IInv

LEMMA StepKeeps == IInv /\ [Next]_vars => IInv'
<1> SUFFICES ASSUME IInv, [Next]_vars PROVE IInv'
  OBVIOUS
<1>1. CASE \E t \in Keys \cup {Log}, refs \in SUBSET CurrentRevs : Extract(t, refs)
  BY <1>1, ExtractKeeps
<1>2. CASE \E id \in Ids, t \in Keys \cup {Log} : Edit(id, t)
  BY <1>2, EditKeeps
<1>3. CASE \E id \in Ids : Approve(id)
  BY <1>3, ApproveKeepsAll
<1>4. CASE \E id \in Ids : ApproveFails(id)
  BY <1>4, CloseKeeps
<1>5. CASE \E id \in Ids : Decline(id)
  BY <1>5, CloseKeeps
<1>6. CASE \E id \in Ids : PrepareUndo(id)
  BY <1>6, PrepareUndoKeeps
<1>7. CASE Prune
  BY <1>7, PrunedTable, RowsStep DEF Prune
<1>8. CASE \E k \in Keys, newRow \in BOOLEAN : MemoryWrite(k, newRow)
  BY <1>8, MemoryWriteKeeps
<1>9. CASE \E k \in Keys : MemoryDelete(k)
  <2>1. PICK k \in Keys : MemoryDelete(k)
    BY <1>9
  <2>2. TypeOK'
    BY <2>1 DEF MemoryDelete, IInv, TypeOK, Ids
  <2> QED
    BY <2>1, <2>2 DEF MemoryDelete, IInv, Ids
<1>10. CASE \E rev \in logs : LogGone(rev)
  <2>1. PICK rev \in logs : LogGone(rev)
    BY <1>10
  <2>2. TypeOK'
    BY <2>1 DEF LogGone, IInv, TypeOK, Ids
  <2> QED
    BY <2>1, <2>2 DEF LogGone, IInv, Ids
<1>11. CASE Tick
  <2>1. TypeOK'
    BY <1>11 DEF Tick, IInv, TypeOK, Ids
  <2> QED
    BY <1>11, <2>1 DEF Tick, IInv, Ids
<1>12. CASE UNCHANGED vars
  <2>1. TypeOK'
    BY <1>12 DEF vars, IInv, TypeOK, Ids
  <2> QED
    BY <1>12, <2>1 DEF vars, IInv, Ids
<1> QED
  BY <1>1, <1>2, <1>3, <1>4, <1>5, <1>6, <1>7, <1>8, <1>9, <1>10, <1>11, <1>12 DEF Next

LEMMA Invariance == Spec => []IInv
<1> QED
  BY InitOK, StepKeeps, PTL DEF Spec

-----------------------------------------------------------------------------
(* Theorems *)

\* Proposals and the history of writes keep their shape: ids and revisions are
\* numbered without gaps, every current entry and log entry is a write made.
THEOREM TypeCorrect == Spec => []TypeOK
<1>1. IInv => TypeOK
  BY DEF IInv
<1> QED
  BY <1>1, Invariance, PTL

\* However a proposal is edited, approved again, expired or purged, it wrote
\* memory once if it ended approved and never otherwise, for any number of
\* proposals and any retention policy.
THEOREM AppliedOnceAlways == Spec => []AppliedOnce
<1>1. IInv => AppliedOnce
  BY DEF IInv, TableOK, WroteOnce, WritesOf, Done, AppliedOnce, Ids
<1> QED
  BY <1>1, Invariance, PTL

\* An approval never replaces a revision its proposal was not worded against,
\* whatever others wrote while it waited.
THEOREM ReplacesWhatWasReviewedAlways == Spec => []ReplacesWhatWasReviewed
<1>1. IInv => ReplacesWhatWasReviewed
  BY DEF IInv, TableOK, RowOK, ReplacesWhatWasReviewed, Ids
<1> QED
  BY <1>1, Invariance, PTL

\* Of all undos of a proposal at most one is ever approved, and it leaves the
\* original superseded.
THEOREM SupersededByOneUndoAlways == Spec => []SupersededByOneUndo
<1>1. IInv => SupersededByOneUndo
  BY DEF IInv, TableOK, OneUndo, UndosOf, SupersededByOneUndo, Ids
<1> QED
  BY <1>1, Invariance, PTL

\* An undo approved unedited lands on the write it undoes and puts the text
\* that write replaced back.
THEOREM UndoRestoresAlways == Spec => []UndoRestores
<1>1. ASSUME IInv PROVE UndoRestores
  <2> SUFFICES ASSUME NEW u \in Ids, proposals[u].undo_of # 0,
                      proposals[u].applied # 0, ~proposals[u].edited
               PROVE  LET done == proposals[proposals[u].undo_of].applied
                      IN  /\ writes[proposals[u].applied].over = done
                          /\ writes[done].target # Log =>
                               writes[proposals[u].applied].text = TextOf(writes[done].over)
    BY DEF UndoRestores
  <2>1. Inverts(writes, proposals[u], proposals[proposals[u].undo_of])
    BY <1>1 DEF IInv, TableOK, UndoOK, Ids
  <2> QED
    BY <2>1 DEF Inverts, TextIn, TextOf
<1> QED
  BY <1>1, Invariance, PTL

\* What DecidedOnce asks of a row p that becomes q.
Decides(p, q) ==
  p.status \notin Open =>
    /\ q.applied = p.applied
    /\ q.status = p.status \/ (p.status = "approved" /\ q.status = "superseded")

LEMMA Decided == IInv /\ [Next]_vars => \A id \in Ids : Decides(proposals[id], proposals'[id])
<1> SUFFICES ASSUME IInv, [Next]_vars, NEW id \in Ids
             PROVE  Decides(proposals[id], proposals'[id])
  OBVIOUS
<1>1. PICK t : t = Pruned(proposals)
  OBVIOUS
<1>2. DOMAIN t = Ids /\ \A x \in Ids : Settles(proposals[x], t[x])
  BY <1>1, PrunedTable
<1>3. \A x \in Ids : t[x].status \in Open => proposals[x].status \in Open
  BY <1>2 DEF Settles
<1>4. ASSUME Decides(t[id], proposals'[id])
      PROVE  Decides(proposals[id], proposals'[id])
  BY <1>2, <1>4 DEF Decides, Settles
<1>5. ASSUME NEW target \in Keys \cup {Log}, NEW refs, Extract(target, refs)
      PROVE  proposals'[id] = proposals[id]
  BY <1>5 DEF Extract, With, Ids, IInv, TypeOK
<1>6. ASSUME NEW x \in Ids, NEW target \in Keys \cup {Log}, Edit(x, target)
      PROVE  Decides(t[id], proposals'[id])
  <2>1. t[x].status \in Open /\ (id # x => proposals'[id] = t[id])
    BY <1>1, <1>2, <1>6 DEF Edit
  <2> QED
    BY <2>1 DEF Decides
<1>7. ASSUME NEW x \in Ids, Approve(x)
      PROVE  Decides(t[id], proposals'[id])
  <2>1. PICK t2 : /\ t2 = proposals' /\ t[x].status \in Open
                  /\ t[x].undo_of # 0 => /\ t[t[x].undo_of].status = "approved"
                                         /\ t2[t[x].undo_of] = Superseded(t[t[x].undo_of])
                  /\ \A y \in Ids : y # x /\ y # t[x].undo_of => t2[y] = t[y]
    BY <1>1, <1>7, ApprovedTable
  <2>2. CASE id = x
    BY <2>1, <2>2 DEF Decides
  <2>3. CASE id = t[x].undo_of /\ id # x
    <3>1. id # 0 /\ t[id] \in Proposal
      BY <1>2 DEF IInv, TypeOK, Settles
    <3> QED
      BY <2>1, <2>3, <3>1 DEF Decides, Superseded, Proposal
  <2>4. CASE id # x /\ id # t[x].undo_of
    BY <2>1, <2>4 DEF Decides
  <2> QED
    BY <2>1, <2>2, <2>3, <2>4
<1>8. ASSUME NEW x \in Ids, ApproveFails(x) \/ Decline(x)
      PROVE  Decides(t[id], proposals'[id])
  <2>1. t[x].status \in Open /\ (id # x => proposals'[id] = t[id])
    BY <1>1, <1>2, <1>8 DEF ApproveFails, Decline, WouldWrite
  <2> QED
    BY <2>1 DEF Decides
<1>9. ASSUME NEW x \in Ids, PrepareUndo(x)
      PROVE  proposals'[id] = t[id]
  BY <1>1, <1>2, <1>9 DEF PrepareUndo, With, IInv, TypeOK
<1>10. ASSUME Prune
       PROVE  proposals'[id] = t[id]
  BY <1>1, <1>10 DEF Prune
<1>11. ASSUME \/ \E k \in Keys, newRow \in BOOLEAN : MemoryWrite(k, newRow)
              \/ \E k \in Keys : MemoryDelete(k)
              \/ \E rev \in logs : LogGone(rev)
              \/ Tick
              \/ UNCHANGED vars
       PROVE  proposals' = proposals
  BY <1>11 DEF MemoryWrite, MemoryDelete, LogGone, Tick, vars
<1>12. ASSUME proposals'[id] \in {t[id], proposals[id]}
       PROVE  Decides(proposals[id], proposals'[id])
  BY <1>4, <1>12 DEF Decides
<1> QED
  BY <1>4, <1>5, <1>6, <1>7, <1>8, <1>9, <1>10, <1>11, <1>12 DEF Next

\* A decision is final: a closed proposal keeps its status and the write it
\* made, but for an approved one whose undo is approved.
THEOREM DecidedOnceAlways == Spec => DecidedOnce
<1>1. IInv /\ [Next]_vars =>
        [\A id \in Ids : proposals[id].status \notin Open =>
           /\ proposals'[id].applied = proposals[id].applied
           /\ \/ proposals'[id].status = proposals[id].status
              \/ proposals[id].status = "approved" /\ proposals'[id].status = "superseded"]_vars
  BY Decided DEF Decides
<1> QED
  BY <1>1, Invariance, PTL DEF Spec, DecidedOnce

LEMMA WithheldIsPurged ==
  ASSUME NEW p \in Proposal, PurgedOrDue(p)
  PROVE  Purged(Expired(p)).purged
<1>1. CASE RetentionOver(EffectiveStatus(p), IF p.status \in Open THEN p.expires_at
                                                                ELSE p.terminal_at)
  <2>1. EffectiveStatus(p) = p.status => p.status \notin Open
    BY <1>1 DEF RetentionOver
  <2>2. EffectiveStatus(p) # p.status => p.status \in Open
    BY DEF EffectiveStatus
  <2>3. /\ Expired(p).status = EffectiveStatus(p)
        /\ Expired(p).terminal_at = IF p.status \in Open THEN p.expires_at ELSE p.terminal_at
        /\ Expired(p) \in Proposal
    BY <2>1, <2>2 DEF Expired, EffectiveStatus, Proposal, Statuses, Open
  <2> QED
    BY <1>1, <2>3 DEF Purged, Tombstone, Proposal
<1>2. CASE p.purged
  <2>1. Expired(p).purged /\ Expired(p) \in Proposal
    BY <1>2 DEF Expired, EffectiveStatus, Proposal, Statuses, Open
  <2> QED
    BY <2>1 DEF Purged, Tombstone, Proposal
<1> QED
  BY <1>1, <1>2 DEF PurgedOrDue

LEMMA Withheld ==
  IInv /\ [Next]_vars => \A id \in Ids : PurgedOrDue(proposals[id]) => PurgedOrDue(proposals[id])'
<1> SUFFICES ASSUME IInv, [Next]_vars, NEW id \in Ids, PurgedOrDue(proposals[id])
             PROVE  PurgedOrDue(proposals[id])'
  OBVIOUS
<1>1. PICK t : t = Pruned(proposals)
  OBVIOUS
<1>2. DOMAIN t = Ids /\ \A x \in Ids : t[x] \in Proposal
  BY <1>1, PrunedTable DEF TableOK, RowOK
<1>3. t[id].purged
  BY <1>1, WithheldIsPurged DEF Pruned, Ids, IInv, TypeOK
<1>4. ASSUME proposals'[id].purged
      PROVE  PurgedOrDue(proposals[id])'
  BY <1>4 DEF PurgedOrDue
<1>5. ASSUME proposals'[id] = proposals[id], now' = now \/ now' = now + 1
      PROVE  PurgedOrDue(proposals[id])'
  <2>1. /\ now \in Nat /\ proposals[id] \in Proposal
        /\ \A s : Retention(s) \in Nat
    BY DEF IInv, TypeOK, Retention
  <2>2. proposals[id].expires_at \in Nat /\ proposals[id].terminal_at \in Nat
    BY <2>1 DEF Proposal
  <2>3. CASE proposals[id].purged
    BY <1>5, <2>3, <1>4
  <2>4. CASE proposals[id].status \notin Open
    BY <1>5, <2>1, <2>2, <2>4 DEF PurgedOrDue, RetentionOver, EffectiveStatus, Retention
  <2>5. CASE proposals[id].status \in Open /\ proposals[id].expires_at <= now
    BY <1>5, <2>1, <2>2, <2>5 DEF PurgedOrDue, RetentionOver, EffectiveStatus, Retention, Open
  <2>6. CASE proposals[id].status \in Open /\ ~(proposals[id].expires_at <= now)
    BY <1>5, <2>6, <1>4 DEF PurgedOrDue, RetentionOver, EffectiveStatus
  <2> QED
    BY <2>3, <2>4, <2>5, <2>6
<1>6. ASSUME NEW target \in Keys \cup {Log}, NEW refs, Extract(target, refs)
      PROVE  PurgedOrDue(proposals[id])'
  BY <1>5, <1>6 DEF Extract, With, Ids, IInv, TypeOK
<1>7. ASSUME NEW x \in Ids, NEW target \in Keys \cup {Log}, Edit(x, target)
      PROVE  proposals'[id].purged
  BY <1>1, <1>2, <1>3, <1>7 DEF Edit, Proposal
<1>8. ASSUME NEW x \in Ids, Approve(x)
      PROVE  proposals'[id].purged
  <2>1. PICK t2 : /\ t2 = proposals' /\ t2[x] = Approved(t[x])
                  /\ t[x].undo_of # 0 => t2[t[x].undo_of] = Superseded(t[t[x].undo_of])
                  /\ \A y \in Ids : y # x /\ y # t[x].undo_of => t2[y] = t[y]
    BY <1>1, <1>8, ApprovedTable
  <2>2. id # 0
    BY DEF IInv, TypeOK
  <2>3. Approved(t[id]).purged /\ Superseded(t[id]).purged
    BY <1>2, <1>3 DEF Approved, Superseded, Proposal
  <2> QED
    BY <2>1, <2>2, <2>3, <1>3
<1>9. ASSUME NEW x \in Ids, ApproveFails(x) \/ Decline(x)
      PROVE  proposals'[id].purged
  BY <1>1, <1>2, <1>3, <1>9 DEF ApproveFails, Decline, Proposal
<1>10. ASSUME NEW x \in Ids, PrepareUndo(x)
       PROVE  proposals'[id].purged
  BY <1>1, <1>2, <1>3, <1>10 DEF PrepareUndo, With, IInv, TypeOK
<1>11. ASSUME Prune
       PROVE  proposals'[id].purged
  BY <1>1, <1>3, <1>11 DEF Prune
<1>12. ASSUME \/ \E k \in Keys, newRow \in BOOLEAN : MemoryWrite(k, newRow)
              \/ \E k \in Keys : MemoryDelete(k)
              \/ \E rev \in logs : LogGone(rev)
              \/ Tick
              \/ UNCHANGED vars
       PROVE  proposals' = proposals /\ (now' = now \/ now' = now + 1)
  BY <1>12 DEF MemoryWrite, MemoryDelete, LogGone, Tick, vars
<1> QED
  BY <1>4, <1>5, <1>6, <1>7, <1>8, <1>9, <1>10, <1>11, <1>12 DEF Next

\* A payload withheld once stays withheld: the prune that opens a call purges
\* what preview no longer showed before the call changes a status or a date.
THEOREM WithheldStaysWithheldAlways == Spec => WithheldStaysWithheld
<1>1. IInv /\ [Next]_vars =>
        [\A id \in Ids : PurgedOrDue(proposals[id]) => PurgedOrDue(proposals[id])']_vars
  BY Withheld
<1> QED
  BY <1>1, Invariance, PTL DEF Spec, WithheldStaysWithheld

=============================================================================
