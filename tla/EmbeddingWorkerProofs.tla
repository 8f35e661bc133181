------------------------ MODULE EmbeddingWorkerProofs ------------------------
(***************************************************************************)
(* Theorems about EmbeddingWorker, for any number of workers, models, keys *)
(* and rows.  Between the claim of a row and the storing of its vector the *)
(* only link is the claim's copy of updated_at.  Dated says why that copy  *)
(* is enough: a row is never older than a claim on it, and while it has the*)
(* claim's updated_at it has the claim's content.  Labelled is what storing*)
(* keeps: a row that names a model has that model's vector of its content. *)
(***************************************************************************)
EXTENDS EmbeddingWorker, TLAPS

USE EmbeddingWorkerAssumption

-----------------------------------------------------------------------------
(* Types *)

LEMMA ClaimedType ==
  ASSUME TypeOK, NEW i \in DOMAIN rows
  PROVE  Claimed(i) \in Claim
BY DEF TypeOK, Claimed, Claim, Row, Ids

LEMMA NewRowType ==
  ASSUME NEW k \in Keys, NEW content \in Contents
  PROVE  NewRow(k, content) \in Row
BY DEF NewRow, Row, Statuses

LEMMA RewrittenType ==
  ASSUME NEW row \in Row, NEW content \in Contents
  PROVE  Rewritten(row, content) \in Row
<1>1. row.updated_at + 1 \in Nat
  BY DEF Row
<1>2. "pending" \in Statuses
  BY DEF Statuses
<1> QED
  BY <1>1, <1>2 DEF Rewritten, Row

LEMMA WithRowType ==
  ASSUME TypeOK, nextId <= MaxEntries, NEW row \in Row,
         NEW table, DOMAIN table = DOMAIN rows, table \in [DOMAIN rows -> Row]
  PROVE  /\ nextId + 1 \in 1 .. MaxEntries + 1
         /\ DOMAIN WithRow(table, row) \subseteq 1 .. (nextId + 1) - 1
         /\ WithRow(table, row) \in [DOMAIN WithRow(table, row) -> Row]
BY DEF TypeOK, WithRow

LEMMA WithStatusType ==
  ASSUME TypeOK, NEW ids, NEW status \in Statuses
  PROVE  /\ DOMAIN WithStatus(ids, status) = DOMAIN rows
         /\ WithStatus(ids, status) \in [DOMAIN rows -> Row]
BY DEF TypeOK, WithStatus, Row

LEMMA VectorsWithoutType ==
  ASSUME TypeOK, NEW ids
  PROVE  /\ DOMAIN VectorsWithout(ids) \subseteq Ids
         /\ VectorsWithout(ids) \in [DOMAIN VectorsWithout(ids) -> Vector]
BY DEF TypeOK, VectorsWithout

LEMMA NoBatchType == NoBatch \in Batch
BY DEF NoBatch, Batch

\* What an action of the entries needs of the parts it leaves alone.
LEMMA EntryStepType ==
  ASSUME TypeOK, EntryStep
  PROVE  TypeOK'
<1>1. ASSUME NEW k \in Keys, NEW content \in Contents, CreateEntry(k, content)
      PROVE  TypeOK'
  BY <1>1, NewRowType, WithRowType DEF CreateEntry, process, TypeOK
<1>2. ASSUME NEW i \in DOMAIN rows, NEW content \in Contents, RewriteEntry(i, content)
      PROVE  TypeOK'
  <2>1. Rewritten(rows[i], content) \in Row
    BY RewrittenType DEF TypeOK
  <2> QED
    BY <1>2, <2>1 DEF RewriteEntry, process, TypeOK
<1>3. ASSUME NEW i \in DOMAIN rows, NEW content \in Contents, SupersedeEntry(i, content)
      PROVE  TypeOK'
  <2> DEFINE table == [rows EXCEPT ![i].is_current = FALSE]
  <2>1. DOMAIN table = DOMAIN rows /\ table \in [DOMAIN rows -> Row]
    BY <1>3 DEF TypeOK, Row
  <2>2. NewRow(rows[i].key, content) \in Row
    BY NewRowType DEF TypeOK, Row
  <2> HIDE DEF table
  <2>3. /\ nextId' \in 1 .. MaxEntries + 1
        /\ DOMAIN rows' \subseteq 1 .. nextId' - 1
        /\ rows' \in [DOMAIN rows' -> Row]
    BY <1>3, <2>1, <2>2, WithRowType DEF SupersedeEntry, table
  <2>4. DOMAIN vectors' \subseteq Ids /\ vectors' \in [DOMAIN vectors' -> Vector]
    BY <1>3, VectorsWithoutType DEF SupersedeEntry
  <2> QED
    BY <1>3, <2>3, <2>4 DEF SupersedeEntry, process, TypeOK
<1>4. ASSUME NEW k \in Keys, DeleteKey(k)
      PROVE  TypeOK'
  <2>1. DOMAIN vectors' \subseteq Ids /\ vectors' \in [DOMAIN vectors' -> Vector]
    BY <1>4, VectorsWithoutType DEF DeleteKey
  <2> QED
    BY <1>4, <2>1 DEF DeleteKey, process, TypeOK
<1> QED
  BY <1>1, <1>2, <1>3, <1>4 DEF EntryStep

LEMMA FinishType ==
  ASSUME TypeOK, NEW w \in Workers, NEW c, Finish(w, c)
  PROVE  batch' \in [Workers -> Batch]
<1>1. batch[w] \in Batch
  BY DEF TypeOK
<1>2. BatchWithout(batch[w], c) \in Batch
  BY <1>1, NoBatchType DEF Batch, BatchWithout
<1> QED
  BY <1>2 DEF TypeOK, Finish

LEMMA CountFailureType ==
  ASSUME TypeOK, NEW w \in Workers, CountFailure(w)
  PROVE  failures' \in [Workers -> Nat] /\ tripped' \in [Workers -> BOOLEAN]
BY DEF TypeOK, CountFailure

LEMMA WorkerStepType ==
  ASSUME TypeOK, NEW w \in Workers, WorkerStep(w),
         batch[w].awaiting # {} => identity[w] \in Identities
  PROVE  TypeOK'
<1>1. CASE ClaimBatch(w)
  <2> DEFINE ids == Oldest(Claimable(w))
             claims == {Claimed(i) : i \in ids}
  <2>1. ids \subseteq DOMAIN rows
    BY DEF Oldest, Claimable
  <2>2. claims \subseteq Claim
    BY <2>1, ClaimedType
  <2>3. rows' = WithStatus(ids, "processing")
    BY <1>1 DEF ClaimBatch
  <2>4. batch' = [batch EXCEPT ![w] = [claimed |-> claims, todo |-> claims, awaiting |-> {}]]
    BY <1>1 DEF ClaimBatch
  <2> HIDE DEF ids, claims
  <2>5. DOMAIN rows' = DOMAIN rows /\ rows' \in [DOMAIN rows -> Row]
    BY <2>3, WithStatusType DEF Statuses
  <2>6. batch' \in [Workers -> Batch]
    BY <2>2, <2>4 DEF TypeOK, Batch
  <2> QED
    BY <1>1, <2>5, <2>6 DEF ClaimBatch, process, TypeOK
<1>2. CASE RequeueClaimed(w)
  <2>1. DOMAIN rows' = DOMAIN rows /\ rows' \in [DOMAIN rows -> Row]
    BY <1>2, WithStatusType DEF RequeueClaimed, Statuses
  <2>2. batch' \in [Workers -> Batch]
    BY <1>2, NoBatchType DEF RequeueClaimed, TypeOK
  <2> QED
    BY <1>2, <2>1, <2>2 DEF RequeueClaimed, process, TypeOK
<1>3. CASE BeginEmbedding(w)
  <2>1. batch' \in [Workers -> Batch]
    BY <1>3 DEF BeginEmbedding, TypeOK, Batch
  <2> QED
    BY <1>3, <2>1 DEF BeginEmbedding, entries, process, TypeOK
<1>4. ASSUME NEW i \in Ids, EmbeddingSucceeds(w, i)
      PROVE  TypeOK'
  <2>1. PICK c \in batch[w].awaiting :
          /\ c.id = i
          /\ failures' = [failures EXCEPT ![w] = 0]
          /\ IF Storable(c)
             THEN /\ rows' = [rows EXCEPT ![i].embedding_status = "generated",
                                          ![i].embedding_identity = identity[w]]
                  /\ vectors' = [j \in DOMAIN vectors \cup {i} |->
                                   IF j = i THEN [content |-> c.content, identity |-> identity[w]]
                                   ELSE vectors[j]]
             ELSE UNCHANGED <<rows, vectors>>
          /\ Finish(w, c)
          /\ UNCHANGED <<nextId, running, identity, tripped, crashes>>
    BY <1>4 DEF EmbeddingSucceeds
  <2>2. c \in Claim /\ identity[w] \in Identities
    BY <2>1 DEF TypeOK, Batch
  <2>3. DOMAIN rows' = DOMAIN rows /\ rows' \in [DOMAIN rows -> Row]
    BY <2>1, <2>2 DEF TypeOK, Row, Statuses
  <2>4. DOMAIN vectors' \subseteq Ids /\ vectors' \in [DOMAIN vectors' -> Vector]
    BY <2>1, <2>2 DEF TypeOK, Vector, Claim
  <2>5. batch' \in [Workers -> Batch] /\ failures' \in [Workers -> Nat]
    BY <2>1, FinishType DEF TypeOK
  <2> QED
    BY <2>1, <2>3, <2>4, <2>5 DEF TypeOK
<1>5. CASE EmbeddingFails(w)
  <2>1. PICK c \in batch[w].awaiting :
          /\ CountFailure(w)
          /\ rows' = IF Unchanged(c) THEN WithStatus({c.id}, "failed") ELSE rows
          /\ Finish(w, c)
          /\ UNCHANGED <<nextId, vectors, running, identity, crashes>>
    BY <1>5 DEF EmbeddingFails
  <2>2. DOMAIN rows' = DOMAIN rows /\ rows' \in [DOMAIN rows -> Row]
    BY <2>1, WithStatusType DEF TypeOK, Statuses
  <2>3. /\ batch' \in [Workers -> Batch]
        /\ failures' \in [Workers -> Nat] /\ tripped' \in [Workers -> BOOLEAN]
    BY <2>1, FinishType, CountFailureType
  <2> QED
    BY <2>1, <2>2, <2>3 DEF TypeOK
<1> QED
  BY <1>1, <1>2, <1>3, <1>4, <1>5 DEF WorkerStep

\* StartWorker, QueryEmbeds and Exit.
LEMMA ProcessStepType ==
  ASSUME TypeOK, NEW w \in Workers, QueryEmbeds(w) \/ StartWorker(w) \/ Exit(w)
  PROVE  TypeOK'
<1>1. CASE QueryEmbeds(w)
  BY <1>1, CountFailureType DEF QueryEmbeds, entries, TypeOK
<1>2. CASE StartWorker(w)
  <2>1. DOMAIN rows' = DOMAIN rows /\ rows' \in [DOMAIN rows -> Row]
    BY <1>2, WithStatusType DEF StartWorker, Statuses
  <2> QED
    BY <1>2, <2>1 DEF StartWorker, Bindable, TypeOK
<1>3. CASE Exit(w)
  BY <1>3, NoBatchType DEF Exit, entries, TypeOK
<1> QED
  BY <1>1, <1>2, <1>3

-----------------------------------------------------------------------------
(* The inductive invariant *)

\* Only a running worker, bound to a model, has a batch; what is left of it and
\* what the extractor is at are among the rows it claimed.
BatchesOfRunning ==
  \A w \in Workers :
    /\ batch[w].awaiting \subseteq batch[w].todo
    /\ batch[w].todo \subseteq batch[w].claimed
    /\ batch[w].claimed # {} => w \in running
    /\ w \in running => identity[w] \in Identities

\* A claim is on a row that was inserted, which is not older than the claim and
\* has the claim's content for as long as it has its updated_at.
DatedBy(c) ==
  /\ c.id < nextId
  /\ c.id \in DOMAIN rows =>
       /\ c.updated_at <= rows[c.id].updated_at
       /\ c.updated_at = rows[c.id].updated_at => c.content = rows[c.id].content
Dated == \A w \in Workers : \A c \in batch[w].claimed : DatedBy(c)

\* A vector belongs to a current row; a row that names a model has the vector of
\* its own content by that model, if it has one.
Labelled ==
  \A i \in DOMAIN vectors :
    /\ IsCurrent(i)
    /\ rows[i].embedding_identity # NoIdentity =>
         vectors[i] = [content |-> rows[i].content, identity |-> rows[i].embedding_identity]

IInv == TypeOK /\ BatchesOfRunning /\ Dated /\ Labelled

LEMMA LabelledSuffices ==
  ASSUME TypeOK, Labelled
  PROVE  ServedVectorsFresh /\ NoStrayVectors
BY DEF Labelled, ServedVectorsFresh, NoStrayVectors, Served, TypeOK

\* What a step may do to the rows under a claim: forget them, or move their stamp
\* forward, or leave stamp and content alone.
RowsAdvance ==
  \A i \in DOMAIN rows' : i < nextId =>
    /\ i \in DOMAIN rows
    /\ \/ rows'[i].updated_at > rows[i].updated_at
       \/ /\ rows'[i].updated_at = rows[i].updated_at
          /\ rows'[i].content = rows[i].content

\* ... and under a vector: take away the label, or leave label and content alone.
LabelsKept ==
  \A i \in DOMAIN vectors' :
    /\ i \in DOMAIN vectors /\ vectors'[i] = vectors[i]
    /\ i \in DOMAIN rows' /\ (rows[i].is_current => rows'[i].is_current)
    /\ \/ rows'[i].embedding_identity = NoIdentity
       \/ /\ rows'[i].embedding_identity = rows[i].embedding_identity
          /\ rows'[i].content = rows[i].content

LEMMA StaysDated ==
  ASSUME TypeOK, TypeOK', Dated, RowsAdvance, nextId <= nextId',
         \A w \in Workers : batch'[w].claimed \subseteq batch[w].claimed
  PROVE  Dated'
<1> SUFFICES ASSUME NEW w \in Workers, NEW c \in batch'[w].claimed
             PROVE  DatedBy(c)'
  BY DEF Dated
<1>1. c \in batch[w].claimed /\ c \in Claim
  BY DEF TypeOK, Batch
<1>2. DatedBy(c)
  BY <1>1 DEF Dated
<1>3. c.id \in Nat /\ c.updated_at \in Nat /\ nextId \in Nat /\ nextId' \in Nat
  BY <1>1 DEF TypeOK, Claim, Ids
<1>4. \A i \in DOMAIN rows : rows[i].updated_at \in Nat
  BY DEF TypeOK, Row
<1>5. \A i \in DOMAIN rows' : rows'[i].updated_at \in Nat
  BY DEF TypeOK, Row
<1> QED
  BY <1>2, <1>3, <1>4, <1>5 DEF DatedBy, RowsAdvance

LEMMA StaysLabelled ==
  ASSUME Labelled, LabelsKept
  PROVE  Labelled'
BY DEF Labelled, LabelsKept, IsCurrent

\* A status alone changes neither stamps nor labels.
LEMMA WithStatusKeeps ==
  ASSUME TypeOK, NEW ids, NEW status, rows' = WithStatus(ids, status)
  PROVE  /\ DOMAIN rows' = DOMAIN rows
         /\ \A i \in DOMAIN rows :
              /\ rows'[i].content = rows[i].content
              /\ rows'[i].updated_at = rows[i].updated_at
              /\ rows'[i].is_current = rows[i].is_current
              /\ rows'[i].embedding_identity = rows[i].embedding_identity
BY DEF TypeOK, WithStatus, Row

LEMMA StatusStep ==
  ASSUME IInv, NEW ids, NEW status, rows' = WithStatus(ids, status), vectors' = vectors
  PROVE  RowsAdvance /\ LabelsKept
<1>1. \A i \in DOMAIN vectors : i \in DOMAIN rows
  BY DEF IInv, Labelled, IsCurrent
<1>2. RowsAdvance
  BY WithStatusKeeps DEF IInv, RowsAdvance
<1>3. LabelsKept
  BY <1>1, WithStatusKeeps DEF IInv, LabelsKept
<1> QED
  BY <1>2, <1>3

LEMMA NoBatchKeeps ==
  ASSUME TypeOK, NEW w \in Workers, batch' = [batch EXCEPT ![w] = NoBatch]
  PROVE  \A v \in Workers : /\ batch'[v].claimed \subseteq batch[v].claimed
                            /\ batch'[v] = batch[v] \/ batch'[v] = NoBatch
BY DEF TypeOK, NoBatch

LEMMA FinishKeeps ==
  ASSUME TypeOK, BatchesOfRunning, NEW w \in Workers, NEW c, Finish(w, c)
  PROVE  \A v \in Workers :
           /\ batch'[v].claimed \subseteq batch[v].claimed
           /\ batch'[v].todo \subseteq batch'[v].claimed
           /\ batch'[v].awaiting \subseteq batch'[v].todo
<1> SUFFICES ASSUME NEW v \in Workers
             PROVE  /\ batch'[v].claimed \subseteq batch[v].claimed
                    /\ batch'[v].todo \subseteq batch'[v].claimed
                    /\ batch'[v].awaiting \subseteq batch'[v].todo
  OBVIOUS
<1>1. CASE v = w
  <2>1. batch'[v] = BatchWithout(batch[v], c)
    BY <1>1 DEF Finish, TypeOK
  <2> QED
    BY <2>1 DEF BatchWithout, NoBatch, BatchesOfRunning
<1>2. CASE v # w
  BY <1>2 DEF Finish, TypeOK, BatchesOfRunning
<1> QED
  BY <1>1, <1>2

-----------------------------------------------------------------------------
(* Every step keeps it *)

\* The entries move on under the worker's claims.
LEMMA EntryStepKeeps ==
  ASSUME IInv, EntryStep
  PROVE  IInv'
<1> USE DEF IInv
<1>1. TypeOK'
  BY EntryStepType
<1>2. RowsAdvance /\ LabelsKept /\ nextId <= nextId' /\ UNCHANGED <<batch, process>>
  <2>0. \A i \in DOMAIN vectors : i \in DOMAIN rows /\ rows[i].is_current /\ i < nextId
    BY DEF Labelled, IsCurrent, TypeOK
  <2>00. nextId \in Nat /\ nextId \notin DOMAIN rows
    BY DEF TypeOK
  <2>1. ASSUME NEW k \in Keys, NEW content \in Contents, CreateEntry(k, content)
        PROVE  RowsAdvance /\ LabelsKept /\ nextId <= nextId' /\ UNCHANGED <<batch, process>>
    BY <2>0, <2>00, <2>1 DEF CreateEntry, WithRow, RowsAdvance, LabelsKept
  <2>2. ASSUME NEW i \in DOMAIN rows, NEW content \in Contents, RewriteEntry(i, content)
        PROVE  RowsAdvance /\ LabelsKept /\ nextId <= nextId' /\ UNCHANGED <<batch, process>>
    <3>1. rows[i] \in Row /\ rows[i].updated_at \in Nat
      BY DEF TypeOK, Row
    <3>2. /\ Rewritten(rows[i], content).updated_at = rows[i].updated_at + 1
          /\ Rewritten(rows[i], content).embedding_identity = NoIdentity
          /\ Rewritten(rows[i], content).is_current = rows[i].is_current
      BY <3>1 DEF Rewritten, Row
    <3>3. rows' = [rows EXCEPT ![i] = Rewritten(rows[i], content)]
      BY <2>2 DEF RewriteEntry
    <3>4. nextId' = nextId /\ vectors' = vectors /\ UNCHANGED <<batch, process>>
      BY <2>2 DEF RewriteEntry
    <3>5. RowsAdvance
      BY <3>1, <3>2, <3>3 DEF RowsAdvance, TypeOK
    <3>6. LabelsKept
      BY <2>0, <3>2, <3>3, <3>4 DEF LabelsKept, TypeOK
    <3> QED
      BY <2>00, <3>4, <3>5, <3>6
  <2>3. ASSUME NEW i \in DOMAIN rows, NEW content \in Contents, SupersedeEntry(i, content)
        PROVE  RowsAdvance /\ LabelsKept /\ nextId <= nextId' /\ UNCHANGED <<batch, process>>
    <3>1. rows' = WithRow([rows EXCEPT ![i].is_current = FALSE], NewRow(rows[i].key, content))
      BY <2>3 DEF SupersedeEntry
    <3>2. rows[i] \in Row
      BY DEF TypeOK
    <3>3. /\ DOMAIN rows' = DOMAIN rows \cup {nextId}
          /\ \A j \in DOMAIN rows : j # i => rows'[j] = rows[j]
          /\ rows'[i].updated_at = rows[i].updated_at /\ rows'[i].content = rows[i].content
      BY <2>00, <3>1, <3>2 DEF WithRow, TypeOK, Row
    <3>4. /\ nextId' = nextId + 1 /\ UNCHANGED <<batch, process>>
          /\ vectors' = VectorsWithout({i})
      BY <2>3 DEF SupersedeEntry
    <3>5. RowsAdvance
      BY <2>00, <3>3 DEF RowsAdvance
    <3>6. LabelsKept
      BY <2>0, <3>3, <3>4 DEF LabelsKept, VectorsWithout
    <3> QED
      BY <2>00, <3>4, <3>5, <3>6
  <2>4. ASSUME NEW k \in Keys, DeleteKey(k)
        PROVE  RowsAdvance /\ LabelsKept /\ nextId <= nextId' /\ UNCHANGED <<batch, process>>
    BY <2>0, <2>00, <2>4 DEF DeleteKey, VectorsWithout, RowsAdvance, LabelsKept
  <2> QED
    BY <2>1, <2>2, <2>3, <2>4 DEF EntryStep
<1>3. BatchesOfRunning'
  BY <1>2 DEF BatchesOfRunning, process
<1>4. Dated' /\ Labelled'
  BY <1>1, <1>2, StaysDated, StaysLabelled
<1> QED
  BY <1>1, <1>3, <1>4

\* Rows are claimed as they are.
LEMMA ClaimBatchKeeps ==
  ASSUME IInv, NEW w \in Workers, ClaimBatch(w), TypeOK'
  PROVE  BatchesOfRunning' /\ Dated' /\ Labelled'
<1> USE DEF IInv
<1> DEFINE ids == Oldest(Claimable(w))
           claims == {Claimed(i) : i \in ids}
<1>1. /\ w \in running
      /\ rows' = WithStatus(ids, "processing")
      /\ batch' = [batch EXCEPT ![w] = [claimed |-> claims, todo |-> claims, awaiting |-> {}]]
      /\ UNCHANGED <<nextId, vectors, running, identity>>
  BY DEF ClaimBatch, process
<1>2. ids \subseteq DOMAIN rows
  BY DEF Oldest, Claimable
<1>3. \A c \in claims : c.id \in DOMAIN rows /\ c = Claimed(c.id)
  BY <1>2 DEF Claimed
<1> HIDE DEF ids, claims
<1>4. RowsAdvance /\ LabelsKept
  BY <1>1, StatusStep
<1>5. Labelled'
  BY <1>4, StaysLabelled
<1>6. BatchesOfRunning'
  BY <1>1 DEF BatchesOfRunning, TypeOK
<1>7. ASSUME NEW v \in Workers, NEW c \in batch'[v].claimed
      PROVE  DatedBy(c)'
  <2>1. CASE v = w
    <3>1. c \in claims
      BY <1>1, <2>1 DEF TypeOK
    <3>2. c.id \in DOMAIN rows /\ c.id \in 1 .. nextId - 1 /\ c = Claimed(c.id)
      BY <1>3, <3>1 DEF TypeOK
    <3>3. rows'[c.id].content = c.content /\ rows'[c.id].updated_at = c.updated_at
      BY <1>1, <3>2, WithStatusKeeps DEF Claimed
    <3>4. c.updated_at \in Nat
      BY <3>2 DEF Claimed, TypeOK, Row
    <3> QED
      BY <1>1, <3>2, <3>3, <3>4 DEF DatedBy, TypeOK
  <2>2. CASE v # w
    <3>1. c \in batch[v].claimed
      BY <1>1, <2>2 DEF TypeOK
    <3>2. DatedBy(c) /\ nextId' = nextId
      BY <1>1, <3>1 DEF Dated
    <3> QED
      BY <1>1, <3>2, WithStatusKeeps DEF DatedBy
  <2> QED
    BY <2>1, <2>2
<1>8. Dated'
  BY <1>7 DEF Dated
<1> QED
  BY <1>5, <1>6, <1>8

\* What comes back is stored under the stamp that still stands, hence beside the
\* content it was made from.
LEMMA EmbeddingSucceedsKeeps ==
  ASSUME IInv, NEW w \in Workers, NEW i \in Ids, EmbeddingSucceeds(w, i), TypeOK'
  PROVE  BatchesOfRunning' /\ Dated' /\ Labelled'
<1> USE DEF IInv
<1>1. PICK c \in batch[w].awaiting :
        /\ c.id = i
        /\ IF Storable(c)
           THEN /\ rows' = [rows EXCEPT ![i].embedding_status = "generated",
                                        ![i].embedding_identity = identity[w]]
                /\ vectors' = [j \in DOMAIN vectors \cup {i} |->
                                 IF j = i THEN [content |-> c.content, identity |-> identity[w]]
                                 ELSE vectors[j]]
           ELSE UNCHANGED <<rows, vectors>>
        /\ Finish(w, c)
        /\ UNCHANGED <<nextId, running, identity>>
  BY DEF EmbeddingSucceeds
<1>2. c \in batch[w].claimed
  BY <1>1 DEF BatchesOfRunning
<1>3. DatedBy(c)
  BY <1>2 DEF Dated
<1>4. nextId' = nextId /\ nextId \in Nat
  BY <1>1 DEF TypeOK
<1>5. BatchesOfRunning'
  BY <1>1, FinishKeeps DEF BatchesOfRunning
<1>6. \A v \in Workers : batch'[v].claimed \subseteq batch[v].claimed
  BY <1>1, FinishKeeps
<1>7. CASE Storable(c)
  <2>1. rows[i] \in Row /\ rows[i].is_current /\ rows[i].content = c.content
    BY <1>1, <1>3, <1>7 DEF Storable, IsCurrent, Unchanged, DatedBy, TypeOK
  <2>2. rows' = [rows EXCEPT ![i].embedding_status = "generated",
                             ![i].embedding_identity = identity[w]]
    BY <1>1, <1>7
  <2>3. /\ DOMAIN rows' = DOMAIN rows
        /\ \A j \in DOMAIN rows : j # i => rows'[j] = rows[j]
        /\ rows'[i].content = rows[i].content /\ rows'[i].updated_at = rows[i].updated_at
        /\ rows'[i].is_current = rows[i].is_current
        /\ rows'[i].embedding_identity = identity[w]
    BY <1>1, <1>7, <2>1, <2>2 DEF TypeOK, Row, Storable, IsCurrent
  <2>4. RowsAdvance
    BY <2>3 DEF RowsAdvance
  <2>5. vectors' = [j \in DOMAIN vectors \cup {i} |->
                      IF j = i THEN [content |-> c.content, identity |-> identity[w]]
                      ELSE vectors[j]]
    BY <1>1, <1>7
  <2>6. Labelled'
    <3> SUFFICES ASSUME NEW j \in DOMAIN vectors'
                 PROVE  /\ IsCurrent(j)'
                        /\ rows'[j].embedding_identity # NoIdentity =>
                             vectors'[j] = [content |-> rows'[j].content,
                                            identity |-> rows'[j].embedding_identity]
      BY DEF Labelled
    <3>1. CASE j = i
      <4>1. vectors'[j] = [content |-> c.content, identity |-> identity[w]]
        BY <2>5, <3>1
      <4>2. j \in DOMAIN rows' /\ rows'[j].is_current
        BY <1>1, <1>7, <2>1, <2>3, <3>1 DEF Storable, IsCurrent
      <4> QED
        BY <2>1, <2>3, <3>1, <4>1, <4>2 DEF IsCurrent
    <3>2. CASE j # i
      <4>1. j \in DOMAIN vectors /\ vectors'[j] = vectors[j]
        BY <2>5, <3>2
      <4>2. IsCurrent(j) /\ rows'[j] = rows[j] /\ j \in DOMAIN rows'
        BY <2>3, <3>2, <4>1 DEF Labelled, IsCurrent
      <4> QED
        BY <4>1, <4>2 DEF Labelled, IsCurrent
    <3> QED
      BY <3>1, <3>2
  <2>7. Dated'
    BY <1>4, <1>6, <2>4, StaysDated
  <2> QED
    BY <1>5, <2>6, <2>7
<1>8. CASE ~Storable(c)
  <2>1. UNCHANGED <<rows, vectors>>
    BY <1>1, <1>8
  <2>2. RowsAdvance
    BY <2>1 DEF RowsAdvance
  <2>3. Labelled'
    BY <2>1 DEF Labelled, IsCurrent
  <2>4. Dated'
    BY <1>4, <1>6, <2>2, StaysDated
  <2> QED
    BY <1>5, <2>3, <2>4
<1> QED
  BY <1>7, <1>8

LEMMA WorkerStepKeeps ==
  ASSUME IInv, NEW w \in Workers, WorkerStep(w)
  PROVE  IInv'
<1> USE DEF IInv
<1>1. batch[w].awaiting # {} => identity[w] \in Identities
  BY DEF BatchesOfRunning
<1>2. TypeOK'
  BY <1>1, WorkerStepType
<1>3. CASE ClaimBatch(w)
  BY <1>2, <1>3, ClaimBatchKeeps
<1>4. CASE RequeueClaimed(w)
  <2>1. /\ rows' = WithStatus(Released(w), "pending")
        /\ batch' = [batch EXCEPT ![w] = NoBatch]
        /\ nextId' = nextId /\ nextId \in Nat
        /\ UNCHANGED <<vectors, running, identity>>
    BY <1>4 DEF RequeueClaimed, process, TypeOK
  <2>2. RowsAdvance /\ LabelsKept
    BY <2>1, StatusStep
  <2>3. Labelled'
    BY <1>2, <2>1, <2>2, StaysLabelled
  <2>4. \A v \in Workers : batch'[v].claimed \subseteq batch[v].claimed
    BY <2>1, NoBatchKeeps
  <2>5. Dated'
    BY <1>2, <2>1, <2>2, <2>4, StaysDated
  <2>6. BatchesOfRunning'
    BY <2>1, NoBatchKeeps DEF BatchesOfRunning, NoBatch
  <2> QED
    BY <1>2, <2>3, <2>5, <2>6
<1>5. CASE BeginEmbedding(w)
  <2>1. PICK c \in batch[w].todo : batch' = [batch EXCEPT ![w].awaiting = {c}]
    BY <1>5 DEF BeginEmbedding
  <2>2. UNCHANGED <<rows, nextId, vectors, running, identity>>
    BY <1>5 DEF BeginEmbedding, entries, process
  <2>3. \A v \in Workers : /\ batch'[v].claimed = batch[v].claimed
                           /\ batch'[v].todo = batch[v].todo
                           /\ batch'[v].awaiting \subseteq batch[v].todo
    BY <2>1 DEF TypeOK, Batch, BatchesOfRunning
  <2>4. BatchesOfRunning'
    BY <2>2, <2>3 DEF BatchesOfRunning
  <2>5. Dated' /\ Labelled'
    BY <2>2, <2>3 DEF Dated, DatedBy, Labelled, IsCurrent
  <2> QED
    BY <1>2, <2>4, <2>5
<1>6. ASSUME NEW i \in Ids, EmbeddingSucceeds(w, i)
      PROVE  IInv'
  BY <1>2, <1>6, EmbeddingSucceedsKeeps
<1>7. CASE EmbeddingFails(w)
  <2>1. PICK c \in batch[w].awaiting :
          /\ rows' = IF Unchanged(c) THEN WithStatus({c.id}, "failed") ELSE rows
          /\ Finish(w, c)
          /\ UNCHANGED <<nextId, vectors, running, identity>>
    BY <1>7 DEF EmbeddingFails
  <2>2. RowsAdvance /\ LabelsKept
    <3>1. CASE Unchanged(c)
      BY <2>1, <3>1, StatusStep
    <3>2. CASE ~Unchanged(c)
      <4>1. \A i \in DOMAIN vectors : i \in DOMAIN rows
        BY DEF Labelled, IsCurrent
      <4> QED
        BY <2>1, <3>2, <4>1 DEF RowsAdvance, LabelsKept
    <3> QED
      BY <3>1, <3>2
  <2>3. nextId' = nextId /\ nextId \in Nat
    BY <2>1 DEF TypeOK
  <2>4. BatchesOfRunning'
    BY <2>1, FinishKeeps DEF BatchesOfRunning
  <2>5. Dated' /\ Labelled'
    BY <1>2, <2>1, <2>2, <2>3, FinishKeeps, StaysDated, StaysLabelled
  <2> QED
    BY <1>2, <2>4, <2>5
<1> QED
  BY <1>3, <1>4, <1>5, <1>6, <1>7 DEF WorkerStep

LEMMA ProcessStepKeeps ==
  ASSUME IInv, NEW w \in Workers, QueryEmbeds(w) \/ StartWorker(w) \/ Exit(w)
  PROVE  IInv'
<1> USE DEF IInv
<1>1. TypeOK'
  BY ProcessStepType
<1>2. CASE QueryEmbeds(w)
  BY <1>1, <1>2 DEF QueryEmbeds, entries, BatchesOfRunning, Dated, DatedBy, Labelled, IsCurrent
<1>3. CASE StartWorker(w)
  <2>1. PICK x \in Identities : identity' = [identity EXCEPT ![w] = x]
    BY <1>3 DEF StartWorker, Bindable
  <2>2. /\ rows' = WithStatus(Orphans, "pending") /\ running' = running \cup {w}
        /\ nextId' = nextId /\ nextId \in Nat /\ UNCHANGED <<vectors, batch>>
    BY <1>3 DEF StartWorker, TypeOK
  <2>3. RowsAdvance /\ LabelsKept
    BY <2>2, StatusStep
  <2>4. BatchesOfRunning'
    BY <2>1, <2>2 DEF BatchesOfRunning, TypeOK
  <2>5. Dated' /\ Labelled'
    BY <1>1, <2>2, <2>3, StaysDated, StaysLabelled
  <2> QED
    BY <1>1, <2>4, <2>5
<1>4. CASE Exit(w)
  <2>1. /\ batch' = [batch EXCEPT ![w] = NoBatch] /\ running' = running \ {w}
        /\ UNCHANGED <<rows, nextId, vectors, identity>>
    BY <1>4 DEF Exit, entries
  <2>2. BatchesOfRunning'
    BY <2>1 DEF BatchesOfRunning, NoBatch, TypeOK
  <2>3. Dated' /\ Labelled'
    BY <2>1, NoBatchKeeps DEF Dated, DatedBy, Labelled, IsCurrent
  <2> QED
    BY <1>1, <2>2, <2>3
<1> QED
  BY <1>2, <1>3, <1>4

LEMMA InitEstablishes == Init => IInv
BY NoBatchType DEF Init, IInv, TypeOK, BatchesOfRunning, Dated, Labelled, NoBatch

LEMMA NextKeeps == IInv /\ [Next]_vars => IInv'
<1> SUFFICES ASSUME IInv, [Next]_vars PROVE IInv'
  OBVIOUS
<1>1. CASE UNCHANGED vars
  BY <1>1 DEF vars, IInv, TypeOK, BatchesOfRunning, Dated, DatedBy, Labelled, IsCurrent
<1>2. CASE EntryStep
  BY <1>2, EntryStepKeeps
<1>3. ASSUME NEW w \in Workers, WorkerStep(w) \/ QueryEmbeds(w) \/ StartWorker(w) \/ Exit(w)
      PROVE  IInv'
  BY <1>3, WorkerStepKeeps, ProcessStepKeeps
<1> QED
  BY <1>1, <1>2, <1>3 DEF Next

-----------------------------------------------------------------------------
(* Rows in processing *)

\* A row that is in processing after a step was in it before, and whoever held
\* it then has it on a list still.
StaysHeld(i) ==
  /\ i \in DOMAIN rows /\ rows[i].is_current /\ rows[i].embedding_status = "processing"
  /\ Claimed(i)' = Claimed(i)
  /\ \A w \in Workers : Claimed(i) \in batch[w].todo =>
       \E v \in Workers : Claimed(i) \in batch'[v].todo

LEMMA HeldStaysHeld ==
  ASSUME ProcessingIsHeld, running' = running,
         \A i \in DOMAIN rows' :
           rows'[i].is_current /\ rows'[i].embedding_status = "processing" => StaysHeld(i)
  PROVE  ProcessingIsHeld'
BY DEF ProcessingIsHeld, StaysHeld

\* Writers put no row into processing.
LEMMA EntryStepHolds ==
  ASSUME IInv, ProcessingIsHeld, EntryStep
  PROVE  ProcessingIsHeld'
<1> DEFINE Quiet ==
             /\ UNCHANGED <<batch, running>>
             /\ \A i \in DOMAIN rows' :
                  rows'[i].is_current /\ rows'[i].embedding_status = "processing" =>
                    i \in DOMAIN rows /\ rows'[i] = rows[i]
<1>1. nextId \notin DOMAIN rows
  BY DEF IInv, TypeOK
<1>2. Quiet
  <2>1. ASSUME NEW k \in Keys, NEW content \in Contents, CreateEntry(k, content)
        PROVE  Quiet
    BY <1>1, <2>1 DEF CreateEntry, process, WithRow, NewRow
  <2>2. ASSUME NEW i \in DOMAIN rows, NEW content \in Contents, RewriteEntry(i, content)
        PROVE  Quiet
    <3>1. rows[i] \in Row
      BY DEF IInv, TypeOK
    <3>2. Rewritten(rows[i], content).embedding_status = "pending"
      BY <3>1 DEF Rewritten, Row
    <3> QED
      BY <2>2, <3>2 DEF RewriteEntry, process, IInv, TypeOK
  <2>3. ASSUME NEW i \in DOMAIN rows, NEW content \in Contents, SupersedeEntry(i, content)
        PROVE  Quiet
    <3>1. rows[i] \in Row
      BY DEF IInv, TypeOK
    <3>2. [rows[i] EXCEPT !.is_current = FALSE].is_current = FALSE
      BY <3>1 DEF Row
    <3> QED
      BY <1>1, <2>3, <3>2 DEF SupersedeEntry, process, WithRow, NewRow, IInv, TypeOK
  <2>4. ASSUME NEW k \in Keys, DeleteKey(k)
        PROVE  Quiet
    BY <2>4 DEF DeleteKey, process
  <2> QED
    BY <2>1, <2>2, <2>3, <2>4 DEF EntryStep
<1>3. \A i \in DOMAIN rows' :
        rows'[i].is_current /\ rows'[i].embedding_status = "processing" => StaysHeld(i)
  BY <1>2 DEF StaysHeld, Claimed
<1> QED
  BY <1>2, <1>3, HeldStaysHeld

\* A claim dealt with is off the list, and no other.
LEMMA FinishHolds ==
  ASSUME IInv, NEW w \in Workers, NEW c, Finish(w, c), NEW v \in Workers,
         NEW d \in batch[v].todo, v = w => d # c
  PROVE  d \in batch'[v].todo
<1>1. CASE v = w
  <2>1. batch'[v] = BatchWithout(batch[v], c)
    BY <1>1 DEF Finish, IInv, TypeOK
  <2>2. d # c /\ batch[v].todo # {c}
    BY <1>1
  <2> QED
    BY <2>1, <2>2 DEF BatchWithout
<1>2. CASE v # w
  BY <1>2 DEF Finish, IInv, TypeOK
<1> QED
  BY <1>1, <1>2

\* A row leaves the list of the one who holds it when it leaves processing.
LEMMA WorkerStepHolds ==
  ASSUME IInv, ProcessingIsHeld, NEW w \in Workers, WorkerStep(w)
  PROVE  ProcessingIsHeld'
<1>1. CASE ClaimBatch(w)
  <2> DEFINE ids == Oldest(Claimable(w))
             claims == {Claimed(i) : i \in ids}
  <2>1. /\ rows' = WithStatus(ids, "processing") /\ batch[w] = NoBatch /\ running' = running
        /\ batch' = [batch EXCEPT ![w] = [claimed |-> claims, todo |-> claims, awaiting |-> {}]]
    BY <1>1 DEF ClaimBatch, process
  <2>2. \A i \in ids : Claimed(i) \in claims
    OBVIOUS
  <2> HIDE DEF ids, claims
  <2>3. DOMAIN rows' = DOMAIN rows /\ \A i \in DOMAIN rows : Claimed(i)' = Claimed(i)
    BY <2>1, WithStatusKeeps DEF Claimed, IInv
  <2>4. \A v \in Workers : IF v = w THEN batch'[v].todo = claims ELSE batch'[v] = batch[v]
    BY <2>1 DEF IInv, TypeOK
  <2> SUFFICES ASSUME running = Workers, NEW i \in DOMAIN rows, rows'[i].is_current,
                      rows'[i].embedding_status = "processing"
               PROVE  \E v \in Workers : Claimed(i) \in batch'[v].todo
    BY <2>1, <2>3 DEF ProcessingIsHeld
  <2>5. CASE i \in ids
    BY <2>2, <2>4, <2>5
  <2>6. CASE i \notin ids
    <3>1. rows'[i] = rows[i]
      BY <2>1, <2>6 DEF WithStatus
    <3>2. PICK v \in Workers : Claimed(i) \in batch[v].todo
      BY <3>1 DEF ProcessingIsHeld
    <3>3. v # w
      BY <2>1, <3>2 DEF NoBatch
    <3> QED
      BY <2>4, <3>2, <3>3
  <2> QED
    BY <2>5, <2>6
<1>2. CASE RequeueClaimed(w)
  <2>1. /\ rows' = WithStatus(Released(w), "pending") /\ running' = running
        /\ batch' = [batch EXCEPT ![w] = NoBatch]
    BY <1>2 DEF RequeueClaimed, process
  <2> SUFFICES ASSUME NEW i \in DOMAIN rows', rows'[i].is_current,
                      rows'[i].embedding_status = "processing"
               PROVE  StaysHeld(i)
    BY <2>1, HeldStaysHeld
  <2>2. i \in DOMAIN rows /\ rows[i] \in Row
    BY <2>1 DEF WithStatus, IInv, TypeOK
  <2>3. i \notin Released(w)
    BY <2>1, <2>2 DEF WithStatus, Row
  <2>4. rows'[i] = rows[i]
    BY <2>1, <2>2, <2>3 DEF WithStatus
  <2>5. Claimed(i) \notin batch[w].todo
    BY <2>2, <2>3, <2>4 DEF Released, Claimed, Unchanged, IInv, BatchesOfRunning
  <2>6. \A v \in Workers \ {w} : batch'[v] = batch[v]
    BY <2>1 DEF IInv, TypeOK
  <2> QED
    BY <2>2, <2>4, <2>5, <2>6 DEF StaysHeld, Claimed
<1>3. CASE BeginEmbedding(w)
  <2>1. UNCHANGED <<rows, running>> /\ \A v \in Workers : batch'[v].todo = batch[v].todo
    BY <1>3 DEF BeginEmbedding, entries, process, IInv, TypeOK, Batch
  <2> QED
    BY <2>1, HeldStaysHeld DEF StaysHeld, Claimed
<1>4. ASSUME NEW c \in batch[w].awaiting, Finish(w, c), running' = running,
             \/ rows' = rows
             \/ /\ DOMAIN rows' = DOMAIN rows /\ rows'[c.id].embedding_status # "processing"
                /\ \A i \in DOMAIN rows \ {c.id} : rows'[i] = rows[i],
             Storable(c) => rows'[c.id].embedding_status # "processing"
      PROVE  ProcessingIsHeld'
  <2> SUFFICES ASSUME NEW i \in DOMAIN rows', rows'[i].is_current,
                      rows'[i].embedding_status = "processing"
               PROVE  StaysHeld(i)
    BY <1>4, HeldStaysHeld
  <2>1. i \in DOMAIN rows /\ rows'[i] = rows[i]
    BY <1>4
  <2>2. Claimed(i) # c
    <3> SUFFICES ASSUME Claimed(i) = c PROVE FALSE
      OBVIOUS
    <3>1. c.id = i /\ c.updated_at = rows[i].updated_at
      BY DEF Claimed
    <3>2. Storable(c)
      BY <2>1, <3>1 DEF Storable, IsCurrent, Unchanged
    <3> QED
      BY <1>4, <3>1, <3>2
  <2>3. \A v \in Workers : Claimed(i) \in batch[v].todo => Claimed(i) \in batch'[v].todo
    BY <1>4, <2>2, FinishHolds
  <2> QED
    BY <2>1, <2>3 DEF StaysHeld, Claimed
<1>5. ASSUME NEW i \in Ids, EmbeddingSucceeds(w, i)
      PROVE  ProcessingIsHeld'
  <2>1. PICK c \in batch[w].awaiting :
          /\ c.id = i /\ Finish(w, c) /\ running' = running
          /\ IF Storable(c)
             THEN rows' = [rows EXCEPT ![i].embedding_status = "generated",
                                       ![i].embedding_identity = identity[w]]
             ELSE rows' = rows
    BY <1>5 DEF EmbeddingSucceeds
  <2>2. CASE Storable(c)
    <3>1. i \in DOMAIN rows /\ rows[i] \in Row
      BY <2>1, <2>2 DEF Storable, IsCurrent, IInv, TypeOK
    <3>2. rows' = [rows EXCEPT ![i].embedding_status = "generated",
                               ![i].embedding_identity = identity[w]]
      BY <2>1, <2>2
    <3>3. /\ DOMAIN rows' = DOMAIN rows /\ rows'[i].embedding_status = "generated"
          /\ \A j \in DOMAIN rows \ {i} : rows'[j] = rows[j]
      BY <3>1, <3>2 DEF Row
    <3> QED
      BY <1>4, <2>1, <3>3
  <2>3. CASE ~Storable(c)
    BY <1>4, <2>1, <2>3
  <2> QED
    BY <2>2, <2>3
<1>6. CASE EmbeddingFails(w)
  <2>1. PICK c \in batch[w].awaiting :
          /\ rows' = IF Unchanged(c) THEN WithStatus({c.id}, "failed") ELSE rows
          /\ Finish(w, c) /\ running' = running
    BY <1>6 DEF EmbeddingFails
  <2>2. CASE Unchanged(c)
    <3>1. c.id \in DOMAIN rows /\ rows[c.id] \in Row /\ rows' = WithStatus({c.id}, "failed")
      BY <2>1, <2>2 DEF Unchanged, IInv, TypeOK
    <3>2. /\ DOMAIN rows' = DOMAIN rows /\ rows'[c.id].embedding_status = "failed"
          /\ \A j \in DOMAIN rows \ {c.id} : rows'[j] = rows[j]
      BY <3>1 DEF WithStatus, Row
    <3> QED
      BY <1>4, <2>1, <3>2
  <2>3. CASE ~Unchanged(c)
    BY <1>4, <2>1, <2>3 DEF Storable
  <2> QED
    BY <2>2, <2>3
<1> QED
  BY <1>1, <1>2, <1>3, <1>5, <1>6 DEF WorkerStep

\* A start takes every row out of processing, and without one who ended nothing
\* is claimed.
LEMMA ProcessStepHolds ==
  ASSUME IInv, ProcessingIsHeld, NEW w \in Workers, QueryEmbeds(w) \/ StartWorker(w) \/ Exit(w)
  PROVE  ProcessingIsHeld'
<1>1. CASE QueryEmbeds(w)
  BY <1>1 DEF QueryEmbeds, entries, ProcessingIsHeld, Claimed
<1>2. CASE StartWorker(w)
  <2>1. rows' = WithStatus(Orphans, "pending")
    BY <1>2 DEF StartWorker
  <2>2. \A i \in DOMAIN rows' : rows'[i].embedding_status # "processing"
    BY <2>1 DEF WithStatus, Orphans, IInv, TypeOK, Row
  <2> QED
    BY <2>2 DEF ProcessingIsHeld
<1>3. CASE Exit(w)
  BY <1>3 DEF Exit, ProcessingIsHeld
<1> QED
  BY <1>1, <1>2, <1>3

LEMMA ProcessingStep ==
  IInv /\ ProcessingIsHeld /\ [Next]_vars => ProcessingIsHeld'
<1> SUFFICES ASSUME IInv, ProcessingIsHeld, [Next]_vars PROVE ProcessingIsHeld'
  OBVIOUS
<1>1. CASE UNCHANGED vars
  BY <1>1 DEF vars, ProcessingIsHeld, Claimed
<1>2. CASE EntryStep
  BY <1>2, EntryStepHolds
<1>3. ASSUME NEW w \in Workers, WorkerStep(w) \/ QueryEmbeds(w) \/ StartWorker(w) \/ Exit(w)
      PROVE  ProcessingIsHeld'
  BY <1>3, WorkerStepHolds, ProcessStepHolds
<1> QED
  BY <1>1, <1>2, <1>3 DEF Next

-----------------------------------------------------------------------------
(* Theorems *)

\* Whatever the workers, models and writers do, the variables keep their types.
THEOREM TypeCorrect == Spec => []TypeOK
<1>1. IInv => TypeOK
  BY DEF IInv
<1> QED
  BY <1>1, InitEstablishes, NextKeeps, PTL DEF Spec

\* A semantic query never matches an entry by a vector of words the entry no
\* longer holds, or of a model other than the one its label names: for any number
\* of workers, of any models, on one database.
THEOREM VectorsAlwaysFresh == Spec => []ServedVectorsFresh
<1>1. IInv => ServedVectorsFresh
  BY LabelledSuffices DEF IInv
<1> QED
  BY <1>1, InitEstablishes, NextKeeps, PTL DEF Spec

\* Corrections and deletes leave no vector behind, not even one that was being
\* made when they came.
THEOREM VectorsNeverStray == Spec => []NoStrayVectors
<1>1. IInv => NoStrayVectors
  BY LabelledSuffices DEF IInv
<1> QED
  BY <1>1, InitEstablishes, NextKeeps, PTL DEF Spec

\* While all workers run, a current row marked processing is on the list of one
\* of them as it stands, for any number of workers: no breaker, rewrite or second
\* start leaves one behind that nobody would claim again.
THEOREM ProcessingAlwaysHeld == Spec => []ProcessingIsHeld
<1>1. Init => ProcessingIsHeld
  BY DEF Init, ProcessingIsHeld
<1> QED
  BY <1>1, InitEstablishes, NextKeeps, ProcessingStep, PTL DEF Spec

=============================================================================
