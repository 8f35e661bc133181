--------------------------- MODULE EmbeddingWorker ---------------------------
(***************************************************************************)
(* The background worker that embeds entries for semantic search           *)
(* (src/src/embeddings.ts), against the writers that change those entries  *)
(* under it (src/src/db.ts).  The model runs between two awaits: a batch is*)
(* claimed, each claimed row is sent to the extractor, and what comes back *)
(* is stored if the row is still the one that was sent.                    *)
(*                                                                         *)
(* A worker is one process.  The code is written for one per database and  *)
(* says what two would do to each other; Workers may name both cases.      *)
(* An entry's writers appear as they look from here: a rewrite moves       *)
(* updated_at forward (EntryStore!MutationTime), a correction retires the  *)
(* row and inserts another, a delete takes a key's rows.  All processes    *)
(* have sqlite-vec loaded.                                                 *)
(***************************************************************************)
EXTENDS Integers, FiniteSets

CONSTANTS
  Workers,      \* processes that run an embedding worker
  Keys,         \* keys of state entries
  Contents,     \* what an entry may say
  Identities,   \* embedding identities a process may be configured with
  NoIdentity,   \* NULL
  BatchSize,    \* MUNIN_EMBEDDINGS_BATCH_SIZE
  MaxFailures,  \* MUNIN_EMBEDDINGS_MAX_FAILURES
  MaxEntries,   \* bound on the rows ever inserted
  MaxStamp,     \* bound on a row's updated_at
  MaxCrashes    \* bound on process exits

ASSUME EmbeddingWorkerAssumption ==
  /\ NoIdentity \notin Identities
  /\ BatchSize \in Nat \ {0} /\ MaxFailures \in Nat \ {0}
  /\ MaxEntries \in Nat /\ MaxStamp \in Nat /\ MaxCrashes \in Nat

VARIABLES
  rows,      \* entries: id -> row; ids in order of created_at
  nextId,    \* id of the next row
  vectors,   \* entries_vec: id -> what the vector was made from, and by which model
  running,   \* workers that are started
  identity,  \* extractorIdentity of each process
  failures,  \* circuitBreakerFailures
  tripped,   \* circuitBreakerDisabled
  batch,     \* the batch each worker is in
  crashes    \* process exits so far

vars == <<rows, nextId, vectors, running, identity, failures, tripped, batch, crashes>>
entries == <<rows, nextId>>
process == <<running, identity, failures, tripped, crashes>>

-----------------------------------------------------------------------------
(* Data *)

Ids == 1 .. MaxEntries
Statuses == {"pending", "processing", "generated", "failed"}
Row == [key: Keys, content: Contents, updated_at: Nat, is_current: BOOLEAN,
        embedding_status: Statuses, embedding_identity: Identities \cup {NoIdentity}]
Vector == [content: Contents, identity: Identities]

\* What RETURNING gives the worker of a row it claimed.
Claim == [id: Ids, content: Contents, updated_at: Nat]
Claimed(i) == [id |-> i, content |-> rows[i].content, updated_at |-> rows[i].updated_at]

\* A batch: all it claimed, what is left to do, and what the extractor is at.
Batch == [claimed: SUBSET Claim, todo: SUBSET Claim, awaiting: SUBSET Claim]
NoBatch == [claimed |-> {}, todo |-> {}, awaiting |-> {}]

IsCurrent(i) == i \in DOMAIN rows /\ rows[i].is_current
KeyRows(k) == {i \in DOMAIN rows : rows[i].key = k}
CurrentOf(k) == {i \in KeyRows(k) : rows[i].is_current}

\* Is the row the one that was claimed?
Unchanged(claim) ==
  claim.id \in DOMAIN rows /\ rows[claim.id].updated_at = claim.updated_at

WithStatus(ids, status) ==
  [i \in DOMAIN rows |-> IF i \in ids THEN [rows[i] EXCEPT !.embedding_status = status]
                         ELSE rows[i]]
VectorsWithout(ids) == [i \in DOMAIN vectors \ ids |-> vectors[i]]

NewRow(k, content) ==
  [key |-> k, content |-> content, updated_at |-> 1, is_current |-> TRUE,
   embedding_status |-> "pending", embedding_identity |-> NoIdentity]
WithRow(table, row) ==
  [i \in DOMAIN table \cup {nextId} |-> IF i = nextId THEN row ELSE table[i]]

-----------------------------------------------------------------------------
(* The entries under the worker *)

CreateEntry(k, content) ==
  /\ nextId <= MaxEntries /\ CurrentOf(k) = {}
  /\ rows' = WithRow(rows, NewRow(k, content))
  /\ nextId' = nextId + 1
  /\ UNCHANGED <<vectors, batch, process>>

\* The UPDATE of writeState and patchState: the vector stays, its provenance goes.
Rewritten(row, content) ==
  [row EXCEPT !.content = content, !.updated_at = @ + 1,
              !.embedding_status = "pending", !.embedding_identity = NoIdentity]

RewriteEntry(i, content) ==
  /\ IsCurrent(i) /\ rows[i].updated_at < MaxStamp
  /\ rows' = [rows EXCEPT ![i] = Rewritten(rows[i], content)]
  /\ UNCHANGED <<nextId, vectors, batch, process>>

\* supersedeState: the predecessor keeps its embedding columns and loses its vector.
SupersedeEntry(i, content) ==
  /\ IsCurrent(i) /\ nextId <= MaxEntries
  /\ rows' = WithRow([rows EXCEPT ![i].is_current = FALSE], NewRow(rows[i].key, content))
  /\ nextId' = nextId + 1
  /\ vectors' = VectorsWithout({i})
  /\ UNCHANGED <<batch, process>>

\* deleteKeySingle: the key's whole history and every vector of it.
DeleteKey(k) ==
  /\ CurrentOf(k) # {}
  /\ rows' = [i \in DOMAIN rows \ KeyRows(k) |-> rows[i]]
  /\ vectors' = VectorsWithout(KeyRows(k))
  /\ UNCHANGED <<nextId, batch, process>>

-----------------------------------------------------------------------------
(* The worker *)

\* Rows without an embedding, and those of another model or of no known one.
Claimable(w) ==
  {i \in DOMAIN rows :
     /\ IsCurrent(i)
     /\ \/ rows[i].embedding_status \in {"pending", "failed"}
        \/ /\ rows[i].embedding_status = "generated"
           /\ rows[i].embedding_identity # identity[w]}

\* ORDER BY created_at LIMIT batchSize.
Oldest(ids) == {i \in ids : Cardinality({j \in ids : j < i}) < BatchSize}

ClaimBatch(w) ==
  /\ w \in running /\ ~tripped[w] /\ batch[w] = NoBatch
  /\ LET ids == Oldest(Claimable(w))
         claims == {Claimed(i) : i \in ids}
     IN /\ ids # {}
        /\ rows' = WithStatus(ids, "processing")
        /\ batch' = [batch EXCEPT ![w] = [claimed |-> claims, todo |-> claims, awaiting |-> {}]]
  /\ UNCHANGED <<nextId, vectors, process>>

\* Mutant: a tripped breaker just ends the batch.
ReleasedNone(w) == {}

\* The claimed rows that requeueClaimed gives back.
Released(w) ==
  {c.id : c \in {c \in batch[w].claimed : /\ Unchanged(c)
                                          /\ rows[c.id].embedding_status = "processing"}}

\* Before each row the worker looks at the breaker: tripped, the batch is over.
RequeueClaimed(w) ==
  /\ batch[w].todo # {} /\ batch[w].awaiting = {} /\ tripped[w]
  /\ rows' = WithStatus(Released(w), "pending")
  /\ batch' = [batch EXCEPT ![w] = NoBatch]
  /\ UNCHANGED <<nextId, vectors, process>>

\* ... or the next row goes to the extractor, and the process goes on with
\* other work.
BeginEmbedding(w) ==
  /\ batch[w].awaiting = {} /\ ~tripped[w]
  /\ \E c \in batch[w].todo : batch' = [batch EXCEPT ![w].awaiting = {c}]
  /\ UNCHANGED <<entries, vectors, process>>

\* One claim is dealt with; after the last the batch is over.
BatchWithout(b, c) ==
  IF b.todo = {c} THEN NoBatch
  ELSE [claimed |-> b.claimed, todo |-> b.todo \ {c}, awaiting |-> {}]
Finish(w, c) == batch' = [batch EXCEPT ![w] = BatchWithout(batch[w], c)]

\* Mutant: what comes back is stored for any row still there.
StorableUnguarded(c) == IsCurrent(c.id)

\* The row is still current and was not rewritten since the claim.
Storable(c) == IsCurrent(c.id) /\ Unchanged(c)

\* The extractor answers and storeEmbedding replaces vector and provenance,
\* unless the row has moved on.
EmbeddingSucceeds(w, i) ==
  \E c \in batch[w].awaiting :
    /\ c.id = i
    /\ failures' = [failures EXCEPT ![w] = 0]
    /\ IF Storable(c)
       THEN /\ rows' = [rows EXCEPT ![i].embedding_status = "generated",
                                    ![i].embedding_identity = identity[w]]
            /\ vectors' = [j \in DOMAIN vectors \cup {i} |->
                             IF j = i THEN [content |-> c.content, identity |-> identity[w]]
                             ELSE vectors[j]]
       ELSE UNCHANGED <<rows, vectors>>
    /\ Finish(w, c)
    /\ UNCHANGED <<nextId, running, identity, tripped, crashes>>

\* One more failure in a row; the last one allowed trips the breaker, for the
\* life of the process.
CountFailure(w) ==
  /\ failures' = [failures EXCEPT ![w] = @ + 1]
  /\ tripped' = [tripped EXCEPT ![w] = @ \/ failures[w] + 1 >= MaxFailures]

EmbeddingFails(w) ==
  \E c \in batch[w].awaiting :
    /\ CountFailure(w)
    /\ rows' = IF Unchanged(c) THEN WithStatus({c.id}, "failed") ELSE rows
    /\ Finish(w, c)
    /\ UNCHANGED <<nextId, vectors, running, identity, crashes>>

\* memory_query embeds its text with the same extractor and the same breaker.
QueryEmbeds(w) ==
  /\ w \in running /\ ~tripped[w]
  /\ \/ failures' = [failures EXCEPT ![w] = 0] /\ UNCHANGED tripped
     \/ CountFailure(w)
  /\ UNCHANGED <<entries, vectors, running, identity, batch, crashes>>

\* Mutant: a worker starts on the table as it finds it.
OrphansIgnored == {}

\* resetOrphanedProcessingRows takes every processing row for an orphan.
Orphans == {i \in DOMAIN rows : rows[i].embedding_status = "processing"}

\* A worker only starts once initEmbeddings has bound the extractor to an identity.
Bindable == Identities

StartWorker(w) ==
  /\ w \notin running
  /\ \E x \in Bindable : identity' = [identity EXCEPT ![w] = x]
  /\ running' = running \cup {w}
  /\ rows' = WithStatus(Orphans, "pending")
  /\ failures' = [failures EXCEPT ![w] = 0]
  /\ tripped' = [tripped EXCEPT ![w] = FALSE]
  /\ UNCHANGED <<nextId, vectors, batch, crashes>>

\* The process ends at any point: a crash, a deploy, or a batch that threw, which
\* nothing catches.  What it had claimed stays as it was.
Exit(w) ==
  /\ w \in running /\ crashes < MaxCrashes
  /\ running' = running \ {w}
  /\ batch' = [batch EXCEPT ![w] = NoBatch]
  /\ crashes' = crashes + 1
  /\ UNCHANGED <<entries, vectors, identity, failures, tripped>>

Init ==
  /\ rows = [i \in {} |-> 0] /\ nextId = 1
  /\ vectors = [i \in {} |-> 0]
  /\ running = {}
  /\ identity = [w \in Workers |-> NoIdentity]
  /\ failures = [w \in Workers |-> 0] /\ tripped = [w \in Workers |-> FALSE]
  /\ batch = [w \in Workers |-> NoBatch]
  /\ crashes = 0

EntryStep ==
  \/ \E k \in Keys, content \in Contents : CreateEntry(k, content)
  \/ \E i \in DOMAIN rows, content \in Contents :
       RewriteEntry(i, content) \/ SupersedeEntry(i, content)
  \/ \E k \in Keys : DeleteKey(k)

WorkerStep(w) ==
  \/ ClaimBatch(w)
  \/ RequeueClaimed(w)
  \/ BeginEmbedding(w)
  \/ \E i \in Ids : EmbeddingSucceeds(w, i)
  \/ EmbeddingFails(w)

Next ==
  \/ EntryStep
  \/ \E w \in Workers : WorkerStep(w) \/ QueryEmbeds(w) \/ StartWorker(w) \/ Exit(w)

Spec == Init /\ [][Next]_vars

\* The timer re-arms after every batch and every call to the extractor returns;
\* a process that ended is started again.  The extractor may fail on a row any
\* number of times, but not for ever.
Fairness ==
  \A w \in Workers :
    /\ WF_vars(WorkerStep(w))
    /\ WF_vars(StartWorker(w))
    /\ \A i \in Ids : SF_vars(EmbeddingSucceeds(w, i))

FairSpec == Spec /\ Fairness

-----------------------------------------------------------------------------
(* Properties *)

TypeOK ==
  /\ nextId \in 1 .. MaxEntries + 1
  /\ DOMAIN rows \subseteq 1 .. nextId - 1
  /\ rows \in [DOMAIN rows -> Row]
  /\ DOMAIN vectors \subseteq Ids
  /\ vectors \in [DOMAIN vectors -> Vector]
  /\ running \subseteq Workers
  /\ identity \in [Workers -> Identities \cup {NoIdentity}]
  /\ failures \in [Workers -> Nat]
  /\ tripped \in [Workers -> BOOLEAN]
  /\ batch \in [Workers -> Batch]
  /\ crashes \in Nat

\* What a semantic query under identity x may return (the join of entries_vec
\* with current entries of that identity).
Served(x) ==
  {i \in DOMAIN vectors : IsCurrent(i) /\ rows[i].embedding_identity = x}

\* An entry is never found by the vector of words it no longer holds, nor by a
\* vector of another model than the one its label claims: whatever was rewritten,
\* corrected, deleted or claimed by someone else while the extractor was at it.
ServedVectorsFresh ==
  \A x \in Identities : \A i \in Served(x) :
    vectors[i] = [content |-> rows[i].content, identity |-> x]

\* No vector outlives its entry or its entry's retirement, even one that was being
\* made when the entry was corrected or deleted.  A stray vector would take one of
\* the k places of every nearest-neighbour search, and nothing would remove it.
NoStrayVectors == \A i \in DOMAIN vectors : IsCurrent(i)

\* While all workers run, a current row marked processing is on the list of one of
\* them, as it stands.  A row that nobody holds would not be claimed again.
ProcessingIsHeld ==
  running = Workers =>
    \A i \in DOMAIN rows :
      rows[i].is_current /\ rows[i].embedding_status = "processing" =>
        \E w \in Workers : Claimed(i) \in batch[w].todo

Indexed(i, w) ==
  /\ IsCurrent(i)
  /\ rows[i].embedding_status = "generated" /\ rows[i].embedding_identity = identity[w]

\* Every entry is embedded by the model in use, sooner or later, whatever failures,
\* rewrites, restarts and changes of model come between; unless it stops being
\* current or the breaker trips.
EventuallyIndexed ==
  \A i \in Ids :
    IsCurrent(i) ~> ~IsCurrent(i) \/ \E w \in Workers : tripped[w] \/ Indexed(i, w)

=============================================================================
