----------------------------- MODULE ReviewInbox -----------------------------
(***************************************************************************)
(* The review inbox of munin-memory: src/src/review-inbox.ts and the       *)
(* memory_review and memory_extract handlers of src/src/tools.ts.          *)
(*                                                                         *)
(* memory_extract stores proposals, a reviewer edits, declines or approves *)
(* them, approving writes memory, and prepare_undo proposes the inverse of *)
(* what was approved.  Proposals expire, and payloads are purged.  Any     *)
(* session of the principal may ask for scope "principal" and reach every  *)
(* proposal, so sessions are left out; so are access, classification and   *)
(* injection checks, which refuse a call without effect.                   *)
(*                                                                         *)
(* Each transition is one IMMEDIATE transaction that reads the proposal    *)
(* again.  What a handler reads before it is only captured into the row it *)
(* stores, and the handler takes the clock once, so a call is one action.  *)
(*                                                                         *)
(* A revision is a write to memory, by its number; it stands for the pair  *)
(* of an entry's id and updated_at, which EntryStore shows to identify the *)
(* writing (with the exception found there).  Days are the unit of time.   *)
(* The code never compares two texts but for hashes that updated_at        *)
(* implies, so a text is the number of the revision that first held it: all*)
(* texts differ, except that an undo writes an earlier one again.          *)
(***************************************************************************)
EXTENDS Integers, FiniteSets

CONSTANTS
  Keys,              \* state entries proposals may target
  Log,               \* the target of a memory_log proposal
  First,             \* the state entry memory holds from the start
  Nothing,           \* a purged operation: NULL
  ProposalTTL,       \* REVIEW_PROPOSAL_TTL_DAYS
  TerminalRetention, \* REVIEW_TERMINAL_PAYLOAD_RETENTION_DAYS
  UndoRetention,     \* REVIEW_APPROVED_UNDO_RETENTION_DAYS
  SourceRefMax,      \* REVIEW_SOURCE_REF_MAX_COUNT
  MaxTime,           \* bound on the clock
  MaxProposals,      \* bound on proposals
  MaxExtracts,       \* bound on those of memory_extract
  MaxWrites,         \* bound on writes to memory
  MaxOthers          \* bound on those that are not approvals

ASSUME ReviewInboxAssumption ==
  /\ Log \notin Keys /\ First \in Keys
  /\ ProposalTTL \in Nat \ {0}
  /\ TerminalRetention \in Nat /\ UndoRetention \in Nat /\ SourceRefMax \in Nat
  /\ MaxTime \in Nat /\ MaxProposals \in Nat /\ MaxExtracts \in Nat /\ MaxWrites \in Nat
  /\ MaxOthers \in Nat

VARIABLES
  now,          \* the wall clock
  proposals,    \* review_proposals
  nextProposal, \* number (UUID) of the next proposal
  current,      \* key -> revision of its current entry, 0 if it has none
  logs,         \* revisions of the current log entries
  writes,       \* every write to memory, by revision (not in the program)
  nextRev       \* number of the next write

vars == <<now, proposals, nextProposal, current, logs, writes, nextRev>>

-----------------------------------------------------------------------------
(* Data *)

Open == {"pending", "edited"}
Statuses == Open \cup {"approved", "declined", "superseded", "expired", "failed"}

\* expected: expected_updated_at, with 0 for create_if_absent (a state entry)
\* or no precondition (a log entry).  supersedes: the id of the entry a
\* server-prepared undo corrects, or 0.  text: 0 for one of its own.
Operation == [target: Keys \cup {Log}, text: Nat, expected: Nat, supersedes: Nat]

ASSUME NothingAssumption == Nothing \notin Operation

\* terminal_at, applied and prior are 0 while null.  applied is the revision
\* applied_entry_id and applied_entry_updated_at name, prior the text of
\* prior_entry_snapshot, edited whether an "edited" event exists.  basis is not
\* in the program: the revision its target had when it was last worded.
Proposal == [status: Statuses, current_operation: Operation \cup {Nothing},
             source_refs: SUBSET Nat, edited: BOOLEAN, basis: Nat,
             applied: Nat, prior: Nat, undo_of: Nat,
             expires_at: Nat, terminal_at: Nat, purged: BOOLEAN]

\* entry: the id of the row written, named by the write that inserted it.
\* by: the proposal applied, 0 for any other writer.  over: the revision replaced.
Write == [by: Nat, target: Keys \cup {Log}, text: Nat, entry: Nat, over: Nat]

Ids == DOMAIN proposals
CurrentRevs == (logs \cup {current[k] : k \in Keys}) \ {0}
EntryOf(rev) == IF rev = 0 THEN 0 ELSE writes[rev].entry
TextOf(rev) == IF rev = 0 THEN 0 ELSE writes[rev].text
Target(op) == IF op.target = Log THEN 0 ELSE current[op.target]

With(table, id, row) == [i \in DOMAIN table \cup {id} |-> IF i = id THEN row ELSE table[i]]

-----------------------------------------------------------------------------
(* Expiry and retention *)

\* deriveReviewProposalStatus
EffectiveStatus(p) ==
  IF p.status \in Open /\ p.expires_at <= now THEN "expired" ELSE p.status

Retention(status) ==
  IF status \in {"approved", "superseded"} THEN UndoRetention ELSE TerminalRetention

RetentionOver(status, since) == status \notin Open /\ since + Retention(status) <= now

\* Mutant: expiry is dated when it is noticed.
ExpiredWhenNoticed(p) ==
  IF EffectiveStatus(p) = p.status THEN p
  ELSE [p EXCEPT !.status = "expired", !.terminal_at = now]

\* expireProposal: expiry took effect at expires_at, whoever notices it when.
Expired(p) ==
  IF EffectiveStatus(p) = p.status THEN p
  ELSE [p EXCEPT !.status = "expired", !.terminal_at = p.expires_at]

\* reviewProposalPayloadPurgedOrDue, as deriveReadableReviewProposal asks it of
\* a row whose expiry nobody may have noticed yet.
PurgedOrDue(p) ==
  p.purged \/ RetentionOver(EffectiveStatus(p),
                           IF p.status \in Open THEN p.expires_at ELSE p.terminal_at)

Tombstone(p) ==
  [p EXCEPT !.current_operation = Nothing, !.source_refs = {}, !.prior = 0,
            !.purged = TRUE]

Purged(p) == IF RetentionOver(p.status, p.terminal_at) THEN Tombstone(p) ELSE p

\* pruneReviewProposals: expire what is due, then purge what is due.
Pruned(table) == [i \in DOMAIN table |-> Purged(Expired(table[i]))]

-----------------------------------------------------------------------------
(* Approval *)

\* reviewSourceConflicts finds none.
SourcesUnchanged(p) == p.source_refs \subseteq CurrentRevs

\* Mutant: a proposal to create an entry does not ask whether it now exists.
TargetUnchangedOrNew(op) ==
  IF op.supersedes = 0 THEN op.target # Log => op.expected \in {0, Target(op)}
  ELSE IF op.target = Log THEN op.supersedes \in logs
  ELSE EntryOf(Target(op)) = op.supersedes /\ Target(op) = op.expected

\* reviewTargetConflicts finds none, nor does prepareReviewOperation.
TargetUnchanged(op) ==
  IF op.supersedes = 0 THEN op.target # Log => Target(op) = op.expected
  ELSE IF op.target = Log THEN op.supersedes \in logs
  ELSE EntryOf(Target(op)) = op.supersedes /\ Target(op) = op.expected

\* Mutant: a proposal already approved is not recognised.
ApprovableAgain(p) ==
  /\ p.current_operation # Nothing
  /\ p.status \in Open \cup {"approved"}
  /\ SourcesUnchanged(p)
  /\ TargetUnchanged(p.current_operation)

\* reviewPreviewApprovalEffect says "would_write".
WouldWrite(p) ==
  /\ p.current_operation # Nothing
  /\ p.status \in Open
  /\ SourcesUnchanged(p)
  /\ TargetUnchanged(p.current_operation)

\* One write to memory: writeState or supersedeState (a new row), appendLog or
\* supersedeLog.
Store(by, op, newRow) ==
  LET over  == IF op.target = Log THEN op.supersedes ELSE Target(op)
      entry == IF newRow \/ over = 0 THEN nextRev ELSE EntryOf(over)
      text  == IF op.text = 0 THEN nextRev ELSE op.text
  IN  /\ nextRev <= MaxWrites
      /\ writes' = With(writes, nextRev, [by |-> by, target |-> op.target, text |-> text,
                                          entry |-> entry, over |-> over])
      /\ nextRev' = nextRev + 1
      /\ IF op.target = Log
         THEN logs' = (logs \ {op.supersedes}) \cup {nextRev} /\ UNCHANGED current
         ELSE current' = [current EXCEPT ![op.target] = nextRev] /\ UNCHANGED logs

\* Mutant: the snapshot is taken after the write.
ApprovedSnapshotLate(p) ==
  [p EXCEPT !.status = "approved", !.terminal_at = now, !.applied = nextRev,
            !.prior = nextRev]

Approved(p) ==
  [p EXCEPT !.status = "approved", !.terminal_at = now, !.applied = nextRev,
            !.prior = IF p.current_operation.target = Log
                      THEN TextOf(p.current_operation.supersedes)
                      ELSE TextOf(Target(p.current_operation))]

Superseded(p) == [p EXCEPT !.status = "superseded", !.terminal_at = now]

\* Mutant: the undo is approved whatever became of the original.
CanMarkUnasked(table, u) == TRUE

\* markReviewProposalSuperseded, in the transaction that approves the undo.
\* When the original is no longer approved the handler throws, which rolls
\* back the write to memory as well: no table results.
CanMark(table, u) == table[u].undo_of # 0 => table[table[u].undo_of].status = "approved"

MarkedBy(table, u) ==
  IF table[u].undo_of = 0 THEN table
  ELSE [table EXCEPT ![table[u].undo_of] = Superseded(@)]

\* memory_review approve.  A call that finds a conflict, a duplicate or a
\* closed proposal only prunes: see Prune.
Approve(id) ==
  LET table == Pruned(proposals) IN
  /\ WouldWrite(table[id])
  /\ CanMark(table, id)
  /\ Store(id, table[id].current_operation, table[id].current_operation.supersedes # 0)
  /\ proposals' = [MarkedBy(table, id) EXCEPT ![id] = Approved(@)]
  /\ UNCHANGED <<now, nextProposal>>

\* The write is refused by a validation the model leaves out: a correction
\* dated before the entry it corrects, a classification below its floor.
ApproveFails(id) ==
  LET table == Pruned(proposals) IN
  /\ WouldWrite(table[id])
  /\ proposals' = [table EXCEPT ![id].status = "failed", ![id].terminal_at = now]
  /\ UNCHANGED <<now, nextProposal, current, logs, writes, nextRev>>

-----------------------------------------------------------------------------
(* The other operations *)

\* prepareReviewOperation capturing the preconditions of a reworded operation.
Capture(target) ==
  [target |-> target, text |-> 0, supersedes |-> 0,
   expected |-> IF target = Log THEN 0 ELSE current[target]]

\* createReviewProposal
Created(op, refs, original) ==
  [status |-> "pending", current_operation |-> op, source_refs |-> refs,
   edited |-> FALSE, basis |-> op.expected, applied |-> 0, prior |-> 0,
   undo_of |-> original, expires_at |-> now + ProposalTTL, terminal_at |-> 0,
   purged |-> FALSE]

\* A proposal made later than this could not expire within MaxTime.
CanPropose == nextProposal <= MaxProposals /\ now + ProposalTTL <= MaxTime

\* memory_extract with persist.
Extract(target, refs) ==
  /\ CanPropose
  /\ Cardinality({id \in Ids : proposals[id].undo_of = 0}) < MaxExtracts
  /\ Cardinality(refs) <= SourceRefMax
  /\ proposals' = With(proposals, nextProposal, Created(Capture(target), refs, 0))
  /\ nextProposal' = nextProposal + 1
  /\ UNCHANGED <<now, current, logs, writes, nextRev>>

\* memory_review edit: the sources and the link to an original are kept.
Edit(id, target) ==
  LET table == Pruned(proposals)
      op    == Capture(target) IN
  /\ table[id].status \in Open
  /\ proposals' = [table EXCEPT ![id].status = "edited", ![id].edited = TRUE,
                                ![id].current_operation = op, ![id].basis = op.expected]
  /\ UNCHANGED <<now, nextProposal, current, logs, writes, nextRev>>

\* Mutant: a decline does not ask what became of the proposal.
DeclineAnyway(id) ==
  LET table == Pruned(proposals) IN
  /\ table[id].status # "declined"
  /\ proposals' = [table EXCEPT ![id].status = "declined", ![id].terminal_at = now]
  /\ UNCHANGED <<now, nextProposal, current, logs, writes, nextRev>>

\* memory_review decline.
Decline(id) ==
  LET table == Pruned(proposals) IN
  /\ table[id].status \in Open
  /\ proposals' = [table EXCEPT ![id].status = "declined", ![id].terminal_at = now]
  /\ UNCHANGED <<now, nextProposal, current, logs, writes, nextRev>>

\* The operation prepare_undo builds: a withdrawal of the log entry, or a
\* correction that restores the snapshot taken at approval.
Inverse(p) ==
  LET op == p.current_operation IN
  IF op.target = Log
  THEN [target |-> Log, text |-> 0, expected |-> p.applied, supersedes |-> p.applied]
  ELSE [target |-> op.target, text |-> p.prior, expected |-> p.applied,
        supersedes |-> EntryOf(p.applied)]

Undoable(p) ==
  /\ p.status = "approved" /\ p.applied # 0 /\ p.undo_of = 0
  /\ p.current_operation # Nothing
  /\ IF p.current_operation.target = Log THEN p.applied \in logs
     ELSE p.prior # 0 /\ EntryOf(Target(p.current_operation)) = EntryOf(p.applied)

\* memory_review prepare_undo.  Its only source is the applied entry as it is
\* now, which may have been rewritten in place since.
PrepareUndo(id) ==
  LET table  == Pruned(proposals)
      source == IF table[id].current_operation.target = Log THEN table[id].applied
                ELSE Target(table[id].current_operation) IN
  /\ CanPropose
  /\ Undoable(table[id])
  /\ proposals' = With(table, nextProposal, Created(Inverse(table[id]), {source}, id))
  /\ nextProposal' = nextProposal + 1
  /\ UNCHANGED <<now, current, logs, writes, nextRev>>

\* pruneReviewProposals, every minute, at startup and at the head of every
\* memory_review call but preview.
Prune ==
  /\ proposals' = Pruned(proposals)
  /\ UNCHANGED <<now, nextProposal, current, logs, writes, nextRev>>

\* memory_write of anyone: in place, or as a correction in a row of its own.
MemoryWrite(k, newRow) ==
  /\ Cardinality({rev \in DOMAIN writes : writes[rev].by = 0}) <= MaxOthers
  /\ Store(0, Capture(k), newRow)
  /\ UNCHANGED <<now, proposals, nextProposal>>

\* memory_delete of a state entry.
MemoryDelete(k) ==
  /\ current' = [current EXCEPT ![k] = 0]
  /\ UNCHANGED <<now, proposals, nextProposal, logs, writes, nextRev>>

\* A log entry is deleted, or corrected outside the inbox.
LogGone(rev) ==
  /\ logs' = logs \ {rev}
  /\ UNCHANGED <<now, proposals, nextProposal, current, writes, nextRev>>

Tick ==
  /\ now < MaxTime
  /\ now' = now + 1
  /\ UNCHANGED <<proposals, nextProposal, current, logs, writes, nextRev>>

Init ==
  /\ now = 1
  /\ proposals = [i \in {} |-> Nothing] /\ nextProposal = 1
  /\ current = [k \in Keys |-> IF k = First THEN 1 ELSE 0] /\ logs = {}
  /\ writes = [rev \in {1} |-> [by |-> 0, target |-> First, text |-> 1,
                                entry |-> 1, over |-> 0]]
  /\ nextRev = 2

Next ==
  \/ \E t \in Keys \cup {Log}, refs \in SUBSET CurrentRevs : Extract(t, refs)
  \/ \E id \in Ids, t \in Keys \cup {Log} : Edit(id, t)
  \/ \E id \in Ids : Approve(id)
  \/ \E id \in Ids : ApproveFails(id)
  \/ \E id \in Ids : Decline(id)
  \/ \E id \in Ids : PrepareUndo(id)
  \/ Prune
  \/ \E k \in Keys, newRow \in BOOLEAN : MemoryWrite(k, newRow)
  \/ \E k \in Keys : MemoryDelete(k)
  \/ \E rev \in logs : LogGone(rev)
  \/ Tick

Spec == Init /\ [][Next]_vars

-----------------------------------------------------------------------------
(* Properties *)

TypeOK ==
  /\ now \in Nat
  /\ nextProposal \in Nat \ {0} /\ nextRev \in Nat \ {0}
  /\ Ids = 1 .. nextProposal - 1
  /\ \A id \in Ids : proposals[id] \in Proposal
  /\ DOMAIN writes = 1 .. nextRev - 1
  /\ \A rev \in DOMAIN writes : writes[rev] \in Write
  /\ current \in [Keys -> {0} \cup DOMAIN writes]
  /\ logs \subseteq DOMAIN writes

\* However often and by whomever a proposal is approved, it writes memory once
\* if it ends approved (or superseded by its undo) and never otherwise, and it
\* remembers the write it made (approveReviewProposal).
AppliedOnce ==
  \A id \in Ids :
    {rev \in DOMAIN writes : writes[rev].by = id} =
      IF proposals[id].status \in {"approved", "superseded"}
      THEN {proposals[id].applied} ELSE {}

\* A proposal may wait for thirty days while others write.  When it is approved
\* it replaces the revision it was worded against, or creates an entry that
\* still does not exist: a reviewed write never loses another's.
ReplacesWhatWasReviewed ==
  \A id \in Ids :
    LET p == proposals[id] IN
    p.applied # 0 /\ writes[p.applied].target # Log => writes[p.applied].over = p.basis

\* An approved proposal is superseded by the approval of an undo of it, by one
\* only, and an approved undo always leaves its original superseded, although
\* several undos of it may have been prepared and edited
\* (markReviewProposalSuperseded).
SupersededByOneUndo ==
  \A o \in Ids :
    LET undos == {u \in Ids : proposals[u].undo_of = o /\ proposals[u].status = "approved"}
    IN  IF proposals[o].status = "superseded" THEN \E u \in undos : undos = {u}
        ELSE undos = {}

\* An undo approved as it was prepared lands directly on the write it undoes
\* and puts back the text that write replaced, even if the original's payload
\* has been purged or other undos were prepared in the meantime (prepare_undo).
UndoRestores ==
  \A u \in Ids :
    LET undo == proposals[u] IN
    (undo.undo_of # 0 /\ undo.applied # 0 /\ ~undo.edited) =>
      LET done == proposals[undo.undo_of].applied
      IN  /\ writes[undo.applied].over = done
          /\ writes[done].target # Log =>
               writes[undo.applied].text = TextOf(writes[done].over)

\* What docs/usage-model.md:249-251 says of every undo: approved, it lands on the
\* write it undoes.  The code keeps this of unedited undos only: an edit takes
\* the correction out of the operation and leaves undo_of in place.
ApprovedUndoLandsOnOriginal ==
  \A u \in Ids :
    LET undo == proposals[u] IN
    undo.undo_of # 0 /\ undo.applied # 0 =>
      writes[undo.applied].over = proposals[undo.undo_of].applied

\* A proposal is decided once.  No later call, expiry or purge takes the
\* decision back or changes the write it made; only the approval of an undo
\* turns "approved" into "superseded".
DecidedOnce ==
  [][\A id \in Ids :
       proposals[id].status \notin Open =>
         /\ proposals'[id].applied = proposals[id].applied
         /\ \/ proposals'[id].status = proposals[id].status
            \/ proposals[id].status = "approved" /\ proposals'[id].status = "superseded"]_vars

\* A payload preview no longer shows, because its retention has run out, is
\* never shown again: noticing an expiry late does not restart its retention
\* (the comment in expireProposal).
WithheldStaysWithheld ==
  [][\A id \in Ids : PurgedOrDue(proposals[id]) => PurgedOrDue(proposals[id])']_vars

=============================================================================
