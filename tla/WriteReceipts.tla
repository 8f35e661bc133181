---------------------------- MODULE WriteReceipts ----------------------------
(***************************************************************************)
(* Write recovery on the server: memory_write, memory_log and              *)
(* memory_update_status with an idempotency_key (withWriteReceipt and      *)
(* replayWriteReceipt in src/src/tools.ts, table write_receipts).  The     *)
(* receipt is looked up, the handler run and the receipt stored in one     *)
(* IMMEDIATE transaction, so a request is handled in one step.             *)
(*                                                                         *)
(* An intent is one thing a caller wants written, with the arguments it    *)
(* uses for it every time it asks.  Entries are as much of EntryStore as   *)
(* these tools' answers tell apart; others write them too.                 *)
(***************************************************************************)
EXTENDS Integers, FiniteSets

CONSTANTS
  Intents,      \* what callers want written
  Principals,   \* authenticated principals
  PrincipalOf,  \* on whose behalf an intent is asked
  OperationOf,  \* the tool and arguments of an intent
  Slots,        \* (namespace, key) pairs of state entries
  NoSlot,       \* where a log entry is
  Nobody,       \* the writer of what no intent wrote
  Uuids,        \* idempotency keys
  NoKey,        \* no idempotency_key
  MaxRows,      \* bound on the rows ever inserted
  MaxStamp      \* bound on a row's updated_at

\* A full write, a create_if_absent, a write with expected_updated_at, a log, and
\* any call that writes nothing.
Operation == [kind: {"set", "create", "swap", "append", "read"},
              slot: Slots \cup {NoSlot}, expected: Nat]

ASSUME WriteReceiptsAssumption ==
  /\ PrincipalOf \in [Intents -> Principals]
  /\ OperationOf \in [Intents -> Operation]
  /\ NoSlot \notin Slots /\ NoKey \notin Uuids /\ Nobody \notin Intents
  /\ \A i \in Intents : OperationOf[i].slot = NoSlot <=> OperationOf[i].kind \in {"append", "read"}
  /\ MaxRows \in Nat /\ MaxStamp \in Nat

VARIABLES
  rows,      \* entries: id -> row
  nextId,    \* id of the next row
  receipts,  \* write_receipts: <<principal, key>> -> receipt
  effects    \* per intent, the writes made for it: sets of <<id, updated_at>>

server == <<rows, nextId, receipts, effects>>

-----------------------------------------------------------------------------
(* Data *)

Ids == 1 .. MaxRows
Row == [slot: Slots \cup {NoSlot}, updated_at: Nat, is_current: BOOLEAN,
        writer: Intents \cup {Nobody}]
Effect == Ids \X Nat
Receipt == [operation: Operation, effect: Effect]
Request == [intent: Intents, key: Uuids \cup {NoKey}]

\* What a handler answers: a committed write, or one of three refusals.
Success(effect, replayed, available, changed) ==
  [status |-> "ok", effect |-> effect, replayed |-> replayed,
   entry_available |-> available, entry_changed |-> changed]
Failure(status) ==
  [status |-> status, effect |-> <<0, 0>>, replayed |-> FALSE,
   entry_available |-> FALSE, entry_changed |-> FALSE]
Failures == {Failure(s) : s \in {"refused", "denied", "idempotency_conflict"}}

Current(slot) == {i \in DOMAIN rows : rows[i].slot = slot /\ rows[i].is_current}
Writes(i) == OperationOf[i].kind # "read"

ReceiptOf(request) == <<PrincipalOf[request.intent], request.key>>
HasReceipt(request) == request.key # NoKey /\ ReceiptOf(request) \in DOMAIN receipts

\* Tool, namespace and request_hash of the receipt are those of the request.
SameArguments(request) ==
  receipts[ReceiptOf(request)].operation = OperationOf[request.intent]

-----------------------------------------------------------------------------
(* The handler under the receipt *)

\* The preconditions of the operation, on the rows as they are now.
Accepts(operation) ==
  CASE operation.kind = "create" -> Current(operation.slot) = {}
    [] operation.kind = "swap" ->
         \A i \in Current(operation.slot) : rows[i].updated_at = operation.expected
    [] OTHER -> TRUE

\* Mutant: a rewrite in the millisecond of the last one keeps its stamp.
NextStampSame(i) == rows[i].updated_at

\* nextStateMutationTimestamp moves a row's stamp forward.
NextStamp(i) == rows[i].updated_at + 1

Rewrite(i, writer) ==
  /\ rows[i].updated_at < MaxStamp
  /\ rows' = [rows EXCEPT ![i] = [@ EXCEPT !.updated_at = NextStamp(i), !.writer = writer]]
  /\ UNCHANGED nextId

Insert(slot, writer) ==
  /\ nextId <= MaxRows
  /\ rows' = [i \in DOMAIN rows \cup {nextId} |->
                IF i = nextId THEN [slot |-> slot, updated_at |-> 1, is_current |-> TRUE,
                                    writer |-> writer]
                ELSE rows[i]]
  /\ nextId' = nextId + 1

\* Store the operation; what it wrote is <<id, updated_at>>.
Perform(intent, effect) ==
  LET slot == OperationOf[intent].slot
      found == IF slot = NoSlot THEN {} ELSE Current(slot)
  IN \/ found = {} /\ Insert(slot, intent) /\ effect = <<nextId, 1>>
     \/ \E i \in found : Rewrite(i, intent) /\ effect = <<i, NextStamp(i)>>

\* Mutant: the receipt is written after the commit, if the process gets there.
RecordReceiptLater(request, effect) ==
  \/ UNCHANGED receipts
  \/ request.key # NoKey /\ receipts' = [at \in DOMAIN receipts \cup {ReceiptOf(request)} |->
                    IF at = ReceiptOf(request)
                    THEN [operation |-> OperationOf[request.intent], effect |-> effect]
                    ELSE receipts[at]]

RecordReceipt(request, effect) ==
  IF request.key = NoKey THEN UNCHANGED receipts
  ELSE receipts' = [at \in DOMAIN receipts \cup {ReceiptOf(request)} |->
                      IF at = ReceiptOf(request)
                      THEN [operation |-> OperationOf[request.intent], effect |-> effect]
                      ELSE receipts[at]]

\* The write and its receipt.
Commit(request, answer) ==
  /\ Accepts(OperationOf[request.intent])
  /\ \E effect \in Ids \X (1 .. MaxStamp) :
       /\ Perform(request.intent, effect)
       /\ RecordReceipt(request, effect)
       /\ effects' = [effects EXCEPT ![request.intent] = @ \cup {effect}]
       /\ answer = Success(effect, FALSE, TRUE, FALSE)

\* replayWriteReceipt: the original outcome, and what became of the entry since.
Replayed(effect) ==
  LET id == effect[1]
      available == id \in DOMAIN rows
  IN Success(effect, TRUE, available,
             available /\ (~rows[id].is_current \/ rows[id].updated_at # effect[2]))

Read == Success(<<0, 0>>, FALSE, TRUE, FALSE)
Possible(request) ==
  Failures \cup {Read}
    \cup {Success(effect, FALSE, TRUE, FALSE) : effect \in Ids \X (1 .. MaxStamp)}
    \cup (IF HasReceipt(request) THEN {Replayed(receipts[ReceiptOf(request)].effect)} ELSE {})

\* One request, and its answer.  "denied" stands for what may befall any request
\* and leaves nothing: access is checked before anything else and may have been
\* revoked, and the transaction may not get the lock, receipt or none.  A call
\* without a receipt may also be refused by its own preconditions or by validation.
Handle(request, answer) ==
  \/ answer = Failure("denied") /\ UNCHANGED server
  \/ /\ HasReceipt(request) /\ ~SameArguments(request)
     /\ answer = Failure("idempotency_conflict") /\ UNCHANGED server
  \/ /\ HasReceipt(request) /\ SameArguments(request)
     /\ answer = Replayed(receipts[ReceiptOf(request)].effect) /\ UNCHANGED server
  \/ ~HasReceipt(request) /\ answer = Failure("refused") /\ UNCHANGED server
  \/ ~HasReceipt(request) /\ Writes(request.intent) /\ Commit(request, answer)
  \/ ~Writes(request.intent) /\ answer = Read /\ UNCHANGED server

-----------------------------------------------------------------------------
(* Everyone else who writes the entries (EntryStore) *)

RewriteByOther(i) ==
  /\ rows[i].is_current /\ rows[i].slot # NoSlot
  /\ Rewrite(i, Nobody)
  /\ UNCHANGED <<receipts, effects>>

CreateByOther(slot) ==
  /\ Current(slot) = {}
  /\ Insert(slot, Nobody)
  /\ UNCHANGED <<receipts, effects>>

\* A correction retires the row, whose updated_at stays.
CorrectByOther(i) ==
  /\ rows[i].is_current /\ nextId <= MaxRows
  /\ rows' = [j \in DOMAIN rows \cup {nextId} |->
                IF j = nextId THEN [slot |-> rows[i].slot, updated_at |-> 1,
                                    is_current |-> TRUE, writer |-> Nobody]
                ELSE IF j = i THEN [rows[i] EXCEPT !.is_current = FALSE]
                ELSE rows[j]]
  /\ nextId' = nextId + 1
  /\ UNCHANGED <<receipts, effects>>

\* A delete takes a key's whole history.  Receipts stay.
DeleteByOther(slot) ==
  /\ Current(slot) # {}
  /\ rows' = [i \in {j \in DOMAIN rows : rows[j].slot # slot} |-> rows[i]]
  /\ UNCHANGED <<nextId, receipts, effects>>

OtherWrites ==
  \/ \E i \in DOMAIN rows : RewriteByOther(i) \/ CorrectByOther(i)
  \/ \E slot \in Slots : CreateByOther(slot) \/ DeleteByOther(slot)

ServerInit ==
  /\ rows = [i \in {} |-> 0] /\ nextId = 1
  /\ receipts = [at \in {} |-> 0]
  /\ effects = [i \in Intents |-> {}]

ServerTypeOK ==
  /\ nextId \in 1 .. MaxRows + 1
  /\ DOMAIN rows \subseteq 1 .. nextId - 1
  /\ rows \in [DOMAIN rows -> Row]
  /\ DOMAIN receipts \subseteq Principals \X Uuids
  /\ receipts \in [DOMAIN receipts -> Receipt]
  /\ effects \in [Intents -> SUBSET Effect]

=============================================================================
