------------------------- MODULE BridgedWritesProofs -------------------------
(* Theorems about the writes of any number of callers through the bridge. *)
EXTENDS BridgedWrites, FiniteSetTheorems, TLAPS

-----------------------------------------------------------------------------
(* The inductive invariant *)

\* The messages on their way to the server, or being sent.
Sent == {r.message : r \in requests} \cup ({message} \ {NoMessage})
SentFor(i) == {m \in Sent : m.intent = i}

\* The keys of an intent: the one its caller knows, and those it was sent under.
Carries(i, k) == held[i] = k \/ \E m \in SentFor(i) : m.key = k

\* The bridge waits for one exchange at a time, and that is one of its message.
Sending ==
  /\ IsFiniteSet(requests)
  /\ phase = "idle" <=> message = NoMessage
  /\ attempt # 0 <=> phase = "waiting"
  /\ \A r \in requests : r.attempt # 0 /\ (r.attempt = attempt => r.message = message)

\* A call is in one place: in the queue, or being sent.
Queued ==
  /\ message # NoMessage => asked[message.intent] = "calling"
  /\ \A n \in DOMAIN queue :
       /\ asked[queue[n].intent] = "calling" /\ queue[n].intent # message.intent
       /\ queue[n].key = held[queue[n].intent]
       /\ \A l \in DOMAIN queue : queue[l].intent = queue[n].intent => l = n
  /\ \A i \in Intents : asked[i] = "idle" =>
       held[i] = NoKey /\ SentFor(i) = {} /\ effects[i] = {}

\* Whatever is sent for an intent has one key: the one its caller knows, or one
\* that the bridge added and nobody else has.
Keyed ==
  /\ \A i \in Intents : \A m, n \in SentFor(i) : m.key = n.key
  /\ \A i \in Intents : \A m \in SentFor(i) : m.key # held[i] =>
       /\ held[i] = NoKey
       /\ \A j \in Intents : held[j] # m.key /\ (Carries(j, m.key) => j = i)
  /\ \A i \in Intents : \A k \in Uuids : Carries(i, k) =>
       /\ k \in used /\ Writes(i)
       /\ \A j \in Intents : Carries(j, k) /\ OperationOf[j] = OperationOf[i] => j = i

\* A receipt belongs to an intent that still has its key, or nobody else does.
Owns(i, at) ==
  /\ PrincipalOf[i] = at[1] /\ OperationOf[i] = receipts[at].operation
  /\ effects[i] = {receipts[at].effect}
  /\ held[i] = at[2] \/ \A j \in Intents : held[j] # at[2] /\ (Carries(j, at[2]) => j = i)

Receipted ==
  /\ \A at \in DOMAIN receipts : at[2] \in used /\ \E i \in Intents : Owns(i, at)
  /\ \A i \in Intents : \A k \in Uuids : Carries(i, k) /\ effects[i] # {} =>
       /\ <<PrincipalOf[i], k>> \in DOMAIN receipts
       /\ receipts[<<PrincipalOf[i], k>>].operation = OperationOf[i]

\* A write without a key is in one place only, until it is made.
Unkeyed ==
  /\ \A r \in requests : r.message.key = NoKey /\ Writes(r.message.intent) =>
       /\ effects[r.message.intent] = {}
       /\ \A q \in requests : q.message.intent = r.message.intent => q = r
       /\ r.message = message => r.attempt = attempt
  /\ \A n \in DOMAIN queue : queue[n].key = NoKey /\ Writes(queue[n].intent) =>
       effects[queue[n].intent] = {} /\ \A m \in Sent : m.intent # queue[n].intent
  /\ message.key = NoKey /\ message # NoMessage /\ Writes(message.intent) =>
       \/ phase = "waiting" /\ \A r \in replies : r.kind = "answer"
       \/ effects[message.intent] = {} /\ \A r \in requests : r.message.intent # message.intent

\* The row of a write is gone, or still shows it, or has moved on.
Shown(i, e) ==
  /\ e \in Ids \X (1 .. MaxStamp) /\ e[1] < nextId
  /\ e[1] \in DOMAIN rows =>
       \/ e[2] < rows[e[1]].updated_at
       \/ e[2] = rows[e[1]].updated_at /\ rows[e[1]].writer = i

\* What is done was done once, for something that writes.
Effected ==
  \A i \in Intents :
    /\ ~Writes(i) => effects[i] = {}
    /\ \A e, f \in effects[i] : e = f
    /\ \A e \in effects[i] : Shown(i, e)

\* A reply of success names the write that was made.
Answered ==
  \A r \in replies : r.kind = "answer" /\ r.answer.status = "ok" /\ Writes(message.intent) =>
    effects[message.intent] = {r.answer.effect}

IInv ==
  /\ TypeOK /\ Sending /\ Queued /\ Keyed
  /\ Receipted /\ Unkeyed /\ Effected /\ Answered

-----------------------------------------------------------------------------
(* What the server does to its tables *)

\* Rows are added under new ids, removed, or rewritten under a later stamp.
RowsAdvance ==
  /\ nextId <= nextId'
  /\ \A id \in DOMAIN rows' :
       \/ id = nextId /\ nextId < nextId'
       \/ /\ id \in DOMAIN rows
          /\ \/ rows[id].updated_at < rows'[id].updated_at
             \/ rows'[id].updated_at = rows[id].updated_at /\ rows'[id].writer = rows[id].writer

\* The tables of entries keep their types.
RowsType ==
  /\ nextId \in 1 .. MaxRows + 1
  /\ DOMAIN rows \subseteq 1 .. nextId - 1
  /\ rows \in [DOMAIN rows -> Row]

LEMMA InsertEffect ==
  ASSUME RowsType, NEW slot \in Slots \cup {NoSlot}, NEW writer \in Intents \cup {Nobody},
         Insert(slot, writer)
  PROVE  /\ RowsType' /\ RowsAdvance /\ nextId \in Ids
         /\ nextId \in DOMAIN rows' /\ nextId < nextId'
         /\ rows'[nextId].updated_at = 1 /\ rows'[nextId].writer = writer
         /\ rows'[nextId].is_current = TRUE
<1> DEFINE row == [slot |-> slot, updated_at |-> 1, is_current |-> TRUE, writer |-> writer]
<1>1. row \in Row
  BY DEF Row
<1>2. row.updated_at = 1 /\ row.writer = writer /\ row.is_current = TRUE
  OBVIOUS
<1>3. /\ nextId <= MaxRows /\ nextId' = nextId + 1
      /\ rows' = [i \in DOMAIN rows \cup {nextId} |-> IF i = nextId THEN row ELSE rows[i]]
  BY DEF Insert
<1> HIDE DEF row
<1>4. nextId \in Nat /\ MaxRows \in Nat /\ nextId >= 1 /\ nextId \notin DOMAIN rows
  BY WriteReceiptsAssumption DEF RowsType
<1>5. /\ DOMAIN rows' = DOMAIN rows \cup {nextId} /\ rows'[nextId] = row
      /\ \A i \in DOMAIN rows : rows'[i] = rows[i]
  BY <1>3, <1>4
<1>6. RowsType'
  BY <1>1, <1>3, <1>4, <1>5 DEF RowsType
<1>7. RowsAdvance
  BY <1>3, <1>4, <1>5 DEF RowsAdvance
<1> QED
  BY <1>2, <1>3, <1>4, <1>5, <1>6, <1>7 DEF Ids

LEMMA RewriteEffect ==
  ASSUME RowsType, NEW i \in DOMAIN rows, NEW writer \in Intents \cup {Nobody},
         Rewrite(i, writer)
  PROVE  /\ RowsType' /\ RowsAdvance /\ nextId' = nextId
         /\ i \in DOMAIN rows' /\ i < nextId'
         /\ rows'[i].updated_at = NextStamp(i) /\ rows'[i].writer = writer
         /\ rows'[i].is_current = rows[i].is_current
<1> DEFINE row == [rows[i] EXCEPT !.updated_at = NextStamp(i), !.writer = writer]
<1>1. rows[i] \in Row /\ i \in 1 .. nextId - 1 /\ nextId \in Nat
  BY DEF RowsType
<1>2. rows[i].updated_at \in Nat /\ NextStamp(i) \in Nat /\ NextStamp(i) > rows[i].updated_at
  BY <1>1 DEF Row, NextStamp
<1>3. /\ row \in Row /\ row.updated_at = NextStamp(i) /\ row.writer = writer
      /\ row.is_current = rows[i].is_current
  BY <1>1, <1>2 DEF Row
<1>4. rows' = [rows EXCEPT ![i] = row] /\ nextId' = nextId
  BY DEF Rewrite
<1> HIDE DEF row
<1>5. /\ DOMAIN rows' = DOMAIN rows /\ rows'[i] = row
      /\ \A j \in DOMAIN rows : j # i => rows'[j] = rows[j]
  BY <1>4 DEF RowsType
<1>6. RowsType'
  BY <1>3, <1>4, <1>5 DEF RowsType
<1>7. RowsAdvance
  BY <1>1, <1>2, <1>3, <1>4, <1>5 DEF RowsAdvance
<1> QED
  BY <1>1, <1>3, <1>4, <1>5, <1>6, <1>7

\* The write of an intent leaves a current row of its own, as the effect says.
LEMMA PerformEffect ==
  ASSUME RowsType, NEW intent \in Intents, NEW effect \in Ids \X (1 .. MaxStamp),
         Perform(intent, effect)
  PROVE  /\ RowsType' /\ RowsAdvance /\ effect[1] < nextId'
         /\ effect[1] \in DOMAIN rows' /\ rows'[effect[1]].is_current
         /\ rows'[effect[1]].updated_at = effect[2] /\ rows'[effect[1]].writer = intent
<1> DEFINE slot == OperationOf[intent].slot
           found == IF slot = NoSlot THEN {} ELSE Current(slot)
<1>1. slot \in Slots \cup {NoSlot}
  BY WriteReceiptsAssumption DEF Operation
<1>2. CASE Insert(slot, intent) /\ effect = <<nextId, 1>>
  <2>1. effect[1] = nextId /\ effect[2] = 1
    BY <1>2
  <2> QED
    BY <1>1, <1>2, <2>1, InsertEffect
<1>3. ASSUME NEW i \in found, Rewrite(i, intent), effect = <<i, NextStamp(i)>>
      PROVE  /\ RowsType' /\ RowsAdvance /\ effect[1] < nextId'
             /\ effect[1] \in DOMAIN rows' /\ rows'[effect[1]].is_current
             /\ rows'[effect[1]].updated_at = effect[2] /\ rows'[effect[1]].writer = intent
  <2>1. i \in DOMAIN rows /\ rows[i].is_current
    BY DEF Current
  <2>2. effect[1] = i /\ effect[2] = NextStamp(i)
    BY <1>3
  <2> QED
    BY <1>3, <2>1, <2>2, RewriteEffect
<1> QED
  BY <1>2, <1>3 DEF Perform

LEMMA OtherWritesEffect ==
  ASSUME RowsType, OtherWrites
  PROVE  RowsType' /\ RowsAdvance /\ UNCHANGED <<receipts, effects>>
<1>1. ASSUME NEW i \in DOMAIN rows, RewriteByOther(i)
      PROVE  RowsType' /\ RowsAdvance /\ UNCHANGED <<receipts, effects>>
  BY <1>1, RewriteEffect DEF RewriteByOther
<1>2. ASSUME NEW slot \in Slots, CreateByOther(slot)
      PROVE  RowsType' /\ RowsAdvance /\ UNCHANGED <<receipts, effects>>
  BY <1>2, InsertEffect DEF CreateByOther
<1>3. ASSUME NEW slot \in Slots, DeleteByOther(slot)
      PROVE  RowsType' /\ RowsAdvance /\ UNCHANGED <<receipts, effects>>
  BY <1>3 DEF DeleteByOther, RowsType, RowsAdvance
<1>4. ASSUME NEW i \in DOMAIN rows, CorrectByOther(i)
      PROVE  RowsType' /\ RowsAdvance /\ UNCHANGED <<receipts, effects>>
  <2> DEFINE row == [slot |-> rows[i].slot, updated_at |-> 1, is_current |-> TRUE,
                     writer |-> Nobody]
             retired == [rows[i] EXCEPT !.is_current = FALSE]
  <2>1. rows[i] \in Row /\ nextId \in Nat /\ MaxRows \in Nat /\ nextId \notin DOMAIN rows
    BY WriteReceiptsAssumption DEF RowsType
  <2>2. /\ row \in Row /\ retired \in Row
        /\ retired.updated_at = rows[i].updated_at /\ retired.writer = rows[i].writer
    BY <2>1 DEF Row
  <2>3. /\ rows' = [j \in DOMAIN rows \cup {nextId} |->
                      IF j = nextId THEN row ELSE IF j = i THEN retired ELSE rows[j]]
        /\ nextId <= MaxRows /\ nextId' = nextId + 1
    BY <1>4 DEF CorrectByOther
  <2> HIDE DEF row, retired
  <2>4. /\ DOMAIN rows' = DOMAIN rows \cup {nextId} /\ rows'[nextId] = row /\ rows'[i] = retired
        /\ \A j \in DOMAIN rows : j # i => rows'[j] = rows[j]
    BY <2>1, <2>3
  <2>5. RowsType'
    BY <2>1, <2>2, <2>3, <2>4 DEF RowsType
  <2>6. RowsAdvance
    BY <2>1, <2>2, <2>3, <2>4 DEF RowsAdvance, RowsType
  <2> QED
    BY <1>4, <2>5, <2>6 DEF CorrectByOther
<1> QED
  BY <1>1, <1>2, <1>3, <1>4 DEF OtherWrites

\* What an answer that did not write tells is what was written.
Tells(request, answer) ==
  answer.status = "ok" /\ Writes(request.intent) =>
    /\ HasReceipt(request) /\ SameArguments(request)
    /\ answer = Replayed(receipts[ReceiptOf(request)].effect)

\* A request is answered out of what is stored, or by one new write.
LEMMA HandleEffect ==
  ASSUME ServerTypeOK, NEW request \in Request, NEW answer, Handle(request, answer)
  PROVE  \/ UNCHANGED server /\ Tells(request, answer)
         \/ /\ Writes(request.intent) /\ ~HasReceipt(request)
            /\ \E effect \in Ids \X (1 .. MaxStamp) :
                 /\ Perform(request.intent, effect)
                 /\ RecordReceipt(request, effect)
                 /\ effects' = [effects EXCEPT ![request.intent] = @ \cup {effect}]
                 /\ answer = Success(effect, FALSE, TRUE, FALSE)
<1>1. \A s \in {"refused", "denied", "idempotency_conflict"} : Failure(s).status = s
  BY DEF Failure
<1> QED
  BY <1>1 DEF Handle, Tells, Commit

-----------------------------------------------------------------------------
(* The bridge at work *)

\* A number for an exchange that no request on its way has.
LEMMA NewAttemptIsNew ==
  ASSUME TypeOK, IsFiniteSet(requests)
  PROVE  NewAttempt \in Nat \ {0} /\ \A r \in requests : r.attempt # NewAttempt
<1> DEFINE top == Cardinality(requests) + 1
           by == [n \in 1 .. top |-> CHOOSE r \in requests : r.attempt = n]
<1>1. top \in Nat /\ IsFiniteSet(1 .. top) /\ Cardinality(1 .. top) = top
  <2>1. Cardinality(requests) \in Nat
    BY FS_CardinalityType
  <2>2. top \in Nat /\ top >= 1
    BY <2>1
  <2> HIDE DEF top
  <2>3. IsFiniteSet(1 .. top) /\ Cardinality(1 .. top) = top - 1 + 1
    BY <2>2, FS_Interval
  <2> QED
    BY <2>2, <2>3
<1>2. \E n \in 1 .. top : \A r \in requests : r.attempt # n
  <2> SUFFICES ASSUME \A n \in 1 .. top : \E r \in requests : r.attempt = n
               PROVE  FALSE
    OBVIOUS
  <2>1. \A n \in 1 .. top : by[n] \in requests /\ by[n].attempt = n
    OBVIOUS
  <2>2. by \in [1 .. top -> requests]
    BY <2>1
  <2>3. Cardinality(requests) < Cardinality(1 .. top)
    BY <1>1, FS_CardinalityType
  <2> HIDE DEF top, by
  <2>4. \E n, l \in 1 .. top : n # l /\ by[n] = by[l]
    BY <1>1, <2>2, <2>3, FS_PigeonHole
  <2> QED
    BY <2>1, <2>4
<1> QED
  BY <1>1, <1>2 DEF NewAttempt

\* A message that is being sent is a request of an intent.
LEMMA MessageType ==
  ASSUME TypeOK
  PROVE  /\ message # NoMessage => message \in Request
         /\ \A m \in Sent : m \in Request /\ m.intent \in Intents /\ m.key \in Uuids \cup {NoKey}
         /\ NoMessage.intent \notin Intents /\ NoMessage.key = NoKey
BY WriteReceiptsAssumption DEF TypeOK, Sent, Request, NoMessage

LEMMA QueueType ==
  ASSUME TypeOK
  PROVE  \A n \in DOMAIN queue : queue[n] \in Request /\ queue[n].intent \in Intents
<1>1. queue \in Seq(Request)
  BY DEF TypeOK
<1>2. \A n \in DOMAIN queue : queue[n] \in Request
  BY <1>1
<1> QED
  BY <1>2 DEF Request

\* Messages of one intent have one key.
LEMMA OneKey ==
  ASSUME TypeOK, Keyed
  PROVE  \A m, n \in Sent : m.intent = n.intent => m.key = n.key
BY MessageType DEF Keyed, SentFor

\* The keys of an intent are those of its messages that are left.
LEMMA FewerKeys ==
  ASSUME Sent' \subseteq Sent
  PROVE  /\ \A i \in Intents : \A m \in SentFor(i)' : m \in SentFor(i)
         /\ \A i \in Intents : \A k : Carries(i, k)' => held'[i] = k \/ Carries(i, k)
BY DEF SentFor, Carries

\* A message that is gone, or sent again, changes nothing about keys.
LEMMA FewerSent ==
  ASSUME Keyed, Receipted, Sent' \subseteq Sent, UNCHANGED <<held, receipts, effects, used>>
  PROVE  Keyed' /\ Receipted'
<1>1. \A i \in Intents : \A m \in SentFor(i)' : m \in SentFor(i)
  BY FewerKeys
<1>2. \A i \in Intents : \A k : Carries(i, k)' => Carries(i, k)
  BY FewerKeys DEF Carries
<1>3. Keyed'
  BY <1>1, <1>2 DEF Keyed
<1>4. Receipted'
  <2>1. \A at \in DOMAIN receipts : \A i \in Intents : Owns(i, at) => Owns(i, at)'
    BY <1>2 DEF Owns
  <2> QED
    BY <1>2, <2>1 DEF Receipted
<1> QED
  BY <1>3, <1>4

\* What ends an exchange and does not end the message.
LEMMA HangUpKeeps ==
  ASSUME IInv, message # NoMessage,
         ReadOnly(message) \/ \E r \in replies : r.kind # "answer",
         phase' \in {"backoff", "expired"}, HangUp,
         retries' \in [{"throttled", "network"} -> Nat],
         UNCHANGED <<server, caller, queue, message, reconnected, supports, exits, requests>>
  PROVE  IInv'
<1> USE DEF server, caller
<1>1. attempt' = 0 /\ replies' = {} /\ phase' \notin {"idle", "waiting"} /\ phase' \in Phases
  BY DEF HangUp, Phases
<1>2. TypeOK'
  BY <1>1 DEF IInv, TypeOK, ServerTypeOK
<1>3. Sending'
  BY <1>1 DEF IInv, TypeOK, Sending
<1>4. Sent' = Sent
  BY DEF Sent
<1>5. Queued'
  BY DEF IInv, Queued, SentFor, Sent
<1>6. Keyed' /\ Receipted'
  BY <1>4, FewerSent DEF IInv
<1>7. Unkeyed'
  <2>1. message.key = NoKey /\ Writes(message.intent) =>
          effects[message.intent] = {} /\ \A r \in requests : r.message.intent # message.intent
    BY DEF IInv, Unkeyed, ReadOnly
  <2>2. \A r \in requests : r.message.key = NoKey /\ Writes(r.message.intent) => r.message # message
    BY <2>1
  <2> QED
    BY <1>1, <1>4, <2>1, <2>2 DEF IInv, Unkeyed, SentFor
<1>8. Effected' /\ Answered'
  BY <1>1 DEF IInv, Effected, Shown, Answered, Writes
<1> QED
  BY <1>2, <1>3, <1>5, <1>6, <1>7, <1>8 DEF IInv

\* The message goes out again, under a new number.
LEMMA ExchangeKeeps ==
  ASSUME IInv, phase \in {"backoff", "expired"}, Exchange(message),
         reconnected' \in BOOLEAN, supports' \in BOOLEAN,
         retries' \in [{"throttled", "network"} -> Nat],
         UNCHANGED <<server, caller, queue, message, exits, replies>>
  PROVE  IInv'
<1> USE DEF server, caller
<1> DEFINE sent == [attempt |-> NewAttempt, message |-> message]
<1>1. message # NoMessage /\ replies = {} /\ attempt = 0
  BY DEF IInv, TypeOK, Sending
<1>2. NewAttempt \in Nat \ {0} /\ \A r \in requests : r.attempt # NewAttempt
  BY NewAttemptIsNew DEF IInv, Sending
<1>3. /\ attempt' = NewAttempt /\ requests' = requests \cup {sent} /\ phase' = "waiting"
      /\ sent.attempt = NewAttempt /\ sent.message = message
  BY DEF Exchange
<1>4. sent \in [attempt: Nat, message: Request]
  BY <1>1, <1>2, MessageType DEF IInv
<1> HIDE DEF sent
<1>5. TypeOK'
  BY <1>1, <1>2, <1>3, <1>4 DEF IInv, TypeOK, ServerTypeOK, Phases
<1>6. Sending'
  <2>1. IsFiniteSet(requests')
    BY <1>3, FS_AddElement DEF IInv, Sending
  <2> QED
    BY <1>1, <1>2, <1>3, <2>1 DEF IInv, Sending
<1>7. Sent' = Sent
  BY <1>1, <1>3 DEF Sent
<1>8. Queued'
  BY <1>7 DEF IInv, Queued, SentFor
<1>9. Keyed' /\ Receipted'
  BY <1>7, FewerSent DEF IInv
<1>10. Unkeyed'
  <2>1. message.key = NoKey /\ Writes(message.intent) =>
          effects[message.intent] = {} /\ \A r \in requests : r.message.intent # message.intent
    BY <1>1 DEF IInv, Unkeyed
  <2>5. \A r \in requests : r.message.intent = message.intent => r.message.key = message.key
    BY <1>1, OneKey DEF IInv, Sent
  <2>2. \A r \in requests' : r.message.key = NoKey /\ Writes(r.message.intent) =>
          /\ effects[r.message.intent] = {}
          /\ \A q \in requests' : q.message.intent = r.message.intent => q = r
          /\ r.message = message => r.attempt = NewAttempt
    BY <1>3, <2>1, <2>5 DEF IInv, Unkeyed
  <2>3. \A n \in DOMAIN queue : queue[n].key = NoKey /\ Writes(queue[n].intent) =>
          effects[queue[n].intent] = {} /\ \A m \in Sent' : m.intent # queue[n].intent
    BY <1>7 DEF IInv, Unkeyed
  <2>4. phase' = "waiting" /\ \A r \in replies' : r.kind = "answer"
    BY <1>1, <1>3
  <2> QED
    BY <1>3, <2>2, <2>3, <2>4 DEF Unkeyed, Writes
<1>11. Effected' /\ Answered'
  BY <1>1 DEF IInv, Effected, Shown, Answered, Writes
<1> QED
  BY <1>5, <1>6, <1>8, <1>9, <1>10, <1>11 DEF IInv

LEMMA HeadAndTail ==
  ASSUME NEW S, NEW q \in Seq(S), q # <<>>
  PROVE  /\ Head(q) = q[1] /\ 1 \in DOMAIN q /\ q[1] \in S /\ Tail(q) \in Seq(S)
         /\ \A n \in DOMAIN Tail(q) : n + 1 \in DOMAIN q /\ n + 1 # 1 /\ Tail(q)[n] = q[n + 1]
         /\ \A n \in DOMAIN Tail(q), l \in DOMAIN Tail(q) : n + 1 = l + 1 => n = l
OBVIOUS

LEMMA AppendEnd ==
  ASSUME NEW S, NEW q \in Seq(S), NEW e \in S
  PROVE  /\ Append(q, e) \in Seq(S)
         /\ \A n \in DOMAIN Append(q, e) :
              \/ n \in DOMAIN q /\ Append(q, e)[n] = q[n]
              \/ n = Len(q) + 1 /\ n \notin DOMAIN q /\ Append(q, e)[n] = e
OBVIOUS

\* The next message is sent, under the key it has or one nobody has.
LEMMA SendNextKeeps ==
  ASSUME IInv, SendNext
  PROVE  IInv'
<1> USE DEF server, caller
<1> DEFINE head == queue[1]
           sent == [attempt |-> NewAttempt, message |-> message']
<1>1. message = NoMessage /\ replies = {} /\ attempt = 0 /\ queue \in Seq(Request) /\ queue # <<>>
  BY DEF IInv, TypeOK, Sending, SendNext
<1>2. NewAttempt \in Nat \ {0} /\ \A r \in requests : r.attempt # NewAttempt
  BY NewAttemptIsNew DEF IInv, Sending
<1>0. PICK i : i = head.intent
  OBVIOUS
<1>3. /\ Head(queue) = head /\ 1 \in DOMAIN queue /\ head \in Request /\ queue' \in Seq(Request)
      /\ \A n \in DOMAIN queue' :
           n + 1 \in DOMAIN queue /\ n + 1 # 1 /\ queue'[n] = queue[n + 1]
      /\ \A n \in DOMAIN queue', l \in DOMAIN queue' : n + 1 = l + 1 => n = l
  BY <1>1, HeadAndTail DEF SendNext
<1>4. PICK key \in Uuids \cup {NoKey} :
        /\ Prepared(Head(queue), key) /\ message' = [Head(queue) EXCEPT !.key = key]
        /\ used' = used \cup ({key} \ {NoKey}) /\ Exchange(message')
  BY DEF SendNext
<1>5. /\ i \in Intents /\ message'.intent = i /\ message'.key = key /\ message' \in Request
      /\ message' # NoMessage
  BY <1>0, <1>3, <1>4, WriteReceiptsAssumption DEF Request, NoMessage
<1>6. /\ attempt' = NewAttempt /\ requests' = requests \cup {sent} /\ phase' = "waiting"
      /\ sent.attempt = NewAttempt /\ sent.message = message'
  BY <1>4 DEF Exchange
<1>7. sent \in [attempt: Nat, message: Request]
  BY <1>2, <1>5
<1>8. UNCHANGED <<server, asked, held, calls, told, supports, exits, replies>>
      /\ reconnected' = FALSE /\ retries' = NoRetries
  BY DEF SendNext
<1>9. asked[i] = "calling" /\ head.key = held[i]
  BY <1>0, <1>3 DEF IInv, Queued
<1>10. \/ key = head.key /\ (key = NoKey /\ Writes(i) => SentFor(i) = {} /\ effects[i] = {})
       \/ /\ key \in Uuids \ used /\ held[i] = NoKey /\ Writes(i)
          /\ SentFor(i) = {} /\ effects[i] = {}
  <2>1. head.key = NoKey /\ Writes(i) => SentFor(i) = {} /\ effects[i] = {}
    BY <1>0, <1>3 DEF IInv, Unkeyed, SentFor
  <2> QED
    BY <1>0, <1>3, <1>4, <1>9, <2>1 DEF Prepared, ReadOnly
<1> HIDE DEF head, sent
<1>11. TypeOK'
  <2>1. NoRetries \in [{"throttled", "network"} -> Nat]
    BY DEF NoRetries
  <2> QED
    BY <1>1, <1>2, <1>3, <1>4, <1>5, <1>6, <1>7, <1>8, <2>1 DEF IInv, TypeOK, ServerTypeOK, Phases
<1>12. Sending'
  <2>1. IsFiniteSet(requests')
    BY <1>6, FS_AddElement DEF IInv, Sending
  <2> QED
    BY <1>1, <1>2, <1>5, <1>6, <2>1 DEF IInv, Sending
<1>13. Sent' = Sent \cup {message'}
  BY <1>1, <1>5, <1>6 DEF Sent
<1>14. /\ \A j \in Intents : \A m \in SentFor(j)' : m \in SentFor(j) \/ (j = i /\ m = message')
       /\ \A j \in Intents : j # i => SentFor(j)' = SentFor(j)
       /\ SentFor(i)' = SentFor(i) \cup {message'}
  BY <1>5, <1>13 DEF SentFor
<1>15. \A j \in Intents : \A k : Carries(j, k)' <=> (Carries(j, k) \/ (j = i /\ k = key))
  BY <1>5, <1>8, <1>14 DEF Carries
<1>16. Queued'
  <2>1. \A n \in DOMAIN queue' : queue'[n].intent # i
    BY <1>0, <1>3 DEF IInv, Queued, head
  <2>2. \A n \in DOMAIN queue' :
         /\ asked'[queue'[n].intent] = "calling"
         /\ queue'[n].key = held'[queue'[n].intent]
         /\ \A l \in DOMAIN queue' : queue'[l].intent = queue'[n].intent => l = n
    BY <1>3, <1>8 DEF IInv, Queued
  <2>3. \A j \in Intents : asked'[j] = "idle" =>
          held'[j] = NoKey /\ SentFor(j)' = {} /\ effects'[j] = {}
    BY <1>8, <1>9, <1>14 DEF IInv, Queued
  <2> QED
    BY <1>5, <1>8, <1>9, <2>1, <2>2, <2>3 DEF Queued
<1>17. key = held[i] \/ (key \notin used /\ key \in Uuids /\ held[i] = NoKey /\ Writes(i) /\ SentFor(i) = {})
  BY <1>9, <1>10
<1>18. \A j \in Intents : held[j] \in Uuids => held[j] \in used
  BY DEF IInv, Keyed, Carries
<1>19. \A j \in Intents : \A k \in Uuids : Carries(j, k) => k \in used
  BY DEF IInv, Keyed
<1>20. Keyed'
  <2>1. \A j \in Intents : \A m, n \in SentFor(j)' : m.key = n.key
    <3>1. \A m \in SentFor(i) : m.key = key
      <4>1. CASE key = NoKey /\ ~Writes(i)
        <5>1. \A m \in SentFor(i) : Carries(i, m.key) /\ m.key \in Uuids \cup {NoKey}
          BY MessageType DEF IInv, Carries, SentFor
        <5> QED
          BY <1>5, <4>1, <5>1 DEF IInv, Keyed
      <4>2. CASE key # NoKey /\ key = held[i]
        BY <1>5, <4>2 DEF IInv, Keyed
      <4> QED
        BY <1>9, <1>10, <4>1, <4>2
    <3> QED
      BY <1>5, <1>14, <3>1 DEF IInv, Keyed
  <2>2. \A j \in Intents : \A m \in SentFor(j)' : m.key # held'[j] =>
          /\ held'[j] = NoKey
          /\ \A l \in Intents : held'[l] # m.key /\ (Carries(l, m.key)' => l = j)
    <3>1. ASSUME NEW j \in Intents, NEW m \in SentFor(j)', m.key # held'[j], m \in SentFor(j)
          PROVE  /\ held'[j] = NoKey
                 /\ \A l \in Intents : held'[l] # m.key /\ (Carries(l, m.key)' => l = j)
      <4>1. /\ held[j] = NoKey
            /\ \A l \in Intents : held[l] # m.key /\ (Carries(l, m.key) => l = j)
        BY <1>8, <3>1 DEF IInv, Keyed
      <4>2. Carries(j, m.key) /\ m.key \in Uuids
        BY <1>8, <3>1, <4>1, MessageType DEF IInv, Carries, SentFor
      <4> QED
        BY <1>8, <1>15, <1>17, <1>19, <4>1, <4>2
    <3>2. ASSUME key # held[i]
          PROVE  /\ held[i] = NoKey
                 /\ \A l \in Intents : held[l] # key /\ (Carries(l, key)' => l = i)
      BY <1>15, <1>17, <1>18, <1>19, <3>2
    <3> QED
      BY <1>5, <1>8, <1>14, <3>1, <3>2
  <2>3. \A j \in Intents : \A k \in Uuids : Carries(j, k)' =>
          /\ k \in used' /\ Writes(j)
          /\ \A l \in Intents : Carries(l, k)' /\ OperationOf[l] = OperationOf[j] => l = j
    <3>1. \/ Carries(i, key)
          \/ key \in Uuids \ used /\ Writes(i) /\ \A l \in Intents : ~Carries(l, key)
      BY <1>17, <1>19 DEF Carries
    <3>2. \A k \in Uuids : k \in used \/ k = key => k \in used'
      BY <1>4, WriteReceiptsAssumption
    <3>3. CASE Carries(i, key)
      BY <1>15, <3>2, <3>3 DEF IInv, Keyed
    <3>4. CASE key \in Uuids \ used /\ Writes(i) /\ \A l \in Intents : ~Carries(l, key)
      BY <1>15, <3>2, <3>4 DEF IInv, Keyed
    <3> QED
      BY <3>1, <3>3, <3>4
  <2> QED
    BY <2>1, <2>2, <2>3 DEF Keyed, Writes
<1>21. Receipted'
  <2>1. \A at \in DOMAIN receipts : at[2] \in Uuids /\ at[2] \in used
    BY DEF IInv, TypeOK, ServerTypeOK, Receipted
  <2>2. ASSUME NEW at \in DOMAIN receipts, NEW j \in Intents, Owns(j, at)
        PROVE  Owns(j, at)'
    <3>1. at[2] \in used /\ \A l \in Intents : held'[l] = held[l]
      BY <1>8, <2>1
    <3>2. \A l \in Intents : Carries(l, at[2])' => Carries(l, at[2]) \/ (l = i /\ at[2] = held[i])
      BY <1>5, <1>15, <1>17, <3>1
    <3> QED
      BY <1>8, <2>2, <3>1, <3>2 DEF Owns
  <2>3. \A j \in Intents : \A k \in Uuids : Carries(j, k)' /\ effects[j] # {} =>
          /\ <<PrincipalOf[j], k>> \in DOMAIN receipts
          /\ receipts[<<PrincipalOf[j], k>>].operation = OperationOf[j]
    <3>1. effects[i] # {} /\ key \in Uuids => Carries(i, key)
      BY <1>9, <1>10, WriteReceiptsAssumption DEF Carries
    <3> QED
      BY <1>15, <3>1 DEF IInv, Receipted
  <2> QED
    <3>1. \A at \in DOMAIN receipts : at[2] \in used' /\ \E j \in Intents : Owns(j, at)'
      BY <1>4, <2>1, <2>2 DEF IInv, Receipted
    <3>2. receipts' = receipts /\ effects' = effects
      BY <1>8
    <3> QED
      BY <2>3, <3>1, <3>2 DEF Receipted
<1>22. Unkeyed'
  <2>1. key = NoKey /\ Writes(i) => effects[i] = {} /\ \A r \in requests : r.message.intent # i
    BY <1>10, WriteReceiptsAssumption DEF SentFor, Sent
  <2>2. \A r \in requests : r.message.intent = i /\ r.message.key = NoKey /\ Writes(i) => FALSE
    <3> SUFFICES ASSUME NEW r \in requests, r.message.intent = i, r.message.key = NoKey, Writes(i)
                 PROVE  FALSE
      OBVIOUS
    <3>1. r.message \in SentFor(i)
      BY DEF SentFor, Sent
    <3>2. key # NoKey /\ key = held[i]
      BY <1>9, <1>10, <3>1
    <3> QED
      BY <1>5, <3>1, <3>2 DEF IInv, Keyed
  <2>3. \A r \in requests' : r.message.key = NoKey /\ Writes(r.message.intent) =>
          /\ effects[r.message.intent] = {}
          /\ \A q \in requests' : q.message.intent = r.message.intent => q = r
          /\ r.message = message' => r.attempt = attempt'
    <3>1. ASSUME NEW r \in requests, r.message.key = NoKey, Writes(r.message.intent)
          PROVE  /\ effects[r.message.intent] = {} /\ r.message # message'
                 /\ \A q \in requests' : q.message.intent = r.message.intent => q = r
      BY <1>5, <1>6, <2>2, <3>1 DEF IInv, Unkeyed
    <3>2. ASSUME key = NoKey, Writes(i)
          PROVE  effects[i] = {} /\ \A q \in requests' : q.message.intent = i => q = sent
      BY <1>6, <2>1, <3>2
    <3> QED
      BY <1>5, <1>6, <3>1, <3>2
  <2>4. \A n \in DOMAIN queue' : queue'[n].key = NoKey /\ Writes(queue'[n].intent) =>
          effects[queue'[n].intent] = {} /\ \A m \in Sent' : m.intent # queue'[n].intent
    <3>1. \A n \in DOMAIN queue' : queue'[n].intent # i
      BY <1>0, <1>3 DEF IInv, Queued, head
    <3>2. \A n \in DOMAIN queue : queue[n].key = NoKey /\ Writes(queue[n].intent) =>
            effects[queue[n].intent] = {} /\ \A m \in Sent : m.intent # queue[n].intent
      BY DEF IInv, Unkeyed
    <3> QED
      BY <1>3, <1>5, <1>13, <3>1, <3>2
  <2>5. phase' = "waiting" /\ \A r \in replies' : r.kind = "answer"
    BY <1>1, <1>6, <1>8
  <2> QED
    BY <1>8, <2>3, <2>4, <2>5 DEF Unkeyed, Writes
<1>23. Effected' /\ Answered'
  BY <1>1, <1>8 DEF IInv, Effected, Shown, Answered, Writes
<1> QED
  BY <1>11, <1>12, <1>16, <1>20, <1>21, <1>22, <1>23 DEF IInv

\* The caller of the message that is done knows the key the message had.
LEMMA KeyLearned ==
  ASSUME TypeOK, Keyed, Receipted, message # NoMessage, Sent' \subseteq Sent,
         held' = [held EXCEPT ![message.intent] = message.key],
         UNCHANGED <<receipts, effects, used>>
  PROVE  Keyed' /\ Receipted'
<1>0. PICK i, key : i = message.intent /\ key = message.key
  OBVIOUS
<1>1. i \in Intents /\ key \in Uuids \cup {NoKey} /\ message \in SentFor(i)
  BY <1>0, MessageType DEF SentFor, Sent
<1>2. held' = [held EXCEPT ![i] = key] /\ held \in [Intents -> Uuids \cup {NoKey}]
  BY <1>0 DEF TypeOK
<1>3. \A j \in Intents : \A m \in SentFor(j)' : m \in SentFor(j)
  BY FewerKeys
<1>4. Carries(i, key)
  BY <1>0, <1>1 DEF Carries
<1>5. held[i] = key \/ held[i] = NoKey
  BY <1>0, <1>1 DEF Keyed
<1>6. \A j \in Intents : \A k : Carries(j, k)' => Carries(j, k)
  BY <1>1, <1>2, <1>4, FewerKeys DEF Carries
<1>7. Keyed'
  <2>1. \A m \in SentFor(i) : m.key = key
    BY <1>0, <1>1 DEF Keyed
  <2>2. \A j \in Intents : \A m, n \in SentFor(j)' : m.key = n.key
    BY <1>3 DEF Keyed
  <2>3. ASSUME NEW j \in Intents, NEW m \in SentFor(j)', m.key # held'[j]
        PROVE  /\ held'[j] = NoKey
               /\ \A l \in Intents : held'[l] # m.key /\ (Carries(l, m.key)' => l = j)
    <3>1. j # i /\ m \in SentFor(j) /\ held'[j] = held[j]
      BY <1>2, <1>3, <2>1, <2>3
    <3>2. /\ held[j] = NoKey
          /\ \A l \in Intents : held[l] # m.key /\ (Carries(l, m.key) => l = j)
      BY <2>3, <3>1 DEF Keyed
    <3>3. m.key # key
      BY <1>1, <1>4, <3>1, <3>2
    <3> QED
      BY <1>2, <1>6, <3>1, <3>2, <3>3
  <2>4. \A j \in Intents : \A k \in Uuids : Carries(j, k)' =>
          /\ k \in used' /\ Writes(j)
          /\ \A l \in Intents : Carries(l, k)' /\ OperationOf[l] = OperationOf[j] => l = j
    BY <1>6 DEF Keyed
  <2> QED
    BY <2>2, <2>3, <2>4 DEF Keyed, Writes
<1>8. Receipted'
  <2>1. ASSUME NEW at \in DOMAIN receipts, NEW j \in Intents, Owns(j, at)
        PROVE  Owns(j, at)'
    <3>1. at[2] \in Uuids /\ NoKey \notin Uuids
      BY WriteReceiptsAssumption DEF TypeOK, ServerTypeOK
    <3>2. CASE held[j] = at[2]
      <4>1. held'[j] = at[2]
        BY <1>2, <1>5, <3>1, <3>2
      <4> QED
        BY <2>1, <4>1 DEF Owns
    <3>3. CASE \A l \in Intents : held[l] # at[2] /\ (Carries(l, at[2]) => l = j)
      <4>1. held'[j] = at[2] \/ \A l \in Intents : held'[l] # at[2]
        BY <1>1, <1>2, <1>4, <3>3
      <4>2. \A l \in Intents : Carries(l, at[2])' => l = j
        BY <1>6, <3>3
      <4> QED
        BY <2>1, <4>1, <4>2 DEF Owns
    <3> QED
      BY <2>1, <3>2, <3>3 DEF Owns
  <2> QED
    BY <1>6, <2>1 DEF Receipted
<1> QED
  BY <1>7, <1>8

\* A message is dealt with, and its caller told, or left to ask again.
LEMMA DoneKeeps ==
  ASSUME IInv, message # NoMessage, Done,
         NEW outcome \in {"ok", "refused", "unknown"},
         asked' = [asked EXCEPT ![message.intent] = outcome],
         held' = held \/ held' = [held EXCEPT ![message.intent] = message.key],
         told' \in [Intents -> SUBSET Effect], supports' \in BOOLEAN,
         UNCHANGED <<server, calls, used>>
  PROVE  IInv'
<1> USE DEF server
<1>1. message' = NoMessage /\ phase' = "idle" /\ attempt' = 0 /\ replies' = {}
      /\ UNCHANGED <<queue, exits, requests>> /\ reconnected' = FALSE /\ retries' = NoRetries
  BY DEF Done, HangUp
<1>2. message \in Request /\ NoMessage.intent \notin Intents
  BY MessageType DEF IInv
<1>3. message.intent \in Intents /\ message.key \in Uuids \cup {NoKey}
  BY <1>2 DEF Request
<1>4. /\ held' \in [Intents -> Uuids \cup {NoKey}]
      /\ \A i \in Intents : i # message.intent => held'[i] = held[i] /\ asked'[i] = asked[i]
      /\ asked'[message.intent] = outcome
  BY <1>3 DEF IInv, TypeOK
<1>5. TypeOK'
  <2>1. NoRetries \in [{"throttled", "network"} -> Nat]
    BY DEF NoRetries
  <2>2. asked' \in [Intents -> {"idle", "calling", "ok", "refused", "unknown"}]
    BY <1>3 DEF IInv, TypeOK
  <2> QED
    BY <1>1, <1>4, <2>1, <2>2 DEF IInv, TypeOK, ServerTypeOK, Phases
<1>6. Sending'
  BY <1>1 DEF IInv, Sending
<1>7. Sent' \subseteq Sent
  BY <1>1 DEF Sent
<1>8. \A n \in DOMAIN queue : queue[n] \in Request /\ queue[n].intent \in Intents
  BY QueueType DEF IInv
<1>9. Queued'
  <2>1. \A n \in DOMAIN queue : queue[n].intent # message.intent
    BY <1>2 DEF IInv, Queued
  <2>2. \A n \in DOMAIN queue' :
          /\ asked'[queue'[n].intent] = "calling" /\ queue'[n].intent # message'.intent
          /\ queue'[n].key = held'[queue'[n].intent]
          /\ \A l \in DOMAIN queue' : queue'[l].intent = queue'[n].intent => l = n
    BY <1>1, <1>2, <1>4, <1>8, <2>1 DEF IInv, Queued
  <2>3. \A i \in Intents : asked'[i] = "idle" =>
          held'[i] = NoKey /\ SentFor(i)' = {} /\ effects'[i] = {}
    BY <1>4, <1>7 DEF IInv, Queued, SentFor
  <2> QED
    BY <1>1, <2>2, <2>3 DEF Queued
<1>10. Keyed' /\ Receipted'
  BY <1>7, FewerSent, KeyLearned DEF IInv
<1>11. Unkeyed'
  <2>1. \A r \in requests : r.message # NoMessage
    <3>1. \A r \in requests : r.message.intent \in Intents
      BY DEF IInv, TypeOK, Request
    <3> QED
      BY <1>2, <3>1
  <2>2. \A n \in DOMAIN queue : queue[n].key = NoKey /\ Writes(queue[n].intent) =>
          effects[queue[n].intent] = {} /\ \A m \in Sent' : m.intent # queue[n].intent
    BY <1>7 DEF IInv, Unkeyed
  <2>3. \A r \in requests : r.message.key = NoKey /\ Writes(r.message.intent) =>
          /\ effects[r.message.intent] = {}
          /\ \A q \in requests : q.message.intent = r.message.intent => q = r
    BY DEF IInv, Unkeyed
  <2> QED
    BY <1>1, <2>1, <2>2, <2>3 DEF Unkeyed, Writes
<1>12. Effected' /\ Answered'
  BY <1>1 DEF IInv, Effected, Shown, Answered, Writes
<1> QED
  BY <1>5, <1>6, <1>9, <1>10, <1>11, <1>12 DEF IInv

\* A new intent joins the queue under a key nobody uses for the same operation.
LEMMA CallKeeps ==
  ASSUME IInv, NEW i \in Intents, NEW key \in Uuids \cup {NoKey}, Call(i, key)
  PROVE  IInv'
<1> USE DEF server
<1> DEFINE new == [intent |-> i, key |-> key]
<1>1. /\ held[i] = NoKey /\ SentFor(i) = {} /\ effects[i] = {} /\ message.intent # i
      /\ \A n \in DOMAIN queue : queue[n].intent # i
  <2>1. message = NoMessage => message.intent \notin Intents
    BY MessageType DEF IInv
  <2> QED
    BY <2>1 DEF IInv, Queued, Call
<1>2. /\ asked' = [asked EXCEPT ![i] = "calling"] /\ held' = [held EXCEPT ![i] = key]
      /\ calls' = [calls EXCEPT ![i] = 1] /\ used' = used \cup ({key} \ {NoKey})
      /\ queue' = Append(queue, new)
      /\ UNCHANGED <<server, told, message, phase, attempt, reconnected, retries, supports,
                     exits, requests, replies>>
  BY DEF Call, network
<1>3. new \in Request /\ new.intent = i /\ new.key = key
  BY DEF Request
<1>4. key # NoKey =>
        /\ Writes(i) /\ key \in (Uuids \ used) \cup {held[j] : j \in Intents}
        /\ \A j \in Intents : held[j] = key => OperationOf[i] # OperationOf[j]
  BY DEF Call
<1>5. /\ \A j \in Intents : j # i => held'[j] = held[j] /\ asked'[j] = asked[j]
      /\ held'[i] = key /\ asked'[i] = "calling"
  BY <1>2 DEF IInv, TypeOK
<1> HIDE DEF new
<1>6. /\ queue' \in Seq(Request)
      /\ \A n \in DOMAIN queue' : \/ n \in DOMAIN queue /\ queue'[n] = queue[n]
                                  \/ n = Len(queue) + 1 /\ n \notin DOMAIN queue /\ queue'[n] = new
  BY <1>2, <1>3, AppendEnd DEF IInv, TypeOK
<1>7. TypeOK'
  <2>1. calls' \in [Intents -> Nat]
    BY <1>2 DEF IInv, TypeOK
  <2>2. /\ asked' \in [Intents -> {"idle", "calling", "ok", "refused", "unknown"}]
        /\ held' \in [Intents -> Uuids \cup {NoKey}] /\ used' \subseteq Uuids
    BY <1>2 DEF IInv, TypeOK
  <2> QED
    BY <1>2, <1>6, <2>1, <2>2 DEF IInv, TypeOK, ServerTypeOK
<1>8. Sending'
  BY <1>2 DEF IInv, Sending
<1>9. Sent' = Sent /\ \A j \in Intents : SentFor(j)' = SentFor(j)
  BY <1>2 DEF Sent, SentFor
<1>10. \A j \in Intents : \A k : Carries(j, k)' <=> IF j = i THEN k = key ELSE Carries(j, k)
  BY <1>1, <1>5, <1>9 DEF Carries
<1>11. \A n \in DOMAIN queue : queue[n] \in Request /\ queue[n].intent \in Intents
  BY QueueType DEF IInv
<1>12. Queued'
  <2>1. message # NoMessage => message.intent \in Intents
    BY MessageType DEF IInv, Request
  <2>2. \A n \in DOMAIN queue' :
          /\ asked'[queue'[n].intent] = "calling" /\ queue'[n].intent # message'.intent
          /\ queue'[n].key = held'[queue'[n].intent]
          /\ \A l \in DOMAIN queue' : queue'[l].intent = queue'[n].intent => l = n
    BY <1>1, <1>2, <1>3, <1>5, <1>6, <1>11 DEF IInv, Queued
  <2>3. \A j \in Intents : asked'[j] = "idle" =>
          held'[j] = NoKey /\ SentFor(j)' = {} /\ effects'[j] = {}
    BY <1>2, <1>5, <1>9 DEF IInv, Queued
  <2> QED
    BY <1>1, <1>2, <1>5, <2>1, <2>2, <2>3 DEF IInv, Queued
<1>13. \A j \in Intents : \A k \in Uuids : Carries(j, k) => k \in used
  BY DEF IInv, Keyed
<1>14. ASSUME key # NoKey, NEW j \in Intents, Carries(j, key), j # i
       PROVE  OperationOf[j] # OperationOf[i]
  <2>1. key \in used /\ \E l \in Intents : held[l] = key
    BY <1>4, <1>13, <1>14
  <2>2. CASE held[j] = key
    BY <1>4, <1>14, <2>2
  <2>3. CASE held[j] # key
    <3>1. \E m \in SentFor(j) : m.key = key
      BY <1>14, <2>3 DEF Carries
    <3> QED
      BY <2>1, <2>3, <3>1 DEF IInv, Keyed
  <2> QED
    BY <2>2, <2>3
<1>15. Keyed'
  <2>1. \A j \in Intents : \A m, n \in SentFor(j)' : m.key = n.key
    BY <1>9 DEF IInv, Keyed
  <2>2. ASSUME NEW j \in Intents, NEW m \in SentFor(j), m.key # held'[j]
        PROVE  /\ held'[j] = NoKey
               /\ \A l \in Intents : held'[l] # m.key /\ (Carries(l, m.key)' => l = j)
    <3>1. j # i /\ m.key # held[j] /\ held'[j] = held[j]
      BY <1>1, <1>5, <2>2
    <3>2. /\ held[j] = NoKey
          /\ \A l \in Intents : held[l] # m.key /\ (Carries(l, m.key) => l = j)
      BY <2>2, <3>1 DEF IInv, Keyed
    <3>3. m.key \in Uuids /\ Carries(j, m.key)
      BY <3>1, <3>2, MessageType DEF IInv, Carries, SentFor
    <3>4. m.key \in used /\ m.key # NoKey
      BY <1>13, <3>1, <3>2, <3>3
    <3>5. m.key # key
      BY <1>4, <3>2, <3>4
    <3> QED
      BY <1>5, <1>10, <3>1, <3>2, <3>5
  <2>3. ASSUME NEW j \in Intents, NEW k \in Uuids, Carries(j, k)'
        PROVE  /\ k \in used' /\ Writes(j)
               /\ \A l \in Intents : Carries(l, k)' /\ OperationOf[l] = OperationOf[j] => l = j
    <3>1. k # NoKey
      BY WriteReceiptsAssumption
    <3>2. CASE j = i
      BY <1>2, <1>4, <1>10, <1>14, <2>3, <3>1, <3>2
    <3>3. CASE j # i
      <4>1. Carries(j, k)
        BY <1>10, <2>3, <3>3
      <4>2. Carries(i, k)' => OperationOf[j] # OperationOf[i]
        BY <1>10, <1>14, <3>1, <3>3, <4>1
      <4> QED
        BY <1>2, <1>10, <4>1, <4>2 DEF IInv, Keyed
    <3> QED
      BY <3>2, <3>3
  <2> QED
    BY <1>9, <2>1, <2>2, <2>3 DEF Keyed, Writes
<1>16. Receipted'
  <2>1. ASSUME NEW at \in DOMAIN receipts, NEW j \in Intents, Owns(j, at)
        PROVE  Owns(j, at)'
    <3>1. j # i /\ at[2] \in used
      BY <1>1, <2>1 DEF IInv, Receipted, Owns
    <3>2. CASE held[j] = at[2]
      BY <1>2, <1>5, <2>1, <3>1, <3>2 DEF Owns
    <3>3. CASE \A l \in Intents : held[l] # at[2] /\ (Carries(l, at[2]) => l = j)
      <4>1. at[2] # key
        <5>1. at[2] \in Uuids /\ NoKey \notin Uuids
          BY WriteReceiptsAssumption DEF IInv, TypeOK, ServerTypeOK
        <5> QED
          BY <1>4, <3>1, <3>3, <5>1
      <4>2. \A l \in Intents : held'[l] # at[2] /\ (Carries(l, at[2])' => l = j)
        BY <1>5, <1>10, <3>3, <4>1
      <4> QED
        BY <1>2, <2>1, <4>2 DEF Owns
    <3> QED
      BY <2>1, <3>2, <3>3 DEF Owns
  <2>2. \A at \in DOMAIN receipts : at[2] \in used' /\ \E j \in Intents : Owns(j, at)'
    BY <1>2, <2>1 DEF IInv, Receipted
  <2>3. \A j \in Intents : \A k \in Uuids : Carries(j, k)' /\ effects[j] # {} =>
          /\ <<PrincipalOf[j], k>> \in DOMAIN receipts
          /\ receipts[<<PrincipalOf[j], k>>].operation = OperationOf[j]
    BY <1>1, <1>10 DEF IInv, Receipted
  <2>4. receipts' = receipts /\ effects' = effects
    BY <1>2
  <2> QED
    BY <2>2, <2>3, <2>4 DEF Receipted
<1>17. Unkeyed'
  <2>1. \A m \in Sent : m.intent # i
    BY <1>1 DEF SentFor
  <2>2. \A n \in DOMAIN queue : queue[n].key = NoKey /\ Writes(queue[n].intent) =>
          effects[queue[n].intent] = {} /\ \A m \in Sent : m.intent # queue[n].intent
    BY DEF IInv, Unkeyed
  <2>3. \A n \in DOMAIN queue' : queue'[n].key = NoKey /\ Writes(queue'[n].intent) =>
          effects[queue'[n].intent] = {} /\ \A m \in Sent' : m.intent # queue'[n].intent
    BY <1>1, <1>3, <1>6, <1>9, <2>1, <2>2
  <2> QED
    BY <1>2, <2>3 DEF IInv, Unkeyed, Writes
<1>18. Effected' /\ Answered'
  BY <1>2 DEF IInv, Effected, Shown, Answered, Writes
<1> QED
  BY <1>7, <1>8, <1>12, <1>15, <1>16, <1>17, <1>18 DEF IInv

\* The same call again, of a caller who knows the key, or of something that does
\* not write.
LEMMA CallAgainKeeps ==
  ASSUME IInv, NEW i \in Intents, CallAgain(i)
  PROVE  IInv'
<1> USE DEF server
<1> DEFINE new == [intent |-> i, key |-> held[i]]
<1>1. asked[i] = "unknown" /\ (held[i] # NoKey \/ ~Writes(i))
  BY DEF CallAgain
<1>2. /\ asked' = [asked EXCEPT ![i] = "calling"] /\ calls' = [calls EXCEPT ![i] = @ + 1]
      /\ queue' = Append(queue, new)
      /\ UNCHANGED <<server, held, told, used, message, phase, attempt, reconnected, retries,
                     supports, exits, requests, replies>>
  BY DEF CallAgain, network
<1>3. new \in Request /\ new.intent = i /\ new.key = held[i]
  BY DEF Request, IInv, TypeOK
<1>4. /\ \A j \in Intents : j # i => asked'[j] = asked[j]
      /\ asked'[i] = "calling"
  BY <1>2 DEF IInv, TypeOK
<1> HIDE DEF new
<1>5. /\ queue' \in Seq(Request)
      /\ \A n \in DOMAIN queue' : \/ n \in DOMAIN queue /\ queue'[n] = queue[n]
                                  \/ n = Len(queue) + 1 /\ n \notin DOMAIN queue /\ queue'[n] = new
  BY <1>2, <1>3, AppendEnd DEF IInv, TypeOK
<1>6. TypeOK'
  <2>1. calls' \in [Intents -> Nat]
        /\ asked' \in [Intents -> {"idle", "calling", "ok", "refused", "unknown"}]
    BY <1>2 DEF IInv, TypeOK
  <2> QED
    BY <1>2, <1>5, <2>1 DEF IInv, TypeOK, ServerTypeOK
<1>7. Sending'
  BY <1>2 DEF IInv, Sending
<1>8. Sent' = Sent /\ \A j \in Intents : SentFor(j)' = SentFor(j)
  BY <1>2 DEF Sent, SentFor
<1>9. \A n \in DOMAIN queue : queue[n] \in Request /\ queue[n].intent \in Intents
  BY QueueType DEF IInv
<1>10. message.intent # i /\ \A n \in DOMAIN queue : queue[n].intent # i
  <2>1. message = NoMessage => message.intent \notin Intents
    BY MessageType DEF IInv
  <2> QED
    BY <1>1, <2>1 DEF IInv, Queued
<1>11. Queued'
  <2>1. message # NoMessage => message.intent \in Intents
    BY MessageType DEF IInv, Request
  <2>2. \A n \in DOMAIN queue' :
          /\ asked'[queue'[n].intent] = "calling" /\ queue'[n].intent # message'.intent
          /\ queue'[n].key = held'[queue'[n].intent]
          /\ \A l \in DOMAIN queue' : queue'[l].intent = queue'[n].intent => l = n
    BY <1>2, <1>3, <1>4, <1>5, <1>9, <1>10 DEF IInv, Queued
  <2>3. \A j \in Intents : asked'[j] = "idle" =>
          held'[j] = NoKey /\ SentFor(j)' = {} /\ effects'[j] = {}
    BY <1>2, <1>4, <1>8 DEF IInv, Queued
  <2> QED
    BY <1>2, <1>4, <1>10, <2>1, <2>2, <2>3 DEF IInv, Queued
<1>12. Keyed' /\ Receipted'
  BY <1>2, <1>8, FewerSent DEF IInv
<1>13. Unkeyed'
  <2>1. \A n \in DOMAIN queue : queue[n].key = NoKey /\ Writes(queue[n].intent) =>
          effects[queue[n].intent] = {} /\ \A m \in Sent : m.intent # queue[n].intent
    BY DEF IInv, Unkeyed
  <2>2. \A n \in DOMAIN queue' : queue'[n].key = NoKey /\ Writes(queue'[n].intent) =>
          effects[queue'[n].intent] = {} /\ \A m \in Sent' : m.intent # queue'[n].intent
    BY <1>1, <1>3, <1>5, <1>8, <2>1
  <2> QED
    BY <1>2, <2>2 DEF IInv, Unkeyed, Writes
<1>14. Effected' /\ Answered'
  BY <1>2 DEF IInv, Effected, Shown, Answered, Writes
<1> QED
  BY <1>6, <1>7, <1>11, <1>12, <1>13, <1>14 DEF IInv

\* What was in the bridge is gone with it.
LEMMA BridgeExitKeeps ==
  ASSUME IInv, BridgeExit
  PROVE  IInv'
<1> USE DEF server
<1>1. /\ queue' = <<>> /\ message' = NoMessage /\ phase' = "idle" /\ attempt' = 0 /\ replies' = {}
      /\ reconnected' = FALSE /\ retries' = NoRetries /\ supports' = FALSE /\ exits' = exits + 1
      /\ asked' = [i \in Intents |-> IF asked[i] = "calling" THEN "unknown" ELSE asked[i]]
      /\ UNCHANGED <<server, held, calls, told, used, requests>>
  BY DEF BridgeExit, HangUp
<1>2. TypeOK'
  <2>1. retries' \in [{"throttled", "network"} -> Nat]
    BY <1>1 DEF NoRetries
  <2>3. queue' \in Seq(Request)
    BY <1>1
  <2>2. asked' \in [Intents -> {"idle", "calling", "ok", "refused", "unknown"}]
    BY <1>1 DEF IInv, TypeOK
  <2>4. exits' \in Nat /\ attempt' \in Nat
    BY <1>1 DEF IInv, TypeOK
  <2>5. /\ reconnected' \in BOOLEAN /\ supports' \in BOOLEAN /\ phase' \in Phases
        /\ message' \in Request \cup {NoMessage} /\ \A r \in replies' : FALSE
    BY <1>1 DEF Phases
  <2>6. ServerTypeOK'
    BY <1>1 DEF IInv, TypeOK, ServerTypeOK
  <2>7. /\ held' \in [Intents -> Uuids \cup {NoKey}] /\ calls' \in [Intents -> Nat]
        /\ told' \in [Intents -> SUBSET Effect] /\ used' \subseteq Uuids
        /\ requests' \subseteq [attempt: Nat, message: Request]
    BY <1>1 DEF IInv, TypeOK
  <2> QED
    BY <2>1, <2>2, <2>3, <2>4, <2>5, <2>6, <2>7 DEF TypeOK
<1>3. Sending'
  BY <1>1 DEF IInv, Sending
<1>4. Sent' \subseteq Sent
  BY <1>1 DEF Sent
<1>5. Queued'
  <2>1. DOMAIN queue' = {}
    BY <1>1
  <2>2. \A i \in Intents : asked'[i] = "idle" =>
          held'[i] = NoKey /\ SentFor(i)' = {} /\ effects'[i] = {}
    BY <1>1, <1>4 DEF IInv, Queued, SentFor
  <2> QED
    BY <1>1, <2>1, <2>2 DEF Queued
<1>6. Keyed' /\ Receipted'
  BY <1>1, <1>4, FewerSent DEF IInv
<1>7. Unkeyed'
  <2>1. \A r \in requests : r.message # NoMessage
    <3>1. \A r \in requests : r.message.intent \in Intents
      BY DEF IInv, TypeOK, Request
    <3> QED
      BY <3>1, MessageType DEF IInv
  <2>2. \A r \in requests : r.message.key = NoKey /\ Writes(r.message.intent) =>
          /\ effects[r.message.intent] = {}
          /\ \A q \in requests : q.message.intent = r.message.intent => q = r
    BY DEF IInv, Unkeyed
  <2>3. DOMAIN queue' = {}
    BY <1>1
  <2> QED
    BY <1>1, <2>1, <2>2, <2>3 DEF Unkeyed, Writes
<1>8. Effected' /\ Answered'
  BY <1>1 DEF IInv, Effected, Shown, Answered, Writes
<1> QED
  BY <1>2, <1>3, <1>5, <1>6, <1>7, <1>8 DEF IInv

-----------------------------------------------------------------------------
(* The server at work *)

LEMMA ShownStays ==
  ASSUME RowsType, RowsType', RowsAdvance, NEW i, NEW e, Shown(i, e)
  PROVE  Shown(i, e)'
<1>1. e[1] \in Nat /\ e[2] \in Nat /\ nextId \in Nat /\ nextId' \in Nat
  BY DEF Shown, Ids, RowsType
<1>2. e[1] < nextId' /\ e[1] # nextId
  BY <1>1 DEF Shown, RowsAdvance
<1>3. \A id \in DOMAIN rows : rows[id].updated_at \in Nat
  BY DEF RowsType, Row
<1>4. \A id \in DOMAIN rows' : rows'[id].updated_at \in Nat
  BY DEF RowsType, Row
<1>5. e[1] \in DOMAIN rows' =>
        \/ e[2] < rows'[e[1]].updated_at
        \/ e[2] = rows'[e[1]].updated_at /\ rows'[e[1]].writer = i
  BY <1>1, <1>2, <1>3, <1>4 DEF Shown, RowsAdvance
<1> QED
  BY <1>2, <1>5 DEF Shown

\* The keys of an intent that something is sent for are the key it is sent under.
LEMMA SentKey ==
  ASSUME Keyed, NEW i \in Intents, NEW m \in SentFor(i), NEW k \in Uuids, Carries(i, k)
  PROVE  m.key = k
<1>1. CASE held[i] = k
  BY <1>1, WriteReceiptsAssumption DEF Keyed
<1>2. CASE held[i] # k
  BY <1>2 DEF Keyed, Carries
<1> QED
  BY <1>1, <1>2

\* A receipt for the same arguments names what was done for the intent that asks.
LEMMA ReceiptNames ==
  ASSUME IInv, NEW m \in Sent, HasReceipt(m), SameArguments(m)
  PROVE  effects[m.intent] = {receipts[ReceiptOf(m)].effect}
<1>1. PICK i, k, at : i = m.intent /\ k = m.key /\ at = ReceiptOf(m)
  OBVIOUS
<1>2. i \in Intents /\ k \in Uuids /\ m \in SentFor(i)
  BY <1>1, MessageType DEF IInv, HasReceipt, SentFor
<1>3. at \in DOMAIN receipts /\ at[2] = k /\ receipts[at].operation = OperationOf[i]
  BY <1>1 DEF HasReceipt, SameArguments, ReceiptOf
<1>4. Carries(i, k)
  BY <1>1, <1>2 DEF Carries
<1>5. PICK j \in Intents : Owns(j, at)
  BY <1>3 DEF IInv, Receipted
<1>6. held[j] = k \/ (Carries(i, k) => i = j)
  BY <1>2, <1>3, <1>5 DEF Owns
<1>7. OperationOf[j] = OperationOf[i]
  BY <1>3, <1>5 DEF Owns
<1>8. j = i
  BY <1>2, <1>4, <1>6, <1>7 DEF IInv, Keyed, Carries
<1> QED
  BY <1>1, <1>5, <1>8 DEF Owns

\* The reply to a request, whatever it says.
LEMMA ReplyTypes ==
  ASSUME IInv, NEW request \in requests, NEW kind, NEW answer, Reply(request, kind, answer)
  PROVE  /\ requests' \subseteq requests /\ IsFiniteSet(requests') /\ requests' = requests \ {request}
         /\ request.message \in Request /\ request.message \in Sent
         /\ \/ replies' = replies
            \/ /\ request.message = message /\ phase = "waiting" /\ request.attempt = attempt
               /\ \A r \in replies' : /\ r.attempt = attempt /\ r.kind = kind
                                      /\ r.answer = answer
BY FS_RemoveElement DEF IInv, Reply, Sending, TypeOK, Sent

\* A request is answered, and nothing is written.
LEMMA ReplyKeeps ==
  ASSUME IInv, NEW request \in requests, NEW kind, NEW answer, Reply(request, kind, answer),
         kind = "answer" => Tells(request.message, answer),
         UNCHANGED <<server, caller, bridge>>
  PROVE  IInv'
<1> USE DEF server, caller, bridge
<1>1. /\ requests' \subseteq requests /\ IsFiniteSet(requests') /\ requests' = requests \ {request}
      /\ request.message \in Request /\ request.message \in Sent
      /\ \/ replies' = replies
         \/ /\ request.message = message /\ phase = "waiting" /\ request.attempt = attempt
            /\ \A r \in replies' : r.attempt = attempt /\ r.kind = kind /\ r.answer = answer
  BY ReplyTypes
<1>2. TypeOK'
  BY <1>1 DEF IInv, TypeOK, ServerTypeOK
<1>3. Sending'
  BY <1>1 DEF IInv, Sending
<1>4. Sent' \subseteq Sent
  BY <1>1 DEF Sent
<1>5. Queued'
  BY <1>4 DEF IInv, Queued, SentFor
<1>6. Keyed' /\ Receipted'
  BY <1>4, FewerSent DEF IInv
<1>7. Unkeyed'
  <2>1. ASSUME message.key = NoKey, message # NoMessage, Writes(message.intent)
        PROVE  \/ phase = "waiting" /\ \A r \in replies' : r.kind = "answer"
               \/ effects[message.intent] = {}
                  /\ \A r \in requests' : r.message.intent # message.intent
    <3>1. CASE replies' = replies
      BY <1>1, <2>1, <3>1 DEF IInv, Unkeyed
    <3>2. CASE request.message = message /\ phase = "waiting" /\ \A r \in replies' : r.kind = kind
      BY <1>1, <2>1, <3>2 DEF IInv, Unkeyed
    <3> QED
      BY <1>1, <3>1, <3>2
  <2>2. \A r \in requests' : r.message.key = NoKey /\ Writes(r.message.intent) =>
          /\ effects[r.message.intent] = {}
          /\ \A q \in requests' : q.message.intent = r.message.intent => q = r
          /\ r.message = message => r.attempt = attempt
    BY <1>1 DEF IInv, Unkeyed
  <2>3. \A n \in DOMAIN queue : queue[n].key = NoKey /\ Writes(queue[n].intent) =>
          effects[queue[n].intent] = {} /\ \A m \in Sent' : m.intent # queue[n].intent
    BY <1>4 DEF IInv, Unkeyed
  <2> QED
    BY <2>1, <2>2, <2>3 DEF Unkeyed, Writes
<1>8. Effected'
  BY DEF IInv, Effected, Shown, Writes
<1>9. Answered'
  <2>1. CASE replies' = replies
    BY <2>1 DEF IInv, Answered, Writes
  <2>2. CASE request.message = message /\ \A r \in replies' : r.kind = kind /\ r.answer = answer
    <3>1. ASSUME kind = "answer", answer.status = "ok", Writes(message.intent)
          PROVE  effects[message.intent] = {answer.effect}
      <4>1. /\ HasReceipt(message) /\ SameArguments(message)
            /\ answer = Replayed(receipts[ReceiptOf(message)].effect)
        BY <2>2, <3>1 DEF Tells
      <4>2. effects[message.intent] = {receipts[ReceiptOf(message)].effect}
        BY <1>1, <2>2, <4>1, ReceiptNames
      <4>3. answer.effect = receipts[ReceiptOf(message)].effect
        BY <4>1 DEF Replayed, Success
      <4> QED
        BY <4>2, <4>3
    <3> QED
      BY <2>2, <3>1 DEF Answered, Writes
  <2> QED
    BY <1>1, <2>1, <2>2
<1> QED
  BY <1>2, <1>3, <1>5, <1>6, <1>7, <1>8, <1>9 DEF IInv

\* Others write the entries.
LEMMA OtherWritesKeep ==
  ASSUME IInv, OtherWrites, UNCHANGED <<caller, bridge, network>>
  PROVE  IInv'
<1> USE DEF caller, bridge, network
<1>1. RowsType
  BY DEF IInv, TypeOK, ServerTypeOK, RowsType
<1>2. RowsType' /\ RowsAdvance /\ receipts' = receipts /\ effects' = effects
  BY <1>1, OtherWritesEffect
<1>3. TypeOK'
  BY <1>2 DEF IInv, TypeOK, ServerTypeOK, RowsType
<1>4. Sending'
  BY DEF IInv, Sending
<1>5. Sent' = Sent
  BY DEF Sent
<1>6. Queued'
  BY <1>2, <1>5 DEF IInv, Queued, SentFor
<1>7. Keyed' /\ Receipted'
  BY <1>2, <1>5, FewerSent DEF IInv
<1>8. Unkeyed'
  BY <1>2, <1>5 DEF IInv, Unkeyed, Writes
<1>9. Effected'
  <2>1. \A i \in Intents : \A e \in effects[i] : Shown(i, e)'
    BY <1>1, <1>2, ShownStays DEF IInv, Effected
  <2> QED
    BY <1>2, <2>1 DEF IInv, Effected, Writes
<1>10. Answered'
  BY <1>2 DEF IInv, Answered, Writes
<1> QED
  BY <1>3, <1>4, <1>6, <1>7, <1>8, <1>9, <1>10 DEF IInv

\* A request that may write finds nothing done for its intent yet.
LEMMA FirstWrite ==
  ASSUME IInv, NEW request \in requests, Writes(request.message.intent),
         ~HasReceipt(request.message)
  PROVE  effects[request.message.intent] = {}
<1>1. PICK m, i : m = request.message /\ i = m.intent
  OBVIOUS
<1>2. m \in Sent /\ m \in SentFor(i) /\ i \in Intents /\ m.key \in Uuids \cup {NoKey}
  BY <1>1, MessageType DEF IInv, Sent, SentFor
<1>3. CASE m.key = NoKey
  BY <1>1, <1>3 DEF IInv, Unkeyed
<1>4. CASE m.key # NoKey
  <2>1. Carries(i, m.key) /\ m.key \in Uuids
    BY <1>2, <1>4 DEF Carries
  <2>2. <<PrincipalOf[i], m.key>> \notin DOMAIN receipts
    BY <1>1, <1>4 DEF HasReceipt, ReceiptOf
  <2> QED
    BY <1>1, <1>2, <2>1, <2>2 DEF IInv, Receipted
<1> QED
  BY <1>3, <1>4

\* A write is committed, and its receipt with it.
LEMMA CommitKeeps ==
  ASSUME IInv, NEW request \in requests, NEW effect \in Ids \X (1 .. MaxStamp), NEW answer,
         Writes(request.message.intent), ~HasReceipt(request.message),
         Perform(request.message.intent, effect), RecordReceipt(request.message, effect),
         effects' = [effects EXCEPT ![request.message.intent] = @ \cup {effect}],
         answer = Success(effect, FALSE, TRUE, FALSE), Reply(request, "answer", answer),
         UNCHANGED <<caller, bridge>>
  PROVE  IInv'
<1> USE DEF caller, bridge
<1>1. PICK m, i, key : m = request.message /\ i = m.intent /\ key = m.key
  OBVIOUS
<1>2. /\ requests' \subseteq requests /\ IsFiniteSet(requests') /\ requests' = requests \ {request}
      /\ m \in Request /\ m \in Sent
      /\ \/ replies' = replies
         \/ /\ m = message /\ phase = "waiting" /\ request.attempt = attempt
            /\ \A r \in replies' : r.attempt = attempt /\ r.kind = "answer" /\ r.answer = answer
  <2>1. PICK kind : kind = "answer"
    OBVIOUS
  <2>2. Reply(request, kind, answer)
    BY <2>1
  <2>3. /\ requests' \subseteq requests /\ IsFiniteSet(requests') /\ requests' = requests \ {request}
        /\ request.message \in Request /\ request.message \in Sent
        /\ \/ replies' = replies
           \/ /\ request.message = message /\ phase = "waiting" /\ request.attempt = attempt
              /\ \A r \in replies' : r.attempt = attempt /\ r.kind = kind /\ r.answer = answer
    BY ONLY IInv, <2>2, request \in requests, ReplyTypes
  <2> QED
    BY <1>1, <2>1, <2>3
<1>3. i \in Intents /\ key \in Uuids \cup {NoKey} /\ m \in SentFor(i)
  BY <1>1, <1>2 DEF Request, SentFor
<1>4. effects[i] = {} /\ effects \in [Intents -> SUBSET Effect]
  BY <1>1, FirstWrite DEF IInv, TypeOK, ServerTypeOK
<1>5. /\ effects' = [effects EXCEPT ![i] = {effect}] /\ effects'[i] = {effect}
      /\ \A j \in Intents : j # i => effects'[j] = effects[j]
  BY <1>1, <1>3, <1>4
<1>6. RowsType
  BY DEF IInv, TypeOK, ServerTypeOK, RowsType
<1>7. /\ RowsType' /\ RowsAdvance /\ effect[1] < nextId'
      /\ effect[1] \in DOMAIN rows' /\ rows'[effect[1]].is_current
      /\ rows'[effect[1]].updated_at = effect[2] /\ rows'[effect[1]].writer = i
  BY <1>1, <1>3, <1>6, PerformEffect
<1>8. answer.effect = effect
  BY DEF Success
<1>9. Sent' \subseteq Sent /\ \A j \in Intents : \A n \in SentFor(j)' : n \in SentFor(j)
  BY <1>2, FewerKeys DEF Sent
<1>10. \A j \in Intents : \A k : Carries(j, k)' => Carries(j, k)
  BY <1>9, FewerKeys DEF Carries
<1> DEFINE at == <<PrincipalOf[i], key>>
           receipt == [operation |-> OperationOf[i], effect |-> effect]
<1>11. \/ key = NoKey /\ receipts' = receipts
       \/ /\ key # NoKey /\ at \notin DOMAIN receipts /\ DOMAIN receipts' = DOMAIN receipts \cup {at}
          /\ receipts'[at] = receipt
          /\ \A x \in DOMAIN receipts : receipts'[x] = receipts[x]
          /\ receipts' = [x \in DOMAIN receipts' |-> receipts'[x]]
  BY <1>1 DEF RecordReceipt, ReceiptOf, HasReceipt
<1>12. /\ PrincipalOf[i] \in Principals /\ OperationOf[i] \in Operation
       /\ effect \in Effect /\ receipt \in Receipt
       /\ receipt.operation = OperationOf[i] /\ receipt.effect = effect
       /\ at[1] = PrincipalOf[i] /\ at[2] = key
  BY <1>3, WriteReceiptsAssumption DEF Effect, Receipt
<1>13. key # NoKey => at \in Principals \X Uuids
  BY <1>3, <1>12
<1> HIDE DEF at, receipt
<1>14. TypeOK'
  <2>1. effects' \in [Intents -> SUBSET Effect]
    BY <1>4, <1>5, <1>12
  <2>2. DOMAIN receipts' \subseteq Principals \X Uuids /\ receipts' \in [DOMAIN receipts' -> Receipt]
    <3>1. /\ DOMAIN receipts \subseteq Principals \X Uuids
          /\ \A x \in DOMAIN receipts : receipts[x] \in Receipt
      BY DEF IInv, TypeOK, ServerTypeOK
    <3>2. CASE receipts' = receipts
      BY <3>2 DEF IInv, TypeOK, ServerTypeOK
    <3>3. CASE receipts' # receipts
      <4>1. /\ DOMAIN receipts' = DOMAIN receipts \cup {at} /\ at \in Principals \X Uuids
            /\ receipts' = [x \in DOMAIN receipts' |-> receipts'[x]]
            /\ \A x \in DOMAIN receipts' : receipts'[x] \in Receipt
        BY <1>11, <1>12, <1>13, <3>1, <3>3
      <4> QED
        BY <3>1, <4>1
    <3> QED
      BY <3>2, <3>3
  <2>3. ServerTypeOK'
    BY <1>7, <2>1, <2>2 DEF RowsType, ServerTypeOK
  <2> QED
    BY <1>2, <2>3 DEF IInv, TypeOK
<1>15. Sending'
  BY <1>2 DEF IInv, Sending
<1>16. Queued'
  <2>1. asked[i] # "idle"
    BY <1>3 DEF IInv, Queued
  <2>2. \A j \in Intents : asked'[j] = "idle" =>
          held'[j] = NoKey /\ SentFor(j)' = {} /\ effects'[j] = {}
    BY <1>5, <1>9, <2>1 DEF IInv, Queued
  <2> QED
    BY <2>2 DEF IInv, Queued
<1>17. Keyed'
  BY <1>9, <1>10 DEF IInv, Keyed
<1>18. Receipted'
  <2>1. ASSUME NEW x \in DOMAIN receipts, NEW j \in Intents, Owns(j, x)
        PROVE  Owns(j, x)'
    <3>1. j # i
      BY <1>4, <2>1 DEF Owns
    <3>2. receipts'[x] = receipts[x] /\ effects'[j] = effects[j]
      BY <1>5, <1>11, <3>1
    <3> QED
      BY <1>10, <2>1, <3>2 DEF Owns
  <2>2. ASSUME key # NoKey
        PROVE  key \in used /\ Owns(i, at)'
    <3>1. key \in Uuids /\ Carries(i, key)
      BY <1>1, <1>3, <2>2 DEF Carries
    <3>2. held[i] = key \/ \A j \in Intents : held[j] # key /\ (Carries(j, key) => j = i)
      BY <1>1, <1>3 DEF IInv, Keyed
    <3>3. held'[i] = at[2] \/ \A j \in Intents : held'[j] # at[2] /\ (Carries(j, at[2])' => j = i)
      BY <1>10, <1>12, <3>2
    <3>4. key \in used
      BY <1>3, <3>1 DEF IInv, Keyed
    <3> QED
      BY <1>5, <1>11, <1>12, <2>2, <3>3, <3>4 DEF Owns
  <2>3. \A x \in DOMAIN receipts' : x[2] \in used' /\ \E j \in Intents : Owns(j, x)'
    BY <1>3, <1>11, <1>12, <2>1, <2>2 DEF IInv, Receipted
  <2>4. ASSUME NEW j \in Intents, NEW k \in Uuids, Carries(j, k)', effects'[j] # {}
        PROVE  /\ <<PrincipalOf[j], k>> \in DOMAIN receipts'
               /\ receipts'[<<PrincipalOf[j], k>>].operation = OperationOf[j]
    <3>1. CASE j = i
      <4>1. key = k /\ key # NoKey
        BY <1>1, <1>3, <1>10, <2>4, <3>1, SentKey, WriteReceiptsAssumption DEF IInv
      <4>2. <<PrincipalOf[j], k>> = at
        BY <3>1, <4>1 DEF at
      <4> QED
        BY <1>11, <1>12, <3>1, <4>1, <4>2
    <3>2. CASE j # i
      <4>1. /\ <<PrincipalOf[j], k>> \in DOMAIN receipts
            /\ receipts[<<PrincipalOf[j], k>>].operation = OperationOf[j]
        BY <1>5, <1>10, <2>4, <3>2 DEF IInv, Receipted
      <4> QED
        BY <1>11, <4>1
    <3> QED
      BY <3>1, <3>2
  <2> QED
    BY <2>3, <2>4 DEF Receipted
<1>19. Unkeyed'
  <2>1. \A r \in requests : r.message.intent = i => r.message.key = key
    BY <1>1, <1>2, OneKey DEF IInv, Sent
  <2>2. ASSUME NEW r \in requests', r.message.key = NoKey, Writes(r.message.intent)
        PROVE  /\ effects'[r.message.intent] = {}
               /\ \A q \in requests' : q.message.intent = r.message.intent => q = r
               /\ r.message = message => r.attempt = attempt
    <3>1. r \in requests /\ r # request
      BY <1>2
    <3>2. /\ effects[r.message.intent] = {} /\ (r.message.intent = i => r = request)
          /\ \A q \in requests : q.message.intent = r.message.intent => q = r
          /\ r.message = message => r.attempt = attempt
      BY <1>1, <2>2, <3>1 DEF IInv, Unkeyed
    <3>3. r.message.intent \in Intents
      BY <3>1 DEF IInv, TypeOK, Request
    <3> QED
      BY <1>2, <1>5, <3>1, <3>2, <3>3
  <2>3. ASSUME NEW n \in DOMAIN queue, queue[n].key = NoKey, Writes(queue[n].intent)
        PROVE  effects'[queue[n].intent] = {} /\ \A l \in Sent' : l.intent # queue[n].intent
    <3>1. /\ effects[queue[n].intent] = {} /\ \A l \in Sent : l.intent # queue[n].intent
          /\ queue[n].intent \in Intents
      BY <2>3, QueueType DEF IInv, Unkeyed
    <3>2. queue[n].intent # i
      BY <1>1, <1>2, <3>1
    <3> QED
      BY <1>5, <1>9, <3>1, <3>2
  <2>4. ASSUME message.key = NoKey, message # NoMessage, Writes(message.intent)
        PROVE  \/ phase = "waiting" /\ \A r \in replies' : r.kind = "answer"
               \/ effects'[message.intent] = {}
                  /\ \A r \in requests' : r.message.intent # message.intent
    <3>1. \/ phase = "waiting" /\ \A r \in replies : r.kind = "answer"
          \/ effects[message.intent] = {}
             /\ \A r \in requests : r.message.intent # message.intent
      BY <2>4 DEF IInv, Unkeyed
    <3>2. message.intent \in Intents
      BY <2>4, MessageType DEF IInv, Request
    <3> QED
      BY <1>1, <1>2, <1>5, <3>1, <3>2
  <2> QED
    BY <2>2, <2>3, <2>4 DEF Unkeyed, Writes
<1>20. Effected'
  <2>1. Shown(i, effect)'
    BY <1>7 DEF Shown
  <2>2. \A j \in Intents : \A e \in effects[j] : Shown(j, e)'
    BY <1>6, <1>7, ShownStays DEF IInv, Effected
  <2>3. \A j \in Intents : \A e \in effects'[j] : Shown(j, e)'
    BY <1>5, <2>1, <2>2
  <2>4. \A j \in Intents : \A e, f \in effects'[j] : e = f
    BY <1>5 DEF IInv, Effected
  <2>5. \A j \in Intents : ~Writes(j) => effects'[j] = {}
    BY <1>1, <1>5 DEF IInv, Effected
  <2> QED
    BY <2>3, <2>4, <2>5 DEF Effected, Writes
<1>21. Answered'
  <2>1. CASE replies' = replies
    <3>1. ASSUME NEW r \in replies, r.kind = "answer", r.answer.status = "ok",
                 Writes(message.intent)
          PROVE  effects'[message.intent] = {r.answer.effect}
      <4>1. effects[message.intent] = {r.answer.effect} /\ message.intent # i
        BY <1>4, <3>1 DEF IInv, Answered
      <4>2. message # NoMessage
        BY <3>1 DEF IInv, TypeOK, Sending
      <4>3. message.intent \in Intents
        BY <4>2, MessageType DEF IInv, Request
      <4> QED
        BY <1>5, <4>1, <4>3
    <3> QED
      BY <2>1, <3>1 DEF Answered, Writes
  <2>2. CASE m = message /\ \A r \in replies' : r.answer = answer
    BY <1>1, <1>5, <1>8, <2>2 DEF Answered
  <2> QED
    BY <1>2, <2>1, <2>2
<1> QED
  BY <1>14, <1>15, <1>16, <1>17, <1>18, <1>19, <1>20, <1>21 DEF IInv

-----------------------------------------------------------------------------
(* The theorems *)

\* A request is answered out of what is stored, or by the one write of its intent.
LEMMA ServeEffect ==
  ASSUME IInv, NEW request \in requests, Serve(request)
  PROVE  \E answer :
           /\ Reply(request, "answer", answer) /\ UNCHANGED <<caller, bridge>>
           /\ Handle(request.message, answer)
           /\ \/ UNCHANGED server /\ Tells(request.message, answer)
              \/ /\ Writes(request.message.intent) /\ ~HasReceipt(request.message)
                 /\ \E effect \in Ids \X (1 .. MaxStamp) :
                      /\ Perform(request.message.intent, effect)
                      /\ RecordReceipt(request.message, effect)
                      /\ effects' = [effects EXCEPT ![request.message.intent] = @ \cup {effect}]
                      /\ answer = Success(effect, FALSE, TRUE, FALSE)
<1>1. PICK answer : Handle(request.message, answer) /\ Reply(request, "answer", answer)
  BY DEF Serve
<1>2. request.message \in Request /\ ServerTypeOK
  BY DEF IInv, TypeOK
<1>3. \/ UNCHANGED server /\ Tells(request.message, answer)
      \/ /\ Writes(request.message.intent) /\ ~HasReceipt(request.message)
         /\ \E effect \in Ids \X (1 .. MaxStamp) :
              /\ Perform(request.message.intent, effect)
              /\ RecordReceipt(request.message, effect)
              /\ effects' = [effects EXCEPT ![request.message.intent] = @ \cup {effect}]
              /\ answer = Success(effect, FALSE, TRUE, FALSE)
  BY <1>1, <1>2, HandleEffect
<1> QED
  BY <1>1, <1>3 DEF Serve

LEMMA InitInv == Init => IInv
<1> SUFFICES ASSUME Init PROVE IInv
  OBVIOUS
<1> USE DEF Init, ServerInit
<1>1. TypeOK
  <2>1. ServerTypeOK
    BY WriteReceiptsAssumption DEF ServerTypeOK
  <2>2. queue \in Seq(Request) /\ retries \in [{"throttled", "network"} -> Nat]
    BY DEF NoRetries
  <2> QED
    BY <2>1, <2>2 DEF TypeOK, Phases
<1>2. Sending
  BY FS_EmptySet DEF Sending
<1>3. Sent = {} /\ \A i \in Intents : SentFor(i) = {}
  BY DEF Sent, SentFor
<1>4. Queued
  BY <1>3 DEF Queued
<1>5. \A i \in Intents : \A k \in Uuids : ~Carries(i, k)
  BY <1>3, WriteReceiptsAssumption DEF Carries
<1>6. Keyed /\ Receipted
  BY <1>3, <1>5 DEF Keyed, Receipted
<1>7. Unkeyed /\ Effected /\ Answered
  BY DEF Unkeyed, Effected, Answered
<1> QED
  BY <1>1, <1>2, <1>4, <1>6, <1>7 DEF IInv

\* Of a reply on its way.
LEMMA Waiting ==
  ASSUME IInv, NEW reply \in replies
  PROVE  phase = "waiting" /\ message # NoMessage
BY DEF IInv, TypeOK, Sending

LEMMA ReportKeeps ==
  ASSUME IInv, message # NoMessage, ReportUnknown, supports' \in BOOLEAN
  PROVE  IInv'
<1>1. /\ asked' = [asked EXCEPT ![message.intent] = "unknown"] /\ Done
      /\ held' = [held EXCEPT ![message.intent] = message.key]
      /\ UNCHANGED <<server, calls, told, used>>
  BY DEF ReportUnknown
<1>2. told' \in [Intents -> SUBSET Effect]
  BY <1>1 DEF IInv, TypeOK
<1>3. PICK outcome \in {"ok", "refused", "unknown"} : outcome = "unknown"
  OBVIOUS
<1>4. asked' = [asked EXCEPT ![message.intent] = outcome]
  BY <1>1, <1>3
<1> QED
  BY <1>1, <1>2, <1>4, DoneKeeps

\* What the caller is told, if it is told of a write.
LEMMA ForwardTells ==
  ASSUME IInv, NEW reply \in replies, ForwardAnswer(reply)
  PROVE  /\ message.intent \in Intents
         /\ told' \in [Intents -> SUBSET Effect]
         /\ \/ told' = told
            \/ /\ effects[message.intent] # {}
               /\ told' = [told EXCEPT ![message.intent] = effects[message.intent]]
<1>1. message.intent \in Intents
  BY Waiting, MessageType DEF IInv, Request
<1>2. told \in [Intents -> SUBSET Effect] /\ effects \in [Intents -> SUBSET Effect]
  BY DEF IInv, TypeOK, ServerTypeOK
<1>3. CASE reply.answer.status = "ok" /\ Writes(message.intent)
  <2>1. told' = [told EXCEPT ![message.intent] = {reply.answer.effect}] /\ reply.kind = "answer"
    BY <1>3 DEF ForwardAnswer
  <2>2. effects[message.intent] = {reply.answer.effect}
    BY <1>3, <2>1 DEF IInv, Answered
  <2> QED
    BY <1>1, <1>2, <2>1, <2>2
<1>4. CASE ~(reply.answer.status = "ok" /\ Writes(message.intent))
  BY <1>1, <1>2, <1>4 DEF ForwardAnswer
<1> QED
  BY <1>3, <1>4

LEMMA NextInv == IInv /\ [Next]_vars => IInv'
<1> SUFFICES ASSUME IInv, [Next]_vars PROVE IInv'
  OBVIOUS
<1>1. ASSUME NEW i \in Intents, CallAgain(i)
      PROVE  IInv'
  BY <1>1, CallAgainKeeps
<1>2. ASSUME NEW i \in Intents, NEW key \in Uuids \cup {NoKey}, Call(i, key)
      PROVE  IInv'
  BY <1>2, CallKeeps
<1>3. CASE SendNext
  BY <1>3, SendNextKeeps
<1>4. CASE GiveUp
  <2>1. message # NoMessage
    BY <1>4 DEF IInv, Sending, GiveUp
  <2>2. supports' \in BOOLEAN
    BY <1>4 DEF IInv, TypeOK, GiveUp
  <2> QED
    BY <1>4, <2>1, <2>2, ReportKeeps DEF GiveUp
<1>5. \A cause \in {"network", "throttled"} :
        Retry(cause) => retries' \in [{"throttled", "network"} -> Nat]
  BY DEF IInv, TypeOK, Retry
<1>6. CASE RetryAfterError
  <2>1. message # NoMessage
    BY <1>6 DEF IInv, Sending, RetryAfterError
  <2> QED
    BY <1>5, <1>6, <2>1, HangUpKeeps DEF RetryAfterError, Retryable
<1>7. CASE BackoffEnds
  <2>1. /\ reconnected' \in BOOLEAN /\ supports' \in BOOLEAN
        /\ retries' \in [{"throttled", "network"} -> Nat]
    BY <1>7 DEF IInv, TypeOK, BackoffEnds
  <2> QED
    BY <1>7, <2>1, ExchangeKeeps DEF BackoffEnds
<1>8. CASE Reconnect
  <2>1. /\ reconnected' \in BOOLEAN /\ supports' \in BOOLEAN
        /\ retries' \in [{"throttled", "network"} -> Nat]
    BY <1>8 DEF Reconnect, NoRetries
  <2> QED
    BY <1>8, <2>1, ExchangeKeeps DEF Reconnect
<1>9. CASE ReconnectFails
  <2>1. message # NoMessage /\ supports' \in BOOLEAN
    BY <1>9 DEF IInv, TypeOK, Sending, ReconnectFails
  <2> QED
    BY <1>9, <2>1, ReportKeeps DEF ReconnectFails
<1>10. ASSUME NEW reply \in replies, ForwardAnswer(reply)
       PROVE  IInv'
  <2>1. /\ Done /\ held' = held /\ supports' \in BOOLEAN
        /\ UNCHANGED <<server, calls, used>>
    BY <1>10 DEF ForwardAnswer
  <2>2. PICK outcome \in {"ok", "refused", "unknown"} :
             asked' = [asked EXCEPT ![message.intent] = outcome]
    BY <1>10 DEF ForwardAnswer
  <2> QED
    BY <1>10, <2>1, <2>2, Waiting, ForwardTells, DoneKeeps
<1>11. ASSUME NEW reply \in replies, Throttled(reply)
       PROVE  IInv'
  BY <1>5, <1>11, Waiting, HangUpKeeps DEF Throttled
<1>12. ASSUME NEW reply \in replies, ThrottledTooOften(reply) \/ SessionExpiredAgain(reply)
       PROVE  IInv'
  <2>1. ReportUnknown /\ supports' = supports
    BY <1>12 DEF ThrottledTooOften, SessionExpiredAgain
  <2>2. supports' \in BOOLEAN
    BY <2>1 DEF IInv, TypeOK
  <2> QED
    BY <2>1, <2>2, Waiting, ReportKeeps
<1>13. ASSUME NEW reply \in replies, SessionExpired(reply)
       PROVE  IInv'
  <2>1. retries' \in [{"throttled", "network"} -> Nat]
    BY <1>13 DEF IInv, TypeOK, SessionExpired
  <2> QED
    BY <1>13, <2>1, Waiting, HangUpKeeps DEF SessionExpired
<1>14. CASE BridgeExit
  BY <1>14, BridgeExitKeeps
<1>15. ASSUME NEW request \in requests, Serve(request)
       PROVE  IInv'
  <2>1. PICK answer :
           /\ Reply(request, "answer", answer) /\ UNCHANGED <<caller, bridge>>
           /\ \/ UNCHANGED server /\ Tells(request.message, answer)
              \/ /\ Writes(request.message.intent) /\ ~HasReceipt(request.message)
                 /\ \E effect \in Ids \X (1 .. MaxStamp) :
                      /\ Perform(request.message.intent, effect)
                      /\ RecordReceipt(request.message, effect)
                      /\ effects' = [effects EXCEPT ![request.message.intent] = @ \cup {effect}]
                      /\ answer = Success(effect, FALSE, TRUE, FALSE)
    BY <1>15, ServeEffect
  <2>2. PICK kind : kind = "answer"
    OBVIOUS
  <2>3. Reply(request, kind, answer) /\ UNCHANGED <<caller, bridge>>
    BY <2>1, <2>2
  <2>4. CASE UNCHANGED server /\ Tells(request.message, answer)
    BY <2>3, <2>4, ReplyKeeps
  <2>5. CASE ~(UNCHANGED server /\ Tells(request.message, answer))
    BY <2>1, <2>5, CommitKeeps
  <2> QED
    BY <2>4, <2>5
<1>16. ASSUME NEW request \in requests, TurnAway(request)
       PROVE  IInv'
  <2>1. PICK kind \in {"throttled", "expired"} : Reply(request, kind, Failure("refused"))
    BY <1>16 DEF TurnAway
  <2>2. PICK answer : answer = Failure("refused")
    OBVIOUS
  <2>3. Reply(request, kind, answer) /\ kind # "answer" /\ UNCHANGED <<server, caller, bridge>>
    BY <1>16, <2>1, <2>2 DEF TurnAway
  <2> QED
    BY <2>3, ReplyKeeps
<1>17. CASE OtherWrites /\ UNCHANGED <<caller, bridge, network>>
  BY <1>17, OtherWritesKeep
<1>18. CASE UNCHANGED vars
  <2> USE <1>18 DEF vars, server, caller, bridge, network
  <2>1. TypeOK'
    BY DEF IInv, TypeOK, ServerTypeOK
  <2>2. Sending'
    BY DEF IInv, Sending
  <2>3. Sent' = Sent
    BY DEF Sent
  <2>4. Queued'
    BY <2>3 DEF IInv, Queued, SentFor
  <2>5. Keyed' /\ Receipted'
    BY <2>3, FewerSent DEF IInv
  <2>6. Unkeyed' /\ Answered'
    BY <2>3 DEF IInv, Unkeyed, Answered, Writes
  <2>7. Effected'
    BY DEF IInv, Effected, Shown, Writes
  <2> QED
    BY <2>1, <2>2, <2>4, <2>5, <2>6, <2>7 DEF IInv
<1> QED
  BY <1>1, <1>2, <1>3, <1>4, <1>6, <1>7, <1>8, <1>9, <1>10, <1>11, <1>12, <1>13, <1>14, <1>15,
     <1>16, <1>17, <1>18 DEF Next, BridgeStep

\* The invariant of the whole path from the callers to the tables.
THEOREM WritesInvariant == Spec => []IInv
<1>1. Init => IInv
  BY InitInv
<1>2. IInv /\ [Next]_vars => IInv'
  BY NextInv
<1> QED
  BY <1>1, <1>2, PTL DEF Spec

\* Every table, message and counter keeps its type, and a reply is only ever on its
\* way to the exchange that waits for it.
THEOREM TypeCorrect == Spec => []TypeOK
<1>1. IInv => TypeOK
  BY DEF IInv
<1> QED
  BY <1>1, WritesInvariant, PTL

\* A request leaves its way only when the server serves it or turns it away.
LEMMA TakenOnlyByTheServer ==
  ASSUME [Next]_vars, ~(requests \subseteq requests')
  PROVE  \E request \in requests :
           /\ requests \ requests' \subseteq {request}
           /\ Serve(request) \/ TurnAway(request)
<1>1. ASSUME NEW request \in requests, Serve(request) \/ TurnAway(request)
      PROVE  requests \ requests' \subseteq {request}
  BY <1>1 DEF Serve, TurnAway, Reply
<1>2. ASSUME NEW i \in Intents, CallAgain(i) \/ \E key \in Uuids \cup {NoKey} : Call(i, key)
      PROVE  FALSE
  BY <1>2 DEF CallAgain, Call, network
<1>3. CASE BridgeStep
  BY <1>3 DEF BridgeStep, SendNext, GiveUp, RetryAfterError, BackoffEnds, Reconnect,
              ReconnectFails, ForwardAnswer, Throttled, ThrottledTooOften, SessionExpired,
              SessionExpiredAgain, ReportUnknown, Done, Exchange
<1>4. CASE BridgeExit \/ (OtherWrites /\ UNCHANGED <<caller, bridge, network>>) \/ UNCHANGED vars
  BY <1>4 DEF BridgeExit, network, vars
<1> QED
  BY <1>1, <1>2, <1>3, <1>4 DEF Next

\* The path from the callers to the tables, with its retries, reconnects, late
\* requests and repeated calls, keeps the promise of OnceOnly: each intent is
\* written at most once, and its caller is told of that write or of none.
THEOREM WritesOnceOnlyAlways == Spec => WritesOnceOnly
<1>1. Init => Promise!Init
  BY DEF Init, ServerInit, Promise!Init
<1>2. IInv /\ [Next]_vars => [Promise!Next]_<<effects, told>>
  <2> SUFFICES ASSUME IInv, [Next]_vars, ~UNCHANGED <<effects, told>>
               PROVE  Promise!Next
    OBVIOUS
  <2>1. ASSUME NEW i \in Intents, CallAgain(i) \/ \E key \in Uuids \cup {NoKey} : Call(i, key)
        PROVE  FALSE
    BY <2>1 DEF CallAgain, Call, server
  <2>2. CASE SendNext \/ GiveUp \/ RetryAfterError \/ BackoffEnds \/ Reconnect \/ ReconnectFails
    BY <2>2 DEF SendNext, GiveUp, RetryAfterError, BackoffEnds, Reconnect, ReconnectFails,
                ReportUnknown, server, caller
  <2>3. ASSUME NEW reply \in replies,
               Throttled(reply) \/ ThrottledTooOften(reply) \/ SessionExpired(reply)
                 \/ SessionExpiredAgain(reply)
        PROVE  FALSE
    BY <2>3 DEF Throttled, ThrottledTooOften, SessionExpired, SessionExpiredAgain,
                ReportUnknown, server, caller
  <2>4. ASSUME NEW reply \in replies, ForwardAnswer(reply)
        PROVE  Promise!Next
    <3>1. UNCHANGED effects
      BY <2>4 DEF ForwardAnswer, server
    <3>2. PICK i \in Intents : effects[i] # {} /\ told' = [told EXCEPT ![i] = effects[i]]
      BY <2>4, <3>1, ForwardTells
    <3> QED
      BY <3>1, <3>2 DEF Promise!Next, Promise!Tell
  <2>5. CASE BridgeExit
    BY <2>5 DEF BridgeExit, server
  <2>6. ASSUME NEW request \in requests, Serve(request)
        PROVE  Promise!Next
    <3>1. UNCHANGED told
      BY <2>6 DEF Serve, caller
    <3>2. /\ Writes(request.message.intent) /\ ~HasReceipt(request.message)
          /\ \E effect \in Ids \X (1 .. MaxStamp) :
               effects' = [effects EXCEPT ![request.message.intent] = @ \cup {effect}]
      BY <2>6, <3>1, ServeEffect DEF server
    <3>3. PICK i : i = request.message.intent
      OBVIOUS
    <3>4. effects[i] = {} /\ i \in Intents /\ effects \in [Intents -> SUBSET Effect]
      BY <3>2, <3>3, FirstWrite DEF IInv, TypeOK, ServerTypeOK, Request
    <3>5. PICK effect \in Ids \X (1 .. MaxStamp) : effects' = [effects EXCEPT ![i] = {effect}]
      BY <3>2, <3>3, <3>4
    <3> QED
      BY <3>1, <3>4, <3>5 DEF Promise!Next, Promise!Do
  <2>7. ASSUME NEW request \in requests, TurnAway(request)
        PROVE  FALSE
    BY <2>7 DEF TurnAway, server, caller
  <2>8. CASE (OtherWrites /\ UNCHANGED <<caller, bridge, network>>) \/ UNCHANGED vars
    <3>1. IInv => RowsType
      BY DEF IInv, TypeOK, ServerTypeOK, RowsType
    <3> QED
      BY <2>8, <3>1, OtherWritesEffect DEF caller, server, vars
  <2> QED
    BY <2>1, <2>2, <2>3, <2>4, <2>5, <2>6, <2>7, <2>8 DEF Next, BridgeStep
<1> QED
  BY <1>1, <1>2, WritesInvariant, PTL DEF Spec, WritesOnceOnly, Promise!Spec

\* A write that was committed under a key is never answered by what its
\* preconditions say now: create_if_absent finds its own entry, a swap its own stamp.
THEOREM CommittedIsNotRefusedAlways == Spec => CommittedIsNotRefused
<1>1. ASSUME IInv, [Next]_vars, NEW request \in requests \ requests',
             request.message.key # NoKey, effects[request.message.intent] # {},
             NEW r \in replies' \ replies, r.kind = "answer", r.answer.status = "refused"
      PROVE  FALSE
  <2>1. Serve(request) \/ TurnAway(request)
    BY <1>1, TakenOnlyByTheServer
  <2>2. CASE TurnAway(request)
    BY <1>1, <2>2 DEF TurnAway, Reply
  <2>3. CASE Serve(request)
    <3>1. PICK answer : Reply(request, "answer", answer) /\ Handle(request.message, answer)
                        /\ (UNCHANGED server \/ ~HasReceipt(request.message))
      BY <1>1, <2>3, ServeEffect
    <3>2. answer.status = "refused"
      BY <1>1, <3>1 DEF Reply
    <3>3. HasReceipt(request.message)
      <4>1. PICK m, i, key : m = request.message /\ i = m.intent /\ key = m.key
        OBVIOUS
      <4>2. m \in Sent /\ i \in Intents /\ key \in Uuids
        BY <1>1, <4>1, MessageType DEF Sent, IInv
      <4>3. Carries(i, key)
        BY <4>1, <4>2 DEF Carries, SentFor
      <4> QED
        BY <1>1, <4>1, <4>2, <4>3 DEF IInv, Receipted, HasReceipt, ReceiptOf
    <3> QED
      BY <3>1, <3>2, <3>3 DEF Handle, Failure, Replayed, Success, Read
  <2> QED
    BY <2>1, <2>2, <2>3
<1>2. IInv /\ [Next]_vars =>
        [\A request \in requests \ requests' :
           LET m == request.message IN
             m.key # NoKey /\ effects[m.intent] # {} =>
               ~\E r \in replies' \ replies : r.kind = "answer" /\ r.answer.status = "refused"]_vars
  BY <1>1
<1> QED
  BY <1>2, WritesInvariant, PTL DEF Spec, CommittedIsNotRefused

\* An answer that says the entry is available and not changed is right: the row is
\* there, is current, and was last written by the intent that asked.
THEOREM UnchangedMeansUntouchedAlways == Spec => UnchangedMeansUntouched
<1>1. ASSUME IInv, [Next]_vars, NEW request \in requests \ requests', NEW r \in replies' \ replies,
             Writes(request.message.intent), r.answer.status = "ok", r.answer.entry_available,
             ~r.answer.entry_changed
      PROVE  LET id == r.answer.effect[1] IN
               /\ id \in DOMAIN rows' /\ rows'[id].is_current
               /\ rows'[id].writer = request.message.intent
  <2>1. Serve(request) \/ TurnAway(request)
    BY <1>1, TakenOnlyByTheServer
  <2>2. CASE TurnAway(request)
    BY <1>1, <2>2 DEF TurnAway, Reply, Failure
  <2>3. CASE Serve(request)
    <3>1. PICK answer :
             /\ Reply(request, "answer", answer)
             /\ \/ UNCHANGED server /\ Tells(request.message, answer)
                \/ \E effect \in Ids \X (1 .. MaxStamp) :
                     /\ Perform(request.message.intent, effect)
                     /\ answer = Success(effect, FALSE, TRUE, FALSE)
      BY <1>1, <2>3, ServeEffect
    <3>2. r.answer = answer
      BY <1>1, <3>1 DEF Reply
    <3>3. PICK m, i : m = request.message /\ i = m.intent
      OBVIOUS
    <3>4. m \in Sent /\ i \in Intents /\ RowsType
      BY <1>1, <3>3, MessageType DEF Sent, IInv, TypeOK, ServerTypeOK, RowsType
    <3>5. CASE UNCHANGED server /\ Tells(m, answer)
      <4> DEFINE effect == receipts[ReceiptOf(m)].effect
      <4>1. HasReceipt(m) /\ SameArguments(m) /\ answer = Replayed(effect)
        BY <1>1, <3>2, <3>3, <3>5 DEF Tells
      <4>2. effects[i] = {effect}
        BY <1>1, <3>3, <3>4, <4>1, ReceiptNames
      <4>3. Shown(i, effect)
        BY <1>1, <3>4, <4>2 DEF IInv, Effected
      <4> HIDE DEF effect
      <4>4. /\ answer.effect = effect
            /\ effect[1] \in DOMAIN rows /\ rows[effect[1]].is_current
            /\ rows[effect[1]].updated_at = effect[2]
        BY <1>1, <3>2, <4>1 DEF Replayed, Success
      <4>5. rows[effect[1]].writer = i
        BY <4>3, <4>4 DEF Shown
      <4> QED
        BY <3>2, <3>3, <3>5, <4>4, <4>5 DEF server
    <3>6. ASSUME NEW effect \in Ids \X (1 .. MaxStamp), Perform(i, effect),
                 answer = Success(effect, FALSE, TRUE, FALSE)
          PROVE  LET id == r.answer.effect[1] IN
                   /\ id \in DOMAIN rows' /\ rows'[id].is_current
                   /\ rows'[id].writer = request.message.intent
      BY <3>2, <3>3, <3>4, <3>6, PerformEffect DEF Success
    <3> QED
      BY <3>1, <3>3, <3>5, <3>6
  <2> QED
    BY <2>1, <2>2, <2>3
<1>2. IInv /\ [Next]_vars =>
        [\A request \in requests \ requests', r \in replies' \ replies :
           LET id == r.answer.effect[1] IN
             /\ Writes(request.message.intent)
             /\ r.answer.status = "ok" /\ r.answer.entry_available /\ ~r.answer.entry_changed
             => /\ id \in DOMAIN rows' /\ rows'[id].is_current
                /\ rows'[id].writer = request.message.intent]_vars
  BY <1>1
<1> QED
  BY <1>2, WritesInvariant, PTL DEF Spec, UnchangedMeansUntouched
=============================================================================
