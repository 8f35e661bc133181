---------------------------- MODULE BridgedWrites ----------------------------
(***************************************************************************)
(* A caller's writes on their way through the stdio bridge and the network *)
(* (src/src/bridge.ts) to the server of WriteReceipts.  The bridge sends   *)
(* one message at a time, adds an idempotency key to a write that has none,*)
(* waits out a 429, reconnects once on an expired session, retries reads   *)
(* and never writes after a network error, and reports what it does not    *)
(* know as unknown, with the key to ask again.                             *)
(*                                                                         *)
(* An HTTP exchange is an attempt.  Its request may reach the server at any*)
(* later time or never, its reply may be lost, and nothing tells the two   *)
(* apart: a timeout, a broken connection, a 5xx of a proxy and a crash of  *)
(* the server before or after the commit all look like GiveUp from here.   *)
(***************************************************************************)
EXTENDS WriteReceipts, Sequences

CONSTANTS
  MaxRetries,  \* retries of one message after a 429, and after a network error
  MaxCalls,    \* bound on the calls made for one intent
  MaxExits     \* bound on exits of the bridge

ASSUME BridgedWritesAssumption ==
  MaxRetries \in Nat /\ MaxCalls \in Nat /\ MaxExits \in Nat

VARIABLES
  asked,        \* per intent, what its caller knows
  held,         \* per intent, the idempotency key its caller knows
  calls,        \* per intent, the calls made
  told,         \* per intent, the write its caller was told of
  used,         \* keys given out
  queue,        \* sendQueue
  message,      \* the message being sent, if any
  phase,        \* where its sending is
  attempt,      \* the exchange it waits for: a number no other request has
  reconnected,  \* was the session of this message already renewed?
  retries,      \* retriesUsed and networkRetriesUsed
  supports,     \* supportsWriteReplay, as the header of the last good reply said
  exits,        \* exits of the bridge
  requests,     \* HTTP requests on their way: [attempt, message]
  replies       \* the HTTP reply on its way to the bridge: [attempt, kind, answer]

caller == <<asked, held, calls, told, used>>
bridge == <<queue, message, phase, attempt, reconnected, retries, supports, exits>>
network == <<requests, replies>>
vars == <<server, caller, bridge, network>>

-----------------------------------------------------------------------------
(* Data *)

Phases == {"idle", "waiting", "backoff", "expired"}
NoMessage == [intent |-> Nobody, key |-> NoKey]
NoRetries == [throttled |-> 0, network |-> 0]
Retry(cause) == retries' = [retries EXCEPT ![cause] = @ + 1]

ReadOnly(m) == ~Writes(m.intent)

\* Mutant: an exchange whose request may still arrive is repeated for writes too.
RetryableAlways(m) == TRUE

\* Only a read is repeated after a network error.
Retryable(m) == ReadOnly(m)

-----------------------------------------------------------------------------
(* The caller *)

\* A new intent, with a key of its own, one it used before for other arguments,
\* or none.
Call(i, key) ==
  /\ asked[i] = "idle"
  /\ key # NoKey =>
       /\ Writes(i) /\ key \in (Uuids \ used) \cup {held[j] : j \in Intents}
       /\ \A j \in Intents : held[j] = key => OperationOf[i] # OperationOf[j]
  /\ asked' = [asked EXCEPT ![i] = "calling"]
  /\ held' = [held EXCEPT ![i] = key]
  /\ calls' = [calls EXCEPT ![i] = 1]
  /\ used' = used \cup ({key} \ {NoKey})
  /\ queue' = Append(queue, [intent |-> i, key |-> key])
  /\ UNCHANGED <<server, told, message, phase, attempt, reconnected, retries, supports,
                 exits, network>>

\* After an error: the same tool, the same arguments, the same key.
CallAgain(i) ==
  /\ asked[i] = "unknown" /\ calls[i] < MaxCalls
  /\ held[i] # NoKey \/ ~Writes(i)
  /\ asked' = [asked EXCEPT ![i] = "calling"]
  /\ calls' = [calls EXCEPT ![i] = @ + 1]
  /\ queue' = Append(queue, [intent |-> i, key |-> held[i]])
  /\ UNCHANGED <<server, held, told, used, message, phase, attempt, reconnected, retries,
                 supports, exits, network>>

-----------------------------------------------------------------------------
(* The bridge *)

\* One exchange: the request goes out and the bridge waits.
NewAttempt ==
  CHOOSE n \in 1 .. Cardinality(requests) + 1 : \A r \in requests : r.attempt # n
Exchange(m) ==
  /\ attempt' = NewAttempt
  /\ requests' = requests \cup {[attempt |-> NewAttempt, message |-> m]}
  /\ phase' = "waiting"

\* Mutant: the old connection is left open.
HangUpNot == attempt' = 0 /\ UNCHANGED replies

\* The connection of the exchange is closed: a reply still to come goes nowhere.
HangUp == attempt' = 0 /\ replies' = {}

\* prepareBridgeWriteMessage: a key for a write without one, once the server is
\* known to keep receipts.
Prepared(m, key) ==
  IF supports /\ m.key = NoKey /\ ~ReadOnly(m) THEN key \in Uuids \ used ELSE key = m.key

SendNext ==
  /\ phase = "idle" /\ queue # <<>>
  /\ \E key \in Uuids \cup {NoKey} :
       /\ Prepared(Head(queue), key)
       /\ message' = [Head(queue) EXCEPT !.key = key]
       /\ used' = used \cup ({key} \ {NoKey})
       /\ Exchange(message')
  /\ queue' = Tail(queue)
  /\ reconnected' = FALSE /\ retries' = NoRetries
  /\ UNCHANGED <<server, asked, held, calls, told, supports, exits, replies>>

\* The message is dealt with.
Done ==
  /\ message' = NoMessage /\ phase' = "idle"
  /\ reconnected' = FALSE /\ retries' = NoRetries
  /\ HangUp
  /\ UNCHANGED <<queue, exits, requests>>

\* A JSON reply is forwarded to the caller.  This server's replies say that it keeps
\* receipts; what a proxy answers in its place, or an older server that is started
\* instead, may not.
ForwardAnswer(reply) ==
  LET i == message.intent IN
  /\ reply.kind = "answer"
  /\ asked' = [asked EXCEPT ![i] = IF reply.answer.status = "ok" THEN "ok" ELSE "refused"]
  /\ told' = [told EXCEPT ![i] = IF reply.answer.status = "ok" /\ Writes(i)
                                 THEN {reply.answer.effect} ELSE @]
  /\ supports' \in BOOLEAN
  /\ Done
  /\ UNCHANGED <<server, held, calls, used>>

\* Mutant: the error is only logged.
ReportNothing == Done /\ UNCHANGED <<server, caller>>

\* Whatever else ends a message is an error for the caller; it names the key the
\* message carried.
ReportUnknown ==
  /\ asked' = [asked EXCEPT ![message.intent] = "unknown"]
  /\ held' = [held EXCEPT ![message.intent] = message.key]
  /\ Done
  /\ UNCHANGED <<server, calls, told, used>>

\* A network error, our own timeout or a 5xx; or a reply whose header was read and
\* whose body was not.
GiveUp ==
  /\ phase \in {"waiting", "backoff"}
  /\ ReportUnknown
  /\ \/ UNCHANGED supports
     \/ (\E reply \in replies : reply.kind = "answer") /\ supports' \in BOOLEAN

\* A network error of something that may be repeated.
RetryAfterError ==
  /\ phase = "waiting" /\ Retryable(message) /\ retries.network < MaxRetries
  /\ phase' = "backoff" /\ Retry("network")
  /\ HangUp
  /\ UNCHANGED <<server, caller, queue, message, reconnected, supports, exits, requests>>

\* HTTP 429 of the server's admission: wait, up to maxRetries times.
Throttled(reply) ==
  /\ reply.kind = "throttled" /\ retries.throttled < MaxRetries
  /\ phase' = "backoff" /\ Retry("throttled")
  /\ HangUp
  /\ UNCHANGED <<server, caller, queue, message, reconnected, supports, exits, requests>>

\* ... or the retries or the time to wait are used up.
ThrottledTooOften(reply) ==
  /\ reply.kind = "throttled"
  /\ ReportUnknown
  /\ UNCHANGED supports

BackoffEnds ==
  /\ phase = "backoff"
  /\ Exchange(message)
  /\ UNCHANGED <<server, caller, queue, message, reconnected, retries, supports, exits, replies>>

\* HTTP 404, or a 400 that says there is no session: one reconnect per message.
SessionExpired(reply) ==
  /\ reply.kind = "expired" /\ ~reconnected
  /\ phase' = "expired"
  /\ HangUp
  /\ UNCHANGED <<server, caller, queue, message, reconnected, retries, supports, exits, requests>>

SessionExpiredAgain(reply) ==
  /\ reply.kind = "expired" /\ reconnected
  /\ ReportUnknown
  /\ UNCHANGED supports

\* The handshake with the new session succeeds, and the message goes out again
\* as it was.
Reconnect ==
  /\ phase = "expired"
  /\ Exchange(message)
  /\ reconnected' = TRUE /\ retries' = NoRetries /\ supports' \in BOOLEAN
  /\ UNCHANGED <<server, caller, queue, message, exits, replies>>

\* The handshake fails, its first half perhaps answered.
ReconnectFails ==
  /\ phase = "expired"
  /\ ReportUnknown
  /\ supports' \in BOOLEAN

\* The bridge ends with its host, which starts it again.  Calls it had not
\* answered stay unanswered; a key it had added is lost with it.
BridgeExit ==
  /\ exits < MaxExits
  /\ exits' = exits + 1
  /\ queue' = <<>> /\ message' = NoMessage /\ phase' = "idle"
  /\ reconnected' = FALSE /\ retries' = NoRetries /\ supports' = FALSE
  /\ HangUp
  /\ asked' = [i \in Intents |-> IF asked[i] = "calling" THEN "unknown" ELSE asked[i]]
  /\ UNCHANGED <<server, held, calls, told, used, requests>>

-----------------------------------------------------------------------------
(* The server's end *)

\* The reply, if the bridge still waits for it.
Reply(request, kind, answer) ==
  /\ requests' = requests \ {request}
  /\ replies' = IF request.attempt # attempt THEN replies
                ELSE {[attempt |-> attempt, kind |-> kind, answer |-> answer]}

Serve(request) ==
  /\ \E answer \in Possible(request.message) :
       /\ Handle(request.message, answer)
       /\ Reply(request, "answer", answer)
  /\ UNCHANGED <<caller, bridge>>

\* Admission comes before the handler.  The server keeps no sessions: an expired one
\* is the answer of a proxy, or of a server that does.
TurnAway(request) ==
  /\ \E kind \in {"throttled", "expired"} : Reply(request, kind, Failure("refused"))
  /\ UNCHANGED <<server, caller, bridge>>

Init ==
  /\ ServerInit
  /\ asked = [i \in Intents |-> "idle"] /\ held = [i \in Intents |-> NoKey]
  /\ calls = [i \in Intents |-> 0] /\ told = [i \in Intents |-> {}] /\ used = {}
  /\ queue = <<>> /\ message = NoMessage /\ phase = "idle" /\ attempt = 0
  /\ reconnected = FALSE /\ retries = NoRetries /\ supports = FALSE /\ exits = 0
  /\ requests = {} /\ replies = {}

BridgeStep ==
  \/ SendNext \/ GiveUp \/ RetryAfterError \/ BackoffEnds \/ Reconnect \/ ReconnectFails
  \/ \E reply \in replies : 
       \/ ForwardAnswer(reply)
       \/ Throttled(reply) \/ ThrottledTooOften(reply)
       \/ SessionExpired(reply) \/ SessionExpiredAgain(reply)

Next ==
  \/ \E i \in Intents : CallAgain(i) \/ \E key \in Uuids \cup {NoKey} : Call(i, key)
  \/ BridgeStep
  \/ BridgeExit
  \/ \E request \in requests : Serve(request) \/ TurnAway(request)
  \/ OtherWrites /\ UNCHANGED <<caller, bridge, network>>

Spec == Init /\ [][Next]_vars

\* Every wait of the bridge has a timeout (for the body of a reply, the HTTP
\* client's own), and so its event loop always has something to go on with while
\* a message is being sent.
FairSpec == Spec /\ WF_vars(BridgeStep)

-----------------------------------------------------------------------------
(* Properties *)

\* Types; and a reply is only ever on its way to the exchange that waits for it.
TypeOK ==
  /\ ServerTypeOK
  /\ asked \in [Intents -> {"idle", "calling", "ok", "refused", "unknown"}]
  /\ held \in [Intents -> Uuids \cup {NoKey}]
  /\ calls \in [Intents -> Nat]
  /\ told \in [Intents -> SUBSET Effect]
  /\ used \subseteq Uuids
  /\ queue \in Seq(Request)
  /\ message \in Request \cup {NoMessage}
  /\ phase \in Phases
  /\ attempt \in Nat /\ retries \in [{"throttled", "network"} -> Nat] /\ exits \in Nat
  /\ reconnected \in BOOLEAN /\ supports \in BOOLEAN
  /\ requests \subseteq [attempt: Nat, message: Request]
  /\ \A r \in replies : r.attempt = attempt /\ phase = "waiting"

\* The whole path keeps the promise of OnceOnly: nothing is written twice for one
\* intent, keyed or not, and no caller is told of a write that was not made for it,
\* with retries, reconnects, late requests, and repeated calls in any order.
Promise == INSTANCE OnceOnly WITH Effects <- Ids \X (1 .. MaxStamp), done <- effects, told <- told
WritesOnceOnly == Promise!Spec

\* A write that was committed under a key is never answered by what its
\* preconditions say now: create_if_absent finds its own entry, a swap its own stamp.
CommittedIsNotRefused ==
  [][\A request \in requests \ requests' :
       LET m == request.message IN
         m.key # NoKey /\ effects[m.intent] # {} =>
           ~\E r \in replies' \ replies : r.kind = "answer" /\ r.answer.status = "refused"]_vars

\* entry_available and not entry_changed: the entry is still as this write left it.
UnchangedMeansUntouched ==
  [][\A request \in requests \ requests', r \in replies' \ replies :
       LET id == r.answer.effect[1] IN
         /\ Writes(request.message.intent)
         /\ r.answer.status = "ok" /\ r.answer.entry_available /\ ~r.answer.entry_changed
         => /\ id \in DOMAIN rows' /\ rows'[id].is_current
            /\ rows'[id].writer = request.message.intent]_vars

\* Every call is answered, with an outcome or with an error.
EveryCallAnswered == \A i \in Intents : asked[i] = "calling" ~> asked[i] # "calling"

=============================================================================
