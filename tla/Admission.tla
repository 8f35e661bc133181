------------------------------ MODULE Admission ------------------------------
(***************************************************************************)
(* Admission of POST /mcp (src/src/rate-limit.ts, src/src/index.ts): a     *)
(* request pays one token of its caller's bucket, one of its credential's  *)
(* and one of the process's, or none.  The tables of buckets are bounded:  *)
(* a newcomer who finds a full one shares its overflow bucket.             *)
(*                                                                         *)
(* Tokens are counted in parts of 1/WindowMs of a token, so that a bucket  *)
(* gains max parts in a unit of time.  The clock does not go back here: a  *)
(* clock set back ages buckets in the code.                                *)
(***************************************************************************)
EXTENDS Integers, FiniteSets

CONSTANTS
  Callers,        \* caller keys: a client's header, a session, or "shared"
  Credential,     \* the authenticated credential of a caller
  CallerMax,      \* MUNIN_RATE_LIMIT_PER_CALLER_MAX
  CredentialMax,  \* MUNIN_RATE_LIMIT_PER_CREDENTIAL_MAX
  GlobalMax,      \* MUNIN_RATE_LIMIT_GLOBAL_MAX
  WindowMs,       \* MUNIN_RATE_LIMIT_WINDOW_MS
  MaxCallers,     \* MUNIN_RATE_LIMIT_MAX_CALLERS
  MaxTime         \* bound on the clock

VARIABLES
  now,          \* Date.now()
  callers,      \* callers that have a bucket
  credentials,  \* credentials that have one
  bucket,       \* the state of every bucket
  served        \* bucket -> the requests it had paid for by an instant

vars == <<now, callers, credentials, bucket, served>>

Credentials == {Credential[c] : c \in Callers}
Shared == {"callerOverflow", "credentialOverflow", "global"}
Buckets == Callers \cup Credentials \cup Shared

Capacity(b) ==
  IF b \in Callers \cup {"callerOverflow"} THEN CallerMax
  ELSE IF b = "global" THEN GlobalMax ELSE CredentialMax

Full(b) == [parts |-> Capacity(b) * WindowMs, lastSeen |-> now]

-----------------------------------------------------------------------------
(* Buckets *)

Expired(b) == now - bucket[b].lastSeen >= 2 * WindowMs

\* Mutant: a newcomer takes the place of whoever is there.
KeysAs(table, key) ==
  IF key \in table \/ Cardinality(table) < MaxCallers THEN table \cup {key} ELSE {key}

\* Who has a bucket once getBoundedBucket has looked for key's.
Keys(table, key) ==
  IF key \in table THEN table
  ELSE LET live == {k \in table : ~Expired(k)}
       IN IF Cardinality(live) >= MaxCallers THEN live ELSE live \cup {key}

BucketOf(table, key, overflow) == IF key \in Keys(table, key) THEN key ELSE overflow

\* Mutant: a bucket that was left alone for long overflows.
RefilledAs(b) ==
  [parts |-> bucket[b].parts + (now - bucket[b].lastSeen) * Capacity(b), lastSeen |-> now]

\* refillRateLimit; lastRefill and lastSeen are the same instant.
Refilled(b) ==
  LET parts == bucket[b].parts + (now - bucket[b].lastSeen) * Capacity(b)
      top == Capacity(b) * WindowMs
  IN [parts |-> IF parts < top THEN parts ELSE top, lastSeen |-> now]

\* The three buckets of a request; those of newcomers are new, and full.
Touched(c) ==
  LET key == Credential[c]
      mine == BucketOf(callers, c, "callerOverflow")
      whole == BucketOf(credentials, key, "credentialOverflow")
      new == (({c} \ callers) \cup ({key} \ credentials)) \cap {mine, whole}
  IN [b \in {mine, whole, "global"} |-> IF b \in new THEN Full(b) ELSE Refilled(b)]

Pays(state) == state.parts >= WindowMs

-----------------------------------------------------------------------------
(* Requests *)

\* admit: a request that any of its three buckets cannot pay costs none of them.
Request(c) ==
  LET touched == Touched(c)
      allowed == \A b \in DOMAIN touched : Pays(touched[b])
      cost == IF allowed THEN WindowMs ELSE 0
  IN /\ callers' = Keys(callers, c)
     /\ credentials' = Keys(credentials, Credential[c])
     /\ bucket' = [b \in Buckets |->
                    IF b \in DOMAIN touched THEN [touched[b] EXCEPT !.parts = @ - cost]
                    ELSE bucket[b]]
     /\ served' = [b \in Buckets |->
                    IF allowed /\ b \in DOMAIN touched
                    THEN [t \in 0 .. MaxTime |-> served[b][t] + (IF t < now THEN 0 ELSE 1)]
                    ELSE served[b]]
     /\ UNCHANGED now

Tick == now < MaxTime /\ now' = now + 1 /\ UNCHANGED <<callers, credentials, bucket, served>>

Init ==
  /\ now = 1 /\ callers = {} /\ credentials = {}
  /\ bucket = [b \in Buckets |-> Full(b)]
  /\ served = [b \in Buckets |-> [t \in 0 .. MaxTime |-> 0]]

Next == Tick \/ \E c \in Callers : Request(c)

Spec == Init /\ [][Next]_vars

-----------------------------------------------------------------------------
(* Properties *)

\* Every variable has its type.
TypeOK ==
  /\ now \in 1 .. MaxTime /\ callers \subseteq Callers /\ credentials \subseteq Credentials
  /\ \A b \in Buckets : bucket[b].parts \in 0 .. Capacity(b) * WindowMs
                        /\ bucket[b].lastSeen \in 0 .. now

\* In no stretch of time does a bucket pay for more than a full one and what
\* flows in meanwhile, though it may have been dropped and made anew: a caller
\* gains nothing by filling the table, or by staying away.
AdmissionBounded ==
  \A b \in Buckets : \A from \in 1 .. now, to \in 1 .. now :
    from <= to =>
      (served[b][to] - served[b][from - 1]) * WindowMs <= Capacity(b) * (WindowMs + to - from)

=============================================================================
