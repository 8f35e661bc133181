----------------------------- MODULE EntryStore -----------------------------
(***************************************************************************)
(* The `entries` and `entry_supersessions` tables of munin-memory and the  *)
(* operations that write them: memory_write (full write, compare-and-swap, *)
(* create_if_absent, patch, supersedes), memory_update_status, memory_log, *)
(* and the two-phase memory_delete.  src/src/db.ts holds the transactions, *)
(* src/src/tools.ts the handlers around them.                              *)
(*                                                                         *)
(* A client is one connection to the database: a server process or a CLI.  *)
(* Writers take SQLite's IMMEDIATE lock, so each transaction is one action;*)
(* what a handler reads before its transaction is a step of its own.       *)
(*                                                                         *)
(* Every write that stores something is numbered: nextRev is the number of *)
(* the next one.  The number is not in the database.  It says which write  *)
(* a row, a client's memory of a row or a preview came from, and it doubles*)
(* as the random UUID of a row inserted by that write.                     *)
(***************************************************************************)
EXTENDS Integers, Sequences, FiniteSets

CONSTANTS
  Keys,                 \* keys of state entries in the one modelled namespace
  StatusKeys,           \* those memory_update_status may write
  NoKey,                \* the NULL key of a log, or a delete without a key
  Clients,              \* connections, each acting for a principal of its own
  OwnerClients,         \* those whose principalType is "owner"
  Contents,             \* content, tags and validity of a state entry
  LogContents,          \* the same for a log entry
  AllowNamespaceDelete, \* MUNIN_ALLOW_NAMESPACE_DELETE
  ClockStepsBack,       \* may the wall clock be set back between two calls?
  DeleteTokenTTL,       \* DELETE_TOKEN_TTL_MS
  MaxTime,              \* bound on the clock
  MaxRevs,              \* bound on the number of writes
  MaxTokens             \* bound on the delete tokens a process holds

ASSUME EntryStoreAssumption ==
  /\ NoKey \notin Keys
  /\ StatusKeys \subseteq Keys
  /\ OwnerClients \subseteq Clients
  /\ AllowNamespaceDelete \in BOOLEAN
  /\ ClockStepsBack \in BOOLEAN
  /\ DeleteTokenTTL \in Nat
  /\ MaxTime \in Nat /\ MaxRevs \in Nat /\ MaxTokens \in Nat

VARIABLES
  now,            \* the wall clock, in the milliseconds of an ISO timestamp
  rows,           \* entries: id -> row
  supersessions,  \* entry_supersessions
  nextRev,        \* number of the next write
  seen,           \* what each client last learned of each key
  merging,        \* the memory_update_status call a client is in, if any
  tokens,         \* deleteTokens of each process
  said            \* per key, the writings since it was created: <<from, rev>>

vars == <<now, rows, supersessions, nextRev, seen, merging, tokens, said>>

-----------------------------------------------------------------------------
(* Data *)

\* A stamp of 0 is an absent expected_updated_at; a real clock reads more.
NoStamp == 0

Row == [kind: {"state", "log"}, key: Keys \cup {NoKey},
        content: Contents \cup LogContents, rev: Nat, owner: Clients,
        created_at: Nat, updated_at: Nat, valid_from: Nat, is_current: BOOLEAN]

Supersession == [predecessor: Nat, successor: Nat, effective_at: Nat]

\* What a read returns of a row and the client keeps: id, updated_at, and the
\* write they belong to.  Write 0 is no row at all.
Sighting == [id: Nat, updated_at: Nat, rev: Nat]
NoSighting == [id |-> 0, updated_at |-> NoStamp, rev |-> 0]
Sight(i) == [id |-> i, updated_at |-> rows[i].updated_at, rev |-> rows[i].rev]

\* memory_update_status between its read and its write.
Merge == [key: Keys \cup {NoKey}, base: Sighting, expected: Nat]
NoMerge == [key |-> NoKey, base |-> NoSighting, expected |-> NoStamp]

\* What the fingerprint digests of a row, with the write it belongs to.
RowPrint == [id: Nat, updated_at: Nat, content: Contents \cup LogContents, rev: Nat]
DeleteToken == [scope: Keys \cup {NoKey}, prints: SUBSET RowPrint, expires: Nat]

IsState(k, i) == rows[i].kind = "state" /\ rows[i].key = k
StateRows(k) == {i \in DOMAIN rows : IsState(k, i)}
Current(k) == {i \in StateRows(k) : rows[i].is_current}
CurrentLogs == {i \in DOMAIN rows : rows[i].kind = "log" /\ rows[i].is_current}
HasSuccessor(i) == \E s \in supersessions : s.predecessor = i

Later(a, b) == IF a > b THEN a ELSE b

\* Mutant: the clock alone stamps a rewrite.
MutationTimeUnbumped(row) == now

\* nextStateMutationTimestamp: strictly after the row's own recorded boundary.
MutationTime(row) == Later(now, Later(row.updated_at, row.valid_from) + 1)

CanWriteMore == nextRev <= MaxRevs

-----------------------------------------------------------------------------
(* What a transaction does to the tables *)

NewRow(kind, k, owner, content, validFrom) ==
  [kind |-> kind, key |-> k, content |-> content, rev |-> nextRev, owner |-> owner,
   created_at |-> now, updated_at |-> now, valid_from |-> validFrom,
   is_current |-> TRUE]

Rewritten(row, content, stamp) ==
  [row EXCEPT !.content = content, !.rev = nextRev, !.updated_at = stamp,
              !.valid_from = stamp]

Retired(row) == [row EXCEPT !.is_current = FALSE]

\* INSERT of a row whose id is fresh.
WithRow(table, row) ==
  [i \in DOMAIN table \cup {nextRev} |-> IF i = nextRev THEN row ELSE table[i]]

Learn(c, k, id, stamp) ==
  seen' = [seen EXCEPT ![c][k] = [id |-> id, updated_at |-> stamp, rev |-> nextRev]]

Say(k, from) == said' = [said EXCEPT ![k] = Append(@, [from |-> from, rev |-> nextRev])]

\* writeState's branch for a key with no current row.
CreateState(c, k, content) ==
  /\ CanWriteMore
  /\ Current(k) = {}
  /\ rows' = WithRow(rows, NewRow("state", k, c, content, now))
  /\ nextRev' = nextRev + 1
  /\ Learn(c, k, nextRev, now)
  /\ Say(k, now)
  /\ UNCHANGED <<now, supersessions, tokens>>

\* The in-place UPDATE of writeState and patchState.
RewriteState(c, k, content) ==
  /\ CanWriteMore
  /\ \E i \in Current(k) :
       LET stamp == MutationTime(rows[i]) IN
         /\ rows' = [rows EXCEPT ![i] = Rewritten(rows[i], content, stamp)]
         /\ nextRev' = nextRev + 1
         /\ Learn(c, k, i, stamp)
         /\ Say(k, stamp)
  /\ UNCHANGED <<now, supersessions, tokens>>

\* The compare-and-swap precondition of writeState and patchState.  It holds
\* of an absent row: writeState then creates it.
Unmodified(k, expected) ==
  expected # NoStamp => \A i \in Current(k) : rows[i].updated_at = expected

WriteState(c, k, content, expected) ==
  /\ Unmodified(k, expected)
  /\ CreateState(c, k, content) \/ RewriteState(c, k, content)

\* The common part of supersedeState and supersedeLog for a target i: retire
\* it, insert the correction under its owner, and link the two.
Supersede(i, content, validFrom) ==
  /\ CanWriteMore
  /\ rows[i].is_current /\ ~HasSuccessor(i)
  /\ validFrom >= rows[i].valid_from
  /\ rows' = WithRow([rows EXCEPT ![i] = Retired(rows[i])],
               NewRow(rows[i].kind, rows[i].key, rows[i].owner, content, validFrom))
  /\ supersessions' = supersessions \cup
       {[predecessor |-> i, successor |-> nextRev, effective_at |-> validFrom]}
  /\ nextRev' = nextRev + 1
  /\ UNCHANGED <<now, tokens, merging>>

-----------------------------------------------------------------------------
(* The tools *)

\* memory_read, memory_get or a query result: the client learns the revision,
\* or that there is none.
MemoryRead(c, k) ==
  /\ seen' = [seen EXCEPT ![c][k] =
                IF Current(k) = {} THEN NoSighting
                ELSE Sight(CHOOSE i \in Current(k) : TRUE)]
  /\ UNCHANGED <<now, rows, supersessions, nextRev, merging, tokens, said>>

\* memory_write without a precondition.
MemoryWrite(c, k, content) ==
  /\ WriteState(c, k, content, NoStamp)
  /\ UNCHANGED merging

\* memory_write with expected_updated_at = the stamp last learned.
CompareAndSwap(c, k, content) ==
  /\ seen[c][k] # NoSighting
  /\ WriteState(c, k, content, seen[c][k].updated_at)
  /\ UNCHANGED merging

\* memory_write with create_if_absent: the loser's conflict names the winner's
\* updated_at, and changes nothing.
MemoryCreateIfAbsent(c, k, content) ==
  /\ CreateState(c, k, content)
  /\ UNCHANGED merging

\* memory_write with patch: the new content is made from the row's own inside
\* the transaction.
MemoryPatch(c, k, content) ==
  /\ \E expected \in {NoStamp, seen[c][k].updated_at} : Unmodified(k, expected)
  /\ RewriteState(c, k, content)
  /\ UNCHANGED merging

\* The valid_from of a correction: the owner's, not in the future, or else now,
\* which a boundary already in the future pushes to itself.
CorrectionTimes(c, i) ==
  (IF c \in OwnerClients THEN rows[i].valid_from .. now ELSE {})
    \cup {Later(now, rows[i].valid_from)}

\* memory_write with supersedes = the id and expected_updated_at = the stamp
\* last learned.  Only the owner corrects another principal's entry.
MemorySupersede(c, k, content) ==
  LET i == seen[c][k].id IN
  /\ i \in StateRows(k)
  /\ c \in OwnerClients \/ rows[i].owner = c
  /\ rows[i].updated_at = seen[c][k].updated_at
  /\ \E validFrom \in CorrectionTimes(c, i) :
       /\ Supersede(i, content, validFrom)
       /\ Say(k, validFrom)
  /\ Learn(c, k, nextRev, now)

\* memory_update_status reads the entry it will merge into, outside any
\* transaction.  The later write is guarded by that entry's stamp: a caller's own
\* stamp that differs from it is refused here.  With no entry to read, the guard is
\* the caller's stamp, if it gave one.
UpdateStatusRead(c, k) ==
  /\ merging[c] = NoMerge
  /\ LET base == IF Current(k) = {} THEN NoSighting
                 ELSE Sight(CHOOSE i \in Current(k) : TRUE)
     IN \E expected \in (IF base = NoSighting THEN {NoStamp, seen[c][k].updated_at}
                        ELSE {base.updated_at}) :
          merging' = [merging EXCEPT ![c] = [key |-> k, base |-> base, expected |-> expected]]
  /\ UNCHANGED <<now, rows, supersessions, nextRev, seen, tokens, said>>

\* ... and writes the merged status.
UpdateStatusWrite(c, content) ==
  LET k == merging[c].key IN
  /\ k \in Keys
  /\ WriteState(c, k, content, merging[c].expected)
  /\ merging' = [merging EXCEPT ![c] = NoMerge]

\* ... or is refused, by the compare-and-swap or by validation.
UpdateStatusRefused(c) ==
  /\ merging[c] # NoMerge
  /\ merging' = [merging EXCEPT ![c] = NoMerge]
  /\ UNCHANGED <<now, rows, supersessions, nextRev, seen, tokens, said>>

\* memory_log.
AppendLog(c, content) ==
  /\ CanWriteMore
  /\ rows' = WithRow(rows, NewRow("log", NoKey, c, content, now))
  /\ nextRev' = nextRev + 1
  /\ UNCHANGED <<now, supersessions, seen, merging, tokens, said>>

\* memory_log with supersedes.  A log's updated_at never changes, so whoever
\* knows its id knows the stamp to expect.
SupersedeLog(c, content) ==
  /\ \E i \in CurrentLogs :
       /\ c \in OwnerClients \/ rows[i].owner = c
       /\ \E validFrom \in (IF c \in OwnerClients THEN rows[i].valid_from .. now
                            ELSE {now}) :
            Supersede(i, content, validFrom)
  /\ UNCHANGED <<seen, said>>

-----------------------------------------------------------------------------
(* memory_delete *)

\* The rows a delete by c covers.  A principal that is not the owner deletes
\* only what it owns.
InScope(c, scope, i) ==
  /\ scope = NoKey \/ IsState(scope, i)
  /\ c \in OwnerClients \/ rows[i].owner = c
DeleteTargets(c, scope) == {i \in DOMAIN rows : InScope(c, scope, i)}

\* assertCompleteLineageSelection: the selection cuts no correction chain.
CompleteLineage(targets) ==
  \A s \in supersessions : s.predecessor \in targets <=> s.successor \in targets

PrintsOf(targets) ==
  {[id |-> i, updated_at |-> rows[i].updated_at, content |-> rows[i].content,
    rev |-> rows[i].rev] : i \in targets}

\* What the digest covers of a set of prints: everything but the write number.
Fingerprint(prints) == {<<p.id, p.updated_at, p.content>> : p \in prints}

DeleteScopes == IF AllowNamespaceDelete THEN Keys \cup {NoKey} ELSE Keys

PreviewDelete(c, scope) ==
  LET targets == DeleteTargets(c, scope) IN
  /\ Cardinality(tokens[c]) < MaxTokens
  /\ CompleteLineage(targets)
  /\ tokens' = [tokens EXCEPT ![c] = @ \cup
       {[scope |-> scope, prints |-> PrintsOf(targets), expires |-> now + DeleteTokenTTL]}]
  /\ UNCHANGED <<now, rows, supersessions, nextRev, seen, merging, said>>

\* consumeDeleteToken: the token is spent whatever comes of the confirmation.
SpendToken(c, token) == tokens' = [tokens EXCEPT ![c] = @ \ {token}]

\* Mutant: the confirmation trusts the token and does not look at the rows again.
ConfirmsUnread(c, token, scope) ==
  /\ token.expires >= now
  /\ token.scope = scope

\* Is this confirmation of scope accepted?
Confirms(c, token, scope) ==
  /\ token.expires >= now
  /\ token.scope = scope
  /\ CompleteLineage(DeleteTargets(c, scope))
  /\ Fingerprint(PrintsOf(DeleteTargets(c, scope))) = Fingerprint(token.prints)

\* deleteKeySingle removes nothing of a key without a current row in scope.
Removed(c, scope) ==
  LET targets == DeleteTargets(c, scope) IN
    IF scope # NoKey /\ targets \cap Current(scope) = {} THEN {} ELSE targets

\* Mutant: the rows go and their links stay.
LineageLeftBehind(gone) == supersessions

\* deleteLineageForSelection: the links of the removed rows go with them.
LineageWithout(gone) ==
  {s \in supersessions : s.predecessor \notin gone /\ s.successor \notin gone}

ConfirmDelete(c, token, scope) ==
  LET gone == Removed(c, scope) IN
  /\ token \in tokens[c]
  /\ Confirms(c, token, scope)
  /\ SpendToken(c, token)
  /\ rows' = [i \in DOMAIN rows \ gone |-> rows[i]]
  /\ supersessions' = LineageWithout(gone)
  /\ said' = [k \in Keys |-> IF StateRows(k) \subseteq gone THEN <<>> ELSE said[k]]
  /\ UNCHANGED <<now, nextRev, seen, merging>>

\* A refused confirmation, or one whose deferred transaction could not take the
\* write lock on its snapshot: nothing is deleted and the token is gone.
ConfirmDeleteFails(c, token, scope) ==
  /\ token \in tokens[c]
  /\ ~Confirms(c, token, scope) \/ Clients # {c}
  /\ SpendToken(c, token)
  /\ UNCHANGED <<now, rows, supersessions, nextRev, seen, merging, said>>

\* deleteTokenCleanupTimer.
SweepTokens(c) ==
  /\ \E token \in tokens[c] : token.expires < now
  /\ tokens' = [tokens EXCEPT ![c] = {t \in @ : t.expires >= now}]
  /\ UNCHANGED <<now, rows, supersessions, nextRev, seen, merging, said>>

-----------------------------------------------------------------------------
(* The environment *)

\* A process ends and starts again: its memory goes, committed rows stay.
Restart(c) ==
  /\ tokens' = [tokens EXCEPT ![c] = {}]
  /\ merging' = [merging EXCEPT ![c] = NoMerge]
  /\ UNCHANGED <<now, rows, supersessions, nextRev, seen, said>>

Tick ==
  /\ now' \in (IF ClockStepsBack THEN 1 ELSE now) .. MaxTime \ {now}
  /\ UNCHANGED <<rows, supersessions, nextRev, seen, merging, tokens, said>>

Init ==
  /\ now = 1
  /\ rows = [i \in {} |-> 0]
  /\ supersessions = {}
  /\ nextRev = 1
  /\ seen = [c \in Clients |-> [k \in Keys |-> NoSighting]]
  /\ merging = [c \in Clients |-> NoMerge]
  /\ tokens = [c \in Clients |-> {}]
  /\ said = [k \in Keys |-> <<>>]

Next ==
  \/ Tick
  \/ \E c \in Clients :
       \/ \E k \in Keys : MemoryRead(c, k)
       \/ \E k \in StatusKeys : UpdateStatusRead(c, k)
       \/ \E k \in Keys, content \in Contents :
            \/ MemoryWrite(c, k, content)
            \/ CompareAndSwap(c, k, content)
            \/ MemoryCreateIfAbsent(c, k, content)
            \/ MemoryPatch(c, k, content)
            \/ MemorySupersede(c, k, content)
       \/ \E content \in Contents : UpdateStatusWrite(c, content)
       \/ UpdateStatusRefused(c)
       \/ \E content \in LogContents : AppendLog(c, content) \/ SupersedeLog(c, content)
       \/ \E scope \in DeleteScopes : PreviewDelete(c, scope)
       \/ \E token \in tokens[c], scope \in DeleteScopes :
            ConfirmDelete(c, token, scope) \/ ConfirmDeleteFails(c, token, scope)
       \/ SweepTokens(c)
       \/ Restart(c)

Spec == Init /\ [][Next]_vars

-----------------------------------------------------------------------------
(* Properties *)

\* Every variable keeps its type; a row's id and write number come from writes
\* already made, and no link names an id that was never given out.
TypeOK ==
  /\ now \in Nat \ {0}
  /\ nextRev \in Nat \ {0}
  /\ DOMAIN rows \subseteq 1 .. nextRev - 1
  /\ rows \in [DOMAIN rows -> Row]
  /\ supersessions \subseteq Supersession
  /\ seen \in [Clients -> [Keys -> Sighting]]
  /\ merging \in [Clients -> Merge]
  /\ tokens \in [Clients -> SUBSET DeleteToken]
  /\ said \in [Keys -> Seq([from: Nat, rev: Nat])]

\* idx_entries_ns_key never has to refuse a write.
OneCurrentRow == \A k \in Keys : \A i, j \in Current(k) : i = j

\* A row is retired exactly when a correction replaced it.
RetiredIffSuperseded == \A i \in DOMAIN rows : ~rows[i].is_current <=> HasSuccessor(i)

\* A link joins two stored rows of one entry and one owner, the later inserted
\* after the earlier; validity moves forward along it.
LinksJoinRevisions ==
  \A s \in supersessions :
    /\ {s.predecessor, s.successor} \subseteq DOMAIN rows
    /\ s.predecessor < s.successor
    /\ LET p == rows[s.predecessor]
           q == rows[s.successor]
       IN /\ p.kind = q.kind /\ p.key = q.key /\ p.owner = q.owner
          /\ p.valid_from <= s.effective_at /\ s.effective_at <= q.valid_from

\* Chains do not fork or merge.
LinksFormChains ==
  \A s, t \in supersessions :
    s.predecessor = t.predecessor \/ s.successor = t.successor => s = t

\* History never outlives the entry: where a key has rows, one is current.
HistoryHasHead == \A k \in Keys : StateRows(k) # {} => Current(k) # {}

\* All revisions of a key belong to one principal, so a delete scoped to an
\* owner takes a whole chain or nothing of it.
OneOwner == \A k \in Keys : \A i, j \in StateRows(k) : rows[i].owner = rows[j].owner

\* The correction lineage is sound whatever mix of overwrites, corrections,
\* deletes and re-creations, by whichever connections, led to it.
LineageSound ==
  /\ OneCurrentRow
  /\ RetiredIffSuperseded
  /\ LinksJoinRevisions
  /\ LinksFormChains
  /\ HistoryHasHead
  /\ OneOwner

\* Does a remembered id and stamp still match a row?
StillMatches(s) == s.id \in DOMAIN rows /\ rows[s.id].updated_at = s.updated_at

\* A client that finds a row under the id and the updated_at it remembers finds
\* the write it remembers: no rewrite of a row is invisible in its stamp, even
\* in one millisecond or with the clock set back.  This is what a
\* compare-and-swap, a correction and a status merge rely on.
StampIdentifiesRevision ==
  \A c \in Clients :
    /\ \A k \in Keys : StillMatches(seen[c][k]) => rows[seen[c][k].id].rev = seen[c][k].rev
    /\ StillMatches(merging[c].base) => rows[merging[c].base.id].rev = merging[c].base.rev

\* Mutant: valid_from alone decides, superseded or not.
ValidAtIgnoringLineage(k, t) == {i \in StateRows(k) : rows[i].valid_from <= t}

\* readState(as_of): the rows valid at t, and the one returned.
ValidAt(k, t) ==
  {i \in StateRows(k) : /\ rows[i].valid_from <= t
                        /\ ~\E s \in supersessions : s.predecessor = i /\ s.effective_at <= t}
ReadAsOf(k, t) ==
  CHOOSE i \in ValidAt(k, t) : \A j \in ValidAt(k, t) :
    \/ rows[j].valid_from < rows[i].valid_from
    \/ rows[j].valid_from = rows[i].valid_from /\ j <= i

\* Mutant: a row is taken to be on record since its insertion, even where it
\* corrects an earlier instant.
HistoryUnavailableSinceCreation(k, t) ==
  \E i \in StateRows(k) : rows[i].created_at <= t /\ rows[i].valid_from > t

\* getStateAsOfCoverage: some row was on record at t, under wording since lost.
Earlier(a, b) == IF a < b THEN a ELSE b
HistoryUnavailable(k, t) ==
  \E i \in StateRows(k) :
    LET lineage == {s.effective_at : s \in {x \in supersessions : x.successor = i}}
        recordedFrom == IF lineage = {} THEN rows[i].created_at
                        ELSE Earlier(CHOOSE e \in lineage : TRUE, rows[i].created_at)
    IN recordedFrom <= t /\ rows[i].valid_from > t

\* The writes said to be valid from t or earlier, and the last of them.
SaidBy(k, t) == {n \in DOMAIN said[k] : said[k][n].from <= t}
LastSaid(k, t) == said[k][CHOOSE n \in SaidBy(k, t) : \A m \in SaidBy(k, t) : m <= n]

\* The instants at which one of the definitions above may change its value: what
\* holds of them holds of every instant.
Instants(k) ==
  (UNION {{rows[i].valid_from, rows[i].created_at} : i \in StateRows(k)})
    \cup {s.effective_at : s \in supersessions} \cup {said[k][n].from : n \in DOMAIN said[k]}

\* memory_read(as_of) never returns a revision that was not the valid one: what
\* it finds is the last write said to hold at that instant.
AsOfFaithful ==
  \A k \in Keys : \A t \in Instants(k) :
    ValidAt(k, t) # {} =>
      SaidBy(k, t) # {} /\ rows[ReadAsOf(k, t)].rev = LastSaid(k, t).rev

\* ... and a miss where something did hold is reported as unavailable history,
\* never as an entry that did not exist.
AsOfMissesExplained ==
  \A k \in Keys : \A t \in Instants(k) :
    ValidAt(k, t) = {} /\ SaidBy(k, t) # {} => HistoryUnavailable(k, t)

\* Rows leave the store only by the confirmation of a live preview, and are
\* then exactly the rows, at exactly the writes, that the preview showed.
DeletesOnlyWhatWasPreviewed ==
  [][LET gone == DOMAIN rows \ DOMAIN rows' IN
       gone # {} => \E c \in Clients : \E token \in tokens[c] \ tokens'[c] :
         /\ token.expires >= now
         /\ {<<i, rows[i].rev>> : i \in gone} = {<<p.id, p.rev>> : p \in token.prints}]_vars

\* memory_write's expected_updated_at: "Returns a conflict error if the entry
\* was modified since".  An accepted compare-and-swap of a stored entry replaces
\* the write its caller last learned.
SwapReplacesWhatWasRead ==
  [][\A c \in Clients, k \in Keys, content \in Contents :
       CompareAndSwap(c, k, content) =>
         \A i \in Current(k) : rows[i].rev = seen[c][k].rev]_vars

=============================================================================
