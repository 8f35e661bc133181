# A TLA+ model of munin-memory

munin-memory is an MCP server that keeps an agent's long-term memory in one SQLite database. This directory
models the parts of it that hold state under concurrency, time and failure, checks them with TLC on small
instances, and proves the central invariants for all instances with TLAPS. Source references are to the
repository (`src/src/...` here is the repository's `src/`).

## The system

| Component | State | Operations | Hard because | Correct when |
|---|---|---|---|---|
| Entry store (`db.ts`, `tools.ts`) | `entries`, `entry_supersessions`; delete tokens in process memory | `memory_write` (full, swap, create_if_absent, patch, supersedes), `memory_update_status`, `memory_log`, `memory_delete` preview/confirm, `memory_read(as_of)` | several processes, millisecond stamps from a clock that may be set back, reads outside the write's transaction, long mixtures of overwrites and corrections | one current revision; chains without fork or gap; a stamp means a write; as-of reads never lie; only what was previewed is deleted |
| Embedding worker (`embeddings.ts`, `db.ts`) | `embedding_status` and `embedding_identity` of rows, `entries_vec`, breaker in process memory | claim a batch, embed, store, requeue, trip, start | awaits an extractor while rows change; crashes; several processes and models | no search by a stale vector; no row lost in `processing`; everything is indexed in the end |
| Write receipts (`tools.ts`, `migrations.ts`) | `write_receipts` | lookup, handler and receipt in one transaction; replay | retry of what was done, or of what half happened | a keyed write happens once and its replay tells the truth |
| stdio bridge (`bridge.ts`) | send queue, session, injected keys | forward, time out, wait out 429, retry reads, reconnect, report | requests may arrive late, twice or never | writes at most once; every call answered |
| HTTP server (`index.ts`, `rate-limit.ts`) | token buckets, connections, workers | admit, handle, drain, stop workers, exit | full tables, shutdown order, hanging clients and batches | no bucket pays twice; a shutdown ends, and is clean if it says so |
| OAuth (`oauth.ts`, `consent.ts`, `index.ts`) | clients, codes, tokens, pending consents | register, consent, exchange, refresh, revoke | two processes, single use, revocation races | a code or refresh token gives one pair; none after revocation |
| Review inbox (`review-inbox.ts`) | proposals and events | create, edit, approve, decline, undo, expire, purge | approval of stale proposals, double decisions | a proposal is applied once, to what it was made for |
| Consolidation (`consolidation.ts`) | backlog cursor, cross references, breaker, previews, alert entry | take a candidate, snapshot, await the model, store under guard; preview and confirm | a long await over changing entries; slices of a backlog; several processes | each log drained into one synthesis; nothing stored from a stale or unsendable snapshot; the backlog drains |
| Query snapshots (`tools.ts`, `db.ts`, `internal/reranker.ts`) | stored result lists, signed cursors | query, next page, evict, expire | entries and access change between pages; lists compete for room | a visible entry is on one page exactly; nobody loses a list to another's query |
| Onboarding (`onboarding/`) | device state file, `.env`, radio | Wi-Fi wizard, claim, regenerate, reset, watchdog, boot | crash between two files, parallel claims, fallbacks | a claimed device has a known key |
| Commitments (`db.ts`, `commitment-status.ts`, `tools.ts`) | rows derived from entries | diff on write, correction and read; resolve, cancel | must follow rewordings, corrections, callers that see less | open rows are the steps of the text; a rewording is not a delivery |
| Code health (`code-health.ts`, `db.ts`) | ledger, tombstones, export snapshots | append, correct, delete, prune, export | retention against references, deletes under an export | references resolve; complete means all; nothing deleted returns |
| Audit history (`db.ts`, `access.ts`, `internal/namespace-filter.ts`) | audit log | append, page back, poll | rows arrive between pages; rules and filter become selectors | a reader has exactly the rows it may see |
| Retrieval analytics (`db.ts`, `tools.ts`) | events, sessions, outcomes, feedback | log, correlate, prune, aggregate | outcomes belong to whatever came last; rows of different retention | rates are fractions |
| Access and classification (`access.ts`, `librarian.ts`) | rules, floors | check, redact, resolve | rules as data | selectors select what rules allow; ceilings are never exceeded |
| Others | – | intake advice, reranking, derived summaries, migrations, quickstart, admin CLI | text and files | listed in `PROJECT.json` with the reason they are left out |

The components meet in the `entries` table. Handlers write it in IMMEDIATE transactions, which SQLite runs one
at a time; what a handler reads before its transaction is a separate step and may be stale. The worker and the
consolidation read it, await something slow, and write back under a guard. The bridge reaches the handlers
through an unreliable network, and the receipts are what lets it ask again. `PROJECT.json` lists every hazard
found in the survey at its line, with the property that watches it, or a note why none does.

## Modules

| Module | Models |
|---|---|
| `EntryStore` | the entry and lineage tables and every tool that writes them |
| `EntryStoreProofs` | its theorems |
| `EmbeddingWorker` | the worker against the writers of its rows |
| `EmbeddingWorkerProofs` | its theorems |
| `OnceOnly` | abstract: what a caller of the write tools is promised |
| `WriteReceipts` | the server's half of write recovery: receipts around the write operations |
| `BridgedWrites` | callers, bridge and network composed with `WriteReceipts`; shown to implement `OnceOnly` |
| `BridgedWritesProofs` | its theorems, the refinement among them |
| `OAuthGrants` | consent, codes, token pairs, rotation and revocation, with the administration CLI beside the server |
| `OAuthGrantsProofs` | its theorems |
| `ReviewInbox` | proposals to write memory, their review, undo, expiry and purging, against other writers |
| `ReviewInboxProofs` | its theorems |
| `Consolidation` | the consolidation worker and previews against other writers |
| `Admission` | the rate limiter's bounded tables of token buckets |
| `Shutdown` | the life of a server process up to its exit code |
| `QuerySnapshots` | result lists, their storage, and the cursors into them |
| `Onboarding` | the appliance's states, its two files, its radio |
| `Commitments` | the rows derived from one status entry |
| `CodeHealth` | ledger, references, tombstones and exports of one producer |
| `NamespaceAccess` | rules, filters and selectors as operators |
| `AuditHistory` | a consumer of the audit log, over `NamespaceAccess` |
| `RetrievalAnalytics` | retrieval events, their outcomes, and the rates made of them |
| `ConsolidationProofs`, `AuditHistoryProofs` | their theorems |
| `ServerParts` | eight parts that share no state with each other, `Admission`, `Shutdown`, `QuerySnapshots`, `Onboarding`, `Commitments`, `CodeHealth`, `AuditHistory` (over `NamespaceAccess`) and `RetrievalAnalytics`, each instantiated over constants and variables of its own |
| `ServerPartsProofs` | their theorems |
| `MCServerParts` | the eight parts of `ServerParts` and `Consolidation`, nine in all, as one state machine for TLC |
| `MCCodeHealth` | the ledger alone, with the records and the promise of `health_dangling` |
| `MCEntryScenarios` | `EntryStore` in the two scenarios of `entry_store`, as one state machine for TLC |
| other `MC...` | constants for TLC, and the promises of the runs that end in a finding |

### EntryStore

`rows` is the table `entries`, `supersessions` the table `entry_supersessions`, `tokens` the delete tokens of
each process, `now` the wall clock in the resolution of an ISO timestamp. A client is a connection to the
database that acts for one principal. `seen` and `merging` are not in the database: they are what a caller
last learned of a key (the id and stamp it will pass as `supersedes` or `expected_updated_at`) and the status
entry a `memory_update_status` has read and not yet written. `rev` numbers the writes, so that properties can
say *which* write a row, a memory or a preview is about; `said` is the list of writings of a key, the yardstick
for as-of reads. Neither steers an action, except that an inserted row's UUID is its write number.

Transactions are actions. The transactions proper (`CreateState`, `RewriteState`, `Supersede`) are kept apart
from the tools built on them. `memory_update_status` takes two steps, and `memory_delete` two calls. A confirmed
delete runs in a *deferred* transaction, so that it may fail to take the lock with its token already spent
(`ConfirmDeleteFails`). Contents stand for content, tags and `valid_until` together. The delete fingerprint covers what `hashDeleteRow` digests, not
the write number. Tokens belong to a process in the code; a process here acts for one principal.

Left out: secret scanning and validation (they only refuse), audit rows, commitments, code-health rows (their
references constrain namespace deletes), the librarian's classification-scoped variant of delete, and reads
other than by key.

### EmbeddingWorker

The code between two awaits is an action: claim (`ClaimBatch`), look at the breaker and send a row
(`BeginEmbedding`, `RequeueClaimed`), store what comes back (`EmbeddingSucceeds`, `EmbeddingFails`). A batch
remembers of each claimed row what `RETURNING` gave it. Vectors are represented by what they were made from.
Writers appear as they look from the worker: a rewrite moves the stamp and takes the label, a correction retires
the row and its vector, a delete takes both. Queries share the extractor and the breaker (`QueryEmbeds`). `Exit` is
any end of the process, including the unhandled rejection of a batch that threw.

### WriteReceipts and BridgedWrites

A request is handled in one IMMEDIATE transaction, thus in one step (`Handle`): refusal (of access, or of the lock, whether or not there is a receipt), replay,
conflict of arguments, refusal by preconditions, or write and receipt together. An intent is one thing a caller
wants written; `effects` records the writes made for it and is the mapped variable of the refinement.

In `BridgedWrites` a request sent stays in `requests` until it is served, at any later time or never, also
after the bridge has given up on it; the reply is delivered only to the exchange that still waits. So a lost request, a
lost reply, a timeout, a broken connection and a crash of the server on either side of the commit are the same
`GiveUp` for the bridge. The caller is an MCP host outside this repository. It is modelled by the contract of
the error text: it repeats a write only with the key the error named, with the same arguments, and makes a
write without a key once. Whether the server takes keys is what the last good reply said in its header, of whatever server answered it (`supports`).

### OAuthGrants

`pending`, `codes`, `tokens` and `mapping` are the provider's map in memory and three tables. A grant is one
authorization, numbered; the number stands for its nonce and then for its code. A pair is what `issueTokenPair` inserts; its
number stands for both tokens and for `refresh_token_ref`. Grant 0 is what a database from before schema version 6 holds: a code or a
pair without a principal, for a client that may or may not have been given to someone. `approved`, `ended` and `asked` are
not in the program: they record what people decided, which the properties hold the tables to.

Every handler is one action. Exchanges, `clear` and `remove` run in IMMEDIATE transactions. `completeAuthorization`
is deferred but writes first. `revokeToken` is deferred and reads first: SQLite refuses its write if another process wrote in between,
and nothing has happened. The awaits before a handler (body parsing, the PKCE challenge) carry over nothing but what
`Authorize` was given, so that a code may be presented at any time and a pending authorization may be bound to a principal
revoked since. A rejected refresh rolls back and is no step. The clock does not go back. `oauth remove` leaves the row of
`oauth_clients`, as the code does: a removed client may be consented to again.

Left out: registration and client secrets, scopes and resources, PKCE verification (done by the SDK), static and service tokens.

### ReviewInbox

`proposals` is the table `review_proposals`; `current` and `logs` are what memory holds, `writes` every write made to it, with who made
it and what it replaced (the yardstick of the properties; only the ids and texts of entries steer an action). A revision is the number of a
write and stands for an entry's id and `updated_at` together, which `EntryStore` shows to name one write; its exception, a successor
stamped like its predecessor, is the first finding and is not repeated here. A text is the number of the revision that first held it.
`basis` and `edited` are not columns: the revision the target had when the operation was last worded, and whether it ever was reworded.

Each transition (`createReviewProposal`, `editReviewProposal`, `approveReviewProposal` and so on) is one IMMEDIATE transaction that reads the proposal again, and
every call but `preview` begins with `pruneReviewProposals` under the same clock reading, so a call is one action over the pruned
table. What `edit`, `memory_extract` and `prepare_undo` read of memory before their transaction is put in the row as a precondition, and `approve`
checks it again in its own: a write in between looks as one after the call. An approval writes memory in the transaction that
decides the proposal, and the approval of an undo closes the original in it too; if it cannot, everything is rolled back
(`CanMark`). `preview` changes nothing; what it may show is `PurgedOrDue`.

Left out: sessions (any caller may ask for scope `principal`), access, classification, secrets and injection flags, which refuse or label; the event log;
`memory_update_status` operations, which differ from a write of the key `status` in their text only. That an open proposal
expires in the end is a timer's doing and not checked.

### Consolidation

One action lies between two awaits: `TakeCandidate` reads a snapshot and asks the model, `SynthesisSucceeds` and `SynthesisFails` are
its answer, and `AskAgain` the retry, which reads anew and must find the same. `Persist` is the transaction that
compares the snapshot's fingerprint, stores the synthesis, replaces the cross references (or adds to them in the middle of a drain) and moves
the cursor to the last log of the window. A window is the first `MaxLogsPerRun` logs beyond the cursor in the order of `(created_at, id)`. The
UUID is random, so a log's rank is any number not used yet; logs that arrive behind the cursor are remembered in `late`. What a synthesis reads besides the logs
is one number per namespace, its last change, and one level, the highest classification of them. `RequestPreview` and
`ConfirmPreview` are the two calls of the tool with the same guards around the same transaction.

What the model shows besides its properties: the fingerprint covers the window and not the whole backlog, so that a newer log beyond a full window does not make a
confirmation stale, as `CHANGELOG.md:490` has it; a confirmation outside a drain, like a batch, replaces the references with those it found, none for a
preview; and a log that a clock set back stamps before the cursor, or that gets a smaller id within the cursor's own
millisecond after the cursor got there, is in no backlog any more (`late`).

### Admission and Shutdown

`Admission` counts tokens in parts of 1/`WindowMs`, so that refilling is exact. `Keys` is who has a bucket after a look-up: a newcomer sweeps out who was
away for two windows and is sent to the overflow bucket if the table is still full. `served` counts per instant what each bucket paid for and steers nothing.

In `Shutdown` a client's connection is apart from its handler: a handler goes on when its client is gone, and the exit does not
wait for it. A worker's batch may end, reject or hang. Two things the model keeps that a reader may not expect: a batch that rejects while
no stop awaits it is an unhandled rejection, which ends the process (`"crashed"`), although the workers are described as soft dependencies; and connections closed by
force after the drain timeout do not count as a failure, so a shutdown that cut off requests may still exit with 0. `CleanExit` is about what 0 does promise.

### QuerySnapshots

An entry is its rank in what a query retrieves. A list is the rerank window in any order, what a broad question is given beside it, and the rest; what the caller may not read is
left out, and the list is cut. A snapshot keeps the list and the cursors into it, each with the results
seen on the pages it was reached by, so that branches and repetitions are followed too. The query's embedding is awaited
between `Ask` and `Query`: the first page is made with the access resolved before. `hidden` are the entries that were not visible at some time since the
list was stored. `include_expired` is left out, and bytes are counts.

### Onboarding

The claim's two writes are two steps (`Claim`, `FinishClaim`; `Regenerate`, `FinishRegenerate`), so that a crash or the watchdog comes between
them. `routes` is what the process mounted at boot and may be behind the state, as in the code. Between two runs either file may be lost and the state file damaged
(`EnvFileLost`, `StateFileLost`): a damaged one that still holds the device's secrets is written anew at boot, a missing one (or one without them) is read as `UNCONFIGURED` but not written, so that the wizard is mounted and each of its transitions throws until the first-boot script, which is outside the repository, makes the
file again. `link` is what `getStatus` says, which looks for "connected" in the device's state and finds it in "disconnected" too (`wifi.ts:130`). The launcher that restarts the process is outside the repository. Observed on the way, and
not claimed by any document: a failed connect whose hotspot does not come up again leaves the device out of reach until the power is cycled; a factory reset keeps `.env`; a crash
between the two writes of a regeneration leaves a key in force that was shown to nobody (`torn`, which `KeyIsKnown` excuses).

### Commitments

The rows of one status entry and its corrections. `Synced` is `syncCommitmentsForEntry`: rows whose step is still there stay, a wording that is
some row's one best match, and whose one best match the row is, revises that row (`Revisions`), other new wordings get rows, other open rows are resolved. A row's step is its fingerprint: a step written again in other words of the same
fingerprint, or with another date, keeps its row, which takes them over (`Kept`, `Unseen`). A new row is dated by its entry. `Alike` is how much two wordings
share. Only a caller whose tracked patterns hold the namespace diffs (`Tracks`). Rows without a fingerprint version are those of an older database.
`RewordingIsNotDelivery` excuses what the code cannot tell: a tie between wordings, or a wording that had a row of its own before. A label that says the work
stopped or failed resolves its steps as done, as the code does. Deletes and the `since` filter are left out.

### CodeHealth

A ledger row is live or a tombstone. `Store` validates a new record against the stored context that its caller may see. `Prune` follows the code in three sets: what has expired, what refers to it, and the
correction chains of these. The comment at `db.ts:1157` says that references cannot become dangling that way. They can (`health_dangling`, the fourth finding): a record that is taken along as a mate of a chain may be referred to by
one that is not affected; `torn` remembers such mates and `RefsResolve` is stated but for them. Every export of a page that reaches such a record fails. Exports
remember what there was to see when they began (`whole`) and what they got.

### NamespaceAccess and AuditHistory

A namespace is its sequence of segments, so that the string prefix `x/` is "strictly below `x`". `SelectedBy` is the way from rules and filter to the selectors in the SQL, with their normalization
and intersection; `CanRead` and `MatchesFilter` are the definitions it must agree with. `AuditHistory` reads the log with it, by
row ids, backwards from a first page and forwards from its sync cursor.

### RetrievalAnalytics

An event, the outcomes that the same session's later calls bring it, and the next event's verdict on it. `RatesAreFractions` is about every
period that reaches to the present, after any pruning. It assumes a clock that advances: set back, the parts of a rate can fall into
different periods. `memory_retrieval_feedback` always answers `linked_to_event: true` (`tools.ts:13136`), although the row is not linked when the session has no recent event (`Feedback`).
An event that would count a pruned one as reformulated is not logged, because its outcome has no event to refer to; that takes a retention below the five minutes for which a session's calls are correlated.

## Runs

| Run | Bounds | Shows |
|---|---|---|
| `entry_store`, scenario `history` | 2 clients, 1 key, 4 writes, 3 clock readings in any order | lineage, stamps and as-of reads under every mixture of write, swap, patch, correction and status merge |
| `entry_store`, scenario `deletes` | 2 clients, 1 key and logs, 3 writes, 1 token each, 2 instants, namespace delete allowed | previews against everything that can change behind them; lineage and as-of reads under deletes |
| `entry_swap` | 2 clients, 1 key, 3 writes, 2 instants, a clock that never goes back | the first finding |
| `embedding_one` | 1 worker, 2 keys, batches of 2, breaker at 2, 1 crash | liveness, with a change of model between two lives of the process |
| `embedding_two` | 2 workers, 2 models, 1 key, 2 rows, batches of 1, breaker at 1, 1 crash | safety of two processes on one database |
| `writes_keyed` | create and log, 2 calls each, 2 keys, 2 rows, 1 retry | refinement of `OnceOnly`, honest replays |
| `writes_answered` | swap and read, 1 call each, 1 exit of the bridge, 1 retry | every call is answered |
| `oauth_grants` | 2 principals, 2 clients, 1 grant beside that of the old database, 2 pairs, 3 instants, lifetimes 0, 0 and 1 | grants under every mixture of consent, exchange, revocation, expiry and sweep |
| `oauth_disconnect` | the same | the second finding |
| `review_inbox` | 1 key and the log, 1 extracted proposal and 2 undos, 3 writes by anyone after the first, 4 days, TTL 2, retention 1 | reviews under every mixture of edit, approval, undo, expiry, purge and other writers |
| `review_edited_undo` | the same | the third finding |
| `server_parts` | see below | `Consolidation` and the eight parts of `ServerParts`, side by side |
| `health_dangling` | 4 records, one a correction, 1 level, 4 instants | the fourth finding |

`server_parts` checks parts that share no state. The first state picks one of them, only that one moves, and the others stay as they begin: the states are the sum, not the product, of those of the
parts, and each property means what it means of the part alone. (`PartsInit` also fixes the initial choices of parts that do not move.)

| Part | Bounds | Reaches |
|---|---|---|
| `clock` | 1 namespace, 3 logs, 2 instants in any order, windows of 1 | logs behind the cursor, ranks against time, drains in slices |
| `edits` | 1 namespace, 2 logs, 1 other change, 1 exit, 1 preview, 2 attempts | everything that can happen while the model or a reviewer thinks |
| `drain` | 2 namespaces, batches of 1, 2 logs, breaker at 2, 1 change, 1 exit | liveness under competition, failures and a restart |
| `admission` | 3 callers of 2 credentials, 1 bucket per table beside the overflow, 5 instants, window 2 | full tables, eviction after two windows, shared overflow |
| `shutdown` | 2 clients, 2 workers | keep-alive, hanging handlers and batches, every failure |
| `query` | 2 principals, 4 entries, pages of 1 or 2, room for 1 list, 2 queries, 1 change | branches, eviction, refusals, changes under a cursor |
| `device` | 3 keys, 5 faults, fallback after 2 checks | two owners, crash at each point, either file lost, a damaged state file |
| `commitments` | 3 wordings, 2 alike and 1 dated, 2 callers, 2 sources, 2 instants | rewordings and their ties, corrections, readers that do not track |
| `health` | 4 records with a correction and references, 2 levels, 4 instants, pages of 1, 1 delete | chains and references across retention, deletes under an export |
| `history` | 4 paths 3 deep, all rule sets of 1 or 2 of 6 rules, 5 filters, pages of 1, 3 rows | every relation of rule, filter and namespace |
| `analytics` | 2 sessions, 1 entry, 2 events, 1 feedback, 3 instants | judgement, pruning and sessions of different age |
| `requeries` | 2 sessions, 1 entry, 3 events, no feedback, 2 instants | one event after another asked again, a session beside it |

The bounds are the smallest at which each branch happens and each mutant listed in `PROJECT.json` is caught.
Four writes are a creation, two revisions and one more on top of them; three instants put one strictly
between two others, with two writes in one and a clock set back. Two clients are the owner and another principal,
the only distinction the code makes between them. A claimed row can be rewritten, retired or deleted with two rows and
two stamps. Two keys in `writes_keyed` are one the caller chose and one the bridge made; they are interchangeable, and
the run, which has no liveness property, uses that symmetry. Two grants of two principals on one client are what the
mapping's conflict needs, and two new pairs a rotation of a new grant; with lifetimes 0 and 1, access tokens and codes expire an
instant before refresh tokens, which is when the sweep takes one without the other. With a TTL of two days and a retention of one, an
original is purged while its undo is open and an expired proposal is purged before anyone noticed that it expired; two undos
of one original race, and three writes are an approval, its undo and another writer between or before them. Runs of `EntryStore` keep deadlock checking: there is always a
read to make. The others say `CHECK_DEADLOCK FALSE`, because their worlds end: rows, crashes and calls are bounded,
and nothing happens when nobody asks.

What the properties are about:

* `LineageSound`: `idx_entries_ns_key` never has to refuse, a row is retired exactly when corrected, links join revisions of
  one entry and one owner, forward in validity, without fork or merge, and history never outlives its entry.
* `StampIdentifiesRevision`: whoever finds a row under the id *and* the `updated_at` it remembers, finds the write it
  remembers. Swaps, corrections and status merges rest on it.
* `AsOfFaithful`, `AsOfMissesExplained`: an as-of read returns the writing that held, or says that history is not available; never
  a wrong revision, never "there was nothing".
* `DeletesOnlyWhatWasPreviewed`: rows leave only by confirmation of a live token and are the previewed rows at the previewed writes.
* `ServedVectorsFresh`, `ProcessingIsHeld`, `EventuallyIndexed`: the worker's promises.
* `OneLivePair`, `EndedIsDead`, `GrantSurvives`: a grant has one successor at a time, none after it was ended, and is lost only by being
  ended or by time.
* `ActsForItsApprover`: a token acts for who approved it, also by way of a mapping.
* `AppliedOnce`, `DecidedOnce`, `ReplacesWhatWasReviewed`: a proposal is decided once, writes once if approved, and only over what its reviewer saw.
* `SupersededByOneUndo`, `UndoRestores`: of the undos of a proposal one is approved, and unless it was edited it restores what was before.
* `WithheldStaysWithheld`: a payload that `preview` withholds because its retention has run out never comes back.
* `DrainedOnce`, `NeverFromStale`, `BacklogDrains`: each log goes into one synthesis and none is passed over; what is stored was made from what is there; a due backlog shrinks for ever until it is not due.
* `AdmissionBounded`: in no stretch of time does a bucket pay for more than its capacity and its inflow, dropped and remade or not.
* `CleanExit`, `ShutdownEnds`: no client waits for an answer when the database closes, exit code 0 tells the truth of the workers, and every shutdown ends.
* `PagesSkipNothing`, `OthersKeepTheirs`: whoever follows cursors sees each entry that stayed visible, once; a query evicts lists of its own caller only.
* `KeyIsKnown`: a claimed device accepts the last key it showed to anybody.
* `OpenAreWritten`, `RewordingIsNotDelivery`: open commitments are the steps of the current text; done means that the work left it.
* `RefsResolve`, `CompleteMeansAll`, `NeverRecreated`: the ledger's references but for the mates of the fourth finding, its exports' word, and its deletes.
* `HistoryIsWhole`: pages and polls add up to what the reader may see, no less and no more.
* `RatesAreFractions`: an event counts once, as answered or as reformulated, and follow-through never exceeds impressions.
* `WritesOnceOnly`, `CommittedIsNotRefused`, `UnchangedMeansUntouched`, `EveryCallAnswered`: those of the write path.

Invariants that are proved for every instance and that the proofs of others rest on are not repeated in every run: the modules' `TypeOK` (except in `writes_keyed` and, for the eight parts
of `ServerParts` together, `PartsTypeOK`), `NoStrayVectors` (every vector belongs to a current row) and `AccessHasItsRefresh` (a usable access token has its refresh token beside it).

### Fairness

`EmbeddingWorker!FairSpec`: weak fairness of the worker's own steps (its timer re-arms after every batch, and every
call of the extractor returns) and of starting it (systemd restarts the service); strong fairness of success per row, since
an extractor may fail on a row any number of times but must not fail for ever. The last is an assumption about the
extractor, not the code: rows that always fail can starve those behind them until the breaker trips, and the property
excuses a tripped breaker. Crashes are bounded: a process that dies in every batch indexes nothing.

`BridgedWrites!FairSpec`: weak fairness of the bridge as a whole. Fetches, backoffs and the reconnect handshake have timeouts, so that
`GiveUp` or `ReconnectFails` is always there to happen; the body of a reply is under the HTTP client's own timeout.
Nothing is assumed of the network or the server. A call open when the bridge exits counts as answered by the host, which sees its
child end.

`Consolidation!FairSpec`, stated of the part `drain`: weak fairness of the worker (its timer re-arms after every batch, every call has a timeout) and of starting it
(systemd restarts the service); strong fairness, per namespace, of the model's success, which is an assumption about the model: it may fail any number of times, not for ever. Exits, logs and
edits are bounded; a namespace that gets logs for ever would never be done. The breaker does not need to be excused: it lets one probe through after a delay.

`Shutdown!Fairness`: weak fairness of the shutdown's own timers and callbacks, and of nothing else. Clients, handlers and batches may hang for ever, which is what the timers are for.

## Findings

`entry_swap` finds what `expected_updated_at` is documented to prevent. The successor row of a correction is stamped with the
bare clock (`db.ts:935`), while rewrites in place move the stamp past the old one. In the millisecond of the
last write, the successor has the stamp of the row it replaces, and the swap of `writeState` compares stamps by
key only: a caller that read the predecessor overwrites the correction it never saw. The trace is one write, one
read, one correction and one swap in one instant. The same holds for delete and re-creation. A correction itself
is not exposed to this (it names the row's id), and neither are rewrites in place (`StampIdentifiesRevision`, proved). What the guards do give is
proved too (`WritesReplaceWhatWasRead`): a swap, a correction and a status merge replace what their caller read, and the trace above, a row of another id in
the same instant, is the only way around it.

`oauth_disconnect`: the changelog promises that revoking either token of a pair revokes both, so that a client's "disconnect" leaves
no 30-day refresh token behind. `revokeToken` finds the pair through the row of the presented token (`oauth.ts:736`), and the sweep
deletes the rows of expired access tokens every minute: a client that disconnects with an access token an hour old
keeps its refresh token alive. While the row is there the promise holds (`EndedIsDead`, proved).

`review_edited_undo`: the usage model promises that an approved undo restores the prior state or withdraws the log through the correction
lineage. An undo may be edited like any proposal. The edit may not carry `supersedes` (reserved for the server), so that the correction is lost, but the
proposal stays linked to its original: approving it makes whatever write the edit says and marks the original superseded. The
original's write stands, and can no longer be undone through the inbox. For undos that were not edited the promise holds (`UndoRestores`, proved).

`health_dangling`: the comment of `pruneCodeHealthRecords` says that correction chains are removed together so that references cannot become dangling (`db.ts:1157`). What is
past its time goes with all that refers to it, and each of these with its chain, but the closure under references is not taken again over the chains. In the trace a correction
refers to an expired record and goes with it, the record it corrects goes as its chain, and a third record that refers to the latter stays. The delete drops
the edge from the table of references but not from the payload, so that no later prune takes the record, and an append to its context or an export of its page fails. Apart from such
mates references resolve (`RefsResolve`, proved).

## Proofs

TLAPS proves the following for every value of the constants that satisfies the modules' named assumptions. They ask for disjoint null values, inclusion of
subsets and natural bounds (`DeviceAssumption`, `HistoryAssumption`, `AnalyticsAssumption` and parts of the others ask for no more), and where the code has it: that access tokens do not outlive refresh tokens (one hour and 30 days, unless the environment says otherwise; `OAuthGrantsAssumption`), that code-health records are finitely many, with ids and times in order, and kept for longer than an
observation counts as fresh (`HealthAssumption`), that entries and wordings are finitely many, likeness is a number and a text has room for a step (`QueryAssumption`, `CommitmentsAssumption`), and that the tables of buckets are keyed apart (`AdmissionAssumption`). TLC evaluates each of them.

`EntryStoreProofs` builds one inductive invariant in six layers:

1. `TypeCorrect`: `Spec => []TypeOK`. It carries that ids of rows are below `nextRev`, which makes inserted ids fresh.
2. `LineageAlwaysSound`: `Spec => []LineageSound`. The conjunction is inductive over `TypeOK` as it stands: none of its parts is
   alone. That a correction never forks a chain needs that retired rows are those with a successor; that a delete cuts
   no chain needs that links stay within one key and one owner; that deletes leave a head needs that a key has one owner.
3. `StampsIdentify`: `Spec => []StampIdentifiesRevision`. Not inductive: a client may look away while a row moves on and could, for all
   the property says, meet its old stamp again. `Remembered` strengthens it: what is remembered of a row is either behind the
   row's stamp or the row's own write. `MutationTimeAdvances` is the lemma on the code that keeps it.
4. `DeletesOnlyThePreviewed`: `Spec => DeletesOnlyWhatWasPreviewed`. `PreviewsRemembered` says of the prints in a delete token what `Remembered` says
   of clients. A confirmation compares ids, stamps and contents; by the invariant equal stamps are equal writes (`ConfirmedIsPreviewed`), and every
   other action only adds rows or moves them on (`NextGrowsHolds`).
5. `WritesReplaceWhatWasRead`: `Spec => GuardedWritesReplaceWhatWasRead`, what `expected_updated_at` guarantees beside the finding above. `Stamped` says that
   no row is without a stamp and that a status merge is guarded by the stamp of what it read, so that the comparison is never skipped; by `Remembered` and `OneCurrentRow` a
   current row under the remembered stamp is then the write that was read, or another row.
6. `AsOfAlwaysFaithful` and `AsOfMissesAlwaysExplained` (`Spec => []AsOfFaithful`, `Spec => []AsOfMissesExplained`), from `FaithfulAtAnyTime` and `MissesExplainedAtAnyTime`, which
   hold of every instant and not just of the `Instants` that TLC reads. `Written` relates what was said of a key (the ghost `said`) to its rows: the writings are in order of number and of
   validity (`SaidInOrder`), each row holds one of them and was on record by then, the current row holds the last (`LastIsCurrent`), what was said after a retired row begins with its
   correction (`LinksSaid`), and each writing went into a row on record by then (`SaidOfRows`). So at most one row is valid at an instant, and it holds the last writing before it.

`EmbeddingWorkerProofs` proves `TypeCorrect`, `VectorsAlwaysFresh` (`Spec => []ServedVectorsFresh`), `VectorsNeverStray`
(`Spec => []NoStrayVectors`) and `ProcessingAlwaysHeld` (`Spec => []ProcessingIsHeld`) for any number of workers and models. The inductive invariant adds to the types: `BatchesOfRunning` (only a running
worker bound to a model has a batch), `Dated` (a claim is not newer than its row, and has the row's words as long
as it has its stamp) and `Labelled` (a row that names a model has that model's vector of its own words). `Dated` is
why the guard on `updated_at` in `processBatch` suffices: equal stamps mean equal words. `ProcessingIsHeld` needs nothing more: a row leaves the list of who holds it exactly
when it leaves `processing`, and a start empties `processing`.

`OAuthGrantsProofs` proves every property of `oauth_grants`: `TypeCorrect`, `GrantsHaveOneLivePair`, `EndedGrantsStayDead`,
`TokensActForTheirApprover`, `AccessNeverAlone` and `GrantsSurvive`. The inductive invariant adds `Phases` (a grant is pending, then a code,
then tokens, never two at once, and nothing is ended before it was approved), `PairsAgree`, `Bound` (each row carries the client and
principal of its approval), `LegacyMapped` (while a row without a principal can be used, its client's mapping has not moved, which is what makes
the fallback of `lookupPrincipalRow` safe) and `LiveAccessHasRefresh`. Steps that issue nothing share one lemma
(`NothingIssuedKeeps`), the two exchanges another (`IssueKeeps`), and the three revocations a third (`RevokeKeeps`).

`ReviewInboxProofs` proves every property of `review_inbox`: `TypeCorrect`, `AppliedOnceAlways`, `ReplacesWhatWasReviewedAlways`,
`SupersededByOneUndoAlways`, `UndoRestoresAlways`, `DecidedOnceAlways` and `WithheldStaysWithheldAlways`. The inductive invariant is stated of
any table and any history of writes (`TableOK`, `WritesOK`), since every call works on the pruned table: `PrunedTable` carries it there, once, and each
action is judged from there. It adds to the properties `RowOK` (an approved row whose payload is left still names the target
and the text its write replaced; an open row expects the revision it was worded against) and `Inverts` (an open, unedited undo is the
inverse of a decided original and of no other undo). That a purge of the original cannot break its undo is because `Inverts`
speaks of the writes, which no purge touches. `GrownRow` and `GrownInverts` say that a new write disturbs no row that does not make it.

`ConsolidationProofs` proves `TypeCorrect`, `DrainedOnceAlways` and `NeverFromStaleAlways`, for any number of processes, namespaces and logs. The inductive invariant adds to the types: `Indexed`
(logs are numbered without gaps), `RanksDiffer` (no two logs have one position, so that a cursor is between two logs and never on two), `UnusedAreFresh` (what has no row was never used) and `Sendable` (what a model is asked and what
a preview shows has logs and was permitted). The core is `SynthesisStored`: the last log of a window exists (`WindowHasLast`, from `Greatest`, a maximum of a finite strict order), everything else in the backlog
comes after it (`WindowComesFirst`), so moving the cursor there uses the window and passes over nothing. That a fresh log finds a number left is a pigeonhole argument (`NumberForOneMore`).

`AuditHistoryProofs` proves `SelectionIsExact`: for every finite set of rules, every filter and every namespace, the selectors select it exactly when the rules allow it and the filter asks for it. Normalization needs finiteness:
what covers a selector may itself be covered, and only a shortest prefix is kept (`NormalizedSelects`). On it rests `HistoryIsWholeAlways`, for any finite rules, filters, page size and writers: the invariant says that
what the reader has is what it may see between its two cursors, and each page extends that without a gap.

`BridgedWritesProofs` proves the refinement, `WritesOnceOnlyAlways` (`Spec => OnceOnly!Spec`, every step a write, an answer or a stutter of the promise), `CommittedIsNotRefusedAlways`, `UnchangedMeansUntouchedAlways` and
`TypeCorrect`. The inductive invariant `IInv` says who may still send what: a key belongs to one intent, a request without a key is on its way once and was not served before, a receipt names the one write of its intent,
an answer under way names what was written, and a row that has not moved since is the intent's own. It needs the bridge and the server together: that a write without a key is not sent twice is
the bridge's doing (`Retryable`), that a keyed one may be is the receipt's.

`ServerPartsProofs` proves one group of theorems for each part, the type of each part (`StopTypeCorrect`, `DeviceTypeCorrect`, `HistoryTypeCorrect`,
`HealthTypeCorrect`, `AdmissionTypeCorrect`, `AnalyticsTypeCorrect`, `QueryTypeCorrect`, `TrackTypeCorrect`) and from these `PartsTypeCorrect`, the invariant `PartsTypeOK` of `server_parts`:

* `Shutdown` (`StopTypeCorrect`, `CleanExitAlways`): nothing is pending before the workers are told to stop, there is no connection afterwards, what is pending is a worker with a batch, and a code of 0 at the exit means that nothing was.
* `Onboarding` (`KeyIsKnownAlways`): inductive as it stands, because reconciliation at boot and the second look of `FinishClaim` make no step towards `CLAIMED` without showing the key.
* `AuditHistory` (`HistoryIsWholeAlways`): the theorem of `AuditHistoryProofs`, of the instance that `server_parts` checks.
* `CodeHealth` (`RefsResolveAlways`, `NeverRecreatedAlways`, `CompleteMeansAllAlways`): what is pruned is closed under references (`Closure` is a least set, so a survivor that referred into it would be in it), and but for the mates in `torn` nothing else goes. A payload cannot
  come back because its tombstone outlives the freshness its observation would have to have: `HealthAssumption` is what the argument needs of the constants.
  An export that was neither voided nor lost has listed each of its records once, all of them are still stored, and what it returned is its list up to its position (`Exported`). A list in order exists because every record has a rank, the number of those before it
  (`OrderedAreListed`); while nothing is deleted a page is the next items (`PageIsNext`); and whatever deletes a record voids every export (`RemovedHold`).
* `Admission` (`AdmissionBoundedAlways`): the invariant says of every bucket, also of one dropped from its table, that what it paid for since any instant and what it holds is within its capacity and the inflow since; a bucket that was dropped had been idle
  for two windows and would be full, so that making it anew gives nothing away.
* `RetrievalAnalytics` (`RatesAreFractionsAlways`): an event counts as reformulated once at most, then has no outcome and gets none any more, because it is not its session's latest, and its session has another event that is not older (`Surpassed`),
  so that it is among the events of multi-event sessions of every period that reaches to the present.
* `QuerySnapshots` (`PagesSkipNothingAlways`, `OthersKeepTheirsAlways`): no list names an entry twice, what of it is not visible is in `hidden`, and at every cursor all before its place was shown or hidden and nothing behind it was shown (`ShownUpto`).
* `Commitments` (`OpenAreWrittenAlways`, `RewordingIsNotDeliveryAlways`): rows are told apart by their fingerprints (`Table`), open rows belong to the entry's present source, the pairing of old and new wordings without ties is one-to-one
  (`RevisionsHold`), and a diff of an unchanged text delivers nothing more (`TwiceDelivers`), which is what a read after a write amounts to.

The types of the parts carry bounds that are not inductive by themselves:

* `Admission`: a bucket holds at most its capacity and was not seen in the future.
* `Commitments` (`TrackFine`): the numbers of an entry's rows are no more than the rows, until the entry is restricted and is numbered no more. That rows are told apart by their
  numbers lets `NumbersCounted` count them, a diff takes one number for each new wording (`MergedNumbers`), and a text has at most `MaxSteps` of those.
* `CodeHealth` (`HealthFine`): an export's position is moved by pages only, each of which begins at it and takes the next items (`PageAdvances`), good or voided (`ExportsTyped`).
* `QuerySnapshots` (`QueryFine`): a query that awaits its embedding has its list counted before it is stored, so that the lists stay within `MaxQueries`.
* `RetrievalAnalytics` (`AnalyticsFine`): feedback names a kept event or none, because a prune unlinks what it takes.

Every invariant and every action property of a passing run is stated by a theorem. What stays with TLC alone is liveness
(`EventuallyIndexed`, `EveryCallAnswered`, `BacklogDrains`, `ShutdownEnds`), which is out of the prover's reach.

## Not modelled

* **Schema migrations**: one linear upgrade in an exclusive transaction at start, before anything else runs. The schema it ends in is what the modules assume; what an old
  database brings along appears in the initial states (`OAuthGrants`' grant 0, `Commitments`' rows without a version).
* **Intake advisory, quickstart, profiles, configuration**: text heuristics that block nothing, file generation, environment parsing. They keep no state that other calls depend on.
* **Derived views** (orient, resume, narrative, patterns, handoff, attention): functions of one snapshot of rows, with formatting. Where they write (the commitments they diff, the
  retrieval events they log) the write is an action of `Commitments` and `RetrievalAnalytics`.
* **Classification and librarian**: a comparison in a fixed order and redaction of text. Levels are numbers in the modules whose behaviour depends on them.
* **Scores**: what a reranker or the fusion of rankings computes is arithmetic over text; `QuerySnapshots` lets the scores give any order.
* **Known simplifications**: one process in `QuerySnapshots`, `Commitments` and `CodeHealth`. SQLite is called synchronously, so that within the process nothing runs between two statements of a handler that does not await; but the handlers are not
  single transactions: the diff of commitments reads an entry's rows before it writes them, and an export of code health reads its ledger and its snapshot in several statements. What a second process could do in between is left out; a clock that advances in `Admission`, `CodeHealth`, `QuerySnapshots` and `RetrievalAnalytics`;
  secret scanning, validation and sessions, which only refuse.

## Plan

Done: `EntryStore`, `EmbeddingWorker`, `WriteReceipts` and `BridgedWrites` over `OnceOnly`, `OAuthGrants`, `ReviewInbox`, `Consolidation`, `Admission`, `Shutdown`, `Onboarding`, `QuerySnapshots`, `Commitments`, `CodeHealth`,
`NamespaceAccess` with `AuditHistory`, `RetrievalAnalytics`, and the proofs above. To come, most important first:

1. `Commitments` and `Consolidation` composed with `EntryStore`, on the same rows.
