# A verification project for wtf-onchain-monitor

The repository under `src/` watches three Ethereum contracts (WTFEscrow, MonthlyPayroll, an ERC-20
token) on Sepolia and keeps a PostgreSQL picture of them. This directory holds TLA+ modules of its
indexing core, TLC configurations that check them on small instances, and theorems that TLAPS proves for
every value of the constants.

## 1. The system

| Component | State it keeps | Operations |
|---|---|---|
| Escrow webhook (`api/handlers/webhook.go`) | Redis keys `wtf:chain:evt:*`, rows of `escrow_events` | one HTTP handler per delivery: SETNX, upsert, broadcast, 200 |
| Escrow poller (`indexer/escrow_indexer.go`, `persistence/escrow_events.go`) | `escrow_events` and its `sync_checkpoints` row, written in one transaction | GetLogs, ProcessLog, SaveEscrowBatch, broadcast, retry |
| Payroll indexer (`indexer/indexer.go`, `persistence/payroll.go`) | `transactions`, `chain_events`, `employers`, `employees`, `payroll_fundings`, `salary_claims`, a checkpoint row | IndexRange: a sequence of statements that commit one by one, then SaveCheckpoint |
| Token indexer (`indexer/token_indexer.go`, `persistence/token_transfers.go`) | `transactions`, `chain_events`, `token_transfers` and a checkpoint row, in one transaction | IndexRange with a pool of three workers, SaveTokenBatch |
| Live monitor (`indexer/live_monitor.go`) | its position in the poll | PollOnce: one safe target, then the payroll, token and escrow polls; an error ends one stream's poll, not the others' |
| Backfills (`RunBackfill` of each stream, `cmd/indexer/main.go`) | their position | index up to a fixed target, without a bound on batches |
| Retry policy (`indexer/retry.go`) | attempt number, back-off | RetryRange |
| Log reconcilers (`reconciliation/*_worker.go` of payroll, claims, transfers) | `reconciliation_exceptions`, sweep checkpoints | compare the logs of a range with the rows, open and resolve exceptions |
| Balance reconciler (`reconciliation/balance_worker.go`) | the same table, a sweep checkpoint of its own | compare balances and statuses at one block with the tables |
| Sync status (`handlers/sync.go`, `repository/sync_repo.go`) | none | two queries and the lag of every stream |
| Migrations (`persistence/migrations.go`) | `schema_migrations` | run by the indexer, the API and inspect-schema when they start |
| Read API, repositories, validation, middleware | none | SELECT and format |
| Operator tools (`cmd/clear-checkpoint`, `cmd/inspect-schema`) | `sync_checkpoints` | delete checkpoint rows; migrate and print |

The parts meet in shared stores only. The webhook and the poller write the same `escrow_events` rows and
publish on the same Redis channels; a monitor and a backfill of one stream share a checkpoint row;
payroll and token streams share `transactions`; reconcilers and the API read what the indexers write. No
lock is taken anywhere: unique keys, `ON CONFLICT` clauses, single-statement atomicity and two explicit
transactions are all the coordination there is.

### What is hard

* **Interleaving.** Handlers race on one key; the two escrow paths race on one row; a backfill races
  the monitor over a checkpoint; three workers feed one collector.
* **A chain that changes.** Logs read by GetLogs are written later; a removal may arrive before, after
  or instead of the notification it cancels.
* **Failure half way.** Payroll batches commit statement by statement; a COMMIT may take effect while
  its reply is lost; some errors are discarded.
* **Restart.** The checkpoint is the only memory, so whatever it passes is never looked at again.
* **Bounds.** `latest - depth` on unsigned integers, the last batch of a range, `MaxBatchesPerPoll`,
  the thirty-day life of a key.

What makes each component correct: for an indexing stream, that the checkpoint only grows, stays behind
finality and passes no log unaccounted for (`CheckpointedStream`); for the webhook, at most one
broadcast per log while its key lives and no invented row; for the payroll projections, that they
converge on the chain whatever was replayed; for the token stream, that the tables match the checkpoint
at every moment and that an attempt always ends; for the reconcilers, that lag is never taken for damage
and that exceptions settle on the truth; for the processes of a deployment, that each migration runs
once, that one stream's failure holds up no other and that a reported lag can be believed. PROJECT.json
lists each hazard at its source line with the properties aimed at it, or says why none is.

## 2. The modules

| Module | Models | State and actions |
|---|---|---|
| `ChainBlocks` | block arithmetic of `live_monitor.go`, the `GetEffectiveStartBlock`s, batch bounds | operators only |
| `CheckpointedStream` | nothing of the code: what a stream promises | `head`, `where`, `cp`, `done`; `ChainMoves`, `Account` |
| `CheckpointedStreamProofs` | | theorems about `CheckpointedStream` |
| `EscrowChain` | the environment both escrow paths share | chain head, place of each log, notifications sent, Redis keys, `escrow_events`, checkpoint; `Mine`, `Reorg`, `KeyExpires` |
| `EscrowWebhook` | `HandleAlchemyWebhook`, restart of the API process | one record per handler: `idle, save, publish, respond` |
| `EscrowPoller` | monitor and backfill loops, IndexRange, SaveEscrowBatch, RetryRange | one record per process: `idle, resolve, getlogs, decode, save, publish` |
| `EscrowIngest` | both paths together | composition, fairness, all escrow properties |
| `EscrowIngestProofs` | | theorems about `EscrowIngest` |
| `PayrollTables` | tables, row upserts, order of the statements of an event, discarded errors, foreign keys | operators only |
| `PayrollIndex` | payroll IndexRange, polls, backfills, SaveCheckpoint | `chain`, `tables`, `cp`, one record per process: `idle, resolve, getlogs, write`, with the next log of its loop and the statements left for the log taken last |
| `PayrollIndexProofs` | | theorems about `PayrollIndex` |
| `TokenIndex` | token IndexRange with worker pool, SaveTokenBatch, polls, backfills | three tables, `cp`, one record per process with the contents of its channels |
| `TokenIndexProofs` | | theorems about `TokenIndex` |
| `Reconciler` | the payroll-funding, salary-claim and token-transfer workers, the exceptions repository, `clear-checkpoint` | chain, rows, both checkpoints, `exceptions`, one record per worker: `idle, range, lag, compare, record, resolve, advance` |
| `ReconcilerProofs` | | theorems about `Reconciler` |
| `BalanceReconciler` | the balance worker: recent window, sweep and explicit block; the token and payroll indexers at the level of their tables; `clear-checkpoint` | chain, rows, events that change or only name a member, two indexers' positions, the sweep's cursor, `exceptions`, one record per worker with the cursor it read: `idle, head, lag, addresses, balances, contract, employers, employees, advance` |
| `BalanceReconcilerProofs` | | theorems about `BalanceReconciler` |
| `Migrations` | RunMigrations in the indexer, the API and inspect-schema, the version table's primary key, deaths | `applied`, one record per process: `down, check, apply, up` |
| `LiveMonitor` | PollOnce over its streams, batches, MaxBatchesPerPoll, errors of one stream, both statements of `clear-checkpoint` | `cp`, `fresh`, `monitor`: `idle, resolve, index, save` |
| `SyncStatus` | GET /v1/sync/status | `report`: `idle, listed, done` |
| `Deployment` | the three modules above as processes over one database, with crashes and restarts | composition, fairness, properties |
| `DeploymentProofs` | | theorems about `Deployment` |
| `MC*` | | values for TLC: symmetry, kinds of event, sets of transactions, maps of parties |

Correspondence, in short. An action is one step another process can observe: one RPC answer, one
committed SQL statement or transaction, one Redis command. What happens in memory between two of them is
part of the action. Every error path is there: an action that may fail has a failing alternative that
spends one unit of `MaxFaults`, either before its effect or, where a reply can be lost, after it. A
crash (or a cancelled context) puts a process back to `idle` at any step.

Abstractions. A log stands for its database key; amounts, addresses and payloads are functions of it.
Chain id, contract address and stream id are fixed. Two Redis channels that receive the same message are
one broadcast. A delivery with several logs is several passes of a handler, which is what the loop does
as no error of one log ends the loop. Delays and back-off are not modelled; whether an error is
retryable is a choice (`AfterFailure`). An explicit target flag, which an operator may set anywhere, is
not modelled: backfills compute their own target. The payroll chain is modelled up to its confirmed head
with at most one event per block, so a block also names its log, transaction and time; reorganisations
are the subject of `EscrowIngest`, whose poller loop is the same. In `Reconciler` a row is its block
number and the set of compared column groups that differ from the log; the indexer stores rows and moves
its checkpoint as a `CheckpointedStream` does, save that it may be made to skip a log; the mismatches of
one pass are recorded in any order; each of the three workers owns its kind of log, so one instance
stands for all. `skipped`, `altered`, `hookPub` and `pollPub` are history variables.

`LiveMonitor` takes IndexRange as one step that accounts for every block of a batch or errs; what
happens inside is the subject of the three stream modules. Token and escrow batches carry their
checkpoint in the same transaction, the payroll stream saves it in a step of its own. A stream may have
one block its IndexRange always errs over (a topic the payroll decoder does not know). `fresh` is the
history of the blocks indexed since the checkpoint was last cleared; clearing while a batch is under way
is undone by that batch's save, so the history is kept in this case. The other processes of `Deployment`
write no stream row. In `BalanceReconciler` a transfer moves one unit, members start inactive on the
chain, audited blocks are final, and resolved exceptions are dropped since the code never reads them; of
the ids the order is kept. A change of status writes a member's `active` column; an event that only names
a member (the employer of an employee event, the parties of a funding, the employee of a claim and its
placeholder employer, the zero address) inserts an active row if there is none. `named` holds the blocks
of such events for every member alike: which events name whom is left open, so the inserts whose lookup
or error is discarded are among them. The retries inside `client.go` are part of one call that answers or errs.

## 3. The runs

Passing runs.

| Run | Shows | Instance |
|---|---|---|
| `escrow_ingest` | `TypeOK`, `CheckpointCovers`, `PollerAnnouncesFinal`, `HookAnnouncesOnce`, `RowsComeFromChain`, `CheckpointMonotonic`, `ImplementsStream`, `FinalLogIsCheckpointed` | a fair monitor and two handlers on one log, one reorganisation, key expiry, redelivered and lost notifications, crashes of either process |
| `escrow_two_pollers` | `PollersInv`, `CheckpointIsFinal` | monitor and backfill without a lock |
| `payroll_index` | `TypeOK`, `StoredUpToCheckpoint`, `ProjectionConverges`, `ImplementsStream`, `EveryBlockIsCheckpointed` | every history of three events over one employer, the placeholder employer and an employee, two faults, a fair monitor |
| `token_index` | `TypeOK`, `TablesMatchCheckpoint`, `ImplementsStream`, `ConfirmedIsIndexed` | three transactions, two workers, two faults, a fair monitor |
| `token_overlap` | `TablesCoverCheckpoint`, `EventsHaveTransactions`, `CollectorIsAnswered` | monitor, backfill, and a payroll stream storing transactions |
| `reconcile` | `TypeOK`, `NoFalseAlarm`, `OpenAtMostOncePerReconciler`, `ExceptionsSettle` | fair recent-window loop and a sweep beside an indexer, two disturbances of the tables, a failed pass |
| `balance` | `TypeOK`, `BalanceAlarmsAreReal`, `SweptIsIndexed`, `OpenAtMostOncePerReconciler`, `ExceptionsSettle` | fair recent-window loop and a sweep beside two indexers at different paces, a mint, a change of status or an event that only names an employee; one altered row, cleared checkpoint or failed pass |
| `deployment` | `TypeOK`, `MigratedOnce`, `MonitorNeedsSchema`, `CheckpointsCover`, `LagIsSound`, `HealthyStreamsCatchUp` | indexer and API that migrate at once, die and start again; payroll and token streams of which one may be stuck; a sweep's cursor; one run of `clear-checkpoint` at any moment |

Runs that end in a violation: each checks one sentence of the repository's documents against the code
(PROJECT.json quotes it under "findings").

| Run | What happens |
|---|---|
| `removal_dropped` | a removal shares the key of the log's first notification and is skipped as a duplicate |
| `timestamp_skip` | a failed timestamp request makes the poller skip a known log for good |
| `overlapping_replay` | a backfill that replays older events over the monitor's newer ones and dies leaves wrong projections |
| `clear_payroll` | `clear-checkpoint` deletes the row `monthly_payroll`, but the configured stream's id ends with the contract's address: the row stays |

Neighbouring hazards that follow from a single statement of the code have no run of their own; their
entries in PROJECT.json carry a note: the webhook broadcasts after a failed insert, a failed UPDATE of
`last_withdraw` is discarded, the stored block hash is compared by nobody, the sweep moves its cursor
past logs it left out because the indexer lagged, and a backfill on a chain shorter than the
confirmation depth takes the head for a safe target. An upsert of `escrow_events` keeps the block of the
first insert, so the row of a log that a reorganisation moved may name the older block;
`RowsComeFromChain` is what remains true of it. The poller broadcasts without claiming the key of the
webhook path, so a log may be broadcast by both. A log the payroll decoder does not know stops that
stream for good; `HealthyStreamsCatchUp` has this as its premise.

Of the balance reconciler the properties leave open, because the code does: a row that was only inserted
to satisfy a foreign key is active while the contract never knew the wallet, and its status is reported
for good; a status that changed between the block of the window and the block of the sweep is reported by
the one and resolved by the other as long as the head stands still; and of two sweeps that race, the
slower one may write an older block over the cursor, so blocks are audited again (`SweptIsIndexed` says
that they never get ahead of the indexer that way).

What a status answer means. Its "latest block" is the highest `last_indexed_block` of any row, cursors
of the reconcilers included, and not the chain's head. `LagIsSound` says what can be relied on: a lag is
at least the distance to the other rows of the answer and at most the distance to the blocks that may be
indexed, so zero lags say nothing of a deployment whose streams all stand still.

### Bounds and why they are enough

`MaxHead`/`MaxBlock` (3 or 4) with batches of one or two blocks gives full batches, partial ones and a
resume in the middle. A reorganisation of depth one with confirmation depth one is the boundary case: it
reaches every block that is not final. `MaxFaults` of one or two allows a fault during the recovery from
a fault. Two attempts exercise retry and giving up. Two handlers are enough to race on a key.
`MaxExpiries` of one lets a key return.

In `token_index` and `escrow_two_pollers` a poll of one batch ends with work left; in `escrow_ingest`,
`payroll_index` and `deployment` a poll goes on to its second batch. `escrow_two_pollers` starts at
block 0, whose batch writes no checkpoint.

With three payroll events every pair of an older and a newer event meets in a replay, and the
placeholder employer is the second one an employee can move from. Two workers and three transactions
leave a request queued when a worker has failed.

The reconcilers run with confirmation depth two, so the chain's first blocks include the heights at
which a short chain's safe target falls back to zero and a chosen range is no longer final; a window and
a batch of one block make the two loops look at different ranges of the two that get confirmed; two
disturbances allow damage followed by repair, damage of another kind, or a cleared checkpoint.

In `balance` three blocks, all final as they are mined, with a window and a batch of one block put the
window loop one block behind the head and the sweep anywhere from the start block to the head, so the two
audit different blocks, and the audited block may lie before, at and after the event. The chain holds one
event: a mint to the payroll contract, a change of the employee's status, or an event that only names
him. A comparison of a reference looks at that reference's own transfers or changes alone, and a mint
already makes a wallet and the contract differ together, so one event meets every pair of readings of a
pass and the indexers; several transfers of one wallet and repeated changes of status are in the proofs
of the safety properties, and are not checked for `ExceptionsSettle`. One fault is one altered row,
cleared checkpoint, lost reply or failed pass. Employers are compared by the same steps as employees, and
explicit passes (`Auditors`, `--to-block`) and a second sweep are in the module and in the proofs; the
instance has neither. A chain shorter than the confirmation depth is met in `reconcile` and
`token_index`; a chain shorter than the window is met here.

In `deployment` two files and one death or failed migration let a process find any prefix applied by the
other, lose a COMMIT's reply and start again; the two streams are the one with and the one without an
atomic batch, and `FinalBlocks` lets a stream be stuck only at a block that the instance buries;
inspect-schema, which migrates as the indexer does and ends, is left to the proofs.

The proofs of section 4 lift these bounds for every safety property of the passing runs. Symmetry over logs and handlers is used where no liveness property is checked.

### Fairness

Only monitors and the recent-window reconciler are fair: `LiveMonitor.Start` polls on a ticker for ever,
goes on after a poll that erred, and the deployment restarts a process that died. Each step of a monitor
is assumed to be taken eventually when it stays possible (weak fairness), which for an RPC request means
that it is answered, with a result or an error. `cmd/reconciler -loop` and the balance worker's loop run
their passes the same way; the sweeps are left unfair so that they may stall with an old comparison in
hand. In `Deployment` the indexer's migration and its poll are weakly fair, that is, somebody starts an
indexer again that has died: the repository leaves this to the platform (its docker-compose file sets
`restart: unless-stopped` for the stores only), so `HealthyStreamsCatchUp` rests on this assumption. The
API, the reconciler and the operator owe nothing. The chain, the push service, handlers, backfills and
faults owe nothing; faults are finite in number, since no poller progresses against a node that never
answers.

## 4. The proofs

`CheckpointedStreamProofs`, the consequences of implementing `CheckpointedStream`:

| Theorem | Says |
|---|---|
| `NoGapBehindCheckpoint` | `StreamParameters => (Spec => []PassedIsAccounted)` |
| `PassedForGood` | `StreamParameters => (Spec => PassedIsFinal /\ CheckpointOnlyGrows)` |

`EscrowIngestProofs`:

| Theorem | Says |
|---|---|
| `TypeCorrect` | `Spec => []TypeOK` |
| `PollersCorrect` | `SafeDeployment => (Spec => []PollersInv)` |
| `CheckpointCoversAll`, `AnnouncementsAreFinal` | the conjuncts of `PollersInv` a reader cares about |
| `CheckpointedBlocksAreFinal` | no step changes what the blocks below the checkpoint hold |
| `CheckpointNeverGoesBack` | with a single poller process the checkpoint only grows |
| `IngestImplementsStream` | with a single poller process the two paths implement `CheckpointedStream` |
| `RowsAreNotInvented` | `Spec => []RowsComeFromChain` |
| `BroadcastOncePerKey` | `Spec => []HookAnnouncesOnce` |

`ReconcilerProofs`:

| Theorem | Says |
|---|---|
| `TypeCorrect` | `Spec => []TypeOK` |
| `LagIsNeverReported` | `Spec => []NoFalseAlarm` |
| `OpenedOnceEach` | `Spec => []OpenAtMostOncePerReconciler` |

`BalanceReconcilerProofs`:

| Theorem | Says |
|---|---|
| `TypeCorrect` | `Spec => []TypeOK` |
| `LagIsNoWrongBalance` | `Spec => []BalanceAlarmsAreReal` |
| `SweepStaysBehind` | `Spec => []SweptIsIndexed` |
| `OpenedOnceEach` | `Spec => []OpenAtMostOncePerReconciler` |

`DeploymentProofs`:

| Theorem | Says |
|---|---|
| `TypeCorrect` | `Spec => []TypeOK` |
| `MigrationsRunOnce` | `Spec => []MigratedOnce` |
| `SchemaBeforeMonitor` | `Spec => []MonitorNeedsSchema` |
| `CheckpointsHaveNoGap` | `Spec => []CheckpointsCover` |
| `StatusLagIsSound` | `Spec => []LagIsSound` |

`TokenIndexProofs`:

| Theorem | Says |
|---|---|
| `TypeCorrect` | `Spec => []TypeOK` |
| `TablesHaveNoGap` | `Spec => []TablesCoverCheckpoint` |
| `NoOrphanEvents` | `Spec => []EventsHaveTransactions` |
| `CollectorAlwaysAnswered` | `Spec => []CollectorIsAnswered` |
| `TablesAreExact` | `OneIndexer => (Spec => []TablesMatchCheckpoint)` |
| `TokenImplementsStream` | `SafeDeployment /\ OneIndexer => (Spec => ImplementsStream)` |

`PayrollIndexProofs`:

| Theorem | Says |
|---|---|
| `TypeCorrect` | `Spec => []TypeOK` |
| `CheckpointCovers` | `Spec => []StoredUpToCheckpoint` |
| `TablesConverge` | `OneIndexer => (Spec => []ProjectionConverges)` |
| `PayrollImplementsStream` | `OneIndexer => (Spec => ImplementsStream)` |

Assumptions. Escrow: `ChainAssumption` and `PollerAssumption` (declared with the constants) and
`SafeDeployment`: reorganisations are no deeper than `ConfirmationDepth`, and no backfill runs where a
short chain's head is not final (the backfill's target is the unconfirmed head there). Numbers of logs,
handlers, monitors, backfills, faults and blocks are arbitrary. `RowsAreNotInvented`,
`BroadcastOncePerKey` and the type theorem need no safe deployment: they hold for reorganisations of any
depth. Elsewhere the modules' named assumptions suffice (`ReconcilerAssumption`, `BalanceAssumption`,
`TokenAssumption`, `PayrollAssumption`, `IndexerAssumption`, and those of `Migrations`, `LiveMonitor`
and `Deployment`): finite sets of logs, transactions and reconcilers where something is counted, natural
bounds. The theorems under `OneIndexer` speak of a stream with a single process, the deployment the
repository's documents describe; the run `overlapping_replay` shows that the payroll tables do go wrong
with two, and a second process of the token stream may save a checkpoint below the first one's. The
token stream's `SafeDeployment` excludes, as the escrow stream's, a backfill that takes the unconfirmed
head of a short chain for its target.

The abstract stream. A step of `CheckpointedStream` looks at the logs of a block only when the checkpoint
passes it. That nothing is missing afterwards rests on the chain: blocks below a buried one are buried
(`BuriedBelow`), burial lasts as the head grows, and logs neither leave nor enter buried blocks.
`StreamParameters` says that start block and depth are naturals.

The escrow paths. `CheckpointCovers` is not inductive: a commit is right only because the answer it writes is
still the chain's. `PollersInv` adds what each poller knows at each step: its target is final from the
moment it is chosen; its batch begins where everything is covered; the logs it holds are, until the
commit, exactly the canonical logs of its range. The chain's steps keep this because a reorganisation
only moves logs above every final block; other pollers and handlers keep it because rows are never
deleted and a log once skipped is only taken out of `skipped` when it is stored. `CheckpointIsFinal`
follows from `Final(cp)`. `CheckpointNeverGoesBack` needs the further invariant `BatchAhead` (a poller
in a batch is not behind the checkpoint), which two pollers break. For the refinement each action maps
to `ChainMoves`, to `Account` or to a stutter, and the invariant supplies the coverage of `Account`.

`RowsComeFromChain` becomes inductive with `HeldInv`: whatever a handler or a poller has in hand between
reading and writing was announced, and announcements are only added. `HookAnnouncesOnce` speaks of
broadcasts made; `ClaimsInv` adds those still to come. Each handler between its SETNX and its broadcast
holds a claim, and broadcasts plus claims are paid for by keys that are set and keys that have expired;
a restart without Redis ends all claims and makes none that broadcast.

`NoFalseAlarm` speaks of exceptions only; what makes it inductive is `AuditInv`: every absent row below
a checkpoint was skipped or lost, and this stays true of the checkpoint a worker read earlier, however
old it is, because rows only disappear by being altered. The code's order matters here: a worker reads
the indexer's checkpoint before it reads the rows. `OpenAtMostOncePerReconciler` needs `OpeningInv`,
which counts the workers that have found no open exception and have not inserted theirs yet.

The balance reconciler. Ids of exceptions are taken as the highest in use plus one, so typing alone
needs that a finite set of naturals has a greatest element; the library's induction theorems cannot be
instantiated, and the lemma `NatMax` is derived from the well-foundedness of the order instead.
`AuditInv` follows a pass from its two clamps (the block audited is final, and covered by a checkpoint
or the pass is `blind`) over the reading of addresses and of balances to the references it is about to
report, each of which is `Explained`; the rows below a checkpoint that was read once stay there unless
altered, however often the checkpoint is cleared since. A blind pass audits the start block or nothing
(no event is older), so the wrong balances it may report belong to the parties of that block.
`OpeningInv` counts as in the other reconcilers.

`SweptIsIndexed` needs both halves. What a pass that read a checkpoint saves is covered, and stays so.
What a blind pass would save is covered by nothing, and is never saved: its block is at most the start
block, while `CursorInv` keeps the cursor a sweep has read at the start block or above, and the code
saves only what is beyond that. The cursor itself may go back when two sweeps overlap, and `WorldInv`
claims of it only that the blocks up to it are covered.

The deployment. `IInv` joins `MigrationInv` (a file is applied exactly as often as it is recorded, in
order; a process that checks file `f` has seen those before it; an indexer that runs has seen all),
`MonitorInv` (every batch begins where the stream is covered, also when its checkpoint was cleared after
the poll resolved it; a payroll batch in `save` is indexed), `StatusInv` (a row of an answer is not
above the highest row read later unless cleared in between, nor above the safe target) and
`PollNeedsIndexer` (a poll under way belongs to an indexer that is up).

The token stream. `RangeInv` says what a process knows of its batch: it begins where everything is
covered and, from GetLogs to the commit, the logs in hand are those of its blocks. `FetchInv` accounts
for the worker pool: every transaction of those logs is stored already, answered, waiting in the result
channel or still requested, so that a commit misses none; and as long as no worker has failed there is
an entry in one of the channels for each transaction still missing and a worker to take it, which is
`CollectorIsAnswered`. A failed lookup of the stored transactions only makes the requests more.
`TablesMatchCheckpoint` needs `NotOvertaken`: the checkpoint of the only process lies before its batch or,
when a commit's reply was lost and the attempt is repeated, at the batch's end. The abstract stream's
`Buried` follows from `BuriedTarget`, which holds of a target from the moment it is chosen.

The payroll stream. What holds for any number of processes is `IInv`: whatever statements of the current
attempt are behind a process have left their rows (`Passed` says which those are, by the next log of the
loop and the list of statements left), and the batch begins where all is recorded, hence a process that
has come to the end of its loop may move the checkpoint. Rows of `transactions`, `chain_events`,
`payroll_fundings` and `salary_claims` are never taken away, so other processes cannot spoil this. The
rows of employers and employees, which are overwritten, need `SoloInv` and a single process. A retry
replays older events over newer ones, so the latest event that has touched a row need not be the one
the row shows; what stays true is that a row never falls behind the statements that are secured: those
up to the checkpoint and those the current attempt has passed. `LatestOf` and `SwitchedBy` say this of a
column and of a flag; besides they say that a value comes from a touched block, which is why a row that
is ahead of the checkpoint becomes exact once nothing beyond the checkpoint is touched. A placeholder
insert secures nothing: it changes a row only when there is none. `SoloInv` implies
`ProjectionConverges` by the uniqueness of a maximum; that there is one is again derived from the
well-foundedness of the order.

TLC checked each inductive invariant on the instance of its run, or on a two-process variant of it for
`IInv`, before it was proved.

Model-checked only: liveness (`FinalLogIsCheckpointed`, `EveryBlockIsCheckpointed`,
`ConfirmedIsIndexed`, `HealthyStreamsCatchUp` and `ExceptionsSettle` of both reconciler modules), since
temporal properties under fairness are outside the prover's reach, and so is ENABLED. No module declares
a RECURSIVE operator or uses a fold, so nothing in the safety arguments needs induction over data. Every
safety property of a passing run is the subject of a theorem; the four violation runs are
counterexamples and prove nothing beyond themselves.

## 5. Not modelled

* The read API, its repositories, validation and middleware keep no state: each request is one SELECT and its
  formatting. The queries the reconcilers and the status handler use are in their modules. The backfill
  endpoint of the sync handler refuses every request (501) and changes nothing.
* Decoders and ABI tables convert single values; only the kinds of event they distinguish appear.
* Configuration is constants here: parsing and defaults are left out, the stream ids it makes are in
  `LiveMonitor`. Of the process start, the order of migrations and work is modelled, connections are not.
* RetryRange's classification of errors and its delays: `AfterFailure` lets any error be permanent or not,
  which covers each classification. The three attempts inside each call of `client.go` are part of the call.
* Liveness of the sweeps, which run on a schedule outside the repository, and of the API.

## 6. The plan

Done: the escrow modules, the payroll and token streams, the log reconcilers, the balance reconciler and
the deployment (`Migrations`, `LiveMonitor`, `SyncStatus`), each with its proofs.

What would come next, in order of importance:

1. `LiveMonitor` as an implementation of one `CheckpointedStream` per stream when no checkpoint is cleared.
2. What an overlapping backfill of the payroll stream may leave wrong, stated as the strongest property
   that still holds of the rows with several processes.
3. The classification of errors in `retry.go`, if it comes to differ in what it lets a caller observe.
