----------------------------- MODULE TokenIndex -----------------------------
(***************************************************************************)
(* The ERC-20 token stream: IndexRange reads the Transfer and Approval     *)
(* logs of a range, lets a pool of workers fetch the transactions that are *)
(* not in the database yet, and commits transactions, events, transfers    *)
(* and checkpoint in one database transaction.  Blocks are never replaced  *)
(* here: EscrowIngest covers reorganisations.                              *)
(***************************************************************************)
EXTENDS ChainBlocks, FiniteSets

CONSTANTS
    Txs,               \* transactions that may be mined
    Emits,             \* Emits[t]: which of Transfer and Approval t logs
    Monitors,          \* live monitors
    Backfills,         \* one-shot backfill processes
    WorkerCount,       \* size of the pool that fetches transactions
    StartBlock, ConfirmationDepth, BatchSize, MaxBatchesPerPoll, MaxRetries,
    MaxHead,           \* bound: the last block the chain mines
    MaxFaults          \* bound: RPC and SQL errors plus process crashes

ASSUME TokenAssumption ==
    /\ IsFiniteSet(Txs)
    /\ Emits \in [Txs -> SUBSET {"Transfer", "Approval"}]
    /\ Monitors \cap Backfills = {}
    /\ WorkerCount \in Nat \ {0}
    /\ StartBlock \in Nat \ {0}
    /\ ConfirmationDepth \in Nat
    /\ BatchSize \in Nat \ {0}
    /\ MaxBatchesPerPoll \in Nat \ {0}
    /\ MaxRetries \in Nat \ {0}
    /\ MaxHead \in Nat
    /\ MaxFaults \in Nat

VARIABLES
    head,            \* eth_blockNumber
    where,           \* where[t]: the block of transaction t, or NoBlock
    transactions,    \* table transactions, shared with the payroll stream
    chain_events,    \* table chain_events, this token's rows
    token_transfers, \* table token_transfers
    cp,              \* last_indexed_block of the stream, or NoBlock
    indexer,         \* indexer[p]: the position of process p in its loop
    faults

tables == <<transactions, chain_events, token_transfers, cp>>
vars == <<head, where, tables, indexer, faults>>

Logs == {l \in Txs \X {"Transfer", "Approval"} : l[2] \in Emits[l[1]]}
TxsOf(logs) == {l[1] : l \in logs}
Indexers == Monitors \cup Backfills

(***************************************************************************)
(* hashes are the requests waiting in hashChan, workers the goroutines     *)
(* still taking them, metas and errs the answers in txMetaChan and         *)
(* errChan, fetched the answers collected.                                 *)
(***************************************************************************)
AtRest == [pc |-> "idle", safe |-> 0, from |-> 0, to |-> 0, batches |-> 0, attempt |-> 0,
           logs |-> {}, needed |-> {}, hashes |-> {}, workers |-> 0, metas |-> {},
           errs |-> 0, fetched |-> {}]

IndexerState ==
    [pc : {"idle", "resolve", "target", "getlogs", "existing", "fetch", "save"},
     safe : Nat, from : Nat, to : Nat, batches : Nat, attempt : 0 .. MaxRetries,
     logs : SUBSET Logs, needed : SUBSET Txs, hashes : SUBSET Txs, workers : 0 .. WorkerCount,
     metas : SUBSET Txs, errs : 0 .. WorkerCount, fetched : SUBSET Txs]

TypeOK ==
    /\ head \in 0 .. MaxHead
    /\ where \in [Txs -> {NoBlock} \cup 1 .. MaxHead]
    /\ transactions \subseteq Txs
    /\ chain_events \subseteq Logs /\ token_transfers \subseteq Logs
    /\ cp \in {NoBlock} \cup 1 .. MaxHead
    /\ indexer \in [Indexers -> IndexerState]
    /\ faults \in 0 .. MaxFaults

Init ==
    /\ head = 0
    /\ where = [t \in Txs |-> NoBlock]
    /\ transactions = {} /\ chain_events = {} /\ token_transfers = {}
    /\ cp = NoBlock
    /\ indexer = [p \in Indexers |-> AtRest]
    /\ faults = 0

Fault == faults < MaxFaults /\ faults' = faults + 1
Become(p, s) == indexer' = [indexer EXCEPT ![p] = s]

\* The first attempt at the batch from `from`, or rest when nothing is left.
BeginBatch(s, from) ==
    IF from > s.safe THEN AtRest
    ELSE [AtRest EXCEPT !.pc = "getlogs", !.safe = s.safe, !.from = from,
                        !.to = BatchEnd(from, BatchSize, s.safe),
                        !.batches = s.batches, !.attempt = 1]

\* What RetryRange does with a failed attempt.  Its workers may live on, but
\* they write to channels nobody reads any more.
AfterFailure(s) ==
    {AtRest} \cup
    IF s.attempt < MaxRetries
    THEN {[BeginBatch(s, s.from) EXCEPT !.attempt = s.attempt + 1]}
    ELSE {}

FailAttempt(p) == \E s \in AfterFailure(indexer[p]) : Become(p, s)

-----------------------------------------------------------------------------
\* A block is mined with the transactions in S.
Mine(S) ==
    /\ head < MaxHead
    /\ head' = head + 1
    /\ where' = [t \in Txs |-> IF t \in S THEN head + 1 ELSE where[t]]
    /\ UNCHANGED <<tables, indexer, faults>>

\* The payroll stream saves a transaction that also moves tokens.
SaveTransaction(t) ==
    /\ where[t] # NoBlock
    /\ t \notin transactions
    /\ transactions' = transactions \cup {t}
    /\ UNCHANGED <<head, where, chain_events, token_transfers, cp, indexer, faults>>

\* A monitor fixes its target, then reads the checkpoint.
PollOnce(p) ==
    /\ p \in Monitors
    /\ indexer[p].pc = "idle"
    /\ Become(p, [AtRest EXCEPT !.pc = "resolve",
                                !.safe = CalculateSafeTarget(head, ConfirmationDepth)])
    /\ UNCHANGED <<head, where, tables, faults>>

PollToken(p) ==
    /\ indexer[p].pc = "resolve"
    /\ Become(p, BeginBatch(indexer[p], GetEffectiveStartBlock(cp, StartBlock)))
    /\ UNCHANGED <<head, where, tables, faults>>

\* A backfill reads the checkpoint, then fixes its target (an explicit lower
\* target only ends it earlier).
ResumeBackfill(p) ==
    /\ p \in Backfills
    /\ indexer[p].pc = "idle"
    /\ Become(p, [AtRest EXCEPT !.pc = "target",
                                !.from = GetEffectiveStartBlock(cp, StartBlock)])
    /\ UNCHANGED <<head, where, tables, faults>>

RunBackfill(p) ==
    LET s == [indexer[p] EXCEPT !.safe = BackfillTarget(head, ConfirmationDepth)] IN
    /\ s.pc = "target"
    /\ Become(p, BeginBatch(s, s.from))
    /\ UNCHANGED <<head, where, tables, faults>>

\* Both log queries, the timestamps and the decoding.
GetTokenLogs(p) ==
    LET s == indexer[p] IN
    /\ s.pc = "getlogs"
    /\ Become(p, [s EXCEPT !.pc = "existing",
                           !.logs = {l \in Logs : where[l[1]] \in s.from .. s.to}])
    /\ UNCHANGED <<head, where, tables, faults>>

\* What a failed lookup leaves to be fetched: nothing, or everything.
NothingUnknown(s) == {}
UnknownAfterError(s) == TxsOf(s.logs)

\* Fill hashChan and start the workers, no more of them than requests.
StartWorkers(s, needed) ==
    [s EXCEPT !.pc = "fetch", !.needed = needed, !.hashes = needed,
              !.workers = IF Cardinality(needed) < WorkerCount
                          THEN Cardinality(needed) ELSE WorkerCount]

\* Look up which transactions are stored already.
GetExistingTxHashes(p) ==
    LET s == indexer[p] IN
    /\ s.pc = "existing"
    /\ \/ Become(p, StartWorkers(s, TxsOf(s.logs) \ transactions)) /\ UNCHANGED faults
       \/ Become(p, StartWorkers(s, UnknownAfterError(s))) /\ Fault
    /\ UNCHANGED <<head, where, tables>>

\* A worker takes a hash and fetches its transaction.
TransactionMetadata(p) ==
    LET s == indexer[p] IN
    /\ s.pc = "fetch" /\ s.workers > 0
    /\ \E h \in s.hashes :
           Become(p, [s EXCEPT !.hashes = @ \ {h}, !.metas = @ \cup {h}])
    /\ UNCHANGED <<head, where, tables, faults>>

\* What is left when a worker fails: one that ends silently, and the code's.
SilentWorker(s, h) == [s EXCEPT !.hashes = @ \ {h}, !.workers = @ - 1]
WorkerEnds(s, h) == [s EXCEPT !.hashes = @ \ {h}, !.workers = @ - 1, !.errs = @ + 1]

MetadataFails(p) ==
    LET s == indexer[p] IN
    /\ s.pc = "fetch" /\ s.workers > 0
    /\ Fault
    /\ \E h \in s.hashes : Become(p, WorkerEnds(s, h))
    /\ UNCHANGED <<head, where, tables>>

\* The collector takes one answer for every needed transaction, an error ends it;
\* select picks among the ready channels as it likes.
CollectMeta(p) ==
    LET s == indexer[p] IN
    /\ s.pc = "fetch"
    /\ \E h \in s.metas :
           Become(p, [s EXCEPT !.metas = @ \ {h}, !.fetched = @ \cup {h}])
    /\ UNCHANGED <<head, where, tables, faults>>

CollectError(p) ==
    /\ indexer[p].pc = "fetch"
    /\ indexer[p].errs > 0
    /\ Cardinality(indexer[p].fetched) < Cardinality(indexer[p].needed)
    /\ FailAttempt(p)
    /\ UNCHANGED <<head, where, tables, faults>>

\* All answers are in: fetch the header of the batch's last block.
BlockHeader(p) ==
    LET s == indexer[p] IN
    /\ s.pc = "fetch"
    /\ Cardinality(s.fetched) = Cardinality(s.needed)
    /\ Become(p, [s EXCEPT !.pc = "save"])
    /\ UNCHANGED <<head, where, tables, faults>>

\* The next batch, or the end of the poll.
AfterBatch(p) ==
    LET s == [indexer[p] EXCEPT !.batches = @ + 1] IN
    IF p \in Monitors => s.batches < MaxBatchesPerPoll THEN BeginBatch(s, s.to + 1) ELSE AtRest

\* Commit; when only the reply is lost the attempt has failed all the same.
SaveTokenBatch(p) ==
    LET s == indexer[p] IN
    /\ s.pc = "save"
    /\ transactions' = transactions \cup s.fetched
    /\ chain_events' = chain_events \cup s.logs
    /\ token_transfers' = token_transfers \cup {l \in s.logs : l[2] = "Transfer"}
    /\ cp' = s.to
    /\ \/ Become(p, AfterBatch(p)) /\ UNCHANGED faults
       \/ Fault /\ FailAttempt(p)
    /\ UNCHANGED <<head, where>>

\* The log queries, the header or a statement fail before the commit.
AttemptFails(p) ==
    /\ indexer[p].pc \in {"getlogs", "save"}
    /\ Fault
    /\ FailAttempt(p)
    /\ UNCHANGED <<head, where, tables>>

\* The checkpoint or the head cannot be read, or the process dies.
Crash(p) ==
    /\ indexer[p].pc # "idle"
    /\ Fault
    /\ Become(p, AtRest)
    /\ UNCHANGED <<head, where, tables>>

IndexStep(p) ==
    \/ PollOnce(p) \/ PollToken(p)
    \/ GetTokenLogs(p) \/ GetExistingTxHashes(p)
    \/ TransactionMetadata(p) \/ CollectMeta(p) \/ CollectError(p)
    \/ BlockHeader(p) \/ SaveTokenBatch(p)

Next ==
    \/ \E S \in SUBSET {t \in Txs : where[t] = NoBlock} : Mine(S)
    \/ \E t \in Txs : SaveTransaction(t)
    \/ \E p \in Indexers :
           \/ IndexStep(p) \/ ResumeBackfill(p) \/ RunBackfill(p)
           \/ MetadataFails(p) \/ AttemptFails(p) \/ Crash(p)

Spec == Init /\ [][Next]_vars

(***************************************************************************)
(* The monitor's ticker fires for ever and the monitor is restarted; its   *)
(* RPC requests are answered, one way or the other.                        *)
(***************************************************************************)
FairSpec == Spec /\ \A p \in Monitors : WF_vars(IndexStep(p))

-----------------------------------------------------------------------------
CoveredLogs == {l \in Logs : where[l[1]] \in StartBlock .. cp}

\* With one process the tables hold exactly the logs up to the checkpoint, at
\* every moment: SaveTokenBatch leaves no partial batch behind, and neither a
\* lost commit reply nor a leftover worker of a failed attempt shows.
TablesMatchCheckpoint ==
    /\ chain_events = CoveredLogs
    /\ token_transfers = {l \in CoveredLogs : l[2] = "Transfer"}

\* With several processes, where the slower one may take the checkpoint back,
\* the tables still hold everything up to it, each event with its transfer.
TablesCoverCheckpoint ==
    /\ CoveredLogs \subseteq chain_events
    /\ token_transfers = {l \in chain_events : l[2] = "Transfer"}

\* Every stored event has its transaction (fk_chain_event_transaction would
\* reject the batch otherwise), whatever the payroll stream stored first and
\* whichever lookups and workers failed.
EventsHaveTransactions == TxsOf(chain_events) \subseteq transactions

\* The collector of IndexRange never waits for an answer nobody is left to give: as
\* long as one is missing, an answer or an error is there, or a worker that will
\* take an open request (nothing else but a shutdown would end the wait).
CollectorIsAnswered ==
    \A p \in Indexers :
        LET s == indexer[p] IN
        s.pc = "fetch" /\ s.fetched # s.needed =>
            s.metas # {} \/ s.errs > 0 \/ (s.workers > 0 /\ s.hashes # {})

\* The token stream is a checkpointed stream.
Stream == INSTANCE CheckpointedStream
              WITH where <- [l \in Logs |-> where[l[1]]], done <- chain_events

ImplementsStream == Stream!Spec

\* A confirmed log is eventually behind the checkpoint: no failure of a worker
\* leaves the collector of IndexRange waiting for an answer that never comes.
ConfirmedIsIndexed ==
    \A t \in Txs :
        (where[t] >= StartBlock /\ where[t] + ConfirmationDepth <= head) ~> (cp >= where[t])

-----------------------------------------------------------------------------
(***************************************************************************)
(* The inductive invariants behind the safety properties: what a process   *)
(* knows at each point of its loop, whatever the other ones do.            *)
(***************************************************************************)

InBatch(s) == s.pc \in {"getlogs", "existing", "fetch", "save"}
LogsIn(from, to) == {l \in Logs : where[l[1]] \in from .. to}
Covered(b) == LogsIn(StartBlock, b) \subseteq chain_events

\* Transactions are on mined blocks, and so is the checkpoint.
ChainInv ==
    /\ \A t \in Txs : where[t] <= head
    /\ cp # NoBlock => StartBlock <= cp /\ cp <= head

\* A batch ends below a mined target and resumes where everything is covered, and
\* the logs read for it stay the logs of its blocks.
RangeInv(s) ==
    /\ s.safe <= head
    /\ s.pc = "target" \/ InBatch(s) =>
           /\ StartBlock <= s.from
           /\ s.from = StartBlock \/ s.from <= head + 1
           /\ Covered(s.from - 1)
    /\ InBatch(s) => s.from <= s.to /\ s.to <= s.safe
                      /\ s.to = BatchEnd(s.from, BatchSize, s.safe)
    /\ s.pc \in {"existing", "fetch", "save"} => s.logs = LogsIn(s.from, s.to)

\* What is requested, answered or stored already are all transactions of the logs,
\* and as long as no worker has failed there is one for every open request.
FetchInv(s) ==
    /\ s.workers + s.errs <= WorkerCount
    /\ s.pc \in {"getlogs", "existing"} => s.errs = 0 /\ s.metas = {} /\ s.fetched = {}
    /\ s.pc = "fetch" => /\ s.fetched \cup s.metas \cup s.hashes \subseteq s.needed
                         /\ TxsOf(s.logs) \subseteq transactions \cup s.needed
    /\ s.pc = "fetch" /\ s.errs = 0 =>
           /\ s.needed \subseteq s.fetched \cup s.metas \cup s.hashes
           /\ s.needed = {} \/ s.workers > 0
    /\ s.pc = "save" => TxsOf(s.logs) \subseteq transactions \cup s.fetched

IInv ==
    /\ TypeOK /\ ChainInv
    /\ TablesCoverCheckpoint /\ EventsHaveTransactions
    /\ \A p \in Indexers : RangeInv(indexer[p]) /\ FetchInv(indexer[p])

\* A single process is never overtaken: its batch ends at the checkpoint (after a
\* lost commit reply) or beyond.
OneIndexer == \A p, q \in Indexers : p = q
NotOvertaken(s) ==
    /\ s.pc = "target" => cp < s.from
    /\ InBatch(s) => cp <= s.to

ExactInv ==
    /\ IInv /\ TablesMatchCheckpoint
    /\ \A p \in Indexers : NotOvertaken(indexer[p])

\* No backfill takes the head of a short chain for a confirmed target, so that
\* every target is buried.
SafeDeployment == Backfills = {} \/ ConfirmationDepth <= 1
BuriedTarget(s) == s.safe = 0 \/ s.safe + ConfirmationDepth <= head

=============================================================================
