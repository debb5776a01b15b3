-------------------------- MODULE TokenIndexProofs --------------------------
(***************************************************************************)
(* Proofs about TokenIndex for every number of transactions, processes,    *)
(* workers, blocks and faults.                                             *)
(***************************************************************************)
EXTENDS TokenIndex, FiniteSetTheorems, TLAPS

-----------------------------------------------------------------------------
(***************************************************************************)
(* Types of the states a process goes through.                             *)
(***************************************************************************)

\* A batch's transactions can be counted.
LEMMA TxsAreFinite ==
    ASSUME NEW S \in SUBSET Txs
    PROVE  IsFiniteSet(S) /\ Cardinality(S) \in Nat
  BY TokenAssumption, FS_Subset, FS_CardinalityType

\* Logs name transactions.
LEMMA TxsOfLogs ==
    ASSUME NEW logs \in SUBSET Logs
    PROVE  TxsOf(logs) \in SUBSET Txs
  BY DEF TxsOf, Logs

\* The targets of both kinds of process are mined blocks.
LEMMA TargetIsMined ==
    ASSUME TypeOK
    PROVE  /\ CalculateSafeTarget(head, ConfirmationDepth) \in 0 .. head
           /\ BackfillTarget(head, ConfirmationDepth) \in 0 .. head
  BY TokenAssumption DEF TypeOK, CalculateSafeTarget, BackfillTarget

\* A process at rest is well typed.
LEMMA AtRestType == AtRest \in IndexerState /\ AtRest.pc = "idle" /\ AtRest.safe = 0
  BY TokenAssumption DEF AtRest, IndexerState

\* What a process is about to do when it begins the batch from `from`.
LEMMA BeginBatchState ==
    ASSUME NEW s \in IndexerState, NEW from \in Nat
    PROVE  LET s1 == BeginBatch(s, from) IN
           /\ s1 \in IndexerState
           /\ from > s.safe => s1 = AtRest
           /\ from <= s.safe =>
                 /\ s1.pc = "getlogs" /\ s1.safe = s.safe /\ s1.from = from
                 /\ s1.to = BatchEnd(from, BatchSize, s.safe)
                 /\ from <= s1.to /\ s1.to <= s.safe
                 /\ s1.workers = 0 /\ s1.errs = 0 /\ s1.metas = {} /\ s1.fetched = {}
<1>1. s.safe \in Nat /\ s.batches \in Nat
  BY DEF IndexerState
<1>2. CASE from > s.safe
  BY <1>1, <1>2, AtRestType DEF BeginBatch
<1>3. CASE ~ (from > s.safe)
  <2> DEFINE to == BatchEnd(from, BatchSize, s.safe)
  <2>1. to \in Nat /\ from <= to /\ to <= s.safe
    BY <1>1, <1>3, TokenAssumption DEF BatchEnd
  <2>2. BeginBatch(s, from) =
          [AtRest EXCEPT !.pc = "getlogs", !.safe = s.safe, !.from = from, !.to = to,
                         !.batches = s.batches, !.attempt = 1]
    BY <1>3 DEF BeginBatch
  <2>. HIDE DEF to
  <2>3. 1 \in 0 .. MaxRetries /\ 0 \in 0 .. WorkerCount
    BY TokenAssumption
  <2>4. BeginBatch(s, from) \in IndexerState
    BY <1>1, <2>1, <2>2, <2>3 DEF AtRest, IndexerState
  <2>5. LET s1 == BeginBatch(s, from) IN
        /\ s1.pc = "getlogs" /\ s1.safe = s.safe /\ s1.from = from /\ s1.to = to
        /\ s1.workers = 0 /\ s1.errs = 0 /\ s1.metas = {} /\ s1.fetched = {}
    BY <2>2 DEF AtRest
  <2>. QED
    BY <1>1, <1>3, <2>1, <2>4, <2>5 DEF to
<1>. QED
  BY <1>2, <1>3

\* RetryRange leaves a process at rest or at the same batch again.
LEMMA AfterFailureState ==
    ASSUME NEW s \in IndexerState, NEW s1 \in AfterFailure(s), s.from <= s.safe
    PROVE  /\ s1 \in IndexerState
           /\ s1 = AtRest \/
                 /\ s1.pc = "getlogs" /\ s1.safe = s.safe /\ s1.from = s.from
                 /\ s1.to = BatchEnd(s.from, BatchSize, s.safe)
                 /\ s1.from <= s1.to /\ s1.to <= s1.safe
                 /\ s1.workers = 0 /\ s1.errs = 0 /\ s1.metas = {} /\ s1.fetched = {}
<1>1. CASE s1 = AtRest
  BY <1>1, AtRestType
<1>2. CASE s1 # AtRest
  <2>1. PICK r \in IndexerState : r = BeginBatch(s, s.from)
    BY BeginBatchState DEF IndexerState
  <2>2. s.attempt < MaxRetries /\ s1 = [r EXCEPT !.attempt = s.attempt + 1]
    BY <1>2, <2>1 DEF AfterFailure
  <2>3. s.attempt + 1 \in 0 .. MaxRetries
    BY <2>2, TokenAssumption DEF IndexerState
  <2>4. s1 \in IndexerState
    BY <2>2, <2>3 DEF IndexerState
  <2>5. /\ r.pc = "getlogs" /\ r.safe = s.safe /\ r.from = s.from
        /\ r.to = BatchEnd(s.from, BatchSize, s.safe)
        /\ r.from <= r.to /\ r.to <= r.safe
        /\ r.workers = 0 /\ r.errs = 0 /\ r.metas = {} /\ r.fetched = {}
    BY <2>1, BeginBatchState DEF IndexerState
  <2>. QED
    BY <2>2, <2>4, <2>5 DEF IndexerState
<1>. QED
  BY <1>1, <1>2

-----------------------------------------------------------------------------
(***************************************************************************)
(* What one process knows is disturbed neither by the chain nor by what    *)
(* the other ones store.                                                   *)
(***************************************************************************)

Knows(s) == RangeInv(s) /\ FetchInv(s)

\* At rest a process knows nothing.
LEMMA RestKnows == ASSUME TypeOK PROVE Knows(AtRest)
  BY TokenAssumption DEF Knows, RangeInv, FetchInv, AtRest, InBatch, TypeOK

\* A batch that begins at a covered position below a mined target.
LEMMA BeginBatchKnows ==
    ASSUME TypeOK, NEW s \in IndexerState, s.safe <= head, NEW from \in Nat,
           StartBlock <= from, Covered(from - 1)
    PROVE  Knows(BeginBatch(s, from))
<1>1. PICK s1 \in IndexerState :
         /\ s1 = BeginBatch(s, from)
         /\ from > s.safe => s1 = AtRest
         /\ from <= s.safe =>
               /\ s1.pc = "getlogs" /\ s1.safe = s.safe /\ s1.from = from
               /\ s1.to = BatchEnd(from, BatchSize, s.safe)
               /\ from <= s1.to /\ s1.to <= s.safe
               /\ s1.workers = 0 /\ s1.errs = 0 /\ s1.metas = {} /\ s1.fetched = {}
  BY BeginBatchState
<1>2. CASE from > s.safe
  BY <1>1, <1>2, RestKnows
<1>3. CASE ~ (from > s.safe)
  <2>1. from <= s.safe /\ from <= head + 1 /\ s.safe \in Nat /\ head \in Nat
    BY <1>3 DEF IndexerState, TypeOK
  <2>. QED
    BY <1>1, <2>1, TokenAssumption DEF Knows, RangeInv, FetchInv, InBatch
<1>. QED
  BY <1>2, <1>3

\* The next attempt at a batch knows what the failed one knew of its range.
LEMMA AfterFailureKnows ==
    ASSUME TypeOK, NEW s \in IndexerState, RangeInv(s), InBatch(s), NEW s1 \in AfterFailure(s)
    PROVE  s1 \in IndexerState /\ Knows(s1)
<1>1. s.from <= s.safe /\ StartBlock <= s.from /\ Covered(s.from - 1) /\ s.safe <= head
      /\ (s.from = StartBlock \/ s.from <= head + 1)
  BY DEF RangeInv, IndexerState
<1>2. s1 \in IndexerState
  BY <1>1, AfterFailureState
<1>3. CASE s1 = AtRest
  BY <1>2, <1>3, RestKnows
<1>4. CASE s1 # AtRest
  <2>1. /\ s1.pc = "getlogs" /\ s1.safe = s.safe /\ s1.from = s.from
        /\ s1.to = BatchEnd(s.from, BatchSize, s.safe)
        /\ s1.from <= s1.to /\ s1.to <= s1.safe
        /\ s1.workers = 0 /\ s1.errs = 0 /\ s1.metas = {} /\ s1.fetched = {}
    BY <1>1, <1>4, AfterFailureState
  <2>. QED
    BY <1>1, <1>2, <2>1, TokenAssumption DEF Knows, RangeInv, FetchInv, InBatch
<1>. QED
  BY <1>3, <1>4

\* On an unchanged chain, storing more takes nothing from what a process knows.
LEMMA StoringKeeps ==
    ASSUME UNCHANGED <<head, where>>, transactions \subseteq transactions',
           chain_events \subseteq chain_events'
    PROVE  \A s : Knows(s) => Knows(s)'
<1>1. \A b : Covered(b) => Covered(b)'
  BY DEF Covered, LogsIn
<1>2. \A s : RangeInv(s) => RangeInv(s)'
  BY <1>1 DEF RangeInv, LogsIn, InBatch
<1>3. \A s : FetchInv(s) => FetchInv(s)'
  BY DEF FetchInv, TxsOf
<1>. QED
  BY <1>2, <1>3 DEF Knows

\* A mined block adds no log to the blocks up to the former head.
LEMMA MiningKeepsRanges ==
    ASSUME TypeOK, ChainInv, NEW S \in SUBSET {t \in Txs : where[t] = NoBlock}, Mine(S)
    PROVE  \A a, b \in Int : 1 <= a /\ b <= head => LogsIn(a, b)' = LogsIn(a, b)
<1> SUFFICES ASSUME NEW a \in Int, NEW b \in Int, 1 <= a, b <= head, NEW l \in Logs
             PROVE  where'[l[1]] \in a .. b <=> where[l[1]] \in a .. b
  BY DEF LogsIn
<1>1. l[1] \in Txs
  BY DEF Logs
<1>2. where'[l[1]] = IF l[1] \in S THEN head + 1 ELSE where[l[1]]
  BY <1>1 DEF Mine
<1>3. l[1] \in S => where[l[1]] = NoBlock
  BY <1>1
<1>. QED
  BY <1>1, <1>2, <1>3 DEF TypeOK, NoBlock

\* So mining disturbs no process.
LEMMA MiningKeeps ==
    ASSUME TypeOK, ChainInv, NEW S \in SUBSET {t \in Txs : where[t] = NoBlock}, Mine(S)
    PROVE  \A s \in IndexerState : Knows(s) => Knows(s)'
<1> SUFFICES ASSUME NEW s \in IndexerState, Knows(s) PROVE Knows(s)'
  OBVIOUS
<1>1. /\ s.safe \in Nat /\ s.from \in Nat /\ s.to \in Nat /\ head \in Nat /\ head' = head + 1
      /\ StartBlock \in Nat /\ StartBlock >= 1
      /\ UNCHANGED <<transactions, chain_events>>
  BY TokenAssumption DEF IndexerState, TypeOK, Mine, tables
<1>2. ASSUME s.pc = "target" \/ InBatch(s) PROVE Covered(s.from - 1)'
  <2>1. CASE s.from = StartBlock
    BY <1>1, <2>1, TokenAssumption DEF Covered, LogsIn
  <2>2. CASE s.from <= head + 1
    <3>1. LogsIn(StartBlock, s.from - 1)' = LogsIn(StartBlock, s.from - 1)
      BY <1>1, <2>2, MiningKeepsRanges
    <3>. QED
      BY <1>1, <1>2, <3>1 DEF Covered, Knows, RangeInv
  <2>. QED
    BY <1>2, <2>1, <2>2 DEF Knows, RangeInv
<1>3. ASSUME s.pc \in {"existing", "fetch", "save"} PROVE s.logs = LogsIn(s.from, s.to)'
  <2>1. 1 <= s.from /\ s.to <= head /\ s.logs = LogsIn(s.from, s.to)
    BY <1>1, <1>3 DEF Knows, RangeInv, InBatch
  <2>. QED
    BY <1>1, <2>1, MiningKeepsRanges
<1>4. RangeInv(s)'
  BY <1>1, <1>2, <1>3 DEF Knows, RangeInv, InBatch
<1>5. FetchInv(s)'
  BY <1>1 DEF Knows, FetchInv
<1>. QED
  BY <1>4, <1>5 DEF Knows

\* When one process moves to a state that knows enough, all processes do.
LEMMA OneMoves ==
    ASSUME TypeOK, \A q \in Indexers : Knows(indexer[q]),
           NEW p \in Indexers, NEW s1 \in IndexerState, Become(p, s1), Knows(s1)',
           \A s \in IndexerState : Knows(s) => Knows(s)'
    PROVE  /\ indexer' \in [Indexers -> IndexerState]
           /\ \A q \in Indexers : Knows(indexer[q])'
<1>1. indexer' \in [Indexers -> IndexerState]
  BY DEF TypeOK, Become
<1>2. ASSUME NEW q \in Indexers PROVE Knows(indexer[q])'
  <2>1. PICK s \in IndexerState : s = indexer[q] /\ Knows(s)'
    BY DEF TypeOK
  <2>2. indexer'[q] = IF q = p THEN s1 ELSE s
    BY <2>1 DEF TypeOK, Become
  <2>. QED
    BY <2>1, <2>2 DEF Knows, RangeInv, FetchInv, InBatch, Covered, LogsIn, TxsOf
<1>. QED
  BY <1>1, <1>2

-----------------------------------------------------------------------------
(***************************************************************************)
(* The steps of a process.                                                 *)
(***************************************************************************)

\* A fault is counted within its bound.
LEMMA FaultType ==
    ASSUME TypeOK, Fault \/ UNCHANGED faults
    PROVE  faults' \in 0 .. MaxFaults
  BY TokenAssumption DEF TypeOK, Fault

\* The position a process resumes from is a block behind which all is covered.
LEMMA ResumeIsCovered ==
    ASSUME IInv
    PROVE  LET from == GetEffectiveStartBlock(cp, StartBlock) IN
           /\ from \in Nat /\ StartBlock <= from /\ cp < from
           /\ from = StartBlock \/ from <= head + 1
           /\ Covered(from - 1)
<1> USE TokenAssumption DEF IInv, TypeOK, ChainInv, NoBlock
<1>1. CoveredLogs = LogsIn(StartBlock, cp) /\ CoveredLogs \subseteq chain_events
  BY DEF CoveredLogs, LogsIn, TablesCoverCheckpoint
<1>2. CASE cp = NoBlock \/ cp + 1 < StartBlock
  BY <1>2 DEF GetEffectiveStartBlock, Covered, LogsIn
<1>3. CASE ~ (cp = NoBlock \/ cp + 1 < StartBlock)
  BY <1>1, <1>3 DEF GetEffectiveStartBlock, Covered
<1>. QED
  BY <1>2, <1>3

\* Fixing a target and taking the checkpoint, by a monitor and by a backfill.
LEMMA ResumeStep ==
    ASSUME IInv, NEW p \in Indexers,
           PollOnce(p) \/ PollToken(p) \/ ResumeBackfill(p) \/ RunBackfill(p)
    PROVE  \E s1 \in IndexerState : Become(p, s1) /\ Knows(s1)
<1>0. PICK s \in IndexerState : s = indexer[p] /\ Knows(s) /\ s.safe \in Nat /\ s.from \in Nat
  BY DEF IInv, TypeOK, Knows, IndexerState
<1>1. TypeOK
  BY DEF IInv
<1> DEFINE start == GetEffectiveStartBlock(cp, StartBlock)
<1>2. /\ start \in Nat /\ StartBlock <= start /\ Covered(start - 1)
      /\ start = StartBlock \/ start <= head + 1
  BY ResumeIsCovered
<1>. HIDE DEF start
<1>3. CASE PollOnce(p)
  <2>1. PICK safe \in 0 .. head : safe = CalculateSafeTarget(head, ConfirmationDepth)
    BY <1>1, TargetIsMined
  <2> DEFINE s1 == [AtRest EXCEPT !.pc = "resolve", !.safe = safe]
  <2>2. s1 \in IndexerState
    <3>1. safe \in Nat
      BY <1>1, <2>1 DEF TypeOK
    <3>. QED
      BY <3>1, AtRestType DEF IndexerState
  <2>3. Knows(s1)
    BY <1>1, <2>1, TokenAssumption DEF Knows, RangeInv, FetchInv, AtRest, InBatch, TypeOK
  <2>4. Become(p, s1)
    BY <1>3, <2>1 DEF PollOnce
  <2>. QED
    BY <2>2, <2>3, <2>4
<1>4. CASE PollToken(p)
  <2>1. Become(p, BeginBatch(s, start))
    BY <1>0, <1>4 DEF PollToken, start
  <2>2. s.safe <= head
    BY <1>0 DEF Knows, RangeInv
  <2>3. BeginBatch(s, start) \in IndexerState
    BY <1>2, BeginBatchState
  <2>. QED
    BY <1>1, <1>2, <2>1, <2>2, <2>3, BeginBatchKnows
<1>5. CASE ResumeBackfill(p)
  <2> DEFINE s1 == [AtRest EXCEPT !.pc = "target", !.from = start]
  <2>1. s1 \in IndexerState
    <3>1. start \in Nat
      BY <1>2
    <3>. QED
      BY <3>1, AtRestType DEF IndexerState
  <2>2. Knows(s1)
    BY <1>1, <1>2, TokenAssumption DEF Knows, RangeInv, FetchInv, AtRest, InBatch, TypeOK
  <2>3. Become(p, s1)
    BY <1>5 DEF ResumeBackfill, start
  <2>. QED
    BY <2>1, <2>2, <2>3
<1>6. CASE RunBackfill(p)
  <2>1. PICK safe \in 0 .. head : safe = BackfillTarget(head, ConfirmationDepth)
    BY <1>1, TargetIsMined
  <2>2. PICK r \in IndexerState : r = [s EXCEPT !.safe = safe]
    <3>1. safe \in Nat
      BY <1>1, <2>1 DEF TypeOK
    <3>2. [s EXCEPT !.safe = safe] \in IndexerState
      BY <3>1 DEF IndexerState
    <3>. QED
      BY <3>2
  <2>3. r.safe <= head /\ r.from = s.from /\ r.pc = s.pc
    BY <2>1, <2>2, <1>1 DEF IndexerState, TypeOK
  <2>4. r.pc = "target" /\ Become(p, BeginBatch(r, r.from))
    BY <1>0, <1>6, <2>1, <2>2 DEF RunBackfill
  <2>5. StartBlock <= s.from /\ Covered(s.from - 1)
    BY <1>0, <2>3, <2>4 DEF Knows, RangeInv
  <2>6. BeginBatch(r, s.from) \in IndexerState
    BY <1>0, BeginBatchState
  <2>. QED
    BY <1>0, <1>1, <2>3, <2>4, <2>5, <2>6, BeginBatchKnows
<1>. QED
  BY <1>3, <1>4, <1>5, <1>6

\* Starting the workers on what is not stored, or on everything.
LEMMA StartWorkersKnows ==
    ASSUME TypeOK, NEW s \in IndexerState, Knows(s), s.pc = "existing",
           NEW needed \in SUBSET Txs, TxsOf(s.logs) \subseteq transactions \cup needed
    PROVE  StartWorkers(s, needed) \in IndexerState /\ Knows(StartWorkers(s, needed))
<1> DEFINE workers == IF Cardinality(needed) < WorkerCount
                      THEN Cardinality(needed) ELSE WorkerCount
           s1 == [s EXCEPT !.pc = "fetch", !.needed = needed, !.hashes = needed,
                           !.workers = workers]
<1>1. Cardinality(needed) \in Nat /\ (needed = {} \/ Cardinality(needed) > 0)
  BY TxsAreFinite, FS_EmptySet
<1>2. workers \in 0 .. WorkerCount /\ (needed = {} \/ workers > 0)
  BY <1>1, TokenAssumption
<1>. HIDE DEF workers
<1>3. StartWorkers(s, needed) = s1
  BY DEF StartWorkers, workers
<1>4. s1 \in IndexerState
  BY <1>2 DEF IndexerState
<1>5. /\ s1.pc = "fetch" /\ s1.needed = needed /\ s1.hashes = needed /\ s1.workers = workers
      /\ s1.safe = s.safe /\ s1.from = s.from /\ s1.to = s.to /\ s1.logs = s.logs
      /\ s1.errs = 0 /\ s1.metas = {} /\ s1.fetched = {}
  BY DEF IndexerState, Knows, FetchInv
<1>. HIDE DEF s1
<1>6. RangeInv(s1)
  BY <1>5 DEF Knows, RangeInv, InBatch
<1>7. FetchInv(s1)
  BY <1>2, <1>5 DEF FetchInv
<1>. QED
  BY <1>3, <1>4, <1>6, <1>7 DEF Knows

\* The log queries and the lookup.
LEMMA ReadStep ==
    ASSUME IInv, NEW p \in Indexers, GetTokenLogs(p) \/ GetExistingTxHashes(p)
    PROVE  \E s1 \in IndexerState : Become(p, s1) /\ Knows(s1)
<1>0. PICK s \in IndexerState : s = indexer[p] /\ Knows(s)
  BY DEF IInv, TypeOK, Knows
<1>1. TypeOK
  BY DEF IInv
<1>2. CASE GetTokenLogs(p)
  <2>1. LogsIn(s.from, s.to) \in SUBSET Logs
    BY DEF LogsIn
  <2> DEFINE s1 == [s EXCEPT !.pc = "existing", !.logs = LogsIn(s.from, s.to)]
  <2>2. s1 \in IndexerState
    BY <2>1 DEF IndexerState
  <2>3. s.pc = "getlogs" /\ Become(p, s1)
    BY <1>0, <1>2 DEF GetTokenLogs, LogsIn
  <2>4. /\ s1.pc = "existing" /\ s1.logs = LogsIn(s.from, s.to)
        /\ s1.safe = s.safe /\ s1.from = s.from /\ s1.to = s.to
        /\ s1.workers = s.workers /\ s1.errs = s.errs
        /\ s1.metas = s.metas /\ s1.fetched = s.fetched
    BY DEF IndexerState
  <2>. HIDE DEF s1
  <2>5. Knows(s1)
    BY <1>0, <2>3, <2>4 DEF Knows, RangeInv, FetchInv, InBatch
  <2>. QED
    BY <2>2, <2>3, <2>5
<1>3. CASE GetExistingTxHashes(p)
  <2>1. s.pc = "existing" /\ TxsOf(s.logs) \in SUBSET Txs
    BY <1>0, <1>3, TxsOfLogs DEF GetExistingTxHashes, IndexerState
  <2>2. \/ Become(p, StartWorkers(s, TxsOf(s.logs) \ transactions))
        \/ Become(p, StartWorkers(s, TxsOf(s.logs)))
    BY <1>0, <1>3 DEF GetExistingTxHashes, UnknownAfterError
  <2>3. \A needed \in {TxsOf(s.logs), TxsOf(s.logs) \ transactions} :
           StartWorkers(s, needed) \in IndexerState /\ Knows(StartWorkers(s, needed))
    BY <1>0, <1>1, <2>1, StartWorkersKnows
  <2>. QED
    BY <2>2, <2>3
<1>. QED
  BY <1>2, <1>3

\* A failed attempt, wherever in the batch it fails.
LEMMA FailStep ==
    ASSUME IInv, NEW p \in Indexers, InBatch(indexer[p]), FailAttempt(p)
    PROVE  \E s1 \in IndexerState : Become(p, s1) /\ Knows(s1)
<1>1. PICK s \in IndexerState : s = indexer[p] /\ RangeInv(s) /\ InBatch(s)
  BY DEF IInv, TypeOK
<1>2. PICK s1 \in AfterFailure(s) : Become(p, s1)
  BY <1>1 DEF FailAttempt
<1>. QED
  BY <1>1, <1>2, AfterFailureKnows DEF IInv

\* A process whose range is untouched keeps what it knows of it.
LEMMA SameRange ==
    ASSUME NEW s, NEW s1, RangeInv(s), s.pc = "fetch", s1.pc \in {"fetch", "save"},
           s1.safe = s.safe, s1.from = s.from, s1.to = s.to, s1.logs = s.logs
    PROVE  RangeInv(s1)
  BY DEF RangeInv, InBatch

\* The workers and the collector: no answer is lost or counted twice, and with the
\* last answer everything needed is there.
LEMMA FetchStep ==
    ASSUME IInv, NEW p \in Indexers,
           \/ TransactionMetadata(p) \/ MetadataFails(p) \/ CollectMeta(p)
           \/ CollectError(p) \/ BlockHeader(p)
    PROVE  \E s1 \in IndexerState : Become(p, s1) /\ Knows(s1)
<1>1. PICK s \in IndexerState : s = indexer[p] /\ RangeInv(s) /\ FetchInv(s)
  BY DEF IInv, TypeOK
<1>2. /\ s.hashes \subseteq Txs /\ s.metas \subseteq Txs /\ s.fetched \subseteq Txs
      /\ s.needed \subseteq Txs /\ s.workers \in 0 .. WorkerCount /\ s.errs \in 0 .. WorkerCount
  BY DEF IndexerState
<1>3. s.pc = "fetch"
  BY <1>1 DEF TransactionMetadata, MetadataFails, CollectMeta, CollectError, BlockHeader
<1>4. /\ s.workers + s.errs <= WorkerCount
      /\ s.fetched \cup s.metas \cup s.hashes \subseteq s.needed
      /\ TxsOf(s.logs) \subseteq transactions \cup s.needed
      /\ s.errs = 0 => /\ s.needed \subseteq s.fetched \cup s.metas \cup s.hashes
                       /\ s.needed = {} \/ s.workers > 0
  BY <1>1, <1>3 DEF FetchInv
<1>5. CASE TransactionMetadata(p)
  <2>1. PICK h \in s.hashes :
           Become(p, [s EXCEPT !.hashes = @ \ {h}, !.metas = @ \cup {h}])
    BY <1>1, <1>5 DEF TransactionMetadata
  <2> DEFINE s1 == [s EXCEPT !.hashes = @ \ {h}, !.metas = @ \cup {h}]
  <2>2. s1 \in IndexerState
    BY <1>2, <2>1 DEF IndexerState
  <2>3. /\ s1.pc = "fetch" /\ s1.safe = s.safe /\ s1.from = s.from /\ s1.to = s.to
        /\ s1.logs = s.logs /\ s1.needed = s.needed /\ s1.fetched = s.fetched
        /\ s1.hashes = s.hashes \ {h} /\ s1.metas = s.metas \cup {h}
        /\ s1.workers = s.workers /\ s1.errs = s.errs
    BY <1>3 DEF IndexerState
  <2>. HIDE DEF s1
  <2>4. RangeInv(s1)
    BY <1>1, <1>3, <2>3, SameRange
  <2>5. FetchInv(s1)
    BY <1>3, <1>4, <2>3 DEF FetchInv
  <2>. QED
    BY <2>1, <2>2, <2>4, <2>5 DEF Knows, s1
<1>6. CASE MetadataFails(p)
  <2>1. PICK h \in s.hashes : Become(p, WorkerEnds(s, h))
    BY <1>1, <1>6 DEF MetadataFails
  <2>2. s.workers > 0
    BY <1>1, <1>6 DEF MetadataFails
  <2>3. s.workers - 1 \in 0 .. WorkerCount /\ s.errs + 1 \in 0 .. WorkerCount
    BY <1>2, <1>4, <2>2, TokenAssumption
  <2>4. PICK s1 \in IndexerState : s1 = WorkerEnds(s, h)
    <3>1. WorkerEnds(s, h) \in IndexerState
      BY <1>2, <2>3 DEF WorkerEnds, IndexerState
    <3>. QED
      BY <3>1
  <2>5. /\ s1.pc = "fetch" /\ s1.safe = s.safe /\ s1.from = s.from /\ s1.to = s.to
        /\ s1.logs = s.logs /\ s1.needed = s.needed /\ s1.fetched = s.fetched
        /\ s1.hashes = s.hashes \ {h} /\ s1.metas = s.metas
        /\ s1.workers = s.workers - 1 /\ s1.errs = s.errs + 1
    BY <1>3, <2>4 DEF WorkerEnds, IndexerState
  <2>6. RangeInv(s1)
    BY <1>1, <1>3, <2>5, SameRange
  <2>7. s1.workers + s1.errs <= WorkerCount /\ s1.errs # 0
    BY <1>2, <1>4, <2>5
  <2>8. FetchInv(s1)
    BY <1>4, <2>5, <2>7 DEF FetchInv
  <2>. QED
    BY <2>1, <2>4, <2>6, <2>8 DEF Knows
<1>7. CASE CollectMeta(p)
  <2>1. PICK h \in s.metas :
           Become(p, [s EXCEPT !.metas = @ \ {h}, !.fetched = @ \cup {h}])
    BY <1>1, <1>7 DEF CollectMeta
  <2> DEFINE s1 == [s EXCEPT !.metas = @ \ {h}, !.fetched = @ \cup {h}]
  <2>2. s1 \in IndexerState
    BY <1>2, <2>1 DEF IndexerState
  <2>3. /\ s1.pc = "fetch" /\ s1.safe = s.safe /\ s1.from = s.from /\ s1.to = s.to
        /\ s1.logs = s.logs /\ s1.needed = s.needed /\ s1.hashes = s.hashes
        /\ s1.metas = s.metas \ {h} /\ s1.fetched = s.fetched \cup {h}
        /\ s1.workers = s.workers /\ s1.errs = s.errs
    BY <1>3 DEF IndexerState
  <2>. HIDE DEF s1
  <2>4. RangeInv(s1)
    BY <1>1, <1>3, <2>3, SameRange
  <2>5. FetchInv(s1)
    BY <1>3, <1>4, <2>3 DEF FetchInv
  <2>. QED
    BY <2>1, <2>2, <2>4, <2>5 DEF Knows, s1
<1>8. CASE CollectError(p)
  BY <1>1, <1>3, <1>8, FailStep DEF CollectError, InBatch
<1>9. CASE BlockHeader(p)
  <2>1. Become(p, [s EXCEPT !.pc = "save"]) /\ Cardinality(s.fetched) = Cardinality(s.needed)
    BY <1>1, <1>9 DEF BlockHeader
  <2>2. s.fetched = s.needed
    BY <1>2, <1>4, <2>1, TxsAreFinite, FS_Subset
  <2> DEFINE s1 == [s EXCEPT !.pc = "save"]
  <2>3. s1 \in IndexerState
    BY DEF IndexerState
  <2>4. /\ s1.pc = "save" /\ s1.safe = s.safe /\ s1.from = s.from /\ s1.to = s.to
        /\ s1.logs = s.logs /\ s1.fetched = s.fetched
        /\ s1.workers = s.workers /\ s1.errs = s.errs
    BY DEF IndexerState
  <2>. HIDE DEF s1
  <2>5. RangeInv(s1)
    BY <1>1, <1>3, <2>4, SameRange
  <2>6. FetchInv(s1)
    BY <1>4, <2>2, <2>4 DEF FetchInv
  <2>. QED
    BY <2>1, <2>3, <2>5, <2>6 DEF Knows, s1
<1>. QED
  BY <1>5, <1>6, <1>7, <1>8, <1>9

\* A failed query, header or statement, and a crash.
LEMMA StopStep ==
    ASSUME IInv, NEW p \in Indexers, AttemptFails(p) \/ Crash(p)
    PROVE  \E s1 \in IndexerState : Become(p, s1) /\ Knows(s1)
<1>1. CASE AttemptFails(p)
  BY <1>1, FailStep DEF AttemptFails, InBatch
<1>2. CASE Crash(p)
  BY <1>2, AtRestType, RestKnows DEF Crash, IInv
<1>. QED
  BY <1>1, <1>2

\* All steps but the commit leave the tables and the chain alone.
LEMMA QuietStep ==
    ASSUME IInv, NEW p \in Indexers,
           \/ PollOnce(p) \/ PollToken(p) \/ ResumeBackfill(p) \/ RunBackfill(p)
           \/ GetTokenLogs(p) \/ GetExistingTxHashes(p)
           \/ TransactionMetadata(p) \/ MetadataFails(p) \/ CollectMeta(p)
           \/ CollectError(p) \/ BlockHeader(p) \/ AttemptFails(p) \/ Crash(p)
    PROVE  /\ UNCHANGED <<head, where, tables>> /\ IInv'
<1>1. UNCHANGED <<head, where, tables>> /\ (Fault \/ UNCHANGED faults)
  BY DEF PollOnce, PollToken, ResumeBackfill, RunBackfill, GetTokenLogs, GetExistingTxHashes,
     TransactionMetadata, MetadataFails, CollectMeta, CollectError, BlockHeader, AttemptFails,
     Crash
<1>2. PICK s1 \in IndexerState : Become(p, s1) /\ Knows(s1)
  BY ResumeStep, ReadStep, FetchStep, StopStep
<1>3. \A s : Knows(s) => Knows(s)'
  BY <1>1, StoringKeeps DEF tables
<1>4. /\ indexer' \in [Indexers -> IndexerState]
      /\ \A q \in Indexers : Knows(indexer[q])'
  BY <1>2, <1>3, OneMoves DEF IInv, Knows
<1>5. TypeOK'
  BY <1>1, <1>4, FaultType DEF IInv, TypeOK, tables
<1>6. ChainInv' /\ TablesCoverCheckpoint' /\ EventsHaveTransactions'
  BY <1>1 DEF IInv, ChainInv, TablesCoverCheckpoint, CoveredLogs, EventsHaveTransactions, TxsOf,
     tables
<1>. QED
  BY <1>1, <1>4, <1>5, <1>6 DEF IInv, Knows

\* A committed batch has closed the gap behind its last block: the process goes on
\* from there, repeats the batch, or rests.
LEMMA CommitStep ==
    ASSUME IInv, NEW p \in Indexers, SaveTokenBatch(p)
    PROVE  IInv'
<1>1. PICK s \in IndexerState : s = indexer[p] /\ RangeInv(s) /\ FetchInv(s)
  BY DEF IInv, TypeOK
<1>2. /\ s.safe \in Nat /\ s.from \in Nat /\ s.to \in Nat /\ head \in Nat
      /\ s.logs \subseteq Logs /\ s.fetched \subseteq Txs
  BY DEF IndexerState, IInv, TypeOK
<1>3. s.pc = "save" /\ InBatch(s)
  BY <1>1 DEF SaveTokenBatch, InBatch
<1>4. /\ StartBlock <= s.from /\ s.from <= s.to /\ s.to <= s.safe /\ s.safe <= head
      /\ s.from = StartBlock \/ s.from <= head + 1
      /\ Covered(s.from - 1) /\ s.logs = LogsIn(s.from, s.to)
      /\ s.to = BatchEnd(s.from, BatchSize, s.safe)
      /\ TxsOf(s.logs) \subseteq transactions \cup s.fetched
  BY <1>1, <1>3 DEF RangeInv, FetchInv, InBatch
<1>5. /\ transactions' = transactions \cup s.fetched
      /\ chain_events' = chain_events \cup s.logs
      /\ token_transfers' = token_transfers \cup {l \in s.logs : l[2] = "Transfer"}
      /\ cp' = s.to /\ UNCHANGED <<head, where>>
      /\ Fault \/ UNCHANGED faults
  BY <1>1 DEF SaveTokenBatch
<1>6. \A a, b : LogsIn(a, b)' = LogsIn(a, b)
  BY <1>5 DEF LogsIn
<1>7. \A b \in Int : b <= s.to => Covered(b)'
  <2> SUFFICES ASSUME NEW b \in Int, b <= s.to, NEW l \in LogsIn(StartBlock, b)
               PROVE  l \in chain_events'
    BY <1>6 DEF Covered
  <2>1. where[l[1]] \in Int
    BY DEF LogsIn, Logs, IInv, TypeOK, NoBlock
  <2>2. CASE where[l[1]] < s.from
    BY <1>2, <1>4, <1>5, <2>1, <2>2, TokenAssumption DEF LogsIn, Covered
  <2>3. CASE where[l[1]] >= s.from
    BY <1>2, <1>4, <1>5, <2>1, <2>3, TokenAssumption DEF LogsIn
  <2>. QED
    BY <1>2, <2>1, <2>2, <2>3
<1>8. \A r : Knows(r) => Knows(r)'
  BY <1>5, StoringKeeps
<1>9. ASSUME NEW s1 \in AfterFailure(s) PROVE s1 \in IndexerState /\ Knows(s1)'
  BY <1>1, <1>3, <1>8, AfterFailureKnows DEF IInv
<1>10. \E s1 \in IndexerState : s1 = AfterBatch(p) /\ Knows(s1)'
  <2> DEFINE r == [s EXCEPT !.batches = @ + 1]
  <2>1. r \in IndexerState /\ r.safe = s.safe /\ r.to = s.to
    BY DEF IndexerState
  <2>2. AfterBatch(p) = AtRest \/ AfterBatch(p) = BeginBatch(r, r.to + 1)
    BY <1>1 DEF AfterBatch
  <2>. HIDE DEF r
  <2>3. \E s1 \in IndexerState : s1 = AtRest /\ Knows(s1)'
    BY <1>8, RestKnows, AtRestType DEF IInv
  <2>4. PICK s1 \in IndexerState :
           /\ s1 = BeginBatch(r, s.to + 1)
           /\ s.to + 1 > s.safe => s1 = AtRest
           /\ s.to + 1 <= s.safe =>
                 /\ s1.pc = "getlogs" /\ s1.safe = s.safe /\ s1.from = s.to + 1
                 /\ s1.to = BatchEnd(s.to + 1, BatchSize, s.safe)
                 /\ s.to + 1 <= s1.to /\ s1.to <= s.safe
                 /\ s1.workers = 0 /\ s1.errs = 0 /\ s1.metas = {} /\ s1.fetched = {}
    <3>1. s.to + 1 \in Nat
      BY <1>2
    <3>. QED
      BY <2>1, <3>1, BeginBatchState
  <2>5. CASE s.to + 1 > s.safe
    BY <2>1, <2>2, <2>3, <2>4, <2>5, AtRestType
  <2>6. CASE ~ (s.to + 1 > s.safe)
    <3>1. /\ s.to + 1 <= s.safe /\ StartBlock <= s.to + 1 /\ s.to + 1 <= head + 1
          /\ (s.to + 1) - 1 \in Int /\ (s.to + 1) - 1 <= s.to
      BY <1>2, <1>4, <2>6, TokenAssumption
    <3>2. Covered((s.to + 1) - 1)'
      BY <1>7, <3>1
    <3>3. RangeInv(s1)'
      BY <1>2, <1>4, <1>5, <2>4, <3>1, <3>2 DEF RangeInv, InBatch
    <3>4. FetchInv(s1)'
      BY <2>4, <3>1, TokenAssumption DEF FetchInv
    <3>5. Knows(s1)'
      BY <3>3, <3>4 DEF Knows
    <3>. QED
      BY <2>1, <2>2, <2>3, <2>4, <3>5, AtRestType
  <2>. QED
    BY <2>5, <2>6
<1>11. PICK s1 \in IndexerState : Become(p, s1) /\ Knows(s1)'
  <2>1. CASE Become(p, AfterBatch(p))
    BY <1>10, <2>1
  <2>2. CASE FailAttempt(p)
    BY <1>1, <1>9, <2>2 DEF FailAttempt
  <2>. QED
    BY <2>1, <2>2 DEF SaveTokenBatch
<1>12. /\ indexer' \in [Indexers -> IndexerState]
       /\ \A q \in Indexers : Knows(indexer[q])'
  BY <1>8, <1>11, OneMoves DEF IInv, Knows
<1>13. TypeOK'
  <2>1. cp' \in 1 .. MaxHead
    BY <1>2, <1>4, <1>5, TokenAssumption DEF IInv, TypeOK
  <2>. QED
    BY <1>2, <1>5, <1>12, <2>1, FaultType DEF IInv, TypeOK
<1>14. ChainInv'
  BY <1>2, <1>4, <1>5, TokenAssumption DEF IInv, ChainInv
<1>15. TablesCoverCheckpoint'
  <2>1. CoveredLogs' \subseteq chain_events'
    BY <1>2, <1>5, <1>7 DEF CoveredLogs, Covered, LogsIn
  <2>2. token_transfers' = {l \in chain_events' : l[2] = "Transfer"}
    BY <1>5 DEF IInv, TablesCoverCheckpoint
  <2>. QED
    BY <2>1, <2>2 DEF TablesCoverCheckpoint
<1>16. EventsHaveTransactions'
  BY <1>4, <1>5 DEF IInv, EventsHaveTransactions, TxsOf
<1>. QED
  BY <1>12, <1>13, <1>14, <1>15, <1>16 DEF IInv, Knows

\* A block is mined.
LEMMA MineStep ==
    ASSUME IInv, NEW S \in SUBSET {t \in Txs : where[t] = NoBlock}, Mine(S)
    PROVE  IInv'
<1>1. TypeOK /\ ChainInv
  BY DEF IInv
<1>2. /\ head \in Nat /\ head < MaxHead /\ head' = head + 1
      /\ where' = [t \in Txs |-> IF t \in S THEN head + 1 ELSE where[t]]
      /\ UNCHANGED <<transactions, chain_events, token_transfers, cp, indexer, faults>>
  BY <1>1 DEF Mine, tables, TypeOK
<1>3. TypeOK'
  BY <1>1, <1>2, TokenAssumption DEF TypeOK
<1>4. ChainInv'
  BY <1>1, <1>2, TokenAssumption DEF TypeOK, ChainInv, NoBlock
<1>5. CoveredLogs' = CoveredLogs
  <2>1. CASE cp = NoBlock
    BY <1>2, <2>1, TokenAssumption DEF CoveredLogs, NoBlock
  <2>2. CASE cp # NoBlock
    <3>1. cp \in Int /\ cp <= head /\ StartBlock \in Int /\ 1 <= StartBlock
      BY <1>1, <2>2, TokenAssumption DEF TypeOK, ChainInv
    <3>2. LogsIn(StartBlock, cp)' = LogsIn(StartBlock, cp)
      <4>1. PICK c \in Int : c = cp /\ c = cp'
        BY <1>2, <3>1
      <4>2. LogsIn(StartBlock, c)' = LogsIn(StartBlock, c)
        BY <1>1, <3>1, <4>1, MiningKeepsRanges
      <4>. QED
        BY <4>1, <4>2 DEF LogsIn
    <3>. QED
      BY <3>2 DEF CoveredLogs, LogsIn
  <2>. QED
    BY <2>1, <2>2
<1>6. TablesCoverCheckpoint' /\ EventsHaveTransactions'
  BY <1>2, <1>5 DEF IInv, TablesCoverCheckpoint, EventsHaveTransactions, TxsOf
<1>7. ASSUME NEW q \in Indexers PROVE Knows(indexer[q])'
  <2>1. PICK s \in IndexerState : s = indexer[q] /\ s = indexer'[q] /\ Knows(s)
    BY <1>1, <1>2 DEF IInv, Knows, TypeOK
  <2>2. Knows(s)'
    BY <1>1, <2>1, MiningKeeps
  <2>. QED
    BY <2>1, <2>2 DEF Knows, RangeInv, FetchInv, InBatch, Covered, LogsIn, TxsOf
<1>. QED
  BY <1>3, <1>4, <1>6, <1>7 DEF IInv, Knows

\* The payroll stream stores a transaction.
LEMMA SharedStep ==
    ASSUME IInv, NEW t \in Txs, SaveTransaction(t)
    PROVE  IInv'
<1>1. /\ transactions' = transactions \cup {t}
      /\ UNCHANGED <<head, where, chain_events, token_transfers, cp, indexer, faults>>
  BY DEF SaveTransaction
<1>2. \A s : Knows(s) => Knows(s)'
  BY <1>1, StoringKeeps
<1>3. ASSUME NEW q \in Indexers PROVE Knows(indexer[q])'
  <2>1. PICK s : s = indexer[q] /\ s = indexer'[q] /\ Knows(s)'
    BY <1>1, <1>2 DEF IInv, Knows
  <2>. QED
    BY <2>1 DEF Knows, RangeInv, FetchInv, InBatch, Covered, LogsIn, TxsOf
<1>. QED
  BY <1>1, <1>3 DEF IInv, TypeOK, ChainInv, TablesCoverCheckpoint, CoveredLogs,
     EventsHaveTransactions, TxsOf, Knows

\* Stuttering.
LEMMA StutterStep == ASSUME IInv, UNCHANGED vars PROVE IInv'
  BY DEF vars, tables, IInv, TypeOK, ChainInv, TablesCoverCheckpoint, CoveredLogs,
     EventsHaveTransactions, TxsOf, RangeInv, FetchInv, InBatch, Covered, LogsIn

\* The invariant holds of every reachable state.
LEMMA Invariance == Spec => []IInv
<1>1. Init => IInv
  <2> SUFFICES ASSUME Init PROVE IInv
    OBVIOUS
  <2>1. TypeOK
    BY AtRestType, TokenAssumption DEF Init, TypeOK
  <2>2. ChainInv /\ TablesCoverCheckpoint /\ EventsHaveTransactions
    BY TokenAssumption DEF Init, ChainInv, TablesCoverCheckpoint, CoveredLogs,
       EventsHaveTransactions, TxsOf, NoBlock, Logs
  <2>3. Knows(AtRest)
    BY <2>1, RestKnows
  <2>. QED
    BY <2>1, <2>2, <2>3 DEF Init, IInv, Knows
<1>2. IInv /\ [Next]_vars => IInv'
  BY MineStep, SharedStep, QuietStep, CommitStep, StutterStep DEF Next, IndexStep
<1>. QED
  BY <1>1, <1>2, PTL DEF Spec

-----------------------------------------------------------------------------
(***************************************************************************)
(* Any number of monitors and backfills.                                   *)
(***************************************************************************)

\* Every reachable state is well typed: no attempt exceeds MaxRetries, no batch
\* outlives the worker pool, and the checkpoint is a mined block (IndexRange,
\* SaveTokenBatch).
THEOREM TypeCorrect == Spec => []TypeOK
  BY Invariance, PTL DEF IInv

\* The tables hold everything up to the checkpoint, each event with its transfer,
\* also when a slower process takes the checkpoint back (SaveTokenBatch).
THEOREM TablesHaveNoGap == Spec => []TablesCoverCheckpoint
  BY Invariance, PTL DEF IInv

\* Every stored event has its transaction, whatever was stored before the lookup,
\* between the lookup and the commit, and whichever workers failed.
THEOREM NoOrphanEvents == Spec => []EventsHaveTransactions
  BY Invariance, PTL DEF IInv

\* The collector of IndexRange always has an answer, an error or a worker to wait
\* for.
THEOREM CollectorAlwaysAnswered == Spec => []CollectorIsAnswered
<1>1. IInv => CollectorIsAnswered
  <2> SUFFICES ASSUME IInv, NEW p \in Indexers, NEW s, s = indexer[p],
                      s.pc = "fetch", s.fetched # s.needed, s.metas = {}, ~ (s.errs > 0)
               PROVE  s.workers > 0 /\ s.hashes # {}
    BY DEF CollectorIsAnswered
  <2>1. s \in IndexerState /\ FetchInv(s)
    BY DEF IInv, TypeOK
  <2>2. s.errs = 0
    BY <2>1, TokenAssumption DEF IndexerState
  <2>. QED
    BY <2>1, <2>2 DEF FetchInv
<1>. QED
  BY <1>1, Invariance, PTL

-----------------------------------------------------------------------------
(***************************************************************************)
(* A single process: the tables are exact, and the stream implements       *)
(* CheckpointedStream.                                                     *)
(***************************************************************************)

\* A batch that begins above the checkpoint ends above it.
LEMMA BeginsAhead ==
    ASSUME NEW s \in IndexerState, NEW from \in Nat, NEW c \in Int, c < from
    PROVE  InBatch(BeginBatch(s, from)) => c < BeginBatch(s, from).to
<1>1. CASE from > s.safe
  BY <1>1, BeginBatchState, AtRestType DEF InBatch
<1>2. CASE ~ (from > s.safe)
  <2>1. from <= s.safe
    BY <1>2 DEF IndexerState
  <2>2. PICK s1 \in IndexerState : s1 = BeginBatch(s, from) /\ from <= s1.to
    BY <2>1, BeginBatchState
  <2>. QED
    BY <2>2 DEF IndexerState
<1>. QED
  BY <1>1, <1>2

\* A repeated attempt ends where the failed one did.
LEMMA FailsInPlace ==
    ASSUME NEW s \in IndexerState, RangeInv(s), InBatch(s), NEW s1 \in AfterFailure(s)
    PROVE  s1.pc # "target" /\ (InBatch(s1) => s1.to = s.to)
<1>1. s.from <= s.safe /\ s.to = BatchEnd(s.from, BatchSize, s.safe)
  BY DEF RangeInv, IndexerState
<1>. QED
  BY <1>1, AfterFailureState, AtRestType DEF InBatch

\* A process moves to a state of its own making.
LEMMA Becomes ==
    ASSUME TypeOK, NEW p \in Indexers, NEW s1, Become(p, s1)
    PROVE  indexer'[p] = s1
  BY DEF TypeOK, Become

\* The commit moves the checkpoint to the batch's last block and leaves the process
\* at that block or beyond.
LEMMA CommitAhead ==
    ASSUME IInv, NEW p \in Indexers, NotOvertaken(indexer[p]), SaveTokenBatch(p)
    PROVE  NotOvertaken(indexer[p])' /\ cp <= cp' /\ cp' = indexer[p].to
<1>1. PICK s \in IndexerState :
         s = indexer[p] /\ RangeInv(s) /\ InBatch(s) /\ cp <= s.to /\ s.to \in Nat
  BY DEF IInv, TypeOK, SaveTokenBatch, InBatch, NotOvertaken, IndexerState
<1>2. cp' = s.to
  BY <1>1 DEF SaveTokenBatch
<1>3. CASE Become(p, AfterBatch(p))
  <2> DEFINE r == [s EXCEPT !.batches = @ + 1]
  <2>1. r \in IndexerState /\ r.to = s.to
    BY DEF IndexerState
  <2>2. AfterBatch(p) = AtRest \/ AfterBatch(p) = BeginBatch(r, r.to + 1)
    BY <1>1 DEF AfterBatch
  <2>. HIDE DEF r
  <2>3. PICK s1 : s1 = AfterBatch(p) /\ indexer'[p] = s1
    BY <1>3, Becomes DEF IInv
  <2>4. s.to + 1 \in Nat /\ s.to \in Int /\ s.to < s.to + 1
    BY <1>1
  <2>5. InBatch(s1) => s.to < s1.to
    BY <2>1, <2>2, <2>3, <2>4, BeginsAhead, AtRestType DEF InBatch
  <2>6. s1.pc # "target"
    BY <2>2, <2>3, AtRestType DEF BeginBatch, AtRest
  <2>7. InBatch(s1) => s.to <= s1.to
    <3>1. BeginBatch(r, r.to + 1) \in IndexerState
      BY <2>1, <2>4, BeginBatchState
    <3>. QED
      BY <1>1, <2>2, <2>3, <2>5, <3>1, AtRestType DEF IndexerState
  <2>. QED
    BY <1>1, <1>2, <2>3, <2>6, <2>7 DEF NotOvertaken, InBatch
<1>4. CASE FailAttempt(p)
  <2>1. PICK s1 \in AfterFailure(s) : indexer'[p] = s1
    BY <1>1, <1>4, Becomes DEF FailAttempt, IInv
  <2>2. s1.pc # "target" /\ (InBatch(s1) => s1.to = s.to)
    BY <1>1, FailsInPlace
  <2>. QED
    BY <1>1, <1>2, <2>1, <2>2 DEF NotOvertaken, InBatch
<1>. QED
  BY <1>3, <1>4 DEF SaveTokenBatch

\* Reading and fetching change neither the target nor the end of the batch.
LEMMA ReadingKeepsRange ==
    ASSUME NEW p \in Indexers, NEW s \in IndexerState, s = indexer[p],
           \/ GetTokenLogs(p) \/ GetExistingTxHashes(p) \/ TransactionMetadata(p)
           \/ MetadataFails(p) \/ CollectMeta(p) \/ BlockHeader(p)
    PROVE  \E s1 : /\ Become(p, s1) /\ s1.pc \in {"existing", "fetch", "save"}
                   /\ s1.to = s.to /\ s1.safe = s.safe
<1> DEFINE Moved(s1) == /\ s1.pc \in {"existing", "fetch", "save"}
                        /\ s1.to = s.to /\ s1.safe = s.safe
<1>1. CASE GetTokenLogs(p)
  <2>1. \A x : Moved([s EXCEPT !.pc = "existing", !.logs = x])
    BY DEF IndexerState
  <2>. QED
    BY <1>1, <2>1 DEF GetTokenLogs
<1>2. CASE GetExistingTxHashes(p)
  <2>1. \A x : Moved(StartWorkers(s, x))
    BY DEF StartWorkers, IndexerState
  <2>. QED
    BY <1>2, <2>1 DEF GetExistingTxHashes
<1>3. CASE TransactionMetadata(p)
  <2>1. \A h : Moved([s EXCEPT !.hashes = @ \ {h}, !.metas = @ \cup {h}])
    BY <1>3 DEF TransactionMetadata, IndexerState
  <2>. QED
    BY <1>3, <2>1 DEF TransactionMetadata
<1>4. CASE MetadataFails(p)
  <2>1. \A h : Moved(WorkerEnds(s, h))
    BY <1>4 DEF MetadataFails, WorkerEnds, IndexerState
  <2>. QED
    BY <1>4, <2>1 DEF MetadataFails
<1>5. CASE CollectMeta(p)
  <2>1. \A h : Moved([s EXCEPT !.metas = @ \ {h}, !.fetched = @ \cup {h}])
    BY <1>5 DEF CollectMeta, IndexerState
  <2>. QED
    BY <1>5, <2>1 DEF CollectMeta
<1>6. CASE BlockHeader(p)
  <2>1. Moved([s EXCEPT !.pc = "save"])
    BY DEF IndexerState
  <2>. QED
    BY <1>6, <2>1 DEF BlockHeader
<1>. QED
  BY <1>1, <1>2, <1>3, <1>4, <1>5, <1>6

\* The other steps of a process nobody overtakes leave it so.
LEMMA QuietAhead ==
    ASSUME IInv, NEW p \in Indexers, NotOvertaken(indexer[p]), cp' = cp,
           \/ PollOnce(p) \/ PollToken(p) \/ ResumeBackfill(p) \/ RunBackfill(p)
           \/ GetTokenLogs(p) \/ GetExistingTxHashes(p)
           \/ TransactionMetadata(p) \/ MetadataFails(p) \/ CollectMeta(p)
           \/ CollectError(p) \/ BlockHeader(p) \/ AttemptFails(p) \/ Crash(p)
    PROVE  NotOvertaken(indexer[p])'
<1>1. PICK s \in IndexerState : s = indexer[p] /\ NotOvertaken(s)
  BY DEF IInv, TypeOK, NotOvertaken, InBatch
<1>2. TypeOK /\ cp \in Int /\ RangeInv(s) /\ s.from \in Nat
  BY <1>1, TokenAssumption DEF IInv, TypeOK, NoBlock, IndexerState
<1>3. SUFFICES \E s1 : Become(p, s1) /\ NotOvertaken(s1)
  <2>1. PICK s1 : Become(p, s1) /\ NotOvertaken(s1)
    BY <1>3
  <2>2. indexer'[p] = s1
    BY <1>2, <2>1, Becomes
  <2>. QED
    BY <2>1, <2>2 DEF NotOvertaken, InBatch
<1>4. NotOvertaken(AtRest)
  BY AtRestType DEF NotOvertaken, InBatch
<1>5. ASSUME NEW r \in IndexerState, NEW from \in Nat, cp < from
      PROVE  NotOvertaken(BeginBatch(r, from))
  <2>1. PICK s1 \in IndexerState : s1 = BeginBatch(r, from) /\ (InBatch(s1) => cp < s1.to)
    BY <1>2, <1>5, BeginsAhead, BeginBatchState
  <2>2. s1.pc # "target"
    BY <2>1 DEF BeginBatch, AtRest
  <2>. QED
    BY <1>2, <2>1, <2>2 DEF NotOvertaken, IndexerState
<1>6. CASE PollOnce(p)
  <2>1. NotOvertaken([AtRest EXCEPT !.pc = "resolve",
                                    !.safe = CalculateSafeTarget(head, ConfirmationDepth)])
    BY DEF AtRest, NotOvertaken, InBatch
  <2>. QED
    BY <1>6, <2>1 DEF PollOnce
<1>7. CASE PollToken(p)
  BY <1>1, <1>5, <1>7, ResumeIsCovered DEF PollToken
<1>8. CASE ResumeBackfill(p)
  <2>1. NotOvertaken([AtRest EXCEPT !.pc = "target",
                                    !.from = GetEffectiveStartBlock(cp, StartBlock)])
    BY ResumeIsCovered DEF AtRest, NotOvertaken, InBatch
  <2>. QED
    BY <1>8, <2>1 DEF ResumeBackfill
<1>9. CASE RunBackfill(p)
  <2>1. s.pc = "target" /\ cp < s.from
    BY <1>1, <1>9 DEF RunBackfill, NotOvertaken, IndexerState
  <2>2. BackfillTarget(head, ConfirmationDepth) \in Nat
    BY <1>2, TargetIsMined DEF TypeOK
  <2> DEFINE r == [s EXCEPT !.safe = BackfillTarget(head, ConfirmationDepth)]
  <2>3. r \in IndexerState /\ r.from = s.from
    BY <2>2 DEF IndexerState
  <2>. QED
    BY <1>1, <1>2, <1>5, <1>9, <2>1, <2>3 DEF RunBackfill
<1>10. CASE FailAttempt(p) /\ InBatch(s)
  <2>1. PICK s1 \in AfterFailure(s) : Become(p, s1)
    BY <1>1, <1>10 DEF FailAttempt
  <2>2. s1.pc # "target" /\ (InBatch(s1) => s1.to = s.to)
    BY <1>2, <1>10, FailsInPlace
  <2>. QED
    BY <1>1, <1>10, <2>1, <2>2 DEF NotOvertaken
<1>11. CASE Crash(p)
  BY <1>4, <1>11 DEF Crash
<1>12. CASE \/ GetTokenLogs(p) \/ GetExistingTxHashes(p) \/ TransactionMetadata(p)
            \/ MetadataFails(p) \/ CollectMeta(p) \/ BlockHeader(p)
  <2>1. PICK s1 : Become(p, s1) /\ s1.pc \in {"existing", "fetch", "save"} /\ s1.to = s.to
    BY <1>1, <1>12, ReadingKeepsRange
  <2>2. InBatch(s)
    BY <1>1, <1>12 DEF GetTokenLogs, GetExistingTxHashes, TransactionMetadata, MetadataFails,
       CollectMeta, BlockHeader, InBatch
  <2>. QED
    BY <1>1, <2>1, <2>2 DEF NotOvertaken, InBatch
<1>. QED
  BY <1>1, <1>6, <1>7, <1>8, <1>9, <1>10, <1>11, <1>12
     DEF CollectError, AttemptFails, InBatch

\* The chain and the payroll stream move neither the process nor its checkpoint.
LEMMA AsideStep ==
    ASSUME IInv,
           \/ \E S \in SUBSET {t \in Txs : where[t] = NoBlock} : Mine(S)
           \/ \E t \in Txs : SaveTransaction(t)
           \/ UNCHANGED vars
    PROVE  UNCHANGED <<cp, indexer, chain_events, token_transfers>> /\ CoveredLogs' = CoveredLogs
<1>1. CASE \E S \in SUBSET {t \in Txs : where[t] = NoBlock} : Mine(S)
  <2>1. PICK S \in SUBSET {t \in Txs : where[t] = NoBlock} : Mine(S)
    BY <1>1
  <2>2. UNCHANGED <<cp, indexer, chain_events, token_transfers>>
    BY <2>1 DEF Mine, tables
  <2>3. CoveredLogs' = CoveredLogs
    <3> SUFFICES ASSUME NEW l \in Logs
                 PROVE  where'[l[1]] \in StartBlock .. cp <=> where[l[1]] \in StartBlock .. cp
      BY <2>2 DEF CoveredLogs
    <3>1. l[1] \in Txs /\ cp \in Int /\ (cp = NoBlock \/ cp <= head)
      BY TokenAssumption DEF Logs, IInv, TypeOK, ChainInv, NoBlock
    <3>2. where'[l[1]] = IF l[1] \in S THEN head + 1 ELSE where[l[1]]
      BY <2>1, <3>1 DEF Mine
    <3>3. l[1] \in S => where[l[1]] = NoBlock
      BY <2>1
    <3>. QED
      BY <3>1, <3>2, <3>3, TokenAssumption DEF IInv, TypeOK, NoBlock
  <2>. QED
    BY <2>2, <2>3
<1>2. CASE ~ (\E S \in SUBSET {t \in Txs : where[t] = NoBlock} : Mine(S))
  BY <1>2 DEF SaveTransaction, vars, tables, CoveredLogs
<1>. QED
  BY <1>1, <1>2

\* The single process's invariant is inductive, and its checkpoint never goes back.
LEMMA ExactStep ==
    ASSUME OneIndexer, ExactInv, IInv', [Next]_vars
    PROVE  ExactInv' /\ cp <= cp'
<1>1. IInv /\ cp \in Int /\ StartBlock \in Int /\ StartBlock >= 1
  BY TokenAssumption DEF ExactInv, IInv, TypeOK, NoBlock
<1>2. CASE \/ \E S \in SUBSET {t \in Txs : where[t] = NoBlock} : Mine(S)
           \/ \E t \in Txs : SaveTransaction(t)
           \/ UNCHANGED vars
  BY <1>1, <1>2, AsideStep DEF ExactInv, TablesMatchCheckpoint, NotOvertaken, InBatch
<1>3. ASSUME NEW p \in Indexers, SaveTokenBatch(p) PROVE ExactInv' /\ cp <= cp'
  <2>1. PICK s \in IndexerState :
           /\ s = indexer[p] /\ RangeInv(s) /\ s.pc = "save" /\ cp <= s.to
           /\ s.from \in Int /\ s.to \in Int
    BY <1>1, <1>3 DEF ExactInv, IInv, TypeOK, NotOvertaken, SaveTokenBatch, InBatch, IndexerState
  <2>2. NotOvertaken(indexer[p])' /\ cp <= cp' /\ cp' = s.to
    BY <1>1, <1>3, <2>1, CommitAhead DEF ExactInv
  <2>3. /\ chain_events' = CoveredLogs \cup s.logs
        /\ token_transfers' = {l \in CoveredLogs \cup s.logs : l[2] = "Transfer"}
        /\ UNCHANGED <<head, where>>
    BY <1>3, <2>1 DEF SaveTokenBatch, ExactInv, TablesMatchCheckpoint
  <2>4. /\ StartBlock <= s.from /\ s.logs = LogsIn(s.from, s.to)
        /\ LogsIn(StartBlock, s.from - 1) \subseteq CoveredLogs
    BY <2>1 DEF RangeInv, InBatch, Covered, ExactInv, TablesMatchCheckpoint
  <2>5. CoveredLogs \cup s.logs = LogsIn(StartBlock, s.to)
    <3> SUFFICES ASSUME NEW l \in Logs
                 PROVE  l \in CoveredLogs \/ l \in s.logs
                          <=> where[l[1]] \in StartBlock .. s.to
      BY <2>4 DEF CoveredLogs, LogsIn
    <3>1. where[l[1]] \in Int
      BY <1>1 DEF Logs, IInv, TypeOK, NoBlock
    <3>2. where[l[1]] \in StartBlock .. s.from - 1 => l \in CoveredLogs
      BY <2>4 DEF LogsIn
    <3>3. l \in s.logs <=> where[l[1]] \in s.from .. s.to
      BY <2>4 DEF LogsIn
    <3>4. l \in CoveredLogs <=> where[l[1]] \in StartBlock .. cp
      BY DEF CoveredLogs
    <3>. QED
      BY <1>1, <2>1, <2>4, <3>1, <3>2, <3>3, <3>4
  <2>6. CoveredLogs' = LogsIn(StartBlock, s.to)
    BY <2>2, <2>3 DEF CoveredLogs, LogsIn
  <2>7. TablesMatchCheckpoint'
    BY <2>3, <2>5, <2>6 DEF TablesMatchCheckpoint
  <2>8. \A q \in Indexers : q = p
    BY DEF OneIndexer
  <2>. QED
    BY <2>2, <2>7, <2>8 DEF ExactInv
<1>4. ASSUME NEW p \in Indexers,
             \/ PollOnce(p) \/ PollToken(p) \/ ResumeBackfill(p) \/ RunBackfill(p)
             \/ GetTokenLogs(p) \/ GetExistingTxHashes(p)
             \/ TransactionMetadata(p) \/ MetadataFails(p) \/ CollectMeta(p)
             \/ CollectError(p) \/ BlockHeader(p) \/ AttemptFails(p) \/ Crash(p)
      PROVE  ExactInv' /\ cp <= cp'
  <2>1. UNCHANGED <<head, where, tables>>
    BY <1>1, <1>4, QuietStep
  <2>2. NotOvertaken(indexer[p])'
    BY <1>1, <1>4, <2>1, QuietAhead DEF ExactInv, tables
  <2>3. \A q \in Indexers : q = p
    BY DEF OneIndexer
  <2>. QED
    BY <1>1, <2>1, <2>2, <2>3 DEF ExactInv, TablesMatchCheckpoint, CoveredLogs, tables
<1>. QED
  BY <1>2, <1>3, <1>4 DEF Next, IndexStep

LEMMA ExactInvariance == OneIndexer => (Spec => []ExactInv)
<1> SUFFICES ASSUME OneIndexer PROVE Spec => []ExactInv
  OBVIOUS
<1>1. Init /\ IInv => ExactInv
  BY AtRestType, TokenAssumption
     DEF Init, ExactInv, TablesMatchCheckpoint, CoveredLogs, NotOvertaken, InBatch, NoBlock
<1>2. ExactInv /\ IInv' /\ [Next]_vars => ExactInv'
  BY ExactStep
<1>. QED
  BY <1>1, <1>2, Invariance, PTL DEF Spec

\* With one process the tables hold exactly the logs up to the checkpoint: neither a
\* partial batch nor a block beyond it shows (SaveTokenBatch, RetryRange).
THEOREM TablesAreExact == OneIndexer => (Spec => []TablesMatchCheckpoint)
<1> SUFFICES ASSUME OneIndexer PROVE Spec => []TablesMatchCheckpoint
  OBVIOUS
<1>. QED
  BY ExactInvariance, PTL DEF ExactInv

-----------------------------------------------------------------------------
(***************************************************************************)
(* Targets are buried, for any number of processes; the refinement.        *)
(***************************************************************************)

\* Only backfills take BackfillTarget for their target.
BuriedInv ==
    \A p \in Indexers : /\ BuriedTarget(indexer[p])
                        /\ indexer[p].pc = "target" => p \in Backfills

\* What a deployment's processes take for their target has its confirmations.
LEMMA TargetIsBuried ==
    ASSUME SafeDeployment, TypeOK
    PROVE  /\ LET safe == CalculateSafeTarget(head, ConfirmationDepth)
              IN  safe = 0 \/ safe + ConfirmationDepth <= head
           /\ Backfills # {} =>
                 LET safe == BackfillTarget(head, ConfirmationDepth)
                 IN  safe = 0 \/ safe + ConfirmationDepth <= head
  BY TokenAssumption DEF SafeDeployment, TypeOK, CalculateSafeTarget, BackfillTarget

\* A batch keeps the target it was begun with.
LEMMA TargetKept ==
    ASSUME NEW s \in IndexerState
    PROVE  /\ \A from \in Nat : LET s1 == BeginBatch(s, from)
                                IN  s1.safe \in {0, s.safe} /\ s1.pc # "target"
           /\ \A s1 \in AfterFailure(s) : s1.safe \in {0, s.safe} /\ s1.pc # "target"
<1>1. ASSUME NEW from \in Nat
      PROVE  LET s1 == BeginBatch(s, from)
             IN  s1 \in IndexerState /\ s1.safe \in {0, s.safe} /\ s1.pc # "target"
  <2>1. CASE from > s.safe
    BY <2>1, BeginBatchState, AtRestType
  <2>2. CASE ~ (from > s.safe)
    <3>1. from <= s.safe
      BY <2>2 DEF IndexerState
    <3>. QED
      BY <3>1, BeginBatchState
  <2>. QED
    BY <2>1, <2>2
<1>2. ASSUME NEW s1 \in AfterFailure(s) PROVE s1.safe \in {0, s.safe} /\ s1.pc # "target"
  <2>1. PICK r \in IndexerState :
           r = BeginBatch(s, s.from) /\ r.safe \in {0, s.safe} /\ r.pc # "target"
    BY <1>1 DEF IndexerState
  <2>2. s1 = AtRest \/ s1 = [r EXCEPT !.attempt = s.attempt + 1]
    BY <2>1 DEF AfterFailure
  <2>. QED
    BY <2>1, <2>2, AtRestType DEF IndexerState
<1>. QED
  BY <1>1, <1>2

\* No step of a process gives it a target that is not buried.
LEMMA ProcessKeepsBuried ==
    ASSUME SafeDeployment, IInv, BuriedInv, NEW p \in Indexers,
           \/ PollOnce(p) \/ PollToken(p) \/ ResumeBackfill(p) \/ RunBackfill(p)
           \/ GetTokenLogs(p) \/ GetExistingTxHashes(p)
           \/ TransactionMetadata(p) \/ MetadataFails(p) \/ CollectMeta(p)
           \/ CollectError(p) \/ BlockHeader(p) \/ SaveTokenBatch(p)
           \/ AttemptFails(p) \/ Crash(p)
    PROVE  BuriedInv'
<1>1. PICK s \in IndexerState :
         /\ s = indexer[p] /\ BuriedTarget(s) /\ s.from \in Nat /\ s.to + 1 \in Nat
         /\ s.pc = "target" => p \in Backfills
  BY DEF IInv, TypeOK, BuriedInv, BuriedTarget, IndexerState
<1>2. TypeOK /\ head' = head
  BY DEF IInv, PollOnce, PollToken, ResumeBackfill, RunBackfill, GetTokenLogs,
     GetExistingTxHashes, TransactionMetadata, MetadataFails, CollectMeta, CollectError,
     BlockHeader, SaveTokenBatch, AttemptFails, Crash
<1> DEFINE Sound(r) == BuriedTarget(r) /\ (r.pc = "target" => p \in Backfills)
<1>3. SUFFICES \E s1 : Become(p, s1) /\ Sound(s1)
  <2>1. PICK s1 : Become(p, s1) /\ Sound(s1)
    BY <1>3
  <2>2. \A q \in Indexers : indexer'[q] = IF q = p THEN s1 ELSE indexer[q]
    BY <1>2, <2>1 DEF TypeOK, Become
  <2>. QED
    BY <1>2, <2>1, <2>2 DEF BuriedInv, BuriedTarget
<1>4. \A r : r.safe \in {0, s.safe} /\ (r.pc = "target" => p \in Backfills) => Sound(r)
  BY <1>1 DEF BuriedTarget
<1>5. CASE PollOnce(p)
  <2> DEFINE s1 == [AtRest EXCEPT !.pc = "resolve",
                                  !.safe = CalculateSafeTarget(head, ConfirmationDepth)]
  <2>1. s1.safe = CalculateSafeTarget(head, ConfirmationDepth) /\ s1.pc = "resolve"
    BY DEF AtRest
  <2>2. Sound(s1)
    BY <1>2, <2>1, TargetIsBuried DEF BuriedTarget
  <2>3. Become(p, s1)
    BY <1>5 DEF PollOnce
  <2>. QED
    BY <2>2, <2>3
<1>6. CASE ResumeBackfill(p)
  <2> DEFINE s1 == [AtRest EXCEPT !.pc = "target",
                                  !.from = GetEffectiveStartBlock(cp, StartBlock)]
  <2>1. s1.safe = 0 /\ p \in Backfills
    BY <1>6 DEF AtRest, ResumeBackfill
  <2>2. Become(p, s1)
    BY <1>6 DEF ResumeBackfill
  <2>3. Sound(s1)
    BY <1>4, <2>1
  <2>. QED
    BY <2>2, <2>3
<1>7. CASE RunBackfill(p)
  <2> DEFINE target == BackfillTarget(head, ConfirmationDepth)
             r == [s EXCEPT !.safe = target]
  <2>1. target = 0 \/ target + ConfirmationDepth <= head
    <3>1. r.pc = s.pc
      BY DEF IndexerState
    <3>2. Backfills # {}
      BY <1>1, <1>7, <3>1 DEF RunBackfill
    <3>. QED
      BY <1>2, <3>2, TargetIsBuried
  <2>2. r \in IndexerState /\ r.safe = target /\ r.from = s.from
    <3>1. target \in Nat
      BY <1>2, TargetIsMined DEF TypeOK
    <3>. QED
      BY <3>1 DEF IndexerState
  <2>3. Become(p, BeginBatch(r, r.from))
    BY <1>1, <1>7 DEF RunBackfill
  <2>. HIDE DEF r, target
  <2>4. BeginBatch(r, s.from).safe \in {0, target} /\ BeginBatch(r, s.from).pc # "target"
    BY <1>1, <2>2, TargetKept
  <2>. QED
    BY <2>1, <2>2, <2>3, <2>4 DEF BuriedTarget
<1>8. CASE FailAttempt(p)
  BY <1>1, <1>4, <1>8, TargetKept DEF FailAttempt
<1>9. CASE PollToken(p)
  <2>1. PICK from \in Nat : Become(p, BeginBatch(s, from))
    BY <1>1, <1>9, ResumeIsCovered DEF PollToken
  <2>. QED
    BY <1>4, <2>1, TargetKept
<1>10. CASE Become(p, AfterBatch(p))
  <2> DEFINE r == [s EXCEPT !.batches = @ + 1]
  <2>1. r \in IndexerState /\ r.safe = s.safe /\ r.to = s.to
    BY DEF IndexerState
  <2>2. AfterBatch(p) = AtRest \/ AfterBatch(p) = BeginBatch(r, r.to + 1)
    BY <1>1 DEF AfterBatch
  <2>. HIDE DEF r
  <2>3. Sound(AfterBatch(p))
    BY <1>1, <1>4, <2>1, <2>2, TargetKept, AtRestType
  <2>. QED
    BY <1>10, <2>3
<1>11. CASE Crash(p)
  BY <1>4, <1>11, AtRestType DEF Crash
<1>12. CASE \/ GetTokenLogs(p) \/ GetExistingTxHashes(p) \/ TransactionMetadata(p)
            \/ MetadataFails(p) \/ CollectMeta(p) \/ BlockHeader(p)
  <2>1. PICK s1 : Become(p, s1) /\ s1.pc # "target" /\ s1.safe = s.safe
    BY <1>1, <1>12, ReadingKeepsRange
  <2>. QED
    BY <1>4, <2>1
<1>. QED
  BY <1>5, <1>6, <1>7, <1>8, <1>9, <1>10, <1>11, <1>12
     DEF CollectError, SaveTokenBatch, AttemptFails

LEMMA BuriedInvariance == SafeDeployment => (Spec => []BuriedInv)
<1> SUFFICES ASSUME SafeDeployment PROVE Spec => []BuriedInv
  OBVIOUS
<1>1. Init => BuriedInv
  BY AtRestType DEF Init, BuriedInv, BuriedTarget
<1>2. IInv /\ BuriedInv /\ [Next]_vars => BuriedInv'
  <2> SUFFICES ASSUME IInv, BuriedInv, [Next]_vars PROVE BuriedInv'
    OBVIOUS
  <2>1. CASE indexer' = indexer /\ head' \in {head, head + 1}
    <3>1. \A p \in Indexers : indexer[p].safe \in Nat
      BY DEF IInv, TypeOK, IndexerState
    <3>. QED
      BY <2>1, <3>1, TokenAssumption DEF IInv, TypeOK, BuriedInv, BuriedTarget
  <2>. QED
    BY <2>1, ProcessKeepsBuried DEF Next, IndexStep, Mine, SaveTransaction, vars
<1>. QED
  BY <1>1, <1>2, Invariance, PTL DEF Spec

\* The chain's moves are moves of the abstract chain: no log enters or leaves a
\* buried block.
LEMMA MineImplements ==
    ASSUME IInv, NEW S \in SUBSET {t \in Txs : where[t] = NoBlock}, Mine(S)
    PROVE  Stream!ChainMoves
<1>1. head \in Nat /\ head' = head + 1 /\ UNCHANGED <<cp, chain_events>>
  BY DEF IInv, TypeOK, Mine, tables
<1>2. ASSUME NEW l \in Logs, where'[l[1]] # where[l[1]]
      PROVE  ~ Stream!Buried(where[l[1]], head) /\ ~ Stream!Buried(where'[l[1]], head)
  <2>1. l[1] \in Txs
    BY DEF Logs
  <2>2. where'[l[1]] = IF l[1] \in S THEN head + 1 ELSE where[l[1]]
    BY <2>1 DEF Mine
  <2>3. where[l[1]] = NoBlock /\ where'[l[1]] = head + 1
    BY <1>2, <2>2
  <2>. QED
    BY <1>1, <2>3, TokenAssumption DEF Stream!Buried, NoBlock
<1>3. \A l \in Logs : /\ [k \in Logs |-> where[k[1]]][l] = where[l[1]]
                      /\ [k \in Logs |-> where'[k[1]]][l] = where'[l[1]]
  OBVIOUS
<1>. QED
  BY <1>1, <1>2, <1>3 DEF Stream!ChainMoves

\* A commit accounts for its batch and passes only buried, accounted blocks.
LEMMA CommitImplements ==
    ASSUME ExactInv, ExactInv', BuriedInv, cp <= cp', NEW p \in Indexers, SaveTokenBatch(p)
    PROVE  Stream!Account
<1>1. PICK s \in IndexerState :
         /\ s = indexer[p] /\ RangeInv(s) /\ s.pc = "save" /\ BuriedTarget(s)
         /\ s.to \in Nat /\ s.safe \in Nat /\ s.from \in Nat
  BY DEF ExactInv, IInv, TypeOK, SaveTokenBatch, BuriedInv, BuriedTarget, IndexerState
<1>2. cp' = s.to /\ UNCHANGED <<head, where>> /\ chain_events \subseteq chain_events'
  BY <1>1 DEF SaveTokenBatch
<1>3. StartBlock <= s.from /\ s.from <= s.to /\ s.to <= s.safe
  BY <1>1 DEF RangeInv, InBatch
<1>4. Stream!Buried(cp', head)
  BY <1>1, <1>2, <1>3, TokenAssumption DEF BuriedTarget, Stream!Buried, ExactInv, IInv, TypeOK
<1>5. \A l \in Logs : where[l[1]] \in StartBlock .. cp' => l \in chain_events'
  BY <1>2 DEF ExactInv, TablesMatchCheckpoint, CoveredLogs
<1>6. \A l \in Logs : [k \in Logs |-> where[k[1]]][l] = where[l[1]]
  OBVIOUS
<1>7. cp' = cp \/ (cp' \in Nat /\ cp' > cp)
  BY <1>1, <1>2 DEF ExactInv, IInv, TypeOK, NoBlock
<1>. QED
  BY <1>2, <1>4, <1>5, <1>6, <1>7 DEF Stream!Account

\* With one process and a safe deployment the token stream implements the
\* checkpointed stream: the checkpoint moves only forward, only over buried blocks,
\* and only past logs that are stored.
THEOREM TokenImplementsStream == SafeDeployment /\ OneIndexer => (Spec => ImplementsStream)
<1> SUFFICES ASSUME SafeDeployment, OneIndexer PROVE Spec => ImplementsStream
  OBVIOUS
<1>1. Init => Stream!Init
  BY DEF Init, Stream!Init, NoBlock, Stream!NoBlock, Logs
<1>2. ExactInv /\ ExactInv' /\ BuriedInv /\ [Next]_vars => [Stream!Next]_(Stream!vars)
  <2> SUFFICES ASSUME ExactInv, ExactInv', BuriedInv, [Next]_vars
               PROVE  [Stream!Next]_(Stream!vars)
    OBVIOUS
  <2>1. cp <= cp' /\ IInv
    BY ExactStep DEF ExactInv
  <2>2. CASE UNCHANGED <<head, where, cp, chain_events>>
    BY <2>2 DEF Stream!vars
  <2>3. CASE \E S \in SUBSET {t \in Txs : where[t] = NoBlock} : Mine(S)
    BY <2>1, <2>3, MineImplements DEF Stream!Next
  <2>4. CASE \E p \in Indexers : SaveTokenBatch(p)
    BY <2>1, <2>4, CommitImplements DEF Stream!Next
  <2>. QED
    BY <2>1, <2>2, <2>3, <2>4, QuietStep DEF Next, IndexStep, SaveTransaction, vars, tables
<1>. QED
  BY <1>1, <1>2, ExactInvariance, BuriedInvariance, PTL
     DEF Spec, ImplementsStream, Stream!Spec

=============================================================================
