---------------------------- MODULE EscrowPoller ----------------------------
(***************************************************************************)
(* The pull path: the processes that index the escrow stream.  A monitor   *)
(* (LiveMonitor.Start) polls for ever and a backfill (RunBackfill) runs up *)
(* to a target; both resume from the checkpoint and go through the same    *)
(* IndexRange, batch by batch, under the same retry policy.                *)
(***************************************************************************)
EXTENDS EscrowChain

CONSTANTS
    Monitors,          \* live monitors
    Backfills,         \* one-shot backfill processes
    WithRedis,         \* the pollers that reached Redis when they started
    BatchSize,
    MaxBatchesPerPoll, \* a monitor's batches per poll and stream
    MaxRetries         \* attempts of RetryRange

ASSUME PollerAssumption ==
    /\ Monitors \cap Backfills = {}
    /\ WithRedis \subseteq Monitors \cup Backfills
    /\ BatchSize \in Nat \ {0}
    /\ MaxBatchesPerPoll \in Nat \ {0}
    /\ MaxRetries \in Nat \ {0}

VARIABLES
    poller,    \* poller[p]: the position of process p in its loop
    pollPub    \* history: the logs some poller has broadcast

pollVars == <<poller, pollPub>>
Pollers == Monitors \cup Backfills

(***************************************************************************)
(* safe is the poll's target, [from, to] its batch, logs the block of each *)
(* log that GetLogs returned and kept the logs that IndexRange decoded     *)
(* (while publishing: those not yet broadcast).                            *)
(***************************************************************************)
PollerState ==
    [pc : {"idle", "resolve", "getlogs", "decode", "save", "publish"},
     safe : Nat, from : Nat, to : Nat, batches : Nat, attempt : Nat,
     logs : [Logs -> Nat \cup {NoBlock}], kept : SUBSET Logs]

NoLogs == [l \in Logs |-> NoBlock]
AtRest == [pc |-> "idle", safe |-> 0, from |-> 0, to |-> 0, batches |-> 0,
           attempt |-> 0, logs |-> NoLogs, kept |-> {}]

PollTypeOK ==
    /\ poller \in [Pollers -> PollerState]
    /\ pollPub \subseteq Logs

PollInit ==
    /\ poller = [p \in Pollers |-> AtRest]
    /\ pollPub = {}

\* The logs of a GetLogs answer.
Returned(s) == {l \in Logs : s.logs[l] # NoBlock}

\* The state of a poller that starts its first attempt at the batch from `from`.
BeginBatch(s, from) ==
    [s EXCEPT !.pc = "getlogs", !.from = from, !.to = BatchEnd(from, BatchSize, s.safe),
              !.attempt = 1, !.logs = NoLogs, !.kept = {}]

\* What RetryRange does with a failed attempt: give up on a permanent error or
\* on the last attempt, else start the same range over.
AfterFailure(s) ==
    {AtRest} \cup
    IF s.attempt < MaxRetries
    THEN {[s EXCEPT !.pc = "getlogs", !.attempt = @ + 1, !.logs = NoLogs, !.kept = {}]}
    ELSE {}

\* Rows stamped with the height the poll aims at.
RowsAtTarget(s) ==
    [l \in Logs |-> IF l \in s.kept THEN Upsert(row[l], s.safe, FALSE) ELSE row[l]]

\* What the transaction of a batch makes of the two tables.
RowsAfter(s) ==
    [l \in Logs |-> IF l \in s.kept THEN Upsert(row[l], s.logs[l], FALSE) ELSE row[l]]

CheckpointAfter(s) == IF s.to > 0 THEN s.to ELSE cp

-----------------------------------------------------------------------------
\* LatestBlock answers and fixes the target of this poll, or of this backfill.
PollOnce(p) ==
    /\ poller[p].pc = "idle"
    /\ poller' = [poller EXCEPT ![p].pc = "resolve", ![p].safe =
                      IF p \in Monitors
                      THEN CalculateSafeTarget(head, ConfirmationDepth)
                      ELSE BackfillTarget(head, ConfirmationDepth)]
    /\ UNCHANGED <<worldVars, pollPub>>

\* Read the checkpoint; stop when the stream is up to date.
PollEscrow(p) ==
    LET from == GetEffectiveStartBlock(cp, StartBlock) IN
    /\ poller[p].pc = "resolve"
    /\ poller' = [poller EXCEPT ![p] =
                      IF from > @.safe THEN AtRest ELSE BeginBatch(@, from)]
    /\ UNCHANGED <<worldVars, pollPub>>

\* eth_getLogs over the batch returns the canonical logs of that moment.
GetLogs(p) ==
    /\ poller[p].pc = "getlogs"
    /\ poller' = [poller EXCEPT ![p].pc = "decode",
                                ![p].logs =
                      [l \in Logs |-> IF where[l] \in poller[p].from .. poller[p].to
                                      THEN where[l] ELSE NoBlock]]
    /\ UNCHANGED <<worldVars, pollPub>>

\* ProcessLog on every log: one that errs is skipped with a warning, also when
\* the error is a failed request for its block's timestamp.
ProcessLogs(p) ==
    /\ poller[p].pc = "decode"
    /\ \E kept \in SUBSET Returned(poller[p]) :
           /\ poller' = [poller EXCEPT ![p].pc = "save", ![p].kept = kept]
           /\ IF kept = Returned(poller[p]) THEN UNCHANGED faults ELSE Fault
    /\ UNCHANGED <<chainVars, dedupe, storeVars, expired, pollPub>>

\* One transaction upserts the decoded events and, unless the batch ends at
\* block 0, overwrites the checkpoint.
SaveEscrowBatch(p) ==
    LET s == poller[p] IN
    /\ s.pc = "save"
    /\ row' = RowsAfter(s)
    /\ cp' = CheckpointAfter(s)
    /\ skipped' = (skipped \cup Returned(s)) \ s.kept
    /\ \/ /\ poller' = [poller EXCEPT
                 ![p].pc = "publish", ![p].kept = IF p \in WithRedis THEN @ ELSE {}]
          /\ UNCHANGED faults
       \/ /\ Fault   \* committed, but the reply to COMMIT is lost
          /\ \E s1 \in AfterFailure(s) : poller' = [poller EXCEPT ![p] = s1]
    /\ UNCHANGED <<chainVars, dedupe, expired, pollPub>>

\* An attempt fails before its transaction commits: GetLogs, BlockHeader or a
\* statement of the batch returned an error.
AttemptFails(p) ==
    /\ poller[p].pc \in {"getlogs", "save"}
    /\ Fault
    /\ \E s1 \in AfterFailure(poller[p]) : poller' = [poller EXCEPT ![p] = s1]
    /\ UNCHANGED <<chainVars, dedupe, storeVars, expired, pollPub>>

\* Broadcast one stored event; an error is logged and the event is not resent.
PublishEvent(p) ==
    /\ poller[p].pc = "publish"
    /\ \E l \in poller[p].kept :
           /\ poller' = [poller EXCEPT ![p].kept = @ \ {l}]
           /\ \/ /\ pollPub' = pollPub \cup {l}
                 /\ UNCHANGED faults
              \/ /\ Fault
                 /\ UNCHANGED pollPub
    /\ UNCHANGED <<chainVars, dedupe, storeVars, expired>>

\* The batch is done: go on to the next one or end the poll.
NextBatch(p) ==
    LET s == [poller[p] EXCEPT !.batches = @ + 1] IN
    /\ s.pc = "publish" /\ s.kept = {}
    /\ poller' = [poller EXCEPT ![p] =
                      IF s.to < s.safe /\ (p \in Monitors => s.batches < MaxBatchesPerPoll)
                      THEN BeginBatch(s, s.to + 1)
                      ELSE AtRest]
    /\ UNCHANGED <<worldVars, pollPub>>

\* The checkpoint cannot be read, or the process dies at any point; a monitor
\* is started again, a backfill may be.
CrashPoller(p) ==
    /\ poller[p].pc # "idle"
    /\ Fault
    /\ poller' = [poller EXCEPT ![p] = AtRest]
    /\ UNCHANGED <<chainVars, dedupe, storeVars, expired, pollPub>>

PollStep(p) ==
    \/ PollOnce(p)
    \/ PollEscrow(p)
    \/ GetLogs(p)
    \/ ProcessLogs(p)
    \/ SaveEscrowBatch(p)
    \/ PublishEvent(p)
    \/ NextBatch(p)

PollNext == \E p \in Pollers : PollStep(p) \/ AttemptFails(p) \/ CrashPoller(p)

=============================================================================
