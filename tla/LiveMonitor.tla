---------------------------- MODULE LiveMonitor ----------------------------
(***************************************************************************)
(* The live monitor's poll over its three streams.  PollOnce takes one     *)
(* safe target and polls payroll, token and escrow in this order: each     *)
(* resolves its start from its checkpoint and indexes batches up to the    *)
(* target, at most MaxBatchesPerPoll.  The first error of a stream ends    *)
(* that stream's poll and no other.  What IndexRange does with a batch is  *)
(* the subject of PayrollIndex, TokenIndex and EscrowPoller; here it       *)
(* either accounts for every block of the batch or errs, and it always     *)
(* errs over a block it cannot index.  The operator's tool deletes         *)
(* checkpoints beside the monitor.                                         *)
(***************************************************************************)
EXTENDS ChainBlocks, Sequences

CONSTANTS
    Configured,           \* the streams whose contract is configured
    PayrollAddress, TokenAddress, NoAddress,   \* what the stream ids are made of
    BatchSize, MaxBatchesPerPoll, StartBlock, ConfirmationDepth,
    MaxHead, MaxClears, MaxFaults              \* bounds of the instance

Streams == {"payroll", "token", "escrow"}

ASSUME MonitorAssumption ==
    /\ Configured \subseteq Streams
    /\ NoAddress \notin {PayrollAddress, TokenAddress}
    /\ {BatchSize, MaxBatchesPerPoll, StartBlock} \subseteq Nat \ {0}
    /\ {ConfirmationDepth, MaxHead, MaxClears, MaxFaults} \subseteq Nat

VARIABLES
    head,      \* the node's head
    unindexable,   \* block of each stream that its IndexRange always errs over
    cp,        \* sync_checkpoints: the streams' rows
    fresh,     \* history: blocks indexed since the stream's checkpoint was last cleared
    monitor,   \* where the poll is
    tool,      \* the next statement of the operator's tool
    clears,    \* runs of the tool so far
    faults     \* failed calls so far

monitorVars == <<head, unindexable, cp, fresh, monitor, tool, clears, faults>>

Blocks == 1 .. MaxHead

\* The blocks the chain of this length may bury.
FinalBlocks == {b \in Blocks : b + ConfirmationDepth <= MaxHead}

\* The streams that are configured, in the order of the code.
IfConfigured(s) == IF s \in Configured THEN <<s>> ELSE <<>>
PollOrder == IfConfigured("payroll") \o IfConfigured("token") \o IfConfigured("escrow")

Idle == [pc |-> "idle", turn |-> 1, target |-> 0, from |-> 0, batches |-> 0]

\* At most one stream has a block it cannot index.
MonitorInit ==
    /\ head = 0
    /\ unindexable \in [Configured -> FinalBlocks \cup {NoBlock}]
    /\ \A s, t \in Configured : s = t \/ NoBlock \in {unindexable[s], unindexable[t]}
    /\ cp = [s \in Configured |-> NoBlock]
    /\ fresh = [s \in Configured |-> {}]
    /\ monitor = Idle
    /\ tool = "payroll"
    /\ clears = 0
    /\ faults = 0

Mine ==
    /\ head < MaxHead
    /\ head' = head + 1
    /\ UNCHANGED <<unindexable, cp, fresh, monitor, tool, clears, faults>>

---------------------------------------------------------------------------
(* The poll. *)

SafeTarget == CalculateSafeTarget(head, ConfirmationDepth)
Stream == PollOrder[monitor.turn]
At(pc) == monitor.pc = pc

\* The poll goes on with the next stream.
NextStream ==
    IF monitor.turn < Len(PollOrder)
    THEN [Idle EXCEPT !.pc = "resolve", !.turn = monitor.turn + 1, !.target = monitor.target]
    ELSE Idle

PollOnce ==
    /\ At("idle") /\ PollOrder # <<>>
    /\ monitor' = [Idle EXCEPT !.pc = "resolve", !.target = SafeTarget]
    /\ UNCHANGED <<head, unindexable, cp, fresh, tool, clears, faults>>

\* The payroll stream never compares its checkpoint with its start block.
ResumeAt(s) ==
    IF s = "payroll" THEN CalculateNextBlock(cp[s], StartBlock)
                     ELSE GetEffectiveStartBlock(cp[s], StartBlock)

ResolveStart ==
    /\ At("resolve")
    /\ monitor' = IF ResumeAt(Stream) > monitor.target THEN NextStream
                  ELSE [monitor EXCEPT !.pc = "index", !.from = ResumeAt(Stream)]
    /\ UNCHANGED <<head, unindexable, cp, fresh, tool, clears, faults>>

To == BatchEnd(monitor.from, BatchSize, monitor.target)
Batch == monitor.from .. To

\* The next batch of the stream, or the next stream.
AfterBatch ==
    IF To < monitor.target /\ monitor.batches + 1 < MaxBatchesPerPoll
    THEN [monitor EXCEPT !.pc = "index", !.from = To + 1, !.batches = @ + 1]
    ELSE NextStream

\* An error that ends the whole poll, and one that is overlooked.
ReturnError == Idle
SkipBatch == AfterBatch

\* Do not crash the entire monitor on a single stream's failure.
AfterError == NextStream

Fault == faults < MaxFaults /\ faults' = faults + 1

\* Token and escrow: the batch and its checkpoint are one transaction, whose reply may
\* be lost.
IndexBatch ==
    /\ At("index") /\ Stream # "payroll"
    /\ unindexable[Stream] \notin Batch
    /\ cp' = [cp EXCEPT ![Stream] = To]
    /\ fresh' = [fresh EXCEPT ![Stream] = @ \cup Batch]
    /\ \/ monitor' = AfterBatch /\ UNCHANGED faults
       \/ monitor' = AfterError /\ Fault
    /\ UNCHANGED <<head, unindexable, tool, clears>>

\* Payroll: the batch first ...
IndexPayrollBatch ==
    /\ At("index") /\ Stream = "payroll"
    /\ unindexable[Stream] \notin Batch
    /\ fresh' = [fresh EXCEPT ![Stream] = @ \cup Batch]
    /\ monitor' = [monitor EXCEPT !.pc = "save"]
    /\ UNCHANGED <<head, unindexable, cp, tool, clears, faults>>

\* ... then the header of its last block and the checkpoint.
SavePayrollCheckpoint ==
    /\ At("save")
    /\ cp' = [cp EXCEPT ![Stream] = To]
    /\ \/ monitor' = AfterBatch /\ UNCHANGED faults
       \/ monitor' = AfterError /\ Fault
    /\ UNCHANGED <<head, unindexable, fresh, tool, clears>>

\* Any call of a stream's poll errs; over a block that cannot be indexed it always does.
StreamFails ==
    /\ ~ At("idle")
    /\ \/ At("index") /\ unindexable[Stream] \in Batch /\ UNCHANGED faults
       \/ Fault
    /\ monitor' = AfterError
    /\ UNCHANGED <<head, unindexable, cp, fresh, tool, clears>>

Poll ==
    \/ PollOnce \/ ResolveStart \/ IndexBatch \/ IndexPayrollBatch \/ SavePayrollCheckpoint
    \/ StreamFails

---------------------------------------------------------------------------
(* cmd/clear-checkpoint. *)

\* The id a stream's row has: the contract's address is appended to its name.
StreamId(s) ==
    CASE s = "payroll" -> <<"monthly_payroll", PayrollAddress>>
      [] s = "token" -> <<"erc20_transfers", TokenAddress>>
      [] s = "escrow" -> <<"wtf_escrow", NoAddress>>

\* stream_id = 'monthly_payroll', and stream_id LIKE 'erc20_transfers_%'
Deletes(statement, s) ==
    \/ statement = "payroll" /\ StreamId(s) = <<"monthly_payroll", NoAddress>>
    \/ statement = "token" /\ StreamId(s)[1] = "erc20_transfers" /\ StreamId(s)[2] # NoAddress

\* A batch of the stream is under way and will save its checkpoint.
InFlight(s) == monitor.pc \in {"index", "save"} /\ Stream = s

ClearStatement(statement) ==
    LET deleted == {s \in Configured : Deletes(statement, s)}
    IN  /\ tool = statement
        /\ clears < MaxClears
        /\ cp' = [s \in Configured |-> IF s \in deleted THEN NoBlock ELSE cp[s]]
        /\ fresh' = [s \in Configured |-> IF s \in deleted /\ ~ InFlight(s) THEN {} ELSE fresh[s]]
        /\ tool' = IF statement = "payroll" THEN "token" ELSE "payroll"
        /\ clears' = IF statement = "payroll" THEN clears ELSE clears + 1
        /\ UNCHANGED <<head, unindexable, monitor, faults>>

===========================================================================
