---------------------------- MODULE EscrowChain ----------------------------
(***************************************************************************)
(* What the two escrow ingestion paths share: the chain they observe, the  *)
(* notification service that pushes its logs, the Redis keys, the tables   *)
(* escrow_events and sync_checkpoints, and a budget of faults.             *)
(*                                                                         *)
(* A log is named by its database key (transaction hash, log index); chain *)
(* id and contract address never vary here.  What a row says beyond its    *)
(* block and its removed flag is a function of the log and is left out.    *)
(***************************************************************************)
EXTENDS ChainBlocks

CONSTANTS
    Logs,              \* the escrow logs that may be mined
    StartBlock,        \* EscrowStartBlock of the configuration
    ConfirmationDepth, \* blocks a log must be buried under
    MaxHead,           \* bound: the last block the chain mines
    MaxReorgDepth,     \* bound: how many blocks one reorganisation replaces
    MaxReorgs,         \* bound: how many reorganisations happen
    MaxFaults,         \* bound: RPC, SQL and Redis errors plus process crashes
    MaxExpiries        \* bound: deduplication keys that reach their TTL

ASSUME ChainAssumption ==
    /\ StartBlock \in Nat
    /\ ConfirmationDepth \in Nat
    /\ MaxHead \in Nat
    /\ MaxReorgDepth \in Nat
    /\ MaxReorgs \in Nat
    /\ MaxFaults \in Nat
    /\ MaxExpiries \in Nat

VARIABLES
    head,      \* eth_blockNumber
    where,     \* where[l]: the canonical block that holds log l, or NoBlock
    sent,      \* notifications the push service has emitted
    dedupe,    \* logs whose key wtf:chain:evt:{tx}:{index} is set in Redis
    row,       \* table escrow_events, by log
    cp,        \* last_indexed_block of the escrow stream, or NoBlock
    skipped,   \* history: logs a committed batch covered but did not store
    reorgs, faults, expired \* how much of each bound is spent

chainVars == <<head, where, sent, reorgs>>
storeVars == <<row, cp, skipped>>
worldVars == <<chainVars, dedupe, storeVars, faults, expired>>

Blocks == 0 .. MaxHead
Row == [blk : Nat \cup {NoBlock}, removed : BOOLEAN]
NoRow == [blk |-> NoBlock, removed |-> FALSE]
Note == [log : Logs, blk : Nat, removed : BOOLEAN]

Stored(l) == row[l].blk # NoBlock

\* A block that no reorganisation of the assumed depth can replace any more:
\* it is buried, or it is genesis.
Final(b) == b = 0 \/ b + ConfirmationDepth <= head

WorldTypeOK ==
    /\ head \in Blocks
    /\ where \in [Logs -> Nat \cup {NoBlock}]
    /\ sent \subseteq Note
    /\ dedupe \subseteq Logs
    /\ row \in [Logs -> Row]
    /\ cp \in Nat \cup {NoBlock}
    /\ skipped \subseteq Logs
    /\ reorgs \in 0 .. MaxReorgs
    /\ faults \in 0 .. MaxFaults
    /\ expired \in 0 .. MaxExpiries

WorldInit ==
    /\ head = 0
    /\ where = [l \in Logs |-> NoBlock]
    /\ sent = {}
    /\ dedupe = {}
    /\ row = [l \in Logs |-> NoRow]
    /\ cp = NoBlock
    /\ skipped = {}
    /\ reorgs = 0 /\ faults = 0 /\ expired = 0

\* One more error or crash, while the budget lasts.
Fault == faults < MaxFaults /\ faults' = faults + 1

-----------------------------------------------------------------------------
\* The chain and the push service.

\* A block is mined with the logs in S; each is announced once to the service.
Mine(S) ==
    /\ head < MaxHead
    /\ S \subseteq {l \in Logs : where[l] = NoBlock}
    /\ head' = head + 1
    /\ where' = [l \in Logs |-> IF l \in S THEN head + 1 ELSE where[l]]
    /\ sent' = sent \cup [log : S, blk : {head + 1}, removed : {FALSE}]
    /\ UNCHANGED <<dedupe, storeVars, reorgs, faults, expired>>

\* The last d blocks are replaced: the logs they held leave the chain or land
\* on one of the replacing blocks.  The service announces both facts.
Reorg(d) ==
    LET victims == {l \in Logs : where[l] > head - d}
        replacing == {NoBlock} \cup (head - d + 1) .. head
    IN  /\ reorgs < MaxReorgs
        /\ d <= head
        /\ victims # {}
        /\ reorgs' = reorgs + 1
        /\ \E f \in [victims -> replacing] :
               /\ where' = [l \in Logs |-> IF l \in victims THEN f[l] ELSE where[l]]
               /\ sent' = sent
                    \cup {[log |-> l, blk |-> where[l], removed |-> TRUE] : l \in victims}
                    \cup {[log |-> l, blk |-> f[l], removed |-> FALSE] :
                              l \in {v \in victims : f[v] # NoBlock}}
        /\ UNCHANGED <<head, dedupe, storeVars, faults, expired>>

\* A deduplication key reaches its TTL of thirty days.
KeyExpires(l) ==
    /\ l \in dedupe
    /\ expired < MaxExpiries
    /\ dedupe' = dedupe \ {l}
    /\ expired' = expired + 1
    /\ UNCHANGED <<chainVars, storeVars, faults>>

WorldNext ==
    \/ \E S \in SUBSET Logs : Mine(S)
    \/ \E d \in 1 .. MaxReorgDepth : Reorg(d)
    \/ \E l \in Logs : KeyExpires(l)

-----------------------------------------------------------------------------
\* The table escrow_events: an insert that meets an existing key refreshes the
\* removed flag and keeps the block number of the first insert.
Upsert(r, blk, removed) ==
    [blk |-> IF r.blk = NoBlock THEN blk ELSE r.blk, removed |-> removed]

=============================================================================
