---------------------------- MODULE SyncStatus ----------------------------
(***************************************************************************)
(* GET /v1/sync/status.  The handler asks for the checkpoint rows and, in  *)
(* a second query, for the highest block any row names, which it reports   *)
(* as the chain's latest block; the chain itself is not asked.  Cursors of *)
(* the reconcilers are rows of the same table.                             *)
(***************************************************************************)
EXTENDS LiveMonitor, FiniteSetsExt

VARIABLES swept,    \* the row of a reconciler's cursor
          report    \* the request being answered

statusVars == <<swept, report>>

Rows == Configured \cup {"sweep"}
NoReport == [pc |-> "idle", rows |-> [r \in Rows |-> NoBlock], latest |-> 0, cleared |-> FALSE]

StatusInit == swept = NoBlock /\ report = NoReport

Checkpoints == [r \in Rows |-> IF r = "sweep" THEN swept ELSE cp[r]]
Listed == {r \in Rows : report.rows[r] # NoBlock}

\* A sweep audits final blocks in their order.
SweepSaves(b) ==
    /\ b \in swept + 1 .. SafeTarget
    /\ b >= StartBlock
    /\ swept' = b
    /\ UNCHANGED report

\* The lowest row instead of the highest.
LowestRow(rows) == Min({IF rows[r] = NoBlock THEN MaxHead ELSE rows[r] : r \in Rows})

\* COALESCE(MAX(last_indexed_block), 0)
GetLatestChainBlock(rows) == Max({rows[r] : r \in Rows} \cup {0})

GetAllCheckpoints ==
    /\ report.pc # "listed"
    /\ report' = [NoReport EXCEPT !.pc = "listed", !.rows = Checkpoints]
    /\ UNCHANGED swept

SyncStatusHandler ==
    /\ report.pc = "listed"
    /\ report' = [report EXCEPT !.pc = "done", !.latest = GetLatestChainBlock(Checkpoints)]
    /\ UNCHANGED swept

\* A query fails: 500.
StatusFails == report # NoReport /\ report' = NoReport /\ UNCHANGED swept

Status == GetAllCheckpoints \/ SyncStatusHandler \/ StatusFails

\* The difference of two unsigned numbers, read as it is.
PlainLag(block, latest) == latest - block

\* BuildStreamStatus
Lag(block, latest) == IF latest >= block THEN latest - block ELSE 0

\* The answer calls a block below the highest row safe.
SafeBlock == IF report.latest > ConfirmationDepth THEN report.latest - ConfirmationDepth
             ELSE report.latest

\* What the answer says of a listed row.
ReportedLag(r) == Lag(report.rows[r], report.latest)

===========================================================================
