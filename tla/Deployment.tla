---------------------------- MODULE Deployment ----------------------------
(***************************************************************************)
(* The processes of one deployment around its database: the indexer and    *)
(* the API migrate it and then run the live monitor and answer status      *)
(* requests; a reconciler moves its cursor and an operator clears          *)
(* checkpoints.  A process that dies is started again.                     *)
(***************************************************************************)
EXTENDS Migrations, SyncStatus

CONSTANT CheckpointFile   \* the migration that creates sync_checkpoints

ASSUME DeploymentAssumption == CheckpointFile \in Files /\ {"indexer", "api"} \subseteq Services

vars == <<migrationVars, monitorVars, statusVars>>

Init == MigrationInit /\ MonitorInit /\ StatusInit

\* What a process holds in memory dies with it.
Forget(p) ==
    /\ monitor' = IF p = "indexer" THEN Idle ELSE monitor
    /\ report' = IF p = "api" THEN NoReport ELSE report
    /\ UNCHANGED <<head, unindexable, cp, fresh, tool, clears, faults, swept>>

RunIndexer == Up("indexer") /\ Poll /\ UNCHANGED <<migrationVars, statusVars>>

\* Queries of a table that does not exist fail.
RunAPI ==
    /\ Up("api")
    /\ CheckpointFile \in applied \/ StatusFails
    /\ Status
    /\ UNCHANGED <<migrationVars, monitorVars>>

\* An answer that is not complete yet mixes rows of before and after.
RunTool(statement) ==
    /\ CheckpointFile \in applied
    /\ ClearStatement(statement)
    /\ report' = [report EXCEPT !.cleared = @ \/ (report.pc = "listed" /\ cp' # cp)]
    /\ UNCHANGED <<migrationVars, swept>>

Next ==
    \/ \E p \in Services :
          \/ Migrate(p) /\ UNCHANGED <<monitorVars, statusVars>>
          \/ Crash(p) /\ Forget(p)
    \/ Mine /\ UNCHANGED <<migrationVars, statusVars>>
    \/ RunIndexer
    \/ RunAPI
    \/ \E statement \in {"payroll", "token"} : RunTool(statement)
    \/ \E b \in Blocks : /\ CheckpointFile \in applied
                         /\ SweepSaves(b)
                         /\ UNCHANGED <<migrationVars, monitorVars>>

Spec == Init /\ [][Next]_vars

\* The indexer is restarted until it runs, and its monitor polls on a ticker.
FairSpec ==
    /\ Spec
    /\ WF_vars(Migrate("indexer") /\ UNCHANGED <<monitorVars, statusVars>>)
    /\ WF_vars(RunIndexer)

---------------------------------------------------------------------------
(* Properties *)

\* Every variable stays in its domain; a reported lag is never negative.
TypeOK ==
    /\ applied \subseteq Files
    /\ executed \in [Files -> Nat]
    /\ service \in [Services -> [pc : {"down", "check", "apply", "up"}, file : 1 .. FileCount + 1]]
    /\ stops \in 0 .. MaxStops
    /\ head \in Nat
    /\ unindexable \in [Configured -> Blocks \cup {NoBlock}]
    /\ cp \in [Configured -> Nat \cup {NoBlock}]
    /\ fresh \in [Configured -> SUBSET Nat]
    /\ monitor \in [pc : {"idle", "resolve", "index", "save"}, turn : Nat, target : Nat,
                    from : Nat, batches : Nat]
    /\ tool \in {"payroll", "token"}
    /\ clears \in 0 .. MaxClears
    /\ faults \in 0 .. MaxFaults
    /\ swept \in Nat \cup {NoBlock}
    /\ report \in [pc : {"idle", "listed", "done"}, rows : [Rows -> Nat \cup {NoBlock}],
                   latest : Nat, cleared : BOOLEAN]
    /\ \A r \in Listed : ReportedLag(r) \in Nat

\* Two processes that migrate at once, die in the middle and lose replies execute every
\* file exactly once, in order.
MigratedOnce ==
    /\ \A f \in Files : executed[f] = (IF f \in applied THEN 1 ELSE 0)
    /\ \A f \in applied : 1 .. f \subseteq applied

\* The monitor never writes into a schema that is not complete, however the API, which
\* only warns, fares with the same files.
MonitorNeedsSchema == At("idle") \/ Files \subseteq applied

\* A checkpoint is set behind indexed blocks only: errors that end one stream's poll,
\* lost replies, crashes and cleared checkpoints leave no gap below it.
CheckpointsCover == \A s \in Configured : StartBlock .. cp[s] \subseteq fresh[s]

\* Unless a checkpoint is cleared between its two queries, the answer's lag of a stream
\* is at least its distance to every other row and at most its distance to the blocks
\* that may be indexed, and its safe block is final.
LagIsSound ==
    report.pc = "done" /\ ~ report.cleared =>
        /\ \A r, t \in Listed : ReportedLag(r) >= report.rows[t] - report.rows[r]
        /\ \A r \in Listed : ReportedLag(r) <= SafeTarget - report.rows[r]
        /\ SafeBlock <= SafeTarget

\* A stream that can index its blocks passes every final one, though another stream errs
\* in every poll and the process dies and starts again.
HealthyStreamsCatchUp ==
    \A s \in Configured, b \in FinalBlocks :
        unindexable[s] = NoBlock /\ b \in StartBlock .. SafeTarget ~> cp[s] >= b

\* The operator's tool ends with "begin fresh from START_BLOCK (payroll) and
\* TOKEN_START_BLOCK (token)": its statements delete the streams' checkpoints.
ClearingStartsAfresh ==
    [][\A s \in Configured \cap {"payroll", "token"} : RunTool(s) => cp'[s] = NoBlock]_vars

===========================================================================
