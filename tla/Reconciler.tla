----------------------------- MODULE Reconciler -----------------------------
(***************************************************************************)
(* The event reconcilers: payroll fundings, salary claims and token        *)
(* transfers are audited by three workers of one shape.  A pass compares   *)
(* the confirmed logs of a range of blocks with the rows of that range,    *)
(* opens an exception for every mismatch and resolves the open exceptions  *)
(* of the range whose mismatch has gone.  One loop looks at the most       *)
(* recent blocks, another sweeps the history with a cursor of its own,     *)
(* while the indexer goes on filling the table.                            *)
(*                                                                         *)
(* A log stands for its key (transaction hash and log index), on which the *)
(* tables have a unique index, so the comparison of duplicates finds none. *)
(* A transfer row marked removed counts as absent.  Confirmed blocks do    *)
(* not change here.                                                        *)
(***************************************************************************)
EXTENDS ChainBlocks, FiniteSets, Sequences

CONSTANTS
    Logs, Fields,            \* events of the audited kind; groups of compared columns
    Reconcilers, Sweepers,   \* all passes' processes; those that run ReconcileNextBatch
    Window, BatchSize, StartBlock, ConfirmationDepth,
    MaxHead, MaxDrift, MaxFaults   \* bounds of the instance

ASSUME ReconcilerAssumption ==
    /\ IsFiniteSet(Logs) /\ IsFiniteSet(Reconcilers)
    /\ Sweepers \subseteq Reconcilers
    /\ BatchSize \in Nat \ {0}
    /\ {Window, StartBlock, ConfirmationDepth, MaxHead, MaxDrift, MaxFaults} \subseteq Nat

VARIABLES
    head, where,   \* node's head, block of each log
    row,           \* the indexed row of each log
    cp,            \* the indexer's checkpoint
    sweepCp,       \* the sweep's own checkpoint
    exceptions,    \* reconciliation_exceptions, in order of id
    worker,        \* what each reconciler holds in memory
    skipped,       \* history: logs the indexer's checkpoint passed without storing them
    altered,       \* history: logs whose row something else than the indexer changed
    drift, faults  \* disturbances and failed passes so far

chainVars == <<head, where>>
tableVars == <<row, cp, skipped, altered, drift>>
vars == <<head, where, row, cp, sweepCp, exceptions, worker, skipped, altered, drift, faults>>

Blocks == 1 .. MaxHead
NoRow == [blk |-> NoBlock, wrong |-> {}]
Rows == [blk : Nat \cup {NoBlock}, wrong : SUBSET Fields]

\* What an exception's entity_ref names.
Kinds == {"missing", "tx_inconsistency"} \cup Fields
Refs == [log : Logs, kind : Kinds]

Idle == [pc |-> "idle", from |-> 0, to |-> 0, lagAt |-> NoBlock,
         active |-> {}, todo |-> {}, adding |-> {}, stale |-> {}]

Init ==
    /\ head = 0
    /\ where = [l \in Logs |-> NoBlock]
    /\ row = [l \in Logs |-> NoRow]
    /\ cp = NoBlock
    /\ sweepCp = NoBlock
    /\ exceptions = <<>>
    /\ worker = [w \in Reconcilers |-> Idle]
    /\ skipped = {}
    /\ altered = {}
    /\ drift = 0
    /\ faults = 0

---------------------------------------------------------------------------
(* The chain, the indexer and the accidents of the tables. *)

Healthy(l) == row[l] = [blk |-> where[l], wrong |-> {}]

Mine(S) ==
    /\ head < MaxHead
    /\ \A l \in S : where[l] = NoBlock
    /\ head' = head + 1
    /\ where' = [l \in Logs |-> IF l \in S THEN head + 1 ELSE where[l]]
    /\ UNCHANGED <<row, cp, sweepCp, exceptions, worker, skipped, altered, drift, faults>>

\* The blocks the indexer may be working on.
Indexable == GetEffectiveStartBlock(cp, StartBlock) .. CalculateSafeTarget(head, ConfirmationDepth)

\* ON CONFLICT: a row that is there keeps every column that is compared.
StoreEvent(l) ==
    /\ where[l] \in Indexable
    /\ row[l] = NoRow
    /\ row' = [row EXCEPT ![l] = [blk |-> where[l], wrong |-> {}]]
    /\ UNCHANGED <<head, where, cp, sweepCp, exceptions, worker, skipped, altered, drift, faults>>

\* Passing a log that was not stored is a fault of the indexer.
SaveIndexerCheckpoint(b) ==
    LET unstored == {l \in Logs : where[l] \in Indexable /\ where[l] <= b /\ row[l] = NoRow}
    IN  /\ b \in Indexable
        /\ drift + Cardinality(unstored) <= MaxDrift
        /\ cp' = b
        /\ drift' = drift + Cardinality(unstored)
        /\ skipped' = skipped \cup unstored
        /\ UNCHANGED <<head, where, row, sweepCp, exceptions, worker, altered, faults>>

\* A row is lost, altered or repaired by something else than the indexer.
Drift(l) ==
    /\ drift < MaxDrift
    /\ row[l] # NoRow \/ l \in skipped \cup altered
    /\ \E r \in {NoRow} \cup [blk : Blocks, wrong : SUBSET Fields] :
           r # row[l] /\ row' = [row EXCEPT ![l] = r]
    /\ drift' = drift + 1
    /\ altered' = altered \cup {l}
    /\ UNCHANGED <<head, where, cp, sweepCp, exceptions, worker, skipped, faults>>

\* The indexer's checkpoint row is deleted, as the operator's tool does for token streams.
ClearCheckpoint ==
    /\ drift < MaxDrift
    /\ cp # NoBlock
    /\ cp' = NoBlock
    /\ drift' = drift + 1
    /\ UNCHANGED <<head, where, row, sweepCp, exceptions, worker, skipped, altered, faults>>

---------------------------------------------------------------------------
(* A pass of reconciler w. *)

At(w, pc) == worker[w].pc = pc

SafeTarget == BackfillTarget(head, ConfirmationDepth)

WindowStart(safe) ==
    IF Window > 0 /\ safe > Window /\ safe - Window + 1 > StartBlock
    THEN safe - Window + 1
    ELSE StartBlock

\* A sweep's cursor is written by nobody else, so reading it and the head is one step.
ChooseRange(w) ==
    LET from == IF w \in Sweepers THEN GetEffectiveStartBlock(sweepCp, StartBlock)
                                  ELSE WindowStart(SafeTarget)
        to == IF w \in Sweepers THEN BatchEnd(from, BatchSize, SafeTarget) ELSE SafeTarget
    IN  /\ At(w, "idle")
        /\ from <= SafeTarget
        /\ worker' = [worker EXCEPT ![w] = [Idle EXCEPT !.pc = "range", !.from = from, !.to = to]]
        /\ UNCHANGED <<chainVars, tableVars, sweepCp, exceptions, faults>>

\* The state of a worker whose comparison is over: a sweep moves its cursor.
Done(w) == IF w \in Sweepers THEN [worker[w] EXCEPT !.pc = "advance"] ELSE Idle

\* ReconcileRange asks for the head again.
SkipUnfinalized(w) ==
    /\ At(w, "range")
    /\ worker[w].from > SafeTarget
    /\ worker' = [worker EXCEPT ![w] = Done(w)]
    /\ UNCHANGED <<chainVars, tableVars, sweepCp, exceptions, faults>>

\* A clamp that forgets that the whole range may not be final.
ClampAlways(w) ==
    /\ At(w, "range")
    /\ worker' = [worker EXCEPT ![w].pc = "lag",
                                ![w].to = IF @ > SafeTarget THEN SafeTarget ELSE @]
    /\ UNCHANGED <<chainVars, tableVars, sweepCp, exceptions, faults>>

ClampToFinal(w) ==
    /\ At(w, "range")
    /\ worker[w].from <= SafeTarget
    /\ worker' = [worker EXCEPT ![w].pc = "lag",
                                ![w].to = IF @ > SafeTarget THEN SafeTarget ELSE @]
    /\ UNCHANGED <<chainVars, tableVars, sweepCp, exceptions, faults>>

ReadIndexerCheckpoint(w) ==
    /\ At(w, "lag")
    /\ worker' = [worker EXCEPT ![w].pc = "compare", ![w].lagAt = cp]
    /\ UNCHANGED <<chainVars, tableVars, sweepCp, exceptions, faults>>

InRange(w, b) == b \in worker[w].from .. worker[w].to

\* An absent row is indexing lag when the indexer had not passed its block.
NoLag(w, l) == FALSE
Lagging(w, l) == worker[w].lagAt = NoBlock \/ where[l] > worker[w].lagAt

\* The mismatches of one log: rows are looked up by their own block.
Mismatches(w, l) ==
    IF ~ InRange(w, row[l].blk)
    THEN IF Lagging(w, l) THEN {} ELSE {"missing"}
    ELSE row[l].wrong \cup (IF row[l].blk # where[l] THEN {"tx_inconsistency"} ELSE {})

\* Confirmed logs are what they were when they were fetched; the rows are read here.
Compare(w) ==
    LET found == {r \in Refs : InRange(w, where[r.log]) /\ r.kind \in Mismatches(w, r.log)}
    IN  /\ At(w, "compare")
        /\ worker' = [worker EXCEPT ![w].pc = "record", ![w].active = found, ![w].todo = found]
        /\ UNCHANGED <<chainVars, tableVars, sweepCp, exceptions, faults>>

IsOpen(r) == \E n \in DOMAIN exceptions : exceptions[n].ref = r /\ exceptions[n].open

\* A lookup that forgets status = 'open', and one that finds nothing.
EverOpened(r) == \E n \in DOMAIN exceptions : exceptions[n].ref = r
NeverOpen(r) == FALSE

\* recordMismatch looks for an open exception of the reference ...
GetOpenException(r) == IsOpen(r)

CheckOpen(w, r) ==
    /\ At(w, "record")
    /\ worker[w].adding = {}
    /\ r \in worker[w].todo
    /\ worker' = [worker EXCEPT ![w].todo = @ \ {r},
                                ![w].adding = IF GetOpenException(r) THEN {} ELSE {r}]
    /\ UNCHANGED <<chainVars, tableVars, sweepCp, exceptions, faults>>

\* ... and, in a statement of its own, inserts one; the reply may be lost.
CreateException(w, r) ==
    /\ r \in worker[w].adding
    /\ exceptions' = Append(exceptions, [ref |-> r, open |-> TRUE])
    /\ \/ worker' = [worker EXCEPT ![w].adding = {}] /\ UNCHANGED faults
       \/ worker' = [worker EXCEPT ![w] = Idle] /\ faults < MaxFaults /\ faults' = faults + 1
    /\ UNCHANGED <<chainVars, tableVars, sweepCp>>

\* An open exception of the range whose mismatch this pass did not find.
Fixed(w, n) ==
    /\ exceptions[n].open
    /\ InRange(w, where[exceptions[n].ref.log])
    /\ exceptions[n].ref \notin worker[w].active

\* GetOpenExceptionsByEntityRefPrefix
ListOpen(w) ==
    LET stale == {n \in DOMAIN exceptions : Fixed(w, n)}
    IN  /\ At(w, "record")
        /\ worker[w].todo = {} /\ worker[w].adding = {}
        /\ worker' = [worker EXCEPT ![w] = IF stale = {} THEN Done(w)
                                           ELSE [@ EXCEPT !.pc = "resolve", !.stale = stale]]
        /\ UNCHANGED <<chainVars, tableVars, sweepCp, exceptions, faults>>

\* By id, in order, and only if it is still open; the reply may be lost.
ResolveException(w) ==
    LET n == CHOOSE i \in worker[w].stale : \A j \in worker[w].stale : i <= j
        rest == worker[w].stale \ {n}
    IN  /\ At(w, "resolve")
        /\ exceptions' = [exceptions EXCEPT ![n].open = FALSE]
        /\ \/ /\ worker' = [worker EXCEPT ![w] = IF rest = {} THEN Done(w)
                                                  ELSE [@ EXCEPT !.stale = rest]]
              /\ UNCHANGED faults
           \/ worker' = [worker EXCEPT ![w] = Idle] /\ faults < MaxFaults /\ faults' = faults + 1
        /\ UNCHANGED <<chainVars, tableVars, sweepCp>>

\* ReconcileNextBatch saves how far the comparison went.
AdvanceSweep(w) ==
    /\ At(w, "advance")
    /\ sweepCp' = worker[w].to
    /\ worker' = [worker EXCEPT ![w] = Idle]
    /\ UNCHANGED <<chainVars, tableVars, exceptions, faults>>

\* An RPC or database error ends the pass, as does a crash.
PassFails(w) ==
    /\ ~ At(w, "idle")
    /\ faults < MaxFaults
    /\ faults' = faults + 1
    /\ worker' = [worker EXCEPT ![w] = Idle]
    /\ UNCHANGED <<chainVars, tableVars, sweepCp, exceptions>>

Pass(w) ==
    \/ ChooseRange(w) \/ SkipUnfinalized(w) \/ ClampToFinal(w) \/ ReadIndexerCheckpoint(w)
    \/ Compare(w) \/ (\E r \in Refs : CheckOpen(w, r) \/ CreateException(w, r))
    \/ ListOpen(w) \/ ResolveException(w) \/ AdvanceSweep(w)

Next ==
    \/ \E S \in SUBSET Logs : Mine(S)
    \/ \E l \in Logs : StoreEvent(l) \/ Drift(l)
    \/ \E b \in Blocks : SaveIndexerCheckpoint(b)
    \/ ClearCheckpoint
    \/ \E w \in Reconcilers : Pass(w) \/ PassFails(w)

Spec == Init /\ [][Next]_vars

\* The recent-window loop runs on a ticker; a sweep is not counted on.
FairSpec == Spec /\ \A w \in Reconcilers \ Sweepers : WF_vars(Pass(w))

---------------------------------------------------------------------------
(* Properties *)

WorkerState ==
    [pc : {"idle", "range", "lag", "compare", "record", "resolve", "advance"},
     from : Nat, to : Nat, lagAt : Nat \cup {NoBlock},
     active : SUBSET Refs, todo : SUBSET Refs, adding : SUBSET Refs, stale : SUBSET Nat]

\* Every variable stays in its domain, and no pass works on an empty range: it would
\* resolve nothing, save a cursor below its start and compare the same blocks for ever.
TypeOK ==
    /\ head \in Nat
    /\ where \in [Logs -> Nat \cup {NoBlock}]
    /\ row \in [Logs -> Rows]
    /\ {cp, sweepCp} \subseteq Nat \cup {NoBlock}
    /\ exceptions \in Seq([ref : Refs, open : BOOLEAN])
    /\ skipped \cup altered \subseteq Logs
    /\ drift \in 0 .. MaxDrift /\ faults \in 0 .. MaxFaults
    /\ worker \in [Reconcilers -> WorkerState]
    /\ \A w \in Reconcilers : worker[w].from <= worker[w].to

\* Indexing lag is never reported: an exception is about a log the indexer skipped
\* or whose row was lost or altered, however the pass and the indexer interleave.
NoFalseAlarm == \A n \in DOMAIN exceptions : exceptions[n].ref.log \in skipped \cup altered

\* Why: a row is what the indexer stored or was altered, the indexer passed no absent
\* row without fault, and what a worker holds it found below a checkpoint it read
\* before it read the rows.
Explained(l) == row[l] = NoRow \/ Healthy(l) \/ l \in altered
PassedBy(b) ==
    /\ b <= head
    /\ \A l \in Logs : where[l] \in StartBlock .. b /\ row[l] = NoRow => l \in skipped \cup altered
WorkerKnows(w) ==
    /\ PassedBy(worker[w].lagAt)
    /\ ~ At(w, "idle") => worker[w].from >= StartBlock
    /\ \A r \in worker[w].active \cup worker[w].todo \cup worker[w].adding :
          r.log \in skipped \cup altered
AuditInv ==
    /\ TypeOK /\ NoFalseAlarm /\ PassedBy(cp)
    /\ \A l \in Logs : Explained(l)
    /\ \A w \in Reconcilers : WorkerKnows(w)

\* Checking and inserting are two statements, so reconcilers that race open an
\* exception twice; but each adds at most one to those that are open.
OpenOf(r) == {n \in DOMAIN exceptions : exceptions[n].ref = r /\ exceptions[n].open}
OpenAtMostOncePerReconciler == \A r \in Refs : Cardinality(OpenOf(r)) <= Cardinality(Reconcilers)

\* Why: a worker about to open one has found none open, and holds a place of its own.
AboutToOpen(r) == {w \in Reconcilers : r \in worker[w].adding}
OpeningInv ==
    \A r \in Refs :
        Cardinality(OpenOf(r)) + Cardinality(AboutToOpen(r)) <= Cardinality(Reconcilers)

InWindow(l) == where[l] \in WindowStart(SafeTarget) .. SafeTarget
Wrong(l) == InWindow(l) /\ where[l] <= cp /\ ~ Healthy(l)
Right(l) == InWindow(l) /\ Healthy(l)
Reported(l) == \E k \in Kinds : IsOpen([log |-> l, kind |-> k])

\* In the recent window the exceptions settle on the truth, whatever a racing sweep
\* opened or resolved from an older comparison: a row that stays wrong ends up
\* reported for good, and a row that stays right ends up without open exception.
ExceptionsSettle ==
    \A l \in Logs : /\ <>[]Wrong(l) => <>[]Reported(l)
                    /\ <>[]Right(l) => <>[]~Reported(l)

=============================================================================
