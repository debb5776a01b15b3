-------------------------- MODULE BalanceReconciler --------------------------
(***************************************************************************)
(* The balance reconciler.  A pass picks one block, bounded by the safe    *)
(* head and by the token stream's checkpoint, and compares at that block   *)
(*   - the token balance of every address the tables know of,              *)
(*   - the token balance of the payroll contract, and                      *)
(*   - the status of every employer and employee                           *)
(* on the chain with what the tables say.  Token rows are taken up to the  *)
(* block of the pass; employers and employees are taken as they are now.   *)
(* Each comparison opens an exception or resolves an open one at once.     *)
(*                                                                         *)
(* A transfer moves one unit; a log stands for its database key.  Audited  *)
(* blocks are final and do not change.  No event is older than the start   *)
(* block.  The code never reads a resolved exception, so only the open     *)
(* ones are kept here.                                                     *)
(***************************************************************************)
EXTENDS ChainBlocks, FiniteSets, FiniteSetsExt

CONSTANTS
    Wallets, Zero, Contract,       \* addresses; the zero address and the payroll contract
    Transfers, Sender, Receiver,   \* token transfers and their parties
    Fundings,                      \* transfers the payroll stream stores as fundings or claims
    Employers, Employees,          \* wallets of the two state tables, Zero among them if need be
    Loops, Sweepers, Auditors,     \* passes over the recent window, with a cursor, at a given block
    Window, BatchSize, StartBlock, ConfirmationDepth,
    MaxHead, MaxEvents, MaxFaults   \* bounds of the instance

Members == Employers \cup Employees
Reconcilers == Loops \cup Sweepers \cup Auditors

ASSUME BalanceAssumption ==
    /\ {Zero, Contract} \subseteq Wallets
    /\ {Sender, Receiver} \subseteq [Transfers -> Wallets]
    /\ Fundings \subseteq Transfers
    /\ IsFiniteSet(Transfers) /\ IsFiniteSet(Reconcilers)
    /\ Loops \cap (Sweepers \cup Auditors) = {} /\ Sweepers \cap Auditors = {}
    /\ BatchSize \in Nat \ {0}
    /\ {Window, StartBlock, ConfirmationDepth, MaxHead, MaxEvents,
        MaxFaults} \subseteq Nat

VARIABLES
    head, where,         \* node's head, block of each transfer
    flips, named,        \* blocks that change a member's status; that name him without changing it
    row,                 \* token_transfers
    cp,                  \* checkpoint of the token stream
    indexed, tampered,   \* block the state tables speak of; members whose row was changed by hand
    sweepCp,             \* cursor of the sweep
    exceptions,          \* the open rows of reconciliation_exceptions
    worker,              \* what each reconciler holds in memory
    altered,             \* history: token rows something else than an indexer changed
    faults               \* accidents of the tables and failures of the passes so far

chainVars == <<head, where, flips, named>>
tableVars == <<row, cp, indexed, tampered, altered>>
vars == <<head, where, flips, named, row, cp, indexed, tampered, sweepCp, exceptions, worker,
          altered, faults>>

Blocks == 1 .. MaxHead

\* What an exception's entity_ref names.
Refs ==
    [kind : {"token"}, who : Wallets \ {Zero}] \cup [kind : {"contract"}, who : {Contract}]
        \cup [kind : {"state"}, who : Members]

Idle == [pc |-> "idle", last |-> 0, target |-> 0, blind |-> FALSE, todo |-> {}, bad |-> {},
         adding |-> {}, fixing |-> {}]

Init ==
    /\ head = 0
    /\ where = [t \in Transfers |-> NoBlock]
    /\ flips = [m \in Members |-> {}]
    /\ named = [m \in Members |-> {}]
    /\ row = [t \in Transfers |-> "absent"]
    /\ cp = NoBlock
    /\ indexed = 0
    /\ tampered = {}
    /\ sweepCp = NoBlock
    /\ exceptions = {}
    /\ worker = [w \in Reconcilers |-> Idle]
    /\ altered = {}
    /\ faults = 0

---------------------------------------------------------------------------
(* Balances and statuses, on the chain and in the tables. *)

Net(S, a) ==
    Cardinality({t \in S : Receiver[t] = a}) - Cardinality({t \in S : Sender[t] = a})

OnChain(b) == {t \in Transfers : where[t] \in 0 .. b}

\* balanceOf at block b
ChainBalance(a, b) == Net(OnChain(b), a)

\* The sum over the rows up to block b that are not flagged removed.
CalculateTokenBalance(a, b) == Net({t \in OnChain(b) : row[t] = "stored"}, a)

Parties(S) == {Sender[t] : t \in S} \cup {Receiver[t] : t \in S}

\* The addresses of the tables' rows up to block b, flagged removed or not.
GetRelevantAddresses(b) ==
    (Parties({t \in OnChain(b) : row[t] # "absent"})
        \cup Parties({t \in Fundings \cap OnChain(b) : where[t] <= indexed})
        \cup {Contract}) \ {Zero}

\* isEmployerActive and isEmployeeActive at block b: members start inactive.
OnChainActive(m, b) == Cardinality({f \in flips[m] : f <= b}) % 2 = 1

\* A row is created by the first stored event that changes the member's status or only
\* names him, as the employer of an employee, the parties of a funding or the employee of
\* a claim, whose placeholder employer is the zero address.
Listed(S) == {m \in S : \E b \in flips[m] \cup named[m] : b <= indexed}

\* A row that no change of status has reached was inserted as active.
Active(m) == ((\A f \in flips[m] : f > indexed) \/ OnChainActive(m, indexed)) # (m \in tampered)

\* The comparison of one reference at block b.
Differs(r, b) ==
    IF r.kind = "state" THEN OnChainActive(r.who, b) # Active(r.who)
    ELSE ChainBalance(r.who, b) # CalculateTokenBalance(r.who, b)

TokenRefs(A) == [kind : {"token"}, who : A]
ContractRefs == [kind : {"contract"}, who : {Contract}]
StateRefs(M) == [kind : {"state"}, who : M]

---------------------------------------------------------------------------
(* The chain, the indexers and the accidents of the tables. *)

SafeTarget == CalculateSafeTarget(head, ConfirmationDepth)

\* The chain holds at most MaxEvents events, and none in a block that MaxHead keeps from
\* becoming final, for then no pass looks at it.
EventsSoFar ==
    Cardinality(OnChain(head)) + Cardinality({x \in Members \X Blocks : x[2] \in flips[x[1]]})
        + Cardinality({x \in Members \X Blocks : x[2] \in named[x[1]]})

\* A block transfers S, changes the status of M and names N.  Nobody spends what he does
\* not have; the zero address is neither added nor removed.
Mine(S, M, N) ==
    /\ head < MaxHead
    /\ S \cup M \cup N # {} => head + 1 \in StartBlock .. MaxHead - ConfirmationDepth
    /\ EventsSoFar + Cardinality(S) + Cardinality(M) + Cardinality(N) <= MaxEvents
    /\ Zero \notin M
    /\ \A t \in S : where[t] = NoBlock
    /\ head' = head + 1
    /\ where' = [t \in Transfers |-> IF t \in S THEN head + 1 ELSE where[t]]
    /\ \A a \in Wallets \ {Zero} : Net(OnChain(head) \cup S, a) >= 0
    /\ flips' = [m \in Members |-> IF m \in M THEN flips[m] \cup {head + 1} ELSE flips[m]]
    /\ named' = [m \in Members |-> IF m \in N THEN named[m] \cup {head + 1} ELSE named[m]]
    /\ UNCHANGED <<tableVars, sweepCp, exceptions, worker, faults>>

\* Rows and checkpoint are one transaction; a row that is there is no longer removed.
SaveTokenBatch(b) ==
    LET from == GetEffectiveStartBlock(cp, StartBlock)
    IN  /\ b \in from .. SafeTarget
        /\ row' = [t \in Transfers |-> IF where[t] \in from .. b THEN "stored" ELSE row[t]]
        /\ cp' = b
        /\ UNCHANGED <<chainVars, indexed, tampered, altered, sweepCp, exceptions, worker,
                       faults>>

PayrollBlocks ==
    {where[t] : t \in Fundings} \cup UNION {flips[m] \cup named[m] : m \in Members}

\* The payroll stream stores the next of its events, at a pace of its own; a change of
\* status sets the active column whatever it was, an insert that only ensures a row does not.
IndexPayroll(b) ==
    /\ b \in PayrollBlocks \cap (indexed + 1 .. SafeTarget)
    /\ PayrollBlocks \cap (indexed + 1 .. b) = {b}
    /\ indexed' = b
    /\ tampered' = {m \in tampered : b \notin flips[m]}
    /\ UNCHANGED <<chainVars, row, cp, altered, sweepCp, exceptions, worker, faults>>

\* A row is lost, flagged removed or put right by something else than the indexer.
Drift(t) ==
    /\ faults < MaxFaults
    /\ row[t] # "absent" \/ t \in altered
    /\ \E v \in {"absent", "stored", "removed"} \ {row[t]} : row' = [row EXCEPT ![t] = v]
    /\ altered' = altered \cup {t}
    /\ faults' = faults + 1
    /\ UNCHANGED <<chainVars, cp, indexed, tampered, sweepCp, exceptions, worker>>

\* Somebody sets a member's active column, or sets it back.
Tamper(m) ==
    /\ faults < MaxFaults
    /\ m \in Listed(Members)
    /\ tampered' = (tampered \cup {m}) \ (tampered \cap {m})
    /\ faults' = faults + 1
    /\ UNCHANGED <<chainVars, row, cp, indexed, altered, sweepCp, exceptions, worker>>

\* The operator's tool deletes the token stream's checkpoint.
ClearCheckpoint ==
    /\ faults < MaxFaults
    /\ cp # NoBlock
    /\ cp' = NoBlock
    /\ faults' = faults + 1
    /\ UNCHANGED <<chainVars, row, indexed, tampered, altered, sweepCp, exceptions, worker>>

---------------------------------------------------------------------------
(* A pass of reconciler w. *)

At(w, pc) == worker[w].pc = pc

\* A pass goes on once every reference of the last reading is dealt with.
Free(w) == worker[w].todo = {} /\ worker[w].adding = {} /\ worker[w].fixing = {}

\* A window that reaches below the first block.
UnclampedWindow == SafeTarget - Window

WindowBlock == IF SafeTarget > Window THEN SafeTarget - Window ELSE StartBlock

LastSwept == IF sweepCp > 0 THEN sweepCp ELSE StartBlock

\* ReconcileRecentWindow
ChooseWindowBlock(w) ==
    /\ w \in Loops
    /\ At(w, "idle")
    /\ head >= ConfirmationDepth
    /\ worker' = [worker EXCEPT ![w].pc = "head", ![w].target = WindowBlock]
    /\ UNCHANGED <<chainVars, tableVars, sweepCp, exceptions, faults>>

\* ReconcileNextBatch: the cursor is read before the pass and compared with after it.
ReadCursor(w) ==
    /\ w \in Sweepers
    /\ At(w, "idle")
    /\ worker' = [worker EXCEPT ![w].pc = "head", ![w].last = LastSwept,
                                ![w].target = LastSwept + BatchSize]
    /\ UNCHANGED <<chainVars, tableVars, sweepCp, exceptions, faults>>

\* The block a pass asks ReconcileTargetBlock for; an operator just names one.
Requests(w) ==
    IF w \in Auditors THEN {b \in Blocks : At(w, "idle")}
    ELSE {b \in {worker[w].target} : At(w, "head")}

\* ReconcileTargetBlock asks for the head, in a loop for the second time.
ClampToFinal(w) ==
    /\ \E b \in Requests(w) :
           worker' = [worker EXCEPT ![w] =
               IF head < ConfirmationDepth THEN Idle
               ELSE [@ EXCEPT !.pc = "lag",
                              !.target = IF b > 0 /\ b < SafeTarget THEN b ELSE SafeTarget]]
    /\ UNCHANGED <<chainVars, tableVars, sweepCp, exceptions, faults>>

\* A pass that audits blocks the token stream has not reached.
IgnoreLag == SafeTarget

\* A stream without checkpoint is taken to have indexed its start block.
IndexedUpTo == IF cp = NoBlock THEN StartBlock ELSE cp

ClampToIndexed(w) ==
    LET b == IF worker[w].target > IndexedUpTo THEN IndexedUpTo ELSE worker[w].target
    IN  /\ At(w, "lag")
        /\ worker' = [worker EXCEPT ![w] =
               IF b < StartBlock THEN Idle
               ELSE [@ EXCEPT !.pc = "addresses", !.target = b, !.blind = cp = NoBlock]]
        /\ UNCHANGED <<chainVars, tableVars, sweepCp, exceptions, faults>>

\* The addresses and the balances are two queries.
ReadAddresses(w) ==
    /\ At(w, "addresses")
    /\ worker' = [worker EXCEPT ![w].pc = "balances",
                                ![w].todo = TokenRefs(GetRelevantAddresses(worker[w].target))]
    /\ UNCHANGED <<chainVars, tableVars, sweepCp, exceptions, faults>>

DifferingAt(w, R) == {r \in R : Differs(r, worker[w].target)}

ReadBalances(w) ==
    /\ At(w, "balances")
    /\ worker' = [worker EXCEPT ![w].pc = "contract", ![w].bad = DifferingAt(w, worker[w].todo)]
    /\ UNCHANGED <<chainVars, tableVars, sweepCp, exceptions, faults>>

\* The stages that follow read the references R to compare.
ReadStage(w, pc, R, next) ==
    /\ At(w, pc) /\ Free(w)
    /\ worker' = [worker EXCEPT ![w].pc = next, ![w].todo = R, ![w].bad = DifferingAt(w, R)]
    /\ UNCHANGED <<chainVars, tableVars, sweepCp, exceptions, faults>>

ReadContract(w) == ReadStage(w, "contract", ContractRefs, "employers")

\* A second loop over the first list.
ListEmployersAgain(w) == ReadStage(w, "employees", StateRefs(Listed(Employers)), "advance")

ListEmployers(w) == ReadStage(w, "employers", StateRefs(Listed(Employers)), "employees")
ListEmployees(w) == ReadStage(w, "employees", StateRefs(Listed(Employees)), "advance")

OpenOf(r) == {x \in exceptions : x.ref = r}

\* Ids grow; of the ids in use only the order matters.
NextId(r) ==
    LET held == UNION {worker[w].fixing : w \in Reconcilers}
    IN  1 + Max({0} \cup {x.id : x \in OpenOf(r) \cup {y \in held : y.ref = r}})

\* A lookup that finds nothing.
NeverOpen(r) == {}

\* ORDER BY id DESC LIMIT 1
GetOpenException(r) == {x \in OpenOf(r) : \A y \in OpenOf(r) : y.id <= x.id}

\* A mismatch is to be recorded if none is open, a match resolves what is open; a
\* failed lookup ends the pass in the first case and is dropped in the second.
LookUp(w, r) ==
    LET found == GetOpenException(r)
        bad == r \in worker[w].bad
    IN  /\ r \in worker[w].todo /\ ~ At(w, "balances")
        /\ worker[w].adding = {} /\ worker[w].fixing = {}
        /\ \/ /\ worker' = [worker EXCEPT ![w].todo = @ \ {r}, ![w].bad = @ \ {r},
                                          ![w].adding = IF bad /\ found = {} THEN {r} ELSE {},
                                          ![w].fixing = IF bad THEN {} ELSE found]
              /\ UNCHANGED faults
           \/ /\ ~ bad /\ faults < MaxFaults /\ faults' = faults + 1
              /\ worker' = [worker EXCEPT ![w].todo = @ \ {r}]
        /\ UNCHANGED <<chainVars, tableVars, sweepCp, exceptions>>

\* A statement of its own; the reply may be lost, which ends the pass.
CreateException(w, r) ==
    /\ r \in worker[w].adding
    /\ exceptions' = exceptions \cup {[ref |-> r, id |-> NextId(r)]}
    /\ \/ worker' = [worker EXCEPT ![w].adding = {}] /\ UNCHANGED faults
       \/ worker' = [worker EXCEPT ![w] = Idle] /\ faults < MaxFaults /\ faults' = faults + 1
    /\ UNCHANGED <<chainVars, tableVars, sweepCp>>

\* By id, if it is still open; an error is dropped.
ResolveException(w, x) ==
    /\ x \in worker[w].fixing
    /\ worker' = [worker EXCEPT ![w].fixing = {}]
    /\ \/ exceptions' = exceptions \ {x} /\ UNCHANGED faults
       \/ UNCHANGED exceptions /\ faults < MaxFaults /\ faults' = faults + 1
    /\ UNCHANGED <<chainVars, tableVars, sweepCp>>

\* A cursor that is saved whether the pass got ahead of it or not.
AdvanceAlways(w) ==
    /\ At(w, "advance") /\ Free(w)
    /\ sweepCp' = IF w \in Sweepers THEN worker[w].target ELSE sweepCp
    /\ worker' = [worker EXCEPT ![w] = Idle]
    /\ UNCHANGED <<chainVars, tableVars, exceptions, faults>>

\* ReconcileNextBatch saves the block if it is ahead of the cursor it has read; what another
\* sweep has saved since then is overwritten.
FinishPass(w) ==
    /\ At(w, "advance") /\ Free(w)
    /\ sweepCp' = IF w \in Sweepers /\ worker[w].target > worker[w].last
                  THEN worker[w].target ELSE sweepCp
    /\ worker' = [worker EXCEPT ![w] = Idle]
    /\ UNCHANGED <<chainVars, tableVars, exceptions, faults>>

\* Any other RPC or database error ends the pass, as does a crash.
PassFails(w) ==
    /\ ~ At(w, "idle")
    /\ faults < MaxFaults
    /\ faults' = faults + 1
    /\ worker' = [worker EXCEPT ![w] = Idle]
    /\ UNCHANGED <<chainVars, tableVars, sweepCp, exceptions>>

Pass(w) ==
    \/ ChooseWindowBlock(w) \/ ReadCursor(w) \/ ClampToFinal(w) \/ ClampToIndexed(w)
    \/ ReadAddresses(w) \/ ReadBalances(w) \/ ReadContract(w) \/ ListEmployers(w) \/ ListEmployees(w)
    \/ \E r \in Refs : LookUp(w, r) \/ CreateException(w, r)
    \/ \E x \in worker[w].fixing : ResolveException(w, x)
    \/ FinishPass(w)

Next ==
    \/ \E S \in SUBSET Transfers, M, N \in SUBSET Members : Mine(S, M, N)
    \/ \E b \in Blocks : SaveTokenBatch(b) \/ IndexPayroll(b)
    \/ \E t \in Transfers : Drift(t)
    \/ \E m \in Members : Tamper(m)
    \/ ClearCheckpoint
    \/ \E w \in Reconcilers : Pass(w) \/ PassFails(w)

Spec == Init /\ [][Next]_vars

\* The recent-window loop runs on a ticker; the other passes are not counted on.
FairSpec == Spec /\ \A w \in Loops : WF_vars(Pass(w))

---------------------------------------------------------------------------
(* Properties *)

Exceptions == [ref : Refs, id : Nat]
WorkerState ==
    [pc : {"idle", "head", "lag", "addresses", "balances", "contract", "employers", "employees",
           "advance"},
     last : Nat, target : Nat, blind : BOOLEAN,
     todo : SUBSET Refs, bad : SUBSET Refs, adding : SUBSET Refs,
     fixing : SUBSET Exceptions]

\* Every variable stays in its domain.
TypeOK ==
    /\ {head, indexed} \subseteq Nat
    /\ where \in [Transfers -> Nat \cup {NoBlock}]
    /\ {flips, named} \subseteq [Members -> SUBSET Nat]
    /\ row \in [Transfers -> {"absent", "stored", "removed"}]
    /\ {cp, sweepCp} \subseteq Nat \cup {NoBlock}
    /\ exceptions \in SUBSET Exceptions
    /\ tampered \subseteq Members /\ altered \subseteq Transfers
    /\ faults \in 0 .. MaxFaults
    /\ worker \in [Reconcilers -> WorkerState]

\* Indexing lag is not reported as a wrong balance, however passes, indexers and cleared
\* checkpoints interleave: what a pass is about to report is a wallet with a transfer, up to
\* the audited block, whose row was altered.  A pass that found no checkpoint takes the
\* start block for indexed: it may also report a party to a transfer of that one block.
BalanceAlarmsAreReal ==
    \A w \in Reconcilers : \A r \in worker[w].adding :
        r.kind # "state" =>
            \/ r.who \in Parties(altered \cap OnChain(worker[w].target))
            \/ worker[w].blind /\ r.who \in Parties(OnChain(StartBlock))

\* The sweep's cursor passes no block the token stream had not stored, though a pass takes
\* the start block for indexed without a checkpoint, that checkpoint is cleared and rebuilt
\* between two passes, and sweeps that race write older blocks over the cursor.
SweptIsIndexed ==
    \A t \in Transfers : where[t] \in 0 .. sweepCp => row[t] = "stored" \/ t \in altered

\* Looking up and inserting are two statements, so racing passes open an exception
\* twice; but each adds at most one to those that are open.
OpenAtMostOncePerReconciler == \A r \in Refs : Cardinality(OpenOf(r)) <= Cardinality(Reconcilers)

\* The references a pass of the window loop compares.
Audited(r) ==
    CASE r.kind = "token" -> r.who \in GetRelevantAddresses(WindowBlock)
      [] r.kind = "contract" -> TRUE
      [] r.kind = "state" -> r.who \in Listed(Members)

\* The window loop can reach the block it asks for.
Reachable == cp >= WindowBlock /\ WindowBlock \in StartBlock .. SafeTarget

\* The blocks that the next passes audit.
NextAudited ==
    {WindowBlock} \cup {Min({LastSwept + BatchSize, SafeTarget, cp}) : w \in Sweepers}
        \cup UNION {StartBlock .. SafeTarget : w \in Auditors}

Wrong(r) == Reachable /\ Audited(r) /\ \A b \in NextAudited : Differs(r, b)
Right(r) == Reachable /\ Audited(r) /\ \A b \in NextAudited : ~ Differs(r, b)

\* The exceptions settle on the truth, though passes at different blocks race, errors of
\* a resolution are dropped and a pass resolves one open exception of a reference: what
\* stays wrong at the blocks the next passes audit ends up reported for good, what stays
\* right there ends up without open exception, whatever passes at older blocks have found.
ExceptionsSettle ==
    \A r \in Refs : /\ <>[]Wrong(r) => <>[](OpenOf(r) # {})
                    /\ <>[]Right(r) => <>[](OpenOf(r) = {})

=============================================================================
