---------------------------- MODULE PayrollIndex ----------------------------
(***************************************************************************)
(* The MonthlyPayroll stream: processes that poll up to the confirmed head *)
(* and write, statement by statement, each committed on its own, then the  *)
(* checkpoint.  The chain appears up to the confirmed head only, so what   *)
(* is in it never changes.                                                 *)
(***************************************************************************)
EXTENDS PayrollTables, FiniteSetsExt

CONSTANTS
    Kinds,             \* the kinds of event that occur
    Monitors,          \* live monitors
    Backfills,         \* one-shot backfill processes
    StartBlock,
    BatchSize,
    MaxBatchesPerPoll,
    MaxRetries,
    MaxFaults          \* bound: RPC and SQL errors plus process crashes

ASSUME IndexerAssumption ==
    /\ Monitors \cap Backfills = {}
    /\ StartBlock \in 1 .. MaxBlock
    /\ BatchSize \in Nat \ {0}
    /\ MaxBatchesPerPoll \in Nat \ {0}
    /\ MaxRetries \in Nat \ {0}
    /\ MaxFaults \in Nat

VARIABLES
    chain,    \* chain[b]: the event of confirmed block b
    tables,
    cp,       \* last_indexed_block of the payroll stream, or NoBlock
    indexer,  \* indexer[p]: the position of process p in its loop
    faults

vars == <<chain, tables, cp, indexer, faults>>

Indexers == Monitors \cup Backfills

\* next is the next block whose log the loop over the logs of from .. to takes,
\* todo what is left to do for the log it took last.
AtRest == [pc |-> "idle", safe |-> 0, from |-> 0, to |-> 0, batches |-> 0,
           attempt |-> 0, next |-> 0, todo |-> <<>>]

IndexerState ==
    [pc : {"idle", "resolve", "getlogs", "write"}, safe : Nat, from : Nat, to : Nat,
     batches : Nat, attempt : 0 .. MaxRetries, next : Nat, todo : Seq(Statement)]

TypeOK ==
    /\ chain \in Seq(Events) /\ Len(chain) <= MaxBlock
    /\ tables \in Tables
    /\ cp \in BlockOrNull
    /\ faults \in 0 .. MaxFaults
    /\ indexer \in [Indexers -> IndexerState]
    /\ \A p \in Indexers : indexer[p].to <= indexer[p].safe /\ indexer[p].safe <= Len(chain)

Init ==
    /\ chain = <<>>
    /\ tables = EmptyTables
    /\ cp = NoBlock
    /\ indexer = [p \in Indexers |-> AtRest]
    /\ faults = 0

Fault == faults < MaxFaults /\ faults' = faults + 1
Become(p, s) == indexer' = [indexer EXCEPT ![p] = s]

BeginBatch(s, from) ==
    [s EXCEPT !.pc = "getlogs", !.from = from, !.to = BatchEnd(from, BatchSize, s.safe),
              !.attempt = 1, !.todo = <<>>]

\* What RetryRange does with a failed attempt, without and with its limit.
AfterFailureUnlimited(s) ==
    {AtRest, [s EXCEPT !.pc = "getlogs", !.attempt = @ + 1, !.todo = <<>>]}
AfterFailure(s) ==
    {AtRest} \cup
    IF s.attempt < MaxRetries
    THEN {[s EXCEPT !.pc = "getlogs", !.attempt = @ + 1, !.todo = <<>>]}
    ELSE {}

\* A checkpoint that moves only when its batch has events.
CheckpointIfEvents(s) == IF \E b \in s.from .. s.to : chain[b] # Nothing THEN s.to ELSE cp
CheckpointAfter(s) == s.to

\* After a saved checkpoint: the next batch, or the end of the poll.
AfterCheckpoint(p) ==
    LET s == [indexer[p] EXCEPT !.batches = @ + 1]
    IN  IF s.to < s.safe /\ (p \in Monitors => s.batches < MaxBatchesPerPoll)
        THEN BeginBatch(s, s.to + 1)
        ELSE AtRest

-----------------------------------------------------------------------------
\* One more block has enough confirmations.
Confirm(e) ==
    /\ Len(chain) < MaxBlock
    /\ chain' = Append(chain, e)
    /\ UNCHANGED <<tables, cp, indexer, faults>>

PollOnce(p) ==
    /\ indexer[p].pc = "idle"
    /\ Become(p, [AtRest EXCEPT !.pc = "resolve", !.safe = Len(chain)])
    /\ UNCHANGED <<chain, tables, cp, faults>>

PollPayroll(p) ==
    LET s == indexer[p]
        from == CalculateNextBlock(cp, StartBlock)
    IN  /\ s.pc = "resolve"
        /\ Become(p, IF from > s.safe THEN AtRest ELSE BeginBatch(s, from))
        /\ UNCHANGED <<chain, tables, cp, faults>>

\* The logs of the batch; what is confirmed does not change, so the loop over them
\* reads the chain itself.
GetLogs(p) ==
    LET s == indexer[p] IN
    /\ s.pc = "getlogs"
    /\ Become(p, [s EXCEPT !.pc = "write", !.next = s.from])
    /\ UNCHANGED <<chain, tables, cp, faults>>

\* The loop takes the next log.
TakeLog(p) ==
    LET s == indexer[p] IN
    /\ s.pc = "write" /\ s.todo = <<>> /\ s.next <= s.to
    /\ Become(p, [s EXCEPT !.next = @ + 1, !.todo = Statements(chain[s.next], s.next)])
    /\ UNCHANGED <<chain, tables, cp, faults>>

\* A statement commits; when its reply is lost the attempt fails all the same.
ExecuteStatement(p) ==
    LET s == indexer[p]  st == Head(s.todo) IN
    /\ s.pc = "write" /\ s.todo # <<>>
    /\ st.do # "findEmployee"
    /\ Satisfied(tables, st)
    /\ tables' = Execute(tables, st)
    /\ \/ /\ Become(p, [s EXCEPT !.todo = Tail(@)])
          /\ UNCHANGED faults
       \/ /\ st.do \notin Ignored
          /\ Fault
          /\ \E s1 \in AfterFailure(s) : Become(p, s1)
    /\ UNCHANGED <<chain, cp>>

\* SELECT EXISTS: when it errs the employee is taken for missing.
FindEmployee(p) ==
    LET s == indexer[p]  st == Head(s.todo) IN
    /\ s.pc = "write" /\ s.todo # <<>>
    /\ st.do = "findEmployee"
    /\ \/ /\ Exists(tables.employees[st.event.employee])
          /\ Become(p, [s EXCEPT !.todo = Tail(@)])
          /\ UNCHANGED faults
       \/ /\ IF Exists(tables.employees[st.event.employee]) THEN Fault ELSE UNCHANGED faults
          /\ Become(p, [s EXCEPT !.todo = Placeholders(st) \o Tail(@)])
    /\ UNCHANGED <<chain, tables, cp>>

\* A statement fails, by an error or by a foreign key; so does an attempt whose
\* RPC request for the log's transaction or timestamp fails.
StatementFails(p) ==
    LET s == indexer[p]  st == Head(s.todo) IN
    /\ s.pc = "write" /\ s.todo # <<>>
    /\ st.do # "findEmployee"
    /\ IF Satisfied(tables, st) THEN Fault ELSE UNCHANGED faults
    /\ IF st.do \in Ignored
       THEN Become(p, [s EXCEPT !.todo = Tail(@)])
       ELSE \E s1 \in AfterFailure(s) : Become(p, s1)
    /\ UNCHANGED <<chain, tables, cp>>

GetLogsFails(p) ==
    /\ indexer[p].pc = "getlogs"
    /\ Fault
    /\ \E s1 \in AfterFailure(indexer[p]) : Become(p, s1)
    /\ UNCHANGED <<chain, tables, cp>>

\* All logs are written: fetch the header and upsert the checkpoint.
SaveCheckpoint(p) ==
    LET s == indexer[p] IN
    /\ s.pc = "write" /\ s.todo = <<>> /\ s.next > s.to
    /\ cp' = CheckpointAfter(s)
    /\ Become(p, AfterCheckpoint(p))
    /\ UNCHANGED <<chain, tables, faults>>

\* The header or the checkpoint errs, its effect done or not: the poll ends
\* without a retry.
CheckpointFails(p) ==
    LET s == indexer[p] IN
    /\ s.pc = "write" /\ s.todo = <<>> /\ s.next > s.to
    /\ Fault
    /\ cp' \in {cp, s.to}
    /\ Become(p, AtRest)
    /\ UNCHANGED <<chain, tables>>

\* The checkpoint cannot be read, or the process dies.
Crash(p) ==
    /\ indexer[p].pc # "idle"
    /\ Fault
    /\ Become(p, AtRest)
    /\ UNCHANGED <<chain, tables, cp>>

IndexStep(p) ==
    \/ PollOnce(p) \/ PollPayroll(p) \/ GetLogs(p) \/ TakeLog(p)
    \/ ExecuteStatement(p) \/ FindEmployee(p) \/ StatementFails(p)
    \/ SaveCheckpoint(p)

Next ==
    \/ \E e \in {e \in Events : e.kind \in Kinds} : Confirm(e)
    \/ \E p \in Indexers :
           IndexStep(p) \/ GetLogsFails(p) \/ CheckpointFails(p) \/ Crash(p)

Spec == Init /\ [][Next]_vars

(***************************************************************************)
(* The live monitor's ticker fires for ever and the monitor is restarted.  *)
(***************************************************************************)
FairSpec == Spec /\ \A p \in Monitors : WF_vars(IndexStep(p))

-----------------------------------------------------------------------------
(***************************************************************************)
(* What the chain says, up to block c, of the employers and employees.     *)
(***************************************************************************)

Happened(c) == {b \in StartBlock .. c : b \in DOMAIN chain /\ chain[b] # Nothing}
OfKind(c, kind) == {b \in Happened(c) : chain[b].kind = kind}
Naming(c, e) == {b \in Happened(c) : chain[b].kind \in OfEmployer \cup OfBoth /\ chain[b].employer = e}
Concerning(c, w) == {b \in Happened(c) : chain[b].kind \in OfBoth \cup {"SalaryClaimed"}
                                           /\ chain[b].employee = w}
Latest(S) == Max(S \cup {NoBlock})

\* Block b's event is stored, projections that are rows of their own included.
Recorded(b) ==
    /\ b \in tables.transactions \cap tables.chain_events
    /\ chain[b].kind = "PayrollFunded" => b \in tables.fundings
    /\ chain[b].kind = "SalaryClaimed" => b \in tables.claims

EmployersAreProjected(c) ==
    \A e \in Employers :
        LET adds == OfKind(c, "EmployerAdded") \cap Naming(c, e)
            removals == OfKind(c, "EmployerRemoved") \cap Naming(c, e)
            r == tables.employers[e]
        IN  /\ Exists(r) <=> Naming(c, e) # {}
            /\ Exists(r) => /\ r.active <=> Latest(removals) <= Latest(adds)
                            /\ r.removed = Latest(removals)

EmployeesAreProjected(c) ==
    \A w \in Employees :
        LET adds == OfKind(c, "EmployeeAdded") \cap Concerning(c, w)
            removals == OfKind(c, "EmployeeRemoved") \cap Concerning(c, w)
            r == tables.employees[w]
        IN  /\ Exists(r) <=> Concerning(c, w) # {}
            /\ Exists(r) => /\ r.active <=> Latest(removals) <= Latest(adds)
                            /\ r.removed = Latest(removals)
                            /\ r.terms = Latest(adds)
                            /\ adds # {} => r.employer = chain[Latest(adds)].employer

\* Whenever no log beyond the checkpoint has been touched, the tables say what
\* the chain says up to the checkpoint.  Partial batches, retries that replay
\* older events over newer ones, lost replies and crashes leave no trace.
ProjectionConverges ==
    tables.transactions \subseteq 0 .. cp =>
        /\ \A b \in Happened(cp) : Recorded(b)
        /\ EmployersAreProjected(cp)
        /\ EmployeesAreProjected(cp)

\* The checkpoint covers: the events up to it are stored, with the rows of their own,
\* also while batches are half written and after replies that were lost.
StoredUpToCheckpoint == \A b \in Happened(cp) : Recorded(b)

\* The payroll stream is a checkpointed stream, although its checkpoint is a
\* statement of its own: it only follows the statements of its batch.
Stream == INSTANCE CheckpointedStream
              WITH Logs <- 1 .. MaxBlock, ConfirmationDepth <- 0, head <- Len(chain),
                   where <- [b \in 1 .. MaxBlock |->
                                IF b \in DOMAIN chain /\ chain[b] # Nothing THEN b ELSE NoBlock],
                   done <- {b \in DOMAIN chain : Recorded(b)}

ImplementsStream == Stream!Spec

\* Every confirmed block is eventually checkpointed, also past batches that
\* fail half way and claims whose placeholder insert was lost.
EveryBlockIsCheckpointed ==
    \A b \in StartBlock .. MaxBlock : (b <= Len(chain)) ~> (cp >= b)

-----------------------------------------------------------------------------
(***************************************************************************)
(* The inductive invariants.  First what holds for any number of           *)
(* processes: what each has recorded of its batch, whatever the other ones *)
(* do.                                                                     *)
(***************************************************************************)

InBatch(s) == s.pc \in {"getlogs", "write"}
Covered(c) == \A b \in Happened(c) : Recorded(b)

\* The current attempt of s has executed the statement of block b.
Passed(s, b, do) ==
    /\ s.pc = "write" /\ b \in s.from .. s.next - 1
    /\ b = s.next - 1 => \A i \in DOMAIN s.todo : s.todo[i].do # do

\* Only confirmed events are in the tables, and the checkpoint covers.
TablesInv ==
    /\ \A b \in tables.transactions : b \in DOMAIN chain /\ b >= StartBlock /\ chain[b] # Nothing
    /\ cp # NoBlock => StartBlock <= cp /\ cp <= Len(chain)
    /\ Covered(cp)

\* A batch is confirmed and resumes where all is covered, the statements are those
\* of the log taken last, and what the attempt has passed is recorded.
BatchInv(s) ==
    /\ s.to <= s.safe /\ s.safe <= Len(chain)
    /\ InBatch(s) => /\ StartBlock <= s.from /\ s.from <= s.to
                     /\ s.to = BatchEnd(s.from, BatchSize, s.safe)
                     /\ Covered(s.from - 1)
    /\ s.pc # "write" => s.todo = <<>>
    /\ s.pc = "write" =>
           /\ s.from <= s.next /\ s.next <= s.to + 1
           /\ s.todo # <<>> => s.from < s.next
           /\ \A i \in DOMAIN s.todo : /\ s.todo[i].blk = s.next - 1
                                       /\ s.todo[i].event = chain[s.next - 1]
                                       /\ s.todo[i].do = "transaction" => i = 1
    /\ \A b \in Happened(Len(chain)) :
           /\ Passed(s, b, "transaction") => b \in tables.transactions
           /\ Passed(s, b, "chainEvent") => b \in tables.chain_events
           /\ chain[b].kind = "PayrollFunded" /\ Passed(s, b, "funding") => b \in tables.fundings
           /\ chain[b].kind = "SalaryClaimed" /\ Passed(s, b, "claim") => b \in tables.claims

IInv == TypeOK /\ TablesInv /\ \A p \in Indexers : BatchInv(indexer[p])

(***************************************************************************)
(* With a single process nothing but the statements of its own earlier     *)
(* attempts lies beyond the checkpoint, and a row never falls behind the   *)
(* statements that are secured: those up to the checkpoint and those the   *)
(* current attempt has passed.                                             *)
(***************************************************************************)

OneIndexer == \E p \in Indexers : Indexers = {p}

Base == IF cp = NoBlock THEN StartBlock - 1 ELSE cp
Secured(s, b, do) == b <= Base \/ Passed(s, b, do)

\* A batch begins right behind the checkpoint: nobody else has moved it.
BatchAtBase(s) == InBatch(s) => s.from = Base + 1

\* x is one of the touched blocks S, or none, and none of S is secured after it.
LatestOf(s, x, S, do) ==
    /\ x \in {NoBlock} \cup (S \cap tables.transactions)
    /\ \A b \in S : Secured(s, b, do) => b <= x

\* The flag tells whether the last of the statements on and off was not an off.
SwitchedBy(s, flag, ons, on, offs, off) ==
    \E x \in {NoBlock} \cup ((ons \cup offs) \cap tables.transactions) :
        /\ flag <=> x \notin offs
        /\ \A b \in ons : Secured(s, b, on) => b <= x
        /\ \A b \in offs : Secured(s, b, off) => b <= x

\* The statement that leaves a row for the employer, and for the employee.
EmployerStatement(kind) ==
    CASE kind = "EmployerAdded"   -> "employerAdded"
      [] kind = "EmployerRemoved" -> "employerRemoved"
      [] OTHER                    -> "ensureEmployer"
EmployeeStatement(kind) ==
    CASE kind = "EmployeeAdded"   -> "employeeAdded"
      [] kind = "EmployeeRemoved" -> "employeeRemoved"
      [] kind = "PayrollFunded"   -> "ensureEmployee"
      [] OTHER                    -> "claim"

EmployerInv(s, e) ==
    LET r == tables.employers[e]
        named == Naming(Len(chain), e)
        adds == OfKind(Len(chain), "EmployerAdded") \cap named
        removals == OfKind(Len(chain), "EmployerRemoved") \cap named
    IN  /\ \A b \in named : Secured(s, b, EmployerStatement(chain[b].kind)) => Exists(r)
        /\ Exists(r) => named \cap tables.transactions # {}
        /\ LatestOf(s, r.removed, removals, "employerRemoved")
        /\ Exists(r) => SwitchedBy(s, r.active, adds, "employerAdded",
                                   removals, "employerRemoved")

EmployeeInv(s, w) ==
    LET r == tables.employees[w]
        about == Concerning(Len(chain), w)
        adds == OfKind(Len(chain), "EmployeeAdded") \cap about
        removals == OfKind(Len(chain), "EmployeeRemoved") \cap about
    IN  /\ \A b \in about : Secured(s, b, EmployeeStatement(chain[b].kind)) => Exists(r)
        /\ Exists(r) => about \cap tables.transactions # {}
        /\ LatestOf(s, r.removed, removals, "employeeRemoved")
        /\ LatestOf(s, r.terms, adds, "employeeAdded")
        /\ r.terms # NoBlock => Exists(r) /\ r.employer = chain[r.terms].employer
        /\ Exists(r) => SwitchedBy(s, r.active, adds, "employeeAdded",
                                   removals, "employeeRemoved")

SoloInv ==
    /\ IInv
    /\ \A p \in Indexers :
           /\ BatchAtBase(indexer[p])
           /\ \A e \in Employers : EmployerInv(indexer[p], e)
           /\ \A w \in Employees : EmployeeInv(indexer[p], w)

-----------------------------------------------------------------------------
(***************************************************************************)
(* What the documents say and the code does not do.                        *)
(***************************************************************************)

Quiet == \A p \in Indexers : indexer[p].pc = "idle"

\* Replays are safe (ProjectPayrollEvent: "All writes are idempotent to support
\* safe replays") also for a backfill that replays what the live monitor has
\* passed: once both rest, the projections are right.  The last writer wins.
ReplayIsSafe == Quiet => ProjectionConverges

=============================================================================
