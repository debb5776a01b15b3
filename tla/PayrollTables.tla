--------------------------- MODULE PayrollTables ---------------------------
(***************************************************************************)
(* The tables of the payroll stream and the SQL statements that write      *)
(* them.  A block holds at most one MonthlyPayroll event, so the block     *)
(* number stands for the log, its transaction and its timestamp; removed   *)
(* stands for removed_at and deactivation_time, terms for the event that   *)
(* set salary_per_second and allocation, latest for latest_tx_hash.        *)
(* NoBlock is SQL's NULL, and latest = NoBlock that there is no row.       *)
(***************************************************************************)
EXTENDS ChainBlocks, Sequences

CONSTANTS Employers, Employees,
          ZeroAddress,  \* placeholder employer of employees first seen in a claim
          MaxBlock      \* bound: the last confirmed block

ASSUME PayrollAssumption ==
    /\ ZeroAddress \notin Employers
    /\ MaxBlock \in Nat

OfEmployer == {"EmployerAdded", "EmployerRemoved"}
OfBoth == {"EmployeeAdded", "EmployeeRemoved", "PayrollFunded"}
Nothing == [kind |-> "none"]
Events ==
    [kind : OfEmployer, employer : Employers]
    \cup [kind : OfBoth, employer : Employers, employee : Employees]
    \cup [kind : {"SalaryClaimed"}, employee : Employees]
    \cup {[kind |-> "OwnershipTransferred"], Nothing}

BlockOrNull == {NoBlock} \cup 0 .. MaxBlock
EmployerRow == [active : BOOLEAN, added : BlockOrNull, removed : BlockOrNull,
                latest : BlockOrNull]
EmployeeRow == [employer : Employers \cup {ZeroAddress}, terms : BlockOrNull,
                active : BOOLEAN, added : BlockOrNull, removed : BlockOrNull,
                withdrawn : BlockOrNull, latest : BlockOrNull]
Tables == [transactions : SUBSET (0 .. MaxBlock), chain_events : SUBSET (0 .. MaxBlock),
           employers : [Employers \cup {ZeroAddress} -> EmployerRow],
           employees : [Employees -> EmployeeRow],
           fundings : SUBSET (0 .. MaxBlock), claims : SUBSET (0 .. MaxBlock)]

NoEmployer == [active |-> FALSE, added |-> NoBlock, removed |-> NoBlock, latest |-> NoBlock]
NoEmployee == [employer |-> ZeroAddress, terms |-> NoBlock, active |-> FALSE,
               added |-> NoBlock, removed |-> NoBlock, withdrawn |-> NoBlock,
               latest |-> NoBlock]
EmptyTables ==
    [transactions |-> {}, chain_events |-> {},
     employers |-> [e \in Employers \cup {ZeroAddress} |-> NoEmployer],
     employees |-> [w \in Employees |-> NoEmployee],
     fundings |-> {}, claims |-> {}]

Exists(r) == r.latest # NoBlock
Coalesce(old, new) == IF old # NoBlock THEN old ELSE new

-----------------------------------------------------------------------------
\* Upserts of one row by the event of block b.

AddEmployer(r, b) ==
    [r EXCEPT !.active = TRUE, !.added = Coalesce(@, b), !.latest = b]

RemoveEmployer(r, b) == [r EXCEPT !.active = FALSE, !.removed = b, !.latest = b]

\* Ensuring an employer by an upsert instead of DO NOTHING.
UpsertEmployer(r, b) == AddEmployer(r, b)

EnsureEmployer(r, b) == IF Exists(r) THEN r ELSE AddEmployer(r, b)

AddEmployee(r, e, b) ==
    [r EXCEPT !.employer = e, !.terms = b, !.active = TRUE,
              !.added = Coalesce(@, b), !.latest = b]

RemoveEmployee(r, e, b) ==
    [r EXCEPT !.employer = IF Exists(r) THEN @ ELSE e, !.active = FALSE,
              !.removed = b, !.latest = b]

EnsureEmployee(r, e, b) ==
    IF Exists(r) THEN r
    ELSE [r EXCEPT !.employer = e, !.active = TRUE, !.added = b, !.latest = b]

\* An UPDATE: it touches no row of an unknown employee.
UpdateWithdraw(r, b) == IF Exists(r) THEN [r EXCEPT !.withdrawn = b, !.latest = b] ELSE r

-----------------------------------------------------------------------------
\* Statements: what IndexRange executes for the event of one block, in order.
\* Each commits on its own.

Projection(e) ==
    CASE e.kind = "EmployerAdded"   -> <<"employerAdded">>
      [] e.kind = "EmployerRemoved" -> <<"employerRemoved">>
      [] e.kind = "EmployeeAdded"   -> <<"ensureEmployer", "employeeAdded">>
      [] e.kind = "EmployeeRemoved" -> <<"ensureEmployer", "employeeRemoved">>
      [] e.kind = "PayrollFunded"   -> <<"ensureEmployer", "ensureEmployee", "funding">>
      [] e.kind = "SalaryClaimed"   -> <<"findEmployee", "claim", "lastWithdraw">>
      [] OTHER                      -> <<>>

\* A statement and the log it is executed for; after which events it occurs.
Statement ==
    LET After(kinds) == {e \in Events : e.kind \in kinds}
        Of(names, events) == [do : names, blk : 1 .. MaxBlock, event : events]
    IN  Of({"transaction", "chainEvent"}, Events \ {Nothing})
        \cup Of({"employerAdded"}, After({"EmployerAdded"}))
        \cup Of({"employerRemoved"}, After({"EmployerRemoved"}))
        \cup Of({"ensureEmployer"}, After(OfBoth))
        \cup Of({"employeeAdded"}, After({"EmployeeAdded"}))
        \cup Of({"employeeRemoved"}, After({"EmployeeRemoved"}))
        \cup Of({"ensureEmployee", "funding"}, After({"PayrollFunded"}))
        \cup Of({"findEmployee", "zeroEmployer", "zeroEmployee", "claim", "lastWithdraw"},
                After({"SalaryClaimed"}))

Statements(e, b) ==
    IF e = Nothing THEN <<>>
    ELSE LET names == <<"transaction", "chainEvent">> \o Projection(e)
         IN  [i \in DOMAIN names |-> [do |-> names[i], blk |-> b, event |-> e]]

\* What saveSalaryClaimed inserts for an employee it does not find.
Placeholders(s) == <<[s EXCEPT !.do = "zeroEmployer"], [s EXCEPT !.do = "zeroEmployee"]>>

\* Statements whose error the code discards.
Ignored == {"zeroEmployer", "zeroEmployee", "lastWithdraw"}

\* The foreign keys an earlier discarded error can leave unsatisfied; the other
\* ones are satisfied by statements whose errors end the attempt.
Satisfied(t, s) ==
    /\ s.do = "zeroEmployee" => Exists(t.employers[ZeroAddress])
    /\ s.do = "claim" => Exists(t.employees[s.event.employee])

\* The tables after statement s.
Execute(t, s) ==
    LET b == s.blk  e == s.event IN
    CASE s.do = "transaction"     -> [t EXCEPT !.transactions = @ \cup {b}]
      [] s.do = "chainEvent"      -> [t EXCEPT !.chain_events = @ \cup {b}]
      [] s.do = "funding"         -> [t EXCEPT !.fundings = @ \cup {b}]
      [] s.do = "claim"           -> [t EXCEPT !.claims = @ \cup {b}]
      [] s.do = "employerAdded"   -> [t EXCEPT !.employers[e.employer] = AddEmployer(@, b)]
      [] s.do = "employerRemoved" -> [t EXCEPT !.employers[e.employer] = RemoveEmployer(@, b)]
      [] s.do = "ensureEmployer"  -> [t EXCEPT !.employers[e.employer] = EnsureEmployer(@, b)]
      [] s.do = "zeroEmployer"    -> [t EXCEPT !.employers[ZeroAddress] = EnsureEmployer(@, b)]
      [] s.do = "employeeAdded"   ->
            [t EXCEPT !.employees[e.employee] = AddEmployee(@, e.employer, b)]
      [] s.do = "employeeRemoved" ->
            [t EXCEPT !.employees[e.employee] = RemoveEmployee(@, e.employer, b)]
      [] s.do = "ensureEmployee"  ->
            [t EXCEPT !.employees[e.employee] = EnsureEmployee(@, e.employer, b)]
      [] s.do = "zeroEmployee"    ->
            [t EXCEPT !.employees[e.employee] = EnsureEmployee(@, ZeroAddress, b)]
      [] s.do = "lastWithdraw"    ->
            [t EXCEPT !.employees[e.employee] = UpdateWithdraw(@, b)]

=============================================================================
