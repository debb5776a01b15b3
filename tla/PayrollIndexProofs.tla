------------------------- MODULE PayrollIndexProofs -------------------------
(***************************************************************************)
(* Proofs about PayrollIndex for every number of employers, employees,     *)
(* processes, blocks, retries and faults.                                  *)
(***************************************************************************)
EXTENDS PayrollIndex, SequenceTheorems, WellFoundedInduction, TLAPS

-----------------------------------------------------------------------------
(***************************************************************************)
(* Events and statements.                                                  *)
(***************************************************************************)

\* The parties an event names.
LEMMA EventFields ==
    ASSUME NEW e \in Events
    PROVE  /\ e.kind \in OfEmployer \cup OfBoth => e.employer \in Employers
           /\ e.kind \in OfBoth \cup {"SalaryClaimed"} => e.employee \in Employees
           /\ e.kind \in OfEmployer \cup OfBoth
                         \cup {"SalaryClaimed", "OwnershipTransferred", "none"}
           /\ e = Nothing <=> e.kind = "none"
  BY DEF Events, OfEmployer, OfBoth, Nothing

\* The statements there are.
Names == {"transaction", "chainEvent", "employerAdded", "employerRemoved", "ensureEmployer",
          "employeeAdded", "employeeRemoved", "ensureEmployee", "funding", "findEmployee",
          "zeroEmployer", "zeroEmployee", "claim", "lastWithdraw"}

\* What a statement is about.
LEMMA StatementFields ==
    ASSUME NEW st \in Statement
    PROVE  /\ st.do \in Names
           /\ st.blk \in 1 .. MaxBlock
           /\ st.event \in Events \ {Nothing}
           /\ st.do = "employerAdded" => st.event.kind = "EmployerAdded"
           /\ st.do = "employerRemoved" => st.event.kind = "EmployerRemoved"
           /\ st.do = "ensureEmployer" => st.event.kind \in OfBoth
           /\ st.do = "employeeAdded" => st.event.kind = "EmployeeAdded"
           /\ st.do = "employeeRemoved" => st.event.kind = "EmployeeRemoved"
           /\ st.do \in {"ensureEmployee", "funding"} => st.event.kind = "PayrollFunded"
           /\ st.do \in {"findEmployee", "zeroEmployer", "zeroEmployee", "claim",
                         "lastWithdraw"} => st.event.kind = "SalaryClaimed"
  BY DEF Statement, Nothing, OfBoth, Names

\* The statements of an event after the first two.
Tasks(e) == {Projection(e)[i] : i \in DOMAIN Projection(e)}

\* The statements of a projection are well formed.
LEMMA ProjectionType ==
    ASSUME NEW e \in Events
    PROVE  /\ Projection(e) \in Seq(Names \ {"transaction"})
           /\ \A do \in Tasks(e), b \in 1 .. MaxBlock :
                  e # Nothing => [do |-> do, blk |-> b, event |-> e] \in Statement
<1> USE DEF Tasks, Names
<1>1. CASE e.kind = "EmployerAdded"
  <2>1. Projection(e) = <<"employerAdded">>
    BY <1>1 DEF Projection
  <2>. QED
    BY <1>1, <2>1 DEF Statement
<1>2. CASE e.kind = "EmployerRemoved"
  <2>1. Projection(e) = <<"employerRemoved">>
    BY <1>2 DEF Projection
  <2>. QED
    BY <1>2, <2>1 DEF Statement
<1>3. CASE e.kind = "EmployeeAdded"
  <2>1. Projection(e) = <<"ensureEmployer", "employeeAdded">>
    BY <1>3 DEF Projection
  <2>. QED
    BY <1>3, <2>1 DEF Statement, OfBoth
<1>4. CASE e.kind = "EmployeeRemoved"
  <2>1. Projection(e) = <<"ensureEmployer", "employeeRemoved">>
    BY <1>4 DEF Projection
  <2>. QED
    BY <1>4, <2>1 DEF Statement, OfBoth
<1>5. CASE e.kind = "PayrollFunded"
  <2>1. Projection(e) = <<"ensureEmployer", "ensureEmployee", "funding">>
    BY <1>5 DEF Projection
  <2>. QED
    BY <1>5, <2>1 DEF Statement, OfBoth
<1>6. CASE e.kind = "SalaryClaimed"
  <2>1. Projection(e) = <<"findEmployee", "claim", "lastWithdraw">>
    BY <1>6 DEF Projection
  <2>. QED
    BY <1>6, <2>1 DEF Statement
<1>7. CASE e.kind \in {"OwnershipTransferred", "none"}
  <2>1. Projection(e) = <<>>
    BY <1>7 DEF Projection
  <2>. QED
    BY <2>1
<1>. QED
  BY <1>1, <1>2, <1>3, <1>4, <1>5, <1>6, <1>7, EventFields DEF OfEmployer, OfBoth

\* What the projection of each event executes.
LEMMA ProjectionTasks ==
    ASSUME NEW e \in Events
    PROVE  /\ e.kind \in OfEmployer \cup OfBoth => EmployerStatement(e.kind) \in Tasks(e)
           /\ e.kind \in OfBoth \cup {"SalaryClaimed"} => EmployeeStatement(e.kind) \in Tasks(e)
           /\ e.kind = "PayrollFunded" => "funding" \in Tasks(e)
           /\ e.kind = "SalaryClaimed" => "claim" \in Tasks(e)
<1> USE DEF Tasks, OfEmployer, OfBoth
<1>1. CASE e.kind = "EmployerAdded"
  <2>1. Projection(e) = <<"employerAdded">> /\ EmployerStatement(e.kind) = "employerAdded"
    BY <1>1 DEF Projection, EmployerStatement
  <2>. QED
    BY <1>1, <2>1
<1>2. CASE e.kind = "EmployerRemoved"
  <2>1. Projection(e) = <<"employerRemoved">> /\ EmployerStatement(e.kind) = "employerRemoved"
    BY <1>2 DEF Projection, EmployerStatement
  <2>. QED
    BY <1>2, <2>1
<1>3. CASE e.kind = "EmployeeAdded"
  <2>1. /\ Projection(e) = <<"ensureEmployer", "employeeAdded">>
        /\ EmployerStatement(e.kind) = "ensureEmployer"
        /\ EmployeeStatement(e.kind) = "employeeAdded"
    BY <1>3 DEF Projection, EmployerStatement, EmployeeStatement
  <2>. QED
    BY <1>3, <2>1
<1>4. CASE e.kind = "EmployeeRemoved"
  <2>1. /\ Projection(e) = <<"ensureEmployer", "employeeRemoved">>
        /\ EmployerStatement(e.kind) = "ensureEmployer"
        /\ EmployeeStatement(e.kind) = "employeeRemoved"
    BY <1>4 DEF Projection, EmployerStatement, EmployeeStatement
  <2>. QED
    BY <1>4, <2>1
<1>5. CASE e.kind = "PayrollFunded"
  <2>1. /\ Projection(e) = <<"ensureEmployer", "ensureEmployee", "funding">>
        /\ EmployerStatement(e.kind) = "ensureEmployer"
        /\ EmployeeStatement(e.kind) = "ensureEmployee"
    BY <1>5 DEF Projection, EmployerStatement, EmployeeStatement
  <2>. QED
    BY <1>5, <2>1
<1>6. CASE e.kind = "SalaryClaimed"
  <2>1. /\ Projection(e) = <<"findEmployee", "claim", "lastWithdraw">>
        /\ EmployeeStatement(e.kind) = "claim"
    BY <1>6 DEF Projection, EmployeeStatement
  <2>. QED
    BY <1>6, <2>1
<1>. QED
  BY <1>1, <1>2, <1>3, <1>4, <1>5, <1>6, EventFields

\* The statements of a log: well formed, about that log, the transaction first, and
\* all of the projection's among them.
StatementsOf(todo, e, b) ==
    /\ todo \in Seq(Statement)
    /\ e = Nothing => todo = <<>>
    /\ \A i \in DOMAIN todo : /\ todo[i].blk = b /\ todo[i].event = e
                              /\ todo[i].do = "transaction" => i = 1
    /\ e # Nothing => \A do \in Tasks(e) \cup {"transaction", "chainEvent"} :
                          \E i \in DOMAIN todo : todo[i].do = do

\* What IndexRange executes for a log is of that form.
LEMMA StatementsOfLog ==
    ASSUME NEW e \in Events, NEW b \in 1 .. MaxBlock
    PROVE  StatementsOf(Statements(e, b), e, b)
<1>1. CASE e = Nothing
  <2>1. Statements(e, b) = <<>> /\ <<>> \in Seq(Statement)
    BY <1>1 DEF Statements
  <2>. QED
    BY <1>1, <2>1 DEF StatementsOf
<1>2. CASE e # Nothing
  <2> DEFINE q == Projection(e)
             names == <<"transaction", "chainEvent">> \o q
             todo == Statements(e, b)
  <2>1. q \in Seq(Names \ {"transaction"}) /\ q \in Seq(Names) /\ Len(q) \in Nat
    BY ProjectionType
  <2>2. <<"transaction", "chainEvent">> \in Seq(Names)
    BY DEF Names
  <2>3. names \in Seq(Names) /\ Len(names) = 2 + Len(q)
    BY <2>1, <2>2, ConcatProperties
  <2>4. \A i \in 1 .. 2 + Len(q) :
          names[i] = IF i <= 2 THEN <<"transaction", "chainEvent">>[i] ELSE q[i - 2]
    BY <2>1, <2>2, ConcatProperties
  <2>. HIDE DEF names, q
  <2>5. todo = [i \in 1 .. 2 + Len(q) |-> [do |-> names[i], blk |-> b, event |-> e]]
    BY <1>2, <2>1, <2>3 DEF Statements, names, q
  <2>6. ASSUME NEW i \in 1 .. 2 + Len(q)
        PROVE  /\ names[i] \in Tasks(e) \cup {"transaction", "chainEvent"}
               /\ names[i] = "transaction" => i = 1
    <3>1. CASE i = 1
      BY <2>1, <2>4, <3>1
    <3>2. CASE i = 2
      BY <2>1, <2>4, <3>2
    <3>3. CASE i > 2
      <4>1. names[i] = q[i - 2] /\ i - 2 \in DOMAIN q
        BY <2>1, <2>4, <3>3
      <4>2. q[i - 2] # "transaction"
        BY <2>1, <4>1
      <4>. QED
        BY <3>3, <4>1, <4>2 DEF Tasks, q
    <3>. QED
      BY <3>1, <3>2, <3>3
  <2>7. ASSUME NEW do \in Tasks(e) \cup {"transaction", "chainEvent"}
        PROVE  \E i \in 1 .. 2 + Len(q) : names[i] = do
    <3>1. names[1] = "transaction" /\ names[2] = "chainEvent" /\ {1, 2} \subseteq 1 .. 2 + Len(q)
      BY <2>1, <2>4
    <3>2. CASE do \in Tasks(e)
      <4>1. PICK j \in DOMAIN q : do = q[j]
        BY <3>2 DEF Tasks, q
      <4>2. j + 2 \in 1 .. 2 + Len(q) /\ names[j + 2] = q[j]
        BY <2>1, <2>4, <4>1
      <4>. QED
        BY <4>1, <4>2
    <3>. QED
      BY <3>1, <3>2
  <2>8. \A do \in Tasks(e) \cup {"transaction", "chainEvent"} :
          [do |-> do, blk |-> b, event |-> e] \in Statement
    BY <1>2, ProjectionType DEF Statement
  <2>9. todo \in Seq(Statement)
    BY <2>1, <2>5, <2>6, <2>8
  <2>10. DOMAIN todo = 1 .. 2 + Len(q)
    BY <2>5
  <2>11. \A i \in DOMAIN todo : todo[i].do = names[i] /\ todo[i].blk = b /\ todo[i].event = e
    BY <2>5
  <2>12. \A i \in DOMAIN todo : todo[i].do = "transaction" => i = 1
    BY <2>6, <2>10, <2>11
  <2>13. \A do \in Tasks(e) \cup {"transaction", "chainEvent"} :
           \E i \in DOMAIN todo : todo[i].do = do
    BY <2>7, <2>10, <2>11
  <2>. HIDE DEF todo
  <2>14. StatementsOf(todo, e, b)
    BY <1>2, <2>9, <2>11, <2>12, <2>13 DEF StatementsOf
  <2>. QED
    BY <2>14 DEF todo
<1>. QED
  BY <1>1, <1>2

-----------------------------------------------------------------------------
(***************************************************************************)
(* What a statement does to the tables.                                    *)
(***************************************************************************)

\* The upserts of an employer yield well-typed rows.
LEMMA EmployerRowType ==
    ASSUME NEW r \in EmployerRow, NEW b \in 1 .. MaxBlock
    PROVE  /\ AddEmployer(r, b) \in EmployerRow
           /\ RemoveEmployer(r, b) \in EmployerRow
           /\ EnsureEmployer(r, b) \in EmployerRow
<1>1. b \in BlockOrNull /\ TRUE \in BOOLEAN /\ FALSE \in BOOLEAN
  BY PayrollAssumption DEF BlockOrNull
<1>2. Coalesce(r.added, b) \in BlockOrNull
  BY <1>1 DEF Coalesce, EmployerRow
<1>3. AddEmployer(r, b) \in EmployerRow
  BY <1>1, <1>2 DEF AddEmployer, EmployerRow
<1>4. RemoveEmployer(r, b) \in EmployerRow
  BY <1>1 DEF RemoveEmployer, EmployerRow
<1>. QED
  BY <1>3, <1>4 DEF EnsureEmployer

\* The upserts of an employee yield well-typed rows.
LEMMA EmployeeRowType ==
    ASSUME NEW r \in EmployeeRow, NEW b \in 1 .. MaxBlock, NEW e \in Employers \cup {ZeroAddress}
    PROVE  /\ e \in Employers => AddEmployee(r, e, b) \in EmployeeRow
           /\ RemoveEmployee(r, e, b) \in EmployeeRow
           /\ EnsureEmployee(r, e, b) \in EmployeeRow
           /\ UpdateWithdraw(r, b) \in EmployeeRow
<1>1. b \in BlockOrNull /\ TRUE \in BOOLEAN /\ FALSE \in BOOLEAN
  BY PayrollAssumption DEF BlockOrNull
<1>2. Coalesce(r.added, b) \in BlockOrNull
  BY <1>1 DEF Coalesce, EmployeeRow
<1>3. ASSUME e \in Employers PROVE AddEmployee(r, e, b) \in EmployeeRow
  BY <1>1, <1>2, <1>3 DEF AddEmployee, EmployeeRow
<1>4. RemoveEmployee(r, e, b) \in EmployeeRow
  BY <1>1 DEF RemoveEmployee, EmployeeRow
<1>5. EnsureEmployee(r, e, b) \in EmployeeRow
  BY <1>1 DEF EnsureEmployee, EmployeeRow
<1>6. UpdateWithdraw(r, b) \in EmployeeRow
  BY <1>1 DEF UpdateWithdraw, EmployeeRow
<1>. QED
  BY <1>3, <1>4, <1>5, <1>6

\* One row of each table replaced.
LEMMA RowsType ==
    ASSUME NEW t \in Tables
    PROVE  /\ \A e \in Employers \cup {ZeroAddress}, r \in EmployerRow :
                  [t EXCEPT !.employers[e] = r] \in Tables
           /\ \A w \in Employees, r \in EmployeeRow : [t EXCEPT !.employees[w] = r] \in Tables
           /\ \A e \in Employers \cup {ZeroAddress} : t.employers[e] \in EmployerRow
           /\ \A w \in Employees : t.employees[w] \in EmployeeRow
  BY DEF Tables

\* A statement keeps the tables well typed.
LEMMA ExecuteType ==
    ASSUME NEW t \in Tables, NEW st \in Statement, st.do # "findEmployee"
    PROVE  Execute(t, st) \in Tables
<1> DEFINE b == st.blk
           e == st.event
<1>1. /\ st.do \in Names /\ b \in 1 .. MaxBlock /\ b \in 0 .. MaxBlock
      /\ e.kind \in OfEmployer \cup OfBoth => e.employer \in Employers
      /\ e.kind \in OfBoth \cup {"SalaryClaimed"} => e.employee \in Employees
  BY StatementFields, EventFields, PayrollAssumption
<1>2. CASE st.do \in {"transaction", "chainEvent", "funding", "claim"}
  BY <1>1, <1>2 DEF Execute, Tables
<1>3. CASE st.do \in {"employerAdded", "employerRemoved", "ensureEmployer"}
  <2>1. e.employer \in Employers
    BY <1>1, <1>3, StatementFields DEF OfEmployer, OfBoth
  <2>2. t.employers[e.employer] \in EmployerRow
    BY <2>1, RowsType
  <2>3. \E r \in EmployerRow : Execute(t, st) = [t EXCEPT !.employers[e.employer] = r]
    BY <1>1, <1>3, <2>2, EmployerRowType DEF Execute
  <2>. QED
    BY <2>1, <2>3, RowsType
<1>4. CASE st.do = "zeroEmployer"
  <2>1. t.employers[ZeroAddress] \in EmployerRow
    BY RowsType
  <2>2. \E r \in EmployerRow : Execute(t, st) = [t EXCEPT !.employers[ZeroAddress] = r]
    BY <1>1, <1>4, <2>1, EmployerRowType DEF Execute
  <2>. QED
    BY <2>2, RowsType
<1>5. CASE st.do \in {"employeeAdded", "employeeRemoved", "ensureEmployee", "zeroEmployee",
                      "lastWithdraw"}
  <2>1. e.employee \in Employees
    BY <1>1, <1>5, StatementFields DEF OfBoth
  <2>2. st.do \in {"employeeAdded", "employeeRemoved", "ensureEmployee"}
            => e.employer \in Employers
    BY <1>1, StatementFields DEF OfBoth
  <2>3. t.employees[e.employee] \in EmployeeRow
    BY <2>1, RowsType
  <2>4. \E r \in EmployeeRow : Execute(t, st) = [t EXCEPT !.employees[e.employee] = r]
    BY <1>1, <1>5, <2>2, <2>3, EmployeeRowType DEF Execute
  <2>. QED
    BY <2>1, <2>4, RowsType
<1>. QED
  BY <1>1, <1>2, <1>3, <1>4, <1>5 DEF Names

\* What a statement does to the rows that are never updated.
LEMMA ExecuteSets ==
    ASSUME NEW t \in Tables, NEW st \in Statement, st.do # "findEmployee"
    PROVE  LET t1 == Execute(t, st) IN
           /\ t1.transactions = t.transactions \cup IF st.do = "transaction" THEN {st.blk} ELSE {}
           /\ t1.chain_events = t.chain_events \cup IF st.do = "chainEvent" THEN {st.blk} ELSE {}
           /\ t1.fundings = t.fundings \cup IF st.do = "funding" THEN {st.blk} ELSE {}
           /\ t1.claims = t.claims \cup IF st.do = "claim" THEN {st.blk} ELSE {}
<1>1. st.do \in Names
  BY StatementFields
<1>2. CASE st.do \in {"transaction", "chainEvent", "funding", "claim"}
  BY <1>2 DEF Execute, Tables
<1>3. CASE st.do \notin {"transaction", "chainEvent", "funding", "claim"}
  BY <1>1, <1>3 DEF Execute, Tables, Names
<1>. QED
  BY <1>2, <1>3

\* What a statement does to the row of an employer.
LEMMA ExecuteEmployers ==
    ASSUME NEW t \in Tables, NEW st \in Statement, NEW e \in Employers, st.do # "findEmployee"
    PROVE  LET r == t.employers[e]
               r1 == Execute(t, st).employers[e]
           IN  IF st.do \in {"employerAdded", "employerRemoved", "ensureEmployer"}
                  /\ st.event.employer = e
               THEN /\ st.do = "employerAdded" => r1 = AddEmployer(r, st.blk)
                    /\ st.do = "employerRemoved" => r1 = RemoveEmployer(r, st.blk)
                    /\ st.do = "ensureEmployer" => r1 = EnsureEmployer(r, st.blk)
               ELSE r1 = r
<1>1. st.do \in Names
  BY StatementFields
<1>2. CASE st.do \in {"employerAdded", "employerRemoved", "ensureEmployer"}
  BY <1>2 DEF Execute, Tables
<1>3. CASE st.do = "zeroEmployer"
  BY <1>3, PayrollAssumption DEF Execute, Tables
<1>4. CASE st.do \notin {"employerAdded", "employerRemoved", "ensureEmployer", "zeroEmployer"}
  BY <1>1, <1>4 DEF Execute, Tables, Names
<1>. QED
  BY <1>2, <1>3, <1>4

\* What a statement does to the row of an employee.
LEMMA ExecuteEmployees ==
    ASSUME NEW t \in Tables, NEW st \in Statement, NEW w \in Employees, st.do # "findEmployee"
    PROVE  LET r == t.employees[w]
               r1 == Execute(t, st).employees[w]
           IN  IF st.do \in {"employeeAdded", "employeeRemoved", "ensureEmployee",
                             "zeroEmployee", "lastWithdraw"}
                  /\ st.event.employee = w
               THEN /\ st.do = "employeeAdded" => r1 = AddEmployee(r, st.event.employer, st.blk)
                    /\ st.do = "employeeRemoved"
                           => r1 = RemoveEmployee(r, st.event.employer, st.blk)
                    /\ st.do = "ensureEmployee"
                           => r1 = EnsureEmployee(r, st.event.employer, st.blk)
                    /\ st.do = "zeroEmployee" => r1 = EnsureEmployee(r, ZeroAddress, st.blk)
                    /\ st.do = "lastWithdraw" => r1 = UpdateWithdraw(r, st.blk)
               ELSE r1 = r
<1>1. st.do \in Names
  BY StatementFields
<1>2. CASE st.do \in {"employeeAdded", "employeeRemoved", "ensureEmployee", "zeroEmployee",
                      "lastWithdraw"}
  BY <1>2 DEF Execute, Tables
<1>3. CASE st.do \notin {"employeeAdded", "employeeRemoved", "ensureEmployee",
                         "zeroEmployee", "lastWithdraw"}
  BY <1>1, <1>3 DEF Execute, Tables, Names
<1>. QED
  BY <1>2, <1>3

-----------------------------------------------------------------------------
(***************************************************************************)
(* The states a process goes through.                                      *)
(***************************************************************************)

\* The statements whose passing the invariants speak of.
Watched == Names \ {"findEmployee", "zeroEmployer", "zeroEmployee", "lastWithdraw"}

\* A process at rest is well typed and has passed nothing.
LEMMA AtRestState ==
    /\ AtRest \in IndexerState
    /\ AtRest.pc = "idle" /\ AtRest.todo = <<>> /\ AtRest.safe = 0 /\ AtRest.to = 0
    /\ \A b, do : ~ Passed(AtRest, b, do)
<1>1. <<>> \in Seq(Statement)
  OBVIOUS
<1>. QED
  BY <1>1, IndexerAssumption DEF AtRest, IndexerState, Passed

\* What holds of a process at rest, now and at any time.
LEMMA RestInv == ASSUME TypeOK PROVE BatchInv(AtRest)
  BY AtRestState DEF BatchInv, InBatch, TypeOK

\* A batch that begins at a confirmed block.
LEMMA BeginBatchState ==
    ASSUME NEW s \in IndexerState, NEW from \in Nat, from <= s.safe
    PROVE  LET s1 == BeginBatch(s, from) IN
           /\ s1 \in IndexerState
           /\ s1.pc = "getlogs" /\ s1.safe = s.safe /\ s1.from = from /\ s1.todo = <<>>
           /\ s1.to = BatchEnd(from, BatchSize, s.safe)
           /\ from <= s1.to /\ s1.to <= s.safe
           /\ \A b, do : ~ Passed(s1, b, do)
<1> DEFINE to == BatchEnd(from, BatchSize, s.safe)
<1>1. to \in Nat /\ from <= to /\ to <= s.safe
  BY IndexerAssumption DEF BatchEnd, IndexerState
<1>2. 1 \in 0 .. MaxRetries /\ <<>> \in Seq(Statement)
  BY IndexerAssumption
<1>. HIDE DEF to
<1>3. BeginBatch(s, from) =
        [s EXCEPT !.pc = "getlogs", !.from = from, !.to = to, !.attempt = 1, !.todo = <<>>]
  BY DEF BeginBatch, to
<1>4. BeginBatch(s, from) \in IndexerState
  BY <1>1, <1>2, <1>3 DEF IndexerState
<1>5. LET s1 == BeginBatch(s, from) IN
      s1.pc = "getlogs" /\ s1.safe = s.safe /\ s1.from = from /\ s1.todo = <<>> /\ s1.to = to
  BY <1>3 DEF IndexerState
<1>. QED
  BY <1>1, <1>4, <1>5 DEF Passed, to

\* RetryRange leaves a process at rest or before the same batch; nothing is passed.
LEMMA AfterFailureState ==
    ASSUME NEW s \in IndexerState, NEW s1 \in AfterFailure(s)
    PROVE  /\ s1 \in IndexerState
           /\ \A b, do : ~ Passed(s1, b, do)
           /\ s1 = AtRest \/
                 /\ s1.pc = "getlogs" /\ s1.safe = s.safe /\ s1.from = s.from
                 /\ s1.to = s.to /\ s1.todo = <<>>
<1>1. CASE s1 = AtRest
  BY <1>1, AtRestState
<1>2. CASE s1 # AtRest
  <2>1. /\ s.attempt < MaxRetries
        /\ s1 = [s EXCEPT !.pc = "getlogs", !.attempt = s.attempt + 1, !.todo = <<>>]
    BY <1>2 DEF AfterFailure
  <2>2. s.attempt + 1 \in 0 .. MaxRetries /\ <<>> \in Seq(Statement)
    BY <2>1, IndexerAssumption DEF IndexerState
  <2>3. s1 \in IndexerState
    BY <2>1, <2>2 DEF IndexerState
  <2>4. /\ s1.pc = "getlogs" /\ s1.safe = s.safe /\ s1.from = s.from
        /\ s1.to = s.to /\ s1.todo = <<>>
    BY <2>1 DEF IndexerState
  <2>. QED
    BY <2>3, <2>4 DEF Passed
<1>. QED
  BY <1>1, <1>2

\* The blocks up to the confirmed head, and what a process knows of its batch.
LEMMA ChainBlocksType ==
    ASSUME TypeOK
    PROVE  /\ Len(chain) \in Nat /\ DOMAIN chain = 1 .. Len(chain)
           /\ Len(chain) <= MaxBlock
           /\ \A b \in DOMAIN chain : chain[b] \in Events /\ b \in 1 .. MaxBlock
           /\ Happened(Len(chain)) = {b \in StartBlock .. Len(chain) : chain[b] # Nothing}
           /\ StartBlock \in Nat /\ StartBlock >= 1
           /\ \A b \in Happened(Len(chain)) : b \in Nat /\ chain[b] \in Events \ {Nothing}
<1>1. /\ Len(chain) \in Nat /\ DOMAIN chain = 1 .. Len(chain) /\ Len(chain) <= MaxBlock
      /\ MaxBlock \in Nat /\ StartBlock \in Nat /\ StartBlock >= 1
  BY PayrollAssumption, IndexerAssumption DEF TypeOK
<1>2. \A b \in DOMAIN chain : chain[b] \in Events /\ b \in 1 .. MaxBlock
  BY <1>1 DEF TypeOK
<1>3. Happened(Len(chain)) = {b \in StartBlock .. Len(chain) : chain[b] # Nothing}
  BY <1>1 DEF Happened
<1>. QED
  BY <1>1, <1>2, <1>3

\* The statement a process is at: it is about the log it took last.
LEMMA NextStatement ==
    ASSUME TypeOK, NEW s \in IndexerState, BatchInv(s), s.pc = "write", s.todo # <<>>
    PROVE  LET st == Head(s.todo) IN
           /\ st \in Statement /\ st = s.todo[1] /\ 1 \in DOMAIN s.todo
           /\ st.blk = s.next - 1 /\ st.event = chain[st.blk]
           /\ st.blk \in s.from .. s.to
           /\ st.blk \in Happened(Len(chain))
           /\ Tail(s.todo) \in Seq(Statement)
           /\ \A i \in DOMAIN Tail(s.todo) :
                 i + 1 \in DOMAIN s.todo /\ Tail(s.todo)[i] = s.todo[i + 1] /\ i + 1 # 1
           /\ \A i \in DOMAIN s.todo : i # 1 =>
                 i - 1 \in DOMAIN Tail(s.todo) /\ Tail(s.todo)[i - 1] = s.todo[i]
<1>1. s.todo \in Seq(Statement) /\ Len(s.todo) \in Nat /\ DOMAIN s.todo = 1 .. Len(s.todo)
      /\ Len(s.todo) # 0
  BY DEF IndexerState
<1>2. /\ Head(s.todo) \in Statement /\ Head(s.todo) = s.todo[1]
      /\ Tail(s.todo) \in Seq(Statement) /\ Len(Tail(s.todo)) = Len(s.todo) - 1
      /\ \A i \in 1 .. Len(Tail(s.todo)) : Tail(s.todo)[i] = s.todo[i + 1]
  BY <1>1, HeadTailProperties
<1>3. s.from \in Nat /\ s.next \in Nat /\ s.to \in Nat /\ s.safe \in Nat
  BY DEF IndexerState
<1>4. s.from < s.next /\ s.next <= s.to + 1 /\ StartBlock <= s.from /\ s.to <= s.safe
      /\ s.safe <= Len(chain)
  BY DEF BatchInv, InBatch
<1>5. s.todo[1].blk = s.next - 1 /\ s.todo[1].event = chain[s.next - 1]
  BY <1>1 DEF BatchInv
<1>6. s.next - 1 \in Happened(Len(chain))
  BY <1>2, <1>3, <1>4, <1>5, StatementFields, ChainBlocksType
<1>7. DOMAIN Tail(s.todo) = 1 .. Len(s.todo) - 1
  BY <1>1, <1>2
<1>8. \A i \in DOMAIN Tail(s.todo) :
          i + 1 \in DOMAIN s.todo /\ Tail(s.todo)[i] = s.todo[i + 1] /\ i + 1 # 1
  BY <1>1, <1>2, <1>7
<1>9. ASSUME NEW i \in DOMAIN s.todo, i # 1
      PROVE  i - 1 \in DOMAIN Tail(s.todo) /\ Tail(s.todo)[i - 1] = s.todo[i]
  <2>1. i - 1 \in DOMAIN Tail(s.todo) /\ (i - 1) + 1 = i
    BY <1>1, <1>7, <1>9
  <2>. QED
    BY <1>8, <2>1
<1>10. Head(s.todo).blk \in s.from .. s.to
  BY <1>2, <1>3, <1>4, <1>5
<1>. QED
  BY <1>1, <1>2, <1>5, <1>6, <1>8, <1>9, <1>10

-----------------------------------------------------------------------------
(***************************************************************************)
(* BatchInv in two parts: where a process is, and that what its attempt    *)
(* has passed is recorded.                                                 *)
(***************************************************************************)

Positioned(s) ==
    /\ s.to <= s.safe /\ s.safe <= Len(chain)
    /\ InBatch(s) => /\ StartBlock <= s.from /\ s.from <= s.to
                     /\ s.to = BatchEnd(s.from, BatchSize, s.safe)
                     /\ Covered(s.from - 1)
    /\ s.pc # "write" => s.todo = <<>>
    /\ s.pc = "write" =>
           /\ s.from <= s.next /\ s.next <= s.to + 1
           /\ s.todo # <<>> => s.from < s.next
           /\ \A i \in DOMAIN s.todo : /\ s.todo[i].blk = s.next - 1
                                       /\ s.todo[i].event = chain[s.next - 1]
                                       /\ s.todo[i].do = "transaction" => i = 1

Accounted(s) ==
    \A b \in Happened(Len(chain)) :
        /\ Passed(s, b, "transaction") => b \in tables.transactions
        /\ Passed(s, b, "chainEvent") => b \in tables.chain_events
        /\ chain[b].kind = "PayrollFunded" /\ Passed(s, b, "funding") => b \in tables.fundings
        /\ chain[b].kind = "SalaryClaimed" /\ Passed(s, b, "claim") => b \in tables.claims

\* The statements of the event of block b whose passing says something.
Work(b) == {"transaction", "chainEvent"} \cup Tasks(chain[b])

\* The attempt s1 has passed nothing, of what is watched, that s has not.
LessPassed(s1, s) ==
    \A b \in Happened(Len(chain)) :
        \A do \in Work(b) \cap Watched : Passed(s1, b, do) => Passed(s, b, do)

\* The two parts are the whole.
LEMMA BatchInvParts ==
    \A s : BatchInv(s) <=> Positioned(s) /\ Accounted(s)
  BY DEF BatchInv, Positioned, Accounted

\* The statements the invariants speak of are work and watched.
LEMMA WorkOfEvent ==
    ASSUME TypeOK, NEW b \in Happened(Len(chain))
    PROVE  LET W == Work(b) \cap Watched IN
           /\ {"transaction", "chainEvent"} \subseteq W
           /\ chain[b].kind = "PayrollFunded" => "funding" \in W
           /\ chain[b].kind = "SalaryClaimed" => "claim" \in W
           /\ chain[b].kind \in OfEmployer \cup OfBoth => EmployerStatement(chain[b].kind) \in W
           /\ chain[b].kind \in OfBoth \cup {"SalaryClaimed"}
                  => EmployeeStatement(chain[b].kind) \in W
<1>1. chain[b] \in Events
  BY ChainBlocksType
<1>2. {"transaction", "chainEvent", "funding", "claim"} \subseteq Watched
  BY DEF Watched, Names
<1>3. ASSUME NEW kind \in OfEmployer \cup OfBoth PROVE EmployerStatement(kind) \in Watched
  BY DEF Watched, Names, EmployerStatement, OfEmployer, OfBoth
<1>4. ASSUME NEW kind \in OfBoth \cup {"SalaryClaimed"}
      PROVE  EmployeeStatement(kind) \in Watched
  BY DEF Watched, Names, EmployeeStatement, OfBoth
<1>. QED
  BY <1>1, <1>2, <1>3, <1>4, ProjectionTasks DEF Work

\* An attempt that has passed less is accounted for.
LEMMA LessIsAccounted ==
    ASSUME TypeOK, NEW s, NEW s1, Accounted(s), LessPassed(s1, s)
    PROVE  Accounted(s1)
<1> SUFFICES ASSUME NEW b \in Happened(Len(chain))
             PROVE  /\ Passed(s1, b, "transaction") => b \in tables.transactions
                    /\ Passed(s1, b, "chainEvent") => b \in tables.chain_events
                    /\ chain[b].kind = "PayrollFunded" /\ Passed(s1, b, "funding")
                           => b \in tables.fundings
                    /\ chain[b].kind = "SalaryClaimed" /\ Passed(s1, b, "claim")
                           => b \in tables.claims
  BY DEF Accounted
<1>1. \A do \in Work(b) \cap Watched : Passed(s1, b, do) => Passed(s, b, do)
  BY DEF LessPassed
<1>. QED
  BY <1>1, WorkOfEvent DEF Accounted

\* The attempt drops the statement it is at: only that one is newly passed.
LEMMA DropStatement ==
    ASSUME TypeOK, NEW s \in IndexerState, BatchInv(s), s.pc = "write", s.todo # <<>>
    PROVE  LET s1 == [s EXCEPT !.todo = Tail(@)]
               st == Head(s.todo)
           IN  /\ s1 \in IndexerState /\ Positioned(s1)
               /\ s1.pc = "write" /\ s1.from = s.from /\ s1.safe = s.safe /\ s1.to = s.to
               /\ \A b, do : Passed(s1, b, do) => \/ Passed(s, b, do)
                                                  \/ b = st.blk /\ do = st.do
<1>1. PICK st \in Statement :
         /\ st = Head(s.todo) /\ st = s.todo[1] /\ st.blk = s.next - 1
         /\ Tail(s.todo) \in Seq(Statement)
         /\ \A i \in DOMAIN Tail(s.todo) :
               i + 1 \in DOMAIN s.todo /\ Tail(s.todo)[i] = s.todo[i + 1] /\ i + 1 # 1
         /\ \A i \in DOMAIN s.todo : i # 1 =>
               i - 1 \in DOMAIN Tail(s.todo) /\ Tail(s.todo)[i - 1] = s.todo[i]
  BY NextStatement
<1>2. PICK q \in Seq(Statement) : q = Tail(s.todo)
  BY <1>1
<1> DEFINE s1 == [s EXCEPT !.todo = Tail(@)]
<1>3. s1 \in IndexerState
  BY <1>2 DEF IndexerState
<1>4. /\ s1.pc = "write" /\ s1.from = s.from /\ s1.safe = s.safe /\ s1.to = s.to
      /\ s1.next = s.next /\ s1.todo = q
  BY <1>2 DEF IndexerState
<1>. HIDE DEF s1
<1>5. Positioned(s1)
  <2>1. \A i \in DOMAIN q : /\ q[i].blk = s.next - 1 /\ q[i].event = chain[s.next - 1]
                            /\ q[i].do # "transaction"
    BY <1>1, <1>2 DEF BatchInv
  <2>2. s.from < s.next
    BY DEF BatchInv
  <2>. QED
    BY <1>4, <2>1, <2>2 DEF Positioned, BatchInv, InBatch
<1>6. ASSUME NEW b, NEW do, Passed(s1, b, do), ~ (b = st.blk /\ do = st.do)
      PROVE  Passed(s, b, do)
  <2>1. b \in s.from .. s.next - 1 /\ (b = s.next - 1 => \A i \in DOMAIN q : q[i].do # do)
    BY <1>4, <1>6 DEF Passed
  <2>2. ASSUME b = s.next - 1, NEW i \in DOMAIN s.todo PROVE s.todo[i].do # do
    <3>1. CASE i = 1
      BY <1>1, <1>6, <2>2, <3>1
    <3>2. CASE i # 1
      BY <1>1, <1>2, <2>1, <2>2, <3>2
    <3>. QED
      BY <3>1, <3>2
  <2>. QED
    BY <2>1, <2>2 DEF Passed
<1>. QED
  BY <1>1, <1>3, <1>4, <1>5, <1>6 DEF s1

\* An employee that is not found adds statements that are not watched.
LEMMA MissEmployee ==
    ASSUME TypeOK, NEW s \in IndexerState, BatchInv(s), s.pc = "write", s.todo # <<>>,
           Head(s.todo).do = "findEmployee"
    PROVE  LET s1 == [s EXCEPT !.todo = Placeholders(Head(s.todo)) \o Tail(@)] IN
           /\ s1 \in IndexerState /\ Positioned(s1) /\ LessPassed(s1, s)
           /\ s1.pc = "write" /\ s1.from = s.from /\ s1.safe = s.safe /\ s1.to = s.to
<1>1. PICK st \in Statement :
         /\ st = Head(s.todo) /\ st = s.todo[1]
         /\ st.blk = s.next - 1 /\ st.event = chain[st.blk]
         /\ Tail(s.todo) \in Seq(Statement)
         /\ \A i \in DOMAIN Tail(s.todo) :
               i + 1 \in DOMAIN s.todo /\ Tail(s.todo)[i] = s.todo[i + 1] /\ i + 1 # 1
         /\ \A i \in DOMAIN s.todo : i # 1 =>
               i - 1 \in DOMAIN Tail(s.todo) /\ Tail(s.todo)[i - 1] = s.todo[i]
  BY NextStatement
<1>2. PICK q \in Seq(Statement) : q = Tail(s.todo)
  BY <1>1
<1>3. PICK h \in Seq(Statement) :
         /\ h = Placeholders(st) /\ Len(h) = 2
         /\ \A i \in 1 .. 2 : /\ h[i].blk = st.blk /\ h[i].event = st.event
                              /\ h[i].do \in {"zeroEmployer", "zeroEmployee"}
  <2>1. st.do = "findEmployee"
    BY <1>1
  <2>2. st.event.kind = "SalaryClaimed" /\ st.event \in Events /\ st.blk \in 1 .. MaxBlock
    BY <2>1, StatementFields
  <2>3. st = [do |-> st.do, blk |-> st.blk, event |-> st.event]
    BY DEF Statement
  <2>4. PICK z1 : z1 = [do |-> "zeroEmployer", blk |-> st.blk, event |-> st.event]
    OBVIOUS
  <2>5. PICK z2 : z2 = [do |-> "zeroEmployee", blk |-> st.blk, event |-> st.event]
    OBVIOUS
  <2>6. [st EXCEPT !.do = "zeroEmployer"] = z1 /\ [st EXCEPT !.do = "zeroEmployee"] = z2
    BY <2>3, <2>4, <2>5
  <2>7. Placeholders(st) = <<z1, z2>>
    BY <2>6 DEF Placeholders
  <2>8. z1 \in Statement /\ z2 \in Statement
    BY <2>2, <2>4, <2>5 DEF Statement
  <2>9. PICK h : h = <<z1, z2>>
    OBVIOUS
  <2>10. h \in Seq(Statement) /\ Len(h) = 2 /\ h[1] = z1 /\ h[2] = z2
    BY <2>8, <2>9
  <2>11. \A i \in 1 .. 2 : /\ h[i].blk = st.blk /\ h[i].event = st.event
                           /\ h[i].do \in {"zeroEmployer", "zeroEmployee"}
    BY <2>4, <2>5, <2>10
  <2>. QED
    BY <2>7, <2>9, <2>10, <2>11
<1>4. PICK r \in Seq(Statement) :
         /\ r = h \o q /\ Len(r) = 2 + Len(q)
         /\ \A i \in 1 .. 2 + Len(q) : r[i] = IF i <= 2 THEN h[i] ELSE q[i - 2]
  <2>1. PICK r : r = h \o q
    OBVIOUS
  <2>2. /\ r \in Seq(Statement) /\ Len(r) = Len(h) + Len(q)
        /\ \A i \in 1 .. Len(h) + Len(q) : r[i] = IF i <= Len(h) THEN h[i] ELSE q[i - Len(h)]
    BY <2>1, ConcatProperties
  <2>3. Len(r) = 2 + Len(q)
    BY <1>3, <2>2
  <2>4. \A i \in 1 .. 2 + Len(q) : r[i] = IF i <= 2 THEN h[i] ELSE q[i - 2]
    BY <1>3, <2>2
  <2>. QED
    BY <2>1, <2>2, <2>3, <2>4, Zenon
<1>5. Len(q) \in Nat /\ DOMAIN q = 1 .. Len(q) /\ DOMAIN r = 1 .. 2 + Len(q)
  BY <1>2, <1>4
<1>6. \A i \in DOMAIN r : \/ r[i] = h[i] /\ i \in 1 .. 2
                          \/ i - 2 \in DOMAIN q /\ r[i] = q[i - 2]
  BY <1>4, <1>5
<1>7. \A i \in DOMAIN q : i + 2 \in DOMAIN r /\ r[i + 2] = q[i]
  BY <1>4, <1>5
<1> DEFINE s1 == [s EXCEPT !.todo = r]
<1>8. s1 \in IndexerState
  BY <1>4 DEF IndexerState
<1>9. /\ s1.pc = "write" /\ s1.from = s.from /\ s1.safe = s.safe /\ s1.to = s.to
      /\ s1.next = s.next /\ s1.todo = r
  BY <1>4 DEF IndexerState
<1>. HIDE DEF s1
<1>10. Positioned(s1)
  <2>1. \A i \in DOMAIN q : /\ q[i].blk = s.next - 1 /\ q[i].event = chain[s.next - 1]
                            /\ q[i].do # "transaction"
    BY <1>1, <1>2 DEF BatchInv
  <2>2. \A i \in DOMAIN r : /\ r[i].blk = s.next - 1 /\ r[i].event = chain[s.next - 1]
                            /\ r[i].do # "transaction"
    <3> SUFFICES ASSUME NEW i \in DOMAIN r
                 PROVE  /\ r[i].blk = s.next - 1 /\ r[i].event = chain[s.next - 1]
                        /\ r[i].do # "transaction"
      OBVIOUS
    <3>1. CASE r[i] = h[i] /\ i \in 1 .. 2
      BY <1>1, <1>3, <3>1
    <3>2. CASE i - 2 \in DOMAIN q /\ r[i] = q[i - 2]
      BY <2>1, <3>2
    <3>. QED
      BY <1>6, <3>1, <3>2
  <2>3. s.from < s.next
    BY DEF BatchInv
  <2>. QED
    BY <1>9, <2>2, <2>3 DEF Positioned, BatchInv, InBatch
<1>11. ASSUME NEW b, NEW do \in Watched, Passed(s1, b, do)
       PROVE  Passed(s, b, do)
  <2>1. b \in s.from .. s.next - 1 /\ (b = s.next - 1 => \A i \in DOMAIN r : r[i].do # do)
    BY <1>9, <1>11 DEF Passed
  <2>2. ASSUME b = s.next - 1, NEW i \in DOMAIN s.todo PROVE s.todo[i].do # do
    <3>1. CASE i = 1
      BY <1>1, <1>11, <3>1 DEF Watched
    <3>2. CASE i # 1
      <4>1. i - 1 \in DOMAIN q /\ q[i - 1] = s.todo[i]
        BY <1>1, <1>2, <3>2
      <4>. QED
        BY <1>7, <2>1, <2>2, <4>1
    <3>. QED
      BY <3>1, <3>2
  <2>. QED
    BY <2>1, <2>2 DEF Passed
<1>12. s1 = [s EXCEPT !.todo = Placeholders(Head(s.todo)) \o Tail(@)]
  BY <1>1, <1>2, <1>3, <1>4 DEF s1
<1>. QED
  BY <1>8, <1>9, <1>10, <1>11, <1>12 DEF LessPassed

\* Reading the logs passes nothing.
LEMMA GetLogsState ==
    ASSUME TypeOK, NEW s \in IndexerState, BatchInv(s), s.pc = "getlogs"
    PROVE  LET s1 == [s EXCEPT !.pc = "write", !.next = s.from] IN
           /\ s1 \in IndexerState /\ Positioned(s1) /\ LessPassed(s1, s)
           /\ s1.pc = "write" /\ s1.from = s.from /\ s1.safe = s.safe /\ s1.to = s.to
<1> DEFINE s1 == [s EXCEPT !.pc = "write", !.next = s.from]
<1>1. s1 \in IndexerState
  BY DEF IndexerState
<1>2. /\ s1.pc = "write" /\ s1.from = s.from /\ s1.safe = s.safe /\ s1.to = s.to
      /\ s1.next = s.from /\ s1.todo = s.todo
  BY DEF IndexerState
<1>3. s.from \in Nat /\ s.to \in Nat /\ s.todo = <<>>
  BY DEF IndexerState, BatchInv
<1>. HIDE DEF s1
<1>4. Positioned(s1)
  BY <1>2, <1>3 DEF Positioned, BatchInv, InBatch
<1>5. LessPassed(s1, s)
  BY <1>2, <1>3 DEF LessPassed, Passed
<1>. QED
  BY <1>1, <1>2, <1>4, <1>5 DEF s1

\* Taking the next log passes nothing either: all of its work is still to be done.
LEMMA TakeLogState ==
    ASSUME TypeOK, NEW s \in IndexerState, BatchInv(s), s.pc = "write", s.todo = <<>>,
           s.next <= s.to
    PROVE  LET s1 == [s EXCEPT !.next = @ + 1, !.todo = Statements(chain[s.next], s.next)] IN
           /\ s1 \in IndexerState /\ Positioned(s1) /\ LessPassed(s1, s)
           /\ s1.pc = "write" /\ s1.from = s.from /\ s1.safe = s.safe /\ s1.to = s.to
<1> DEFINE s1 == [s EXCEPT !.next = @ + 1, !.todo = Statements(chain[s.next], s.next)]
<1>1. /\ s.from \in Nat /\ s.to \in Nat /\ s.next \in Nat /\ s.safe \in Nat
      /\ StartBlock <= s.from /\ s.from <= s.next /\ s.to <= s.safe /\ s.safe <= Len(chain)
  BY DEF IndexerState, BatchInv, InBatch
<1>2. s.next \in DOMAIN chain /\ s.next \in 1 .. MaxBlock /\ chain[s.next] \in Events
  BY <1>1, ChainBlocksType
<1>3. PICK todo \in Seq(Statement) :
         /\ todo = Statements(chain[s.next], s.next)
         /\ chain[s.next] = Nothing => todo = <<>>
         /\ \A i \in DOMAIN todo : /\ todo[i].blk = s.next /\ todo[i].event = chain[s.next]
                                   /\ todo[i].do = "transaction" => i = 1
         /\ chain[s.next] # Nothing => \A do \in Work(s.next) :
                                           \E i \in DOMAIN todo : todo[i].do = do
  <2>1. StatementsOf(Statements(chain[s.next], s.next), chain[s.next], s.next)
    BY <1>2, StatementsOfLog
  <2>2. PICK todo : todo = Statements(chain[s.next], s.next)
    OBVIOUS
  <2>3. StatementsOf(todo, chain[s.next], s.next)
    BY <2>1, <2>2
  <2>4. Work(s.next) = Tasks(chain[s.next]) \cup {"transaction", "chainEvent"}
    BY DEF Work
  <2>. QED
    BY <2>2, <2>3, <2>4 DEF StatementsOf
<1>4. s1 \in IndexerState
  <2>1. s.next + 1 \in Nat
    BY <1>1
  <2>2. s1 = [s EXCEPT !.next = s.next + 1, !.todo = todo]
    BY <1>3
  <2>. QED
    BY <2>1, <2>2 DEF IndexerState
<1>5. /\ s1.pc = "write" /\ s1.from = s.from /\ s1.safe = s.safe /\ s1.to = s.to
      /\ s1.next = s.next + 1 /\ s1.todo = todo
  BY <1>3 DEF IndexerState
<1>. HIDE DEF s1
<1>6. Positioned(s1)
  <2>1. s1.next - 1 = s.next
    BY <1>1, <1>5
  <2>2. s1.from <= s1.next /\ s1.next <= s1.to + 1 /\ s1.from < s1.next
    BY <1>1, <1>5
  <2>. QED
    BY <1>3, <1>5, <2>1, <2>2 DEF Positioned, BatchInv, InBatch
<1>7. ASSUME NEW b \in Happened(Len(chain)), NEW do \in Work(b), Passed(s1, b, do)
      PROVE  Passed(s, b, do)
  <2>1. b \in s.from .. s.next /\ (b = s.next => \A i \in DOMAIN todo : todo[i].do # do)
    BY <1>1, <1>5, <1>7 DEF Passed
  <2>2. b # s.next
    BY <1>3, <2>1, ChainBlocksType
  <2>. QED
    BY <1>1, <2>1, <2>2 DEF Passed
<1>. QED
  BY <1>4, <1>5, <1>6, <1>7 DEF s1, LessPassed

-----------------------------------------------------------------------------
(***************************************************************************)
(* The moves of a process that write nothing.                              *)
(***************************************************************************)

\* Nothing is passed when nothing at all is passed.
LEMMA NothingPassed ==
    ASSUME NEW s, NEW s1, \A b, do : ~ Passed(s1, b, do)
    PROVE  LessPassed(s1, s) /\ Accounted(s1)
  BY DEF LessPassed, Accounted

\* After a failed attempt a process is well positioned.
LEMMA AfterFailurePositioned ==
    ASSUME TypeOK, NEW s \in IndexerState, BatchInv(s), InBatch(s), NEW s1 \in AfterFailure(s)
    PROVE  /\ s1 \in IndexerState /\ Positioned(s1) /\ LessPassed(s1, s) /\ Accounted(s1)
           /\ s1.pc # "idle" => s1.safe = s.safe
           /\ InBatch(s1) => s1.from = s.from
<1>1. s1 \in IndexerState /\ LessPassed(s1, s) /\ Accounted(s1)
  BY AfterFailureState, NothingPassed
<1>2. CASE s1 = AtRest
  BY <1>1, <1>2, RestInv, AtRestState DEF BatchInv, Positioned, InBatch
<1>3. CASE s1 # AtRest
  <2>1. /\ s1.pc = "getlogs" /\ s1.safe = s.safe /\ s1.from = s.from
        /\ s1.to = s.to /\ s1.todo = <<>>
    BY <1>3, AfterFailureState
  <2>. QED
    BY <1>1, <2>1 DEF BatchInv, Positioned, InBatch
<1>. QED
  BY <1>2, <1>3

\* The position a process resumes from is a block behind which all is covered.
LEMMA ResumeIsCovered ==
    ASSUME IInv
    PROVE  LET from == CalculateNextBlock(cp, StartBlock) IN
           from \in Nat /\ StartBlock <= from /\ from = Base + 1 /\ Covered(from - 1)
<1>1. StartBlock \in Nat /\ cp \in BlockOrNull
  BY ChainBlocksType DEF IInv, TypeOK
<1>2. CASE cp = NoBlock
  BY <1>1, <1>2 DEF CalculateNextBlock, Base, Covered, Happened
<1>3. CASE cp # NoBlock
  <2>1. cp \in Nat /\ StartBlock <= cp /\ Covered(cp)
    BY <1>1, <1>3, PayrollAssumption DEF IInv, TablesInv, BlockOrNull
  <2>. QED
    BY <1>1, <1>3, <2>1 DEF CalculateNextBlock, Base
<1>. QED
  BY <1>2, <1>3

\* A batch that begins behind what is covered is well positioned.
LEMMA BeginBatchPositioned ==
    ASSUME TypeOK, NEW s \in IndexerState, s.safe <= Len(chain),
           NEW from \in Nat, from <= s.safe, StartBlock <= from, Covered(from - 1)
    PROVE  LET s1 == BeginBatch(s, from) IN
           /\ s1 \in IndexerState /\ Positioned(s1) /\ Accounted(s1)
           /\ \A b, do : ~ Passed(s1, b, do)
           /\ s1.pc = "getlogs" /\ s1.safe = s.safe /\ s1.from = from
<1>1. PICK s1 \in IndexerState :
         /\ s1 = BeginBatch(s, from)
         /\ s1.pc = "getlogs" /\ s1.safe = s.safe /\ s1.from = from /\ s1.todo = <<>>
         /\ s1.to = BatchEnd(from, BatchSize, s.safe)
         /\ from <= s1.to /\ s1.to <= s.safe
         /\ \A b, do : ~ Passed(s1, b, do)
  BY BeginBatchState
<1>2. Positioned(s1)
  BY <1>1 DEF Positioned, InBatch
<1>3. Accounted(s1)
  BY <1>1, NothingPassed
<1>. QED
  BY <1>1, <1>2, <1>3

\* What a silent move of s to s1 keeps.
Moved(s, s1) ==
    /\ Positioned(s1) /\ LessPassed(s1, s)
    /\ s1.pc # "idle" => \/ s1.safe = Len(chain)
                         \/ s.pc # "idle" /\ s1.safe = s.safe
    /\ InBatch(s1) => \/ s1.from = Base + 1
                      \/ InBatch(s) /\ s1.from = s.from

\* To rest.
LEMMA RestMoved ==
    ASSUME TypeOK, NEW s PROVE Moved(s, AtRest)
<1>1. Positioned(AtRest)
  BY RestInv, BatchInvParts
<1>. QED
  BY <1>1, AtRestState, NothingPassed DEF Moved, InBatch

\* Polling: the confirmed head, then the checkpoint.
LEMMA PollMoves ==
    ASSUME IInv, NEW p \in Indexers, PollOnce(p) \/ PollPayroll(p)
    PROVE  \E s1 \in IndexerState : Become(p, s1) /\ Moved(indexer[p], s1)
<1>0. PICK s \in IndexerState : s = indexer[p] /\ BatchInv(s)
  BY DEF IInv, TypeOK
<1>1. TypeOK
  BY DEF IInv
<1>2. CASE PollOnce(p)
  <2> DEFINE s1 == [AtRest EXCEPT !.pc = "resolve", !.safe = Len(chain)]
  <2>1. Len(chain) \in Nat
    BY <1>1, ChainBlocksType
  <2>2. s1 \in IndexerState
    BY <2>1, AtRestState DEF IndexerState
  <2>3. s1.pc = "resolve" /\ s1.safe = Len(chain) /\ s1.to = 0 /\ s1.todo = <<>>
    BY AtRestState DEF IndexerState
  <2>4. Become(p, s1)
    BY <1>2 DEF PollOnce
  <2>. HIDE DEF s1
  <2>5. Positioned(s1)
    BY <2>1, <2>3 DEF Positioned, InBatch
  <2>6. \A b, do : ~ Passed(s1, b, do)
    BY <2>3 DEF Passed
  <2>7. Moved(s, s1)
    <3>1. LessPassed(s1, s)
      BY <2>6, NothingPassed
    <3>. QED
      BY <2>3, <2>5, <3>1 DEF Moved, InBatch
  <2>. QED
    BY <1>0, <2>2, <2>4, <2>7
<1>3. CASE PollPayroll(p)
  <2>1. PICK from \in Nat : /\ from = CalculateNextBlock(cp, StartBlock)
                            /\ StartBlock <= from /\ from = Base + 1 /\ Covered(from - 1)
    BY ResumeIsCovered
  <2>2. s.safe \in Nat /\ s.safe <= Len(chain) /\ s.pc = "resolve"
    BY <1>0, <1>3 DEF IndexerState, BatchInv, PollPayroll
  <2>3. CASE from > s.safe
    <3>1. Become(p, AtRest)
      BY <1>0, <1>3, <2>1, <2>3 DEF PollPayroll
    <3>. QED
      BY <1>0, <1>1, <3>1, RestMoved, AtRestState
  <2>4. CASE from <= s.safe
    <3>1. PICK s1 \in IndexerState : s1 = BeginBatch(s, from)
      BY <2>4, BeginBatchState
    <3>2. Become(p, s1)
      BY <1>0, <1>3, <2>1, <2>2, <2>4, <3>1 DEF PollPayroll
    <3>3. /\ Positioned(s1)
          /\ \A b, do : ~ Passed(s1, b, do)
          /\ s1.pc = "getlogs" /\ s1.safe = s.safe /\ s1.from = from
      BY <1>1, <2>1, <2>2, <2>4, <3>1, BeginBatchPositioned
    <3>4. Moved(s, s1)
      <4>1. LessPassed(s1, s)
        BY <3>3, NothingPassed
      <4>. QED
        BY <2>1, <2>2, <3>3, <4>1 DEF Moved, InBatch
    <3>. QED
      BY <1>0, <3>2, <3>4
  <2>. QED
    BY <2>2, <2>3, <2>4
<1>. QED
  BY <1>2, <1>3

\* Reading, taking and failing.
LEMMA SilentMoves ==
    ASSUME IInv, NEW p \in Indexers,
           \/ GetLogs(p) \/ TakeLog(p) \/ FindEmployee(p) \/ StatementFails(p)
           \/ GetLogsFails(p) \/ Crash(p)
    PROVE  \E s1 \in IndexerState : Become(p, s1) /\ Moved(indexer[p], s1)
<1>0. PICK s \in IndexerState : s = indexer[p] /\ BatchInv(s)
  BY DEF IInv, TypeOK
<1>1. TypeOK
  BY DEF IInv
<1>2. ASSUME NEW s1 \in AfterFailure(s), Become(p, s1), InBatch(s)
      PROVE  \E s2 \in IndexerState : Become(p, s2) /\ Moved(s, s2)
  <2>1. /\ s1 \in IndexerState /\ Positioned(s1) /\ LessPassed(s1, s)
        /\ s1.pc # "idle" => s1.safe = s.safe
        /\ InBatch(s1) => s1.from = s.from
    BY <1>0, <1>1, <1>2, AfterFailurePositioned
  <2>. QED
    BY <1>2, <2>1 DEF Moved, InBatch
<1>3. ASSUME NEW s1 \in IndexerState, Positioned(s1), LessPassed(s1, s), Become(p, s1),
             s1.pc = "write", s1.from = s.from, s1.safe = s.safe, InBatch(s)
      PROVE  \E s2 \in IndexerState : Become(p, s2) /\ Moved(s, s2)
  BY <1>3 DEF Moved, InBatch
<1>4. CASE GetLogs(p)
  <2>1. s.pc = "getlogs" /\ Become(p, [s EXCEPT !.pc = "write", !.next = s.from])
    BY <1>0, <1>4 DEF GetLogs
  <2>. QED
    BY <1>0, <1>1, <1>3, <2>1, GetLogsState DEF InBatch
<1>5. CASE TakeLog(p)
  <2>1. /\ s.pc = "write" /\ s.todo = <<>> /\ s.next <= s.to
        /\ Become(p, [s EXCEPT !.next = @ + 1, !.todo = Statements(chain[s.next], s.next)])
    BY <1>0, <1>5 DEF TakeLog
  <2>. QED
    BY <1>0, <1>1, <1>3, <2>1, TakeLogState DEF InBatch
<1>6. ASSUME Become(p, [s EXCEPT !.todo = Tail(@)]), s.pc = "write", s.todo # <<>>,
             Head(s.todo).do \in {"findEmployee"} \cup Ignored
      PROVE  \E s2 \in IndexerState : Become(p, s2) /\ Moved(s, s2)
  <2>1. PICK s1 \in IndexerState :
          /\ s1 = [s EXCEPT !.todo = Tail(@)] /\ Positioned(s1)
          /\ s1.pc = "write" /\ s1.from = s.from /\ s1.safe = s.safe
          /\ \A b, do : Passed(s1, b, do) => \/ Passed(s, b, do)
                                             \/ b = Head(s.todo).blk /\ do = Head(s.todo).do
    BY <1>0, <1>1, <1>6, DropStatement
  <2>2. \A do \in Watched : do # Head(s.todo).do
    BY <1>6 DEF Watched, Ignored
  <2>3. LessPassed(s1, s)
    BY <2>1, <2>2 DEF LessPassed
  <2>. QED
    BY <1>3, <1>6, <2>1, <2>3 DEF InBatch
<1>7. CASE FindEmployee(p)
  <2>1. s.pc = "write" /\ s.todo # <<>> /\ Head(s.todo).do = "findEmployee"
    BY <1>0, <1>7 DEF FindEmployee
  <2>2. CASE Become(p, [s EXCEPT !.todo = Tail(@)])
    BY <1>0, <1>6, <2>1, <2>2
  <2>3. CASE Become(p, [s EXCEPT !.todo = Placeholders(Head(s.todo)) \o Tail(@)])
    BY <1>0, <1>1, <1>3, <2>1, <2>3, MissEmployee DEF InBatch
  <2>. QED
    BY <1>0, <1>7, <2>2, <2>3 DEF FindEmployee
<1>8. CASE StatementFails(p)
  <2>1. s.pc = "write" /\ s.todo # <<>>
    BY <1>0, <1>8 DEF StatementFails
  <2>2. CASE Head(s.todo).do \in Ignored
    <3>1. Become(p, [s EXCEPT !.todo = Tail(@)])
      BY <1>0, <1>8, <2>2 DEF StatementFails
    <3>. QED
      BY <1>0, <1>6, <2>1, <2>2, <3>1
  <2>3. CASE Head(s.todo).do \notin Ignored
    <3>1. \E s1 \in AfterFailure(s) : Become(p, s1)
      BY <1>0, <1>8, <2>3 DEF StatementFails
    <3>. QED
      BY <1>0, <1>2, <2>1, <3>1 DEF InBatch
  <2>. QED
    BY <2>2, <2>3
<1>9. CASE GetLogsFails(p)
  BY <1>0, <1>2, <1>9 DEF GetLogsFails, InBatch
<1>10. CASE Crash(p)
  BY <1>0, <1>1, <1>10, RestMoved, AtRestState DEF Crash
<1>. QED
  BY <1>4, <1>5, <1>7, <1>8, <1>9, <1>10

-----------------------------------------------------------------------------
(***************************************************************************)
(* Neither the chain nor the statements of the other processes take away   *)
(* what a process has recorded.                                            *)
(***************************************************************************)

Grows ==
    /\ tables.transactions \subseteq tables'.transactions
    /\ tables.chain_events \subseteq tables'.chain_events
    /\ tables.fundings \subseteq tables'.fundings
    /\ tables.claims \subseteq tables'.claims

\* Storing more.
LEMMA StoringKeeps ==
    ASSUME UNCHANGED chain, Grows
    PROVE  /\ \A c : Covered(c) => Covered(c)'
           /\ \A s : BatchInv(s) => BatchInv(s)'
<1>1. \A b : Recorded(b) => Recorded(b)'
  BY DEF Recorded, Grows
<1>2. \A c : Happened(c)' = Happened(c)
  BY DEF Happened
<1>3. \A c : Covered(c) => Covered(c)'
  BY <1>1, <1>2 DEF Covered
<1>4. \A s : Positioned(s) => Positioned(s)'
  BY <1>3 DEF Positioned, InBatch
<1>5. \A s : Accounted(s) => Accounted(s)'
  BY <1>2 DEF Accounted, Passed, Grows
<1>6. \A s : BatchInv(s)' <=> Positioned(s)' /\ Accounted(s)'
  BY DEF BatchInv, Positioned, Accounted
<1>. QED
  BY <1>3, <1>4, <1>5, <1>6, BatchInvParts

\* One more confirmed block behind the others.
LEMMA ConfirmedBlock ==
    ASSUME TypeOK, NEW e \in Events, Confirm(e)
    PROVE  /\ Len(chain') = Len(chain) + 1 /\ Len(chain') <= MaxBlock
           /\ chain' \in Seq(Events) /\ DOMAIN chain' = 1 .. Len(chain) + 1
           /\ \A b \in DOMAIN chain : chain'[b] = chain[b] /\ b \in DOMAIN chain'
           /\ UNCHANGED <<tables, cp, indexer, faults>>
<1>1. chain \in Seq(Events) /\ Len(chain) < MaxBlock /\ chain' = Append(chain, e)
      /\ UNCHANGED <<tables, cp, indexer, faults>>
  BY DEF TypeOK, Confirm
<1>2. /\ chain' \in Seq(Events) /\ Len(chain') = Len(chain) + 1
      /\ \A b \in 1 .. Len(chain) : chain'[b] = chain[b]
  BY <1>1, AppendProperties
<1>3. Len(chain) \in Nat /\ MaxBlock \in Nat /\ DOMAIN chain = 1 .. Len(chain)
  BY ChainBlocksType, PayrollAssumption
<1>. QED
  BY <1>1, <1>2, <1>3

\* What happened up to a block stays as it is.
LEMMA ConfirmKeepsHistory ==
    ASSUME TypeOK, NEW e \in Events, Confirm(e)
    PROVE  /\ \A c \in Int : c <= Len(chain) => Happened(c)' = Happened(c)
           /\ \A c \in Int : c <= Len(chain) /\ Covered(c) => Covered(c)'
           /\ Happened(Len(chain)) \subseteq Happened(Len(chain))'
           /\ Happened(Len(chain))' \subseteq Happened(Len(chain)) \cup {Len(chain) + 1}
<1>1. /\ Len(chain') = Len(chain) + 1
      /\ DOMAIN chain' = 1 .. Len(chain) + 1
      /\ \A b \in DOMAIN chain : chain'[b] = chain[b]
      /\ tables' = tables
  BY ConfirmedBlock
<1>2. Len(chain) \in Nat /\ DOMAIN chain = 1 .. Len(chain) /\ StartBlock \in Nat
  BY ChainBlocksType
<1>3. ASSUME NEW c \in Int, c <= Len(chain) PROVE Happened(c)' = Happened(c)
  BY <1>1, <1>2, <1>3 DEF Happened
<1>4. ASSUME NEW c \in Int, c <= Len(chain), Covered(c) PROVE Covered(c)'
  <2>1. \A b \in Happened(c) : Recorded(b) /\ b \in DOMAIN chain
    BY <1>4 DEF Covered, Happened
  <2>2. \A b \in Happened(c) : Recorded(b)'
    BY <1>1, <2>1 DEF Recorded
  <2>. QED
    BY <1>3, <1>4, <2>2 DEF Covered
<1>5. Happened(Len(chain)) \subseteq Happened(Len(chain))'
  BY <1>1, <1>2 DEF Happened
<1>6. Happened(Len(chain))' \subseteq Happened(Len(chain)) \cup {Len(chain) + 1}
  BY <1>1, <1>2 DEF Happened
<1>. QED
  BY <1>3, <1>4, <1>5, <1>6

\* So a confirmed block disturbs no process.
LEMMA ConfirmKeeps ==
    ASSUME TypeOK, NEW e \in Events, Confirm(e)
    PROVE  \A s \in IndexerState : BatchInv(s) => BatchInv(s)'
<1> SUFFICES ASSUME NEW s \in IndexerState, BatchInv(s) PROVE Positioned(s)' /\ Accounted(s)'
  BY DEF BatchInv, Positioned, Accounted
<1>1. /\ Len(chain') = Len(chain) + 1 /\ Len(chain) \in Nat
      /\ DOMAIN chain = 1 .. Len(chain)
      /\ \A b \in DOMAIN chain : chain'[b] = chain[b]
      /\ UNCHANGED tables
  BY ConfirmedBlock, ChainBlocksType
<1>2. /\ s.from \in Nat /\ s.to \in Nat /\ s.safe \in Nat /\ s.next \in Nat
      /\ StartBlock \in Nat /\ StartBlock >= 1
  BY ChainBlocksType DEF IndexerState
<1>3. s.to <= s.safe /\ s.safe <= Len(chain)
  BY DEF BatchInv
<1>4. ASSUME InBatch(s) PROVE Covered(s.from - 1)'
  BY <1>1, <1>2, <1>3, <1>4, ConfirmKeepsHistory DEF BatchInv
<1>5. ASSUME s.pc = "write", NEW i \in DOMAIN s.todo PROVE s.todo[i].event = chain'[s.next - 1]
  <2>1. s.todo # <<>>
    BY <1>5
  <2>2. s.from < s.next /\ s.next <= s.to + 1 /\ StartBlock <= s.from
    BY <1>5, <2>1 DEF BatchInv, InBatch
  <2>3. s.next - 1 \in DOMAIN chain
    BY <1>1, <1>2, <1>3, <2>2
  <2>. QED
    BY <1>1, <1>5, <2>3 DEF BatchInv
<1>6. Positioned(s)'
  BY <1>1, <1>2, <1>3, <1>4, <1>5 DEF Positioned, BatchInv, InBatch
<1>7. Accounted(s)'
  <2> SUFFICES ASSUME NEW b \in Happened(Len(chain))'
               PROVE  /\ Passed(s, b, "transaction") => b \in tables.transactions
                      /\ Passed(s, b, "chainEvent") => b \in tables.chain_events
                      /\ chain'[b].kind = "PayrollFunded" /\ Passed(s, b, "funding")
                             => b \in tables.fundings
                      /\ chain'[b].kind = "SalaryClaimed" /\ Passed(s, b, "claim")
                             => b \in tables.claims
    BY <1>1 DEF Accounted, Passed
  <2>1. CASE b \in Happened(Len(chain))
    BY <1>1, <2>1 DEF BatchInv, Happened
  <2>2. CASE b = Len(chain) + 1
    <3>1. s.pc = "write" => s.next <= s.to + 1
      BY DEF BatchInv
    <3>. QED
      BY <1>1, <1>2, <1>3, <2>2, <3>1 DEF Passed
  <2>. QED
    BY <2>1, <2>2, ConfirmKeepsHistory
<1>. QED
  BY <1>6, <1>7

\* When one process moves to a state it may be in, all are in such a state.
LEMMA OneMoves ==
    ASSUME IInv, NEW p \in Indexers, NEW s1 \in IndexerState, Become(p, s1), BatchInv(s1)',
           \A s \in IndexerState : BatchInv(s) => BatchInv(s)'
    PROVE  /\ indexer' \in [Indexers -> IndexerState]
           /\ \A q \in Indexers : /\ BatchInv(indexer[q])'
                                  /\ indexer'[q].to <= indexer'[q].safe
                                  /\ indexer'[q].safe <= Len(chain')
<1>1. indexer' \in [Indexers -> IndexerState]
  BY DEF IInv, TypeOK, Become
<1>2. ASSUME NEW q \in Indexers
      PROVE  \E s2 \in IndexerState : s2 = indexer'[q] /\ BatchInv(s2)'
  BY DEF IInv, TypeOK, Become
<1>3. ASSUME NEW q \in Indexers PROVE BatchInv(indexer[q])'
  <2>1. PICK s2 \in IndexerState : s2 = indexer'[q] /\ BatchInv(s2)'
    BY <1>2
  <2>. QED
    BY <2>1 DEF BatchInv, Passed, InBatch
<1>4. \A s : BatchInv(s)' => s.to <= s.safe /\ s.safe <= Len(chain')
  BY DEF BatchInv
<1>. QED
  BY <1>1, <1>2, <1>3, <1>4

-----------------------------------------------------------------------------
(***************************************************************************)
(* The moves of a process that write.                                      *)
(***************************************************************************)

\* A statement the process p is at is executed; what the attempt has passed is what it
\* had passed and the statement.
Executed(s, s1, st) ==
    /\ Positioned(s1)
    /\ \A b, do : Passed(s1, b, do) => \/ Passed(s, b, do)
                                       \/ b = st.blk /\ do = st.do
    /\ s1.pc # "idle" => s1.safe = s.safe
    /\ InBatch(s1) => s1.from = s.from

\* Executing a statement, its reply lost or not.
LEMMA ExecuteMoves ==
    ASSUME IInv, NEW p \in Indexers, ExecuteStatement(p)
    PROVE  LET s == indexer[p]  st == Head(s.todo) IN
           /\ s.pc = "write" /\ s.todo # <<>> /\ st.do # "findEmployee"
           /\ Satisfied(tables, st) /\ tables' = Execute(tables, st)
           /\ UNCHANGED <<chain, cp>>
           /\ \E s1 \in IndexerState : Become(p, s1) /\ Executed(s, s1, st)
<1>0. PICK s \in IndexerState : s = indexer[p] /\ BatchInv(s)
  BY DEF IInv, TypeOK
<1>1. TypeOK
  BY DEF IInv
<1>2. PICK st : st = Head(s.todo)
  OBVIOUS
<1>3. /\ s.pc = "write" /\ s.todo # <<>> /\ st.do # "findEmployee"
      /\ Satisfied(tables, st) /\ tables' = Execute(tables, st)
      /\ UNCHANGED <<chain, cp>>
  BY <1>0, <1>2 DEF ExecuteStatement
<1>4. CASE Become(p, [s EXCEPT !.todo = Tail(@)])
  <2>1. PICK s1 \in IndexerState :
          /\ s1 = [s EXCEPT !.todo = Tail(@)] /\ Positioned(s1)
          /\ s1.pc = "write" /\ s1.from = s.from /\ s1.safe = s.safe
          /\ \A b, do : Passed(s1, b, do) => \/ Passed(s, b, do)
                                             \/ b = st.blk /\ do = st.do
    BY <1>0, <1>1, <1>2, <1>3, DropStatement
  <2>2. Executed(s, s1, st)
    BY <2>1 DEF Executed
  <2>. QED
    BY <1>0, <1>2, <1>3, <1>4, <2>1, <2>2
<1>5. ASSUME NEW s1 \in AfterFailure(s), Become(p, s1)
      PROVE  \E s2 \in IndexerState : Become(p, s2) /\ Executed(s, s2, st)
  <2>1. /\ s1 \in IndexerState /\ Positioned(s1)
        /\ s1.pc # "idle" => s1.safe = s.safe
        /\ InBatch(s1) => s1.from = s.from
    BY <1>0, <1>1, <1>3, AfterFailurePositioned DEF InBatch
  <2>2. \A b, do : ~ Passed(s1, b, do)
    BY AfterFailureState
  <2>. QED
    BY <1>5, <2>1, <2>2 DEF Executed
<1>6. CASE \E s1 \in AfterFailure(s) : Become(p, s1)
  <2>1. \E s2 \in IndexerState : Become(p, s2) /\ Executed(s, s2, st)
    BY <1>5, <1>6
  <2>. QED
    BY <1>0, <1>2, <1>3, <2>1
<1>. QED
  BY <1>0, <1>4, <1>6 DEF ExecuteStatement

\* A statement adds to what is recorded, and records itself.
LEMMA ExecuteGrows ==
    ASSUME IInv, NEW p \in Indexers, ExecuteStatement(p)
    PROVE  LET st == Head(indexer[p].todo) IN
           /\ st \in Statement /\ st.blk \in Happened(Len(chain)) /\ st.event = chain[st.blk]
           /\ tables' \in Tables /\ Grows
           /\ tables'.transactions \subseteq tables.transactions \cup {st.blk}
           /\ st.do = "transaction" => st.blk \in tables'.transactions
           /\ st.do # "transaction" => tables'.transactions = tables.transactions
           /\ st.do = "chainEvent" => st.blk \in tables'.chain_events
           /\ st.do = "funding" => st.blk \in tables'.fundings
           /\ st.do = "claim" => st.blk \in tables'.claims
<1>1. PICK s \in IndexerState : s = indexer[p] /\ BatchInv(s)
  BY DEF IInv, TypeOK
<1>2. TypeOK /\ tables \in Tables
  BY DEF IInv, TypeOK
<1>3. PICK st : st = Head(s.todo)
  OBVIOUS
<1>4. /\ s.pc = "write" /\ s.todo # <<>> /\ st.do # "findEmployee"
      /\ tables' = Execute(tables, st)
  BY <1>1, <1>3, ExecuteMoves
<1>5. st \in Statement /\ st.blk \in Happened(Len(chain)) /\ st.event = chain[st.blk]
  BY <1>1, <1>2, <1>3, <1>4, NextStatement
<1>6. tables' \in Tables
  BY <1>2, <1>4, <1>5, ExecuteType
<1>7. /\ tables'.transactions = tables.transactions \cup IF st.do = "transaction" THEN {st.blk} ELSE {}
      /\ tables'.chain_events = tables.chain_events \cup IF st.do = "chainEvent" THEN {st.blk} ELSE {}
      /\ tables'.fundings = tables.fundings \cup IF st.do = "funding" THEN {st.blk} ELSE {}
      /\ tables'.claims = tables.claims \cup IF st.do = "claim" THEN {st.blk} ELSE {}
  BY <1>2, <1>4, <1>5, ExecuteSets
<1>. QED
  BY <1>1, <1>3, <1>5, <1>6, <1>7 DEF Grows

\* So the state after a statement is accounted for.
LEMMA ExecutedInv ==
    ASSUME IInv, NEW p \in Indexers, ExecuteStatement(p), NEW s1 \in IndexerState,
           Executed(indexer[p], s1, Head(indexer[p].todo))
    PROVE  BatchInv(s1)'
<1>1. PICK s \in IndexerState : s = indexer[p] /\ BatchInv(s)
  BY DEF IInv, TypeOK
<1>2. PICK st \in Statement :
        /\ st = Head(s.todo)
        /\ st.do = "transaction" => st.blk \in tables'.transactions
        /\ st.do = "chainEvent" => st.blk \in tables'.chain_events
        /\ st.do = "funding" => st.blk \in tables'.fundings
        /\ st.do = "claim" => st.blk \in tables'.claims
  BY <1>1, ExecuteGrows
<1>3. UNCHANGED chain /\ Grows
  BY ExecuteMoves, ExecuteGrows
<1>4. /\ Positioned(s1)
      /\ \A b, do : Passed(s1, b, do) => \/ Passed(s, b, do)
                                         \/ b = st.blk /\ do = st.do
  BY <1>1, <1>2 DEF Executed
<1>5. Positioned(s1)'
  <2>1. \A c : Covered(c) => Covered(c)'
    BY <1>3, StoringKeeps
  <2>. QED
    BY <1>3, <1>4, <2>1 DEF Positioned, InBatch
<1>6. Accounted(s1)'
  <2> SUFFICES ASSUME NEW b \in Happened(Len(chain))
               PROVE  /\ Passed(s1, b, "transaction") => b \in tables'.transactions
                      /\ Passed(s1, b, "chainEvent") => b \in tables'.chain_events
                      /\ chain[b].kind = "PayrollFunded" /\ Passed(s1, b, "funding")
                             => b \in tables'.fundings
                      /\ chain[b].kind = "SalaryClaimed" /\ Passed(s1, b, "claim")
                             => b \in tables'.claims
    BY <1>3 DEF Accounted, Passed, Happened
  <2>1. /\ Passed(s, b, "transaction") => b \in tables.transactions
        /\ Passed(s, b, "chainEvent") => b \in tables.chain_events
        /\ chain[b].kind = "PayrollFunded" /\ Passed(s, b, "funding") => b \in tables.fundings
        /\ chain[b].kind = "SalaryClaimed" /\ Passed(s, b, "claim") => b \in tables.claims
    BY <1>1 DEF BatchInv
  <2>. QED
    BY <1>2, <1>3, <1>4, <2>1 DEF Grows
<1>. QED
  BY <1>5, <1>6 DEF BatchInv, Positioned, Accounted

\* When all logs of its batch are passed, the batch is covered.
LEMMA BatchIsCovered ==
    ASSUME TypeOK, NEW s \in IndexerState, BatchInv(s),
           s.pc = "write", s.todo = <<>>, s.next > s.to
    PROVE  /\ Covered(s.to)
           /\ s.to \in Nat /\ StartBlock <= s.to /\ s.to <= Len(chain) /\ s.from \in Nat
           /\ \A b \in s.from .. s.to : \A do : Passed(s, b, do)
<1>1. /\ s.from \in Nat /\ s.to \in Nat /\ s.next \in Nat /\ s.safe \in Nat
      /\ StartBlock \in Nat /\ Len(chain) \in Nat
  BY ChainBlocksType DEF IndexerState
<1>2. StartBlock <= s.from /\ s.from <= s.to /\ Covered(s.from - 1)
      /\ s.to <= s.safe /\ s.safe <= Len(chain)
  BY DEF BatchInv, InBatch
<1>3. \A b \in s.from .. s.to : \A do : Passed(s, b, do)
  BY <1>1 DEF Passed
<1>4. ASSUME NEW b \in Happened(s.to) PROVE Recorded(b)
  <2>1. b \in StartBlock .. s.to /\ b \in Happened(Len(chain))
    BY <1>1, <1>2 DEF Happened
  <2>2. CASE b <= s.from - 1
    <3>1. b \in Happened(s.from - 1)
      BY <1>1, <2>2 DEF Happened
    <3>. QED
      BY <1>2, <3>1 DEF Covered
  <2>3. CASE ~ (b <= s.from - 1)
    <3>1. \A do : Passed(s, b, do)
      BY <1>1, <1>3, <2>1, <2>3
    <3>. QED
      BY <2>1, <3>1 DEF BatchInv, Recorded
  <2>. QED
    BY <2>2, <2>3
<1>. QED
  BY <1>1, <1>2, <1>3, <1>4 DEF Covered

\* The checkpoint after a batch, or the one that fails.
LEMMA CheckpointMoves ==
    ASSUME IInv, NEW p \in Indexers, SaveCheckpoint(p) \/ CheckpointFails(p)
    PROVE  LET s == indexer[p] IN
           /\ s.pc = "write" /\ s.todo = <<>> /\ s.next > s.to
           /\ UNCHANGED <<chain, tables>>
           /\ cp' \in {cp, s.to}
           /\ \E s1 \in IndexerState :
                 /\ Become(p, s1) /\ Positioned(s1) /\ Accounted(s1)
                 /\ \A b, do : ~ Passed(s1, b, do)
                 /\ s1 = AtRest \/ (cp' = s.to /\ s1.from = s.to + 1 /\ s1.safe = s.safe)
<1>0. PICK s \in IndexerState : s = indexer[p] /\ BatchInv(s)
  BY DEF IInv, TypeOK
<1>1. TypeOK
  BY DEF IInv
<1>2. /\ s.pc = "write" /\ s.todo = <<>> /\ s.next > s.to
      /\ UNCHANGED <<chain, tables>>
      /\ cp' \in {cp, s.to}
      /\ SaveCheckpoint(p) => cp' = s.to
  BY <1>0 DEF SaveCheckpoint, CheckpointFails, CheckpointAfter
<1>3. Positioned(AtRest) /\ Accounted(AtRest)
  BY <1>1, RestInv, BatchInvParts
<1>4. CASE Become(p, AtRest)
  BY <1>0, <1>2, <1>3, <1>4, AtRestState
<1>5. CASE SaveCheckpoint(p) /\ ~ Become(p, AtRest)
  <2> DEFINE r == [s EXCEPT !.batches = @ + 1]
  <2>1. s.batches + 1 \in Nat
    BY DEF IndexerState
  <2>2. r \in IndexerState
    BY <2>1 DEF IndexerState
  <2>3. r.to = s.to /\ r.safe = s.safe
    BY DEF IndexerState
  <2>4. Become(p, AfterCheckpoint(p))
    BY <1>5 DEF SaveCheckpoint
  <2>5. s.to < s.safe /\ Become(p, BeginBatch(r, s.to + 1))
    BY <1>0, <1>5, <2>3, <2>4 DEF AfterCheckpoint
  <2>. HIDE DEF r
  <2>6. /\ Covered(s.to) /\ s.to \in Nat /\ StartBlock <= s.to /\ s.safe \in Nat
        /\ s.safe <= Len(chain) /\ StartBlock \in Nat
    BY <1>0, <1>1, <1>2, BatchIsCovered, ChainBlocksType DEF BatchInv, IndexerState
  <2>7. s.to + 1 \in Nat /\ s.to + 1 <= r.safe /\ StartBlock <= s.to + 1 /\ Covered((s.to + 1) - 1)
        /\ r.safe <= Len(chain)
    BY <2>3, <2>5, <2>6
  <2>8. PICK s1 \in IndexerState :
          /\ s1 = BeginBatch(r, s.to + 1) /\ Positioned(s1) /\ Accounted(s1)
          /\ \A b, do : ~ Passed(s1, b, do)
          /\ s1.safe = r.safe /\ s1.from = s.to + 1
    BY <1>1, <2>2, <2>7, BeginBatchPositioned
  <2>. QED
    BY <1>0, <1>2, <1>5, <2>3, <2>5, <2>8
<1>6. SaveCheckpoint(p) \/ Become(p, AtRest)
  BY DEF CheckpointFails
<1>. QED
  BY <1>4, <1>5, <1>6

-----------------------------------------------------------------------------
(***************************************************************************)
(* The invariant of any number of processes.                               *)
(***************************************************************************)

\* A fault is counted within its bound.
LEMMA FaultType ==
    ASSUME TypeOK, Fault \/ UNCHANGED faults
    PROVE  faults' \in 0 .. MaxFaults
  BY IndexerAssumption DEF TypeOK, Fault

\* Every step counts its faults.
LEMMA FaultStep ==
    ASSUME NEW p \in Indexers, IndexStep(p) \/ GetLogsFails(p) \/ CheckpointFails(p) \/ Crash(p)
    PROVE  Fault \/ UNCHANGED faults
  BY DEF IndexStep, PollOnce, PollPayroll, GetLogs, TakeLog, ExecuteStatement, FindEmployee,
         StatementFails, SaveCheckpoint, GetLogsFails, CheckpointFails, Crash

\* It holds in the beginning.
LEMMA InitIInv == Init => IInv
<1> SUFFICES ASSUME Init PROVE IInv
  OBVIOUS
<1>1. Len(chain) = 0 /\ chain \in Seq(Events) /\ DOMAIN chain = {}
  BY DEF Init
<1>2. tables \in Tables /\ tables.transactions = {}
  <2>1. NoBlock \in BlockOrNull
    BY DEF BlockOrNull
  <2>2. NoEmployer \in EmployerRow
    BY <2>1 DEF NoEmployer, EmployerRow
  <2>3. NoEmployee \in EmployeeRow
    BY <2>1 DEF NoEmployee, EmployeeRow
  <2>. QED
    BY <2>2, <2>3 DEF Init, EmptyTables, Tables
<1>3. cp = NoBlock /\ cp \in BlockOrNull /\ faults \in 0 .. MaxFaults
  BY IndexerAssumption DEF Init, BlockOrNull
<1>4. \A p \in Indexers : indexer[p] = AtRest
  BY DEF Init
<1>5. indexer \in [Indexers -> IndexerState]
  BY AtRestState DEF Init
<1>6. TypeOK
  <2>1. Len(chain) <= MaxBlock /\ AtRest.to <= AtRest.safe /\ AtRest.safe <= Len(chain)
    BY <1>1, AtRestState, PayrollAssumption
  <2>. QED
    BY <1>1, <1>2, <1>3, <1>4, <1>5, <2>1 DEF TypeOK
<1>7. TablesInv
  BY <1>1, <1>2, <1>3 DEF TablesInv, Covered, Happened
<1>. QED
  BY <1>4, <1>6, <1>7, RestInv DEF IInv

\* The tables' part after a step that leaves tables and checkpoint alone.
LEMMA SameTables ==
    ASSUME TablesInv, UNCHANGED <<chain, tables, cp>>
    PROVE  TablesInv'
  BY DEF TablesInv, Covered, Happened, Recorded

\* A step of a process that writes nothing.
LEMMA SilentIInv ==
    ASSUME IInv, NEW p \in Indexers, NEW s1 \in IndexerState, Become(p, s1), BatchInv(s1),
           UNCHANGED <<chain, tables, cp>>, Fault \/ UNCHANGED faults
    PROVE  IInv'
<1>1. Grows
  BY DEF Grows
<1>2. \A s : BatchInv(s) => BatchInv(s)'
  BY <1>1, StoringKeeps
<1>3. /\ indexer' \in [Indexers -> IndexerState]
      /\ \A q \in Indexers : /\ BatchInv(indexer[q])'
                             /\ indexer'[q].to <= indexer'[q].safe
                             /\ indexer'[q].safe <= Len(chain')
  BY <1>2, OneMoves
<1>4. TablesInv'
  BY SameTables DEF IInv
<1>5. faults' \in 0 .. MaxFaults
  BY FaultType DEF IInv
<1>. QED
  BY <1>3, <1>4, <1>5 DEF IInv, TypeOK

\* Every step of a process keeps it.
LEMMA ProcessIInv ==
    ASSUME IInv, NEW p \in Indexers,
           IndexStep(p) \/ GetLogsFails(p) \/ CheckpointFails(p) \/ Crash(p)
    PROVE  IInv'
<1>0. TypeOK /\ TablesInv /\ faults' \in 0 .. MaxFaults
  BY FaultStep, FaultType DEF IInv
<1>1. PICK s \in IndexerState : s = indexer[p] /\ BatchInv(s)
  BY DEF IInv, TypeOK
<1>2. ASSUME UNCHANGED <<chain, tables, cp>>,
             \E s1 \in IndexerState : Become(p, s1) /\ Moved(indexer[p], s1)
      PROVE  IInv'
  <2>1. PICK s1 \in IndexerState : Become(p, s1) /\ Moved(s, s1)
    BY <1>1, <1>2
  <2>2. BatchInv(s1)
    BY <1>0, <1>1, <2>1, LessIsAccounted, BatchInvParts DEF Moved
  <2>. QED
    BY <1>2, <2>1, <2>2, SilentIInv, FaultStep
<1>3. CASE PollOnce(p) \/ PollPayroll(p)
  <2>1. UNCHANGED <<chain, tables, cp>>
    BY <1>3 DEF PollOnce, PollPayroll
  <2>. QED
    BY <1>2, <1>3, <2>1, PollMoves
<1>4. CASE GetLogs(p) \/ TakeLog(p) \/ FindEmployee(p) \/ StatementFails(p)
           \/ GetLogsFails(p) \/ Crash(p)
  <2>1. UNCHANGED <<chain, tables, cp>>
    BY <1>4 DEF GetLogs, TakeLog, FindEmployee, StatementFails, GetLogsFails, Crash
  <2>. QED
    BY <1>2, <1>4, <2>1, SilentMoves
<1>5. CASE ExecuteStatement(p)
  <2>1. UNCHANGED <<chain, cp>> /\ tables' \in Tables /\ Grows
    BY <1>5, ExecuteMoves, ExecuteGrows
  <2>2. PICK s1 \in IndexerState : Become(p, s1) /\ BatchInv(s1)'
    <3>1. PICK s1 \in IndexerState : /\ Become(p, s1)
                                     /\ Executed(indexer[p], s1, Head(indexer[p].todo))
      BY <1>5, ExecuteMoves
    <3>. QED
      BY <1>5, <3>1, ExecutedInv
  <2>3. /\ \A r : BatchInv(r) => BatchInv(r)'
        /\ Covered(cp) => Covered(cp)'
    <3>1. \A c : Covered(c) => Covered(c)'
      BY <2>1, StoringKeeps
    <3>2. PICK c : c = cp
      OBVIOUS
    <3>. QED
      BY <2>1, <3>1, <3>2, StoringKeeps DEF Covered, Recorded, Happened
  <2>4. /\ indexer' \in [Indexers -> IndexerState]
        /\ \A q \in Indexers : /\ BatchInv(indexer[q])'
                               /\ indexer'[q].to <= indexer'[q].safe
                               /\ indexer'[q].safe <= Len(chain')
    BY <2>2, <2>3, OneMoves
  <2>5. TypeOK'
    BY <1>0, <2>1, <2>4 DEF TypeOK
  <2>6. TablesInv'
    <3>1. \A b \in tables'.transactions : b \in DOMAIN chain /\ b >= StartBlock /\ chain[b] # Nothing
      BY <1>0, <1>5, ExecuteGrows, ChainBlocksType DEF TablesInv
    <3>. QED
      BY <1>0, <2>1, <2>3, <3>1 DEF TablesInv
  <2>. QED
    BY <2>4, <2>5, <2>6 DEF IInv
<1>6. CASE SaveCheckpoint(p) \/ CheckpointFails(p)
  <2>1. /\ s.pc = "write" /\ s.todo = <<>> /\ s.next > s.to
        /\ UNCHANGED <<chain, tables>> /\ cp' \in {cp, s.to}
    BY <1>1, <1>6, CheckpointMoves
  <2>2. PICK s1 \in IndexerState : Become(p, s1) /\ BatchInv(s1)
    BY <1>6, CheckpointMoves, BatchInvParts
  <2>3. Grows
    BY <2>1 DEF Grows
  <2>4. \A r : BatchInv(r) => BatchInv(r)'
    BY <2>1, <2>3, StoringKeeps
  <2>5. /\ indexer' \in [Indexers -> IndexerState]
        /\ \A q \in Indexers : /\ BatchInv(indexer[q])'
                               /\ indexer'[q].to <= indexer'[q].safe
                               /\ indexer'[q].safe <= Len(chain')
    BY <2>2, <2>4, OneMoves
  <2>6. Covered(s.to) /\ s.to \in Nat /\ StartBlock <= s.to /\ s.to <= Len(chain)
    BY <1>0, <1>1, <2>1, BatchIsCovered
  <2>7. cp' \in BlockOrNull
    BY <1>0, <2>1, <2>6, ChainBlocksType DEF TypeOK, BlockOrNull
  <2>8. TypeOK'
    BY <1>0, <2>1, <2>5, <2>7 DEF TypeOK
  <2>9. Covered(cp)'
    <3>1. CASE cp' = cp
      BY <1>0, <2>1, <3>1, SameTables DEF TablesInv
    <3>2. CASE cp' = s.to
      BY <2>1, <2>6, <3>2 DEF Covered, Happened, Recorded
    <3>. QED
      BY <2>1, <3>1, <3>2
  <2>10. TablesInv'
    BY <1>0, <2>1, <2>6, <2>9 DEF TablesInv
  <2>. QED
    BY <2>5, <2>8, <2>10 DEF IInv
<1>. QED
  BY <1>3, <1>4, <1>5, <1>6 DEF IndexStep

\* A confirmed block keeps it.
LEMMA ConfirmIInv ==
    ASSUME IInv, NEW e \in Events, Confirm(e)
    PROVE  IInv'
<1>1. TypeOK /\ TablesInv
  BY DEF IInv
<1>2. /\ Len(chain') = Len(chain) + 1 /\ Len(chain') <= MaxBlock
      /\ chain' \in Seq(Events)
      /\ \A b \in DOMAIN chain : chain'[b] = chain[b] /\ b \in DOMAIN chain'
      /\ UNCHANGED <<tables, cp, indexer, faults>>
      /\ Len(chain) \in Nat
  BY <1>1, ConfirmedBlock, ChainBlocksType
<1>3. TypeOK'
  <2>1. \A p \in Indexers : indexer[p].to <= indexer[p].safe /\ indexer[p].safe <= Len(chain')
    BY <1>1, <1>2 DEF TypeOK, IndexerState
  <2>. QED
    BY <1>1, <1>2, <2>1 DEF TypeOK
<1>4. ASSUME NEW p \in Indexers PROVE BatchInv(indexer[p])'
  <2>1. PICK s \in IndexerState : s = indexer[p] /\ s = indexer'[p] /\ BatchInv(s)'
    BY <1>1, <1>2, ConfirmKeeps DEF IInv, TypeOK
  <2>. QED
    BY <2>1 DEF BatchInv, Passed, InBatch
<1>5. Covered(cp)'
  <2>1. PICK c \in Int : c = cp /\ c <= Len(chain) /\ Covered(c)
    BY <1>1, <1>2 DEF TypeOK, BlockOrNull, NoBlock, TablesInv
  <2>2. Covered(c)'
    BY <1>1, <2>1, ConfirmKeepsHistory
  <2>. QED
    BY <1>2, <2>1, <2>2 DEF Covered, Happened, Recorded
<1>6. TablesInv'
  <2>1. cp # NoBlock => cp <= Len(chain')
    BY <1>1, <1>2 DEF TypeOK, BlockOrNull, NoBlock, TablesInv
  <2>. QED
    BY <1>1, <1>2, <1>5, <2>1 DEF TablesInv
<1>. QED
  BY <1>3, <1>4, <1>6 DEF IInv

\* So it is inductive.
LEMMA NextIInv == IInv /\ [Next]_vars => IInv'
<1> SUFFICES ASSUME IInv, [Next]_vars PROVE IInv'
  OBVIOUS
<1>1. CASE UNCHANGED vars
  BY <1>1 DEF vars, IInv, TypeOK, TablesInv, BatchInv, InBatch, Passed, Covered, Happened, Recorded
<1>2. CASE Next
  BY <1>2, ConfirmIInv, ProcessIInv DEF Next
<1>. QED
  BY <1>1, <1>2

\* Types, in every execution (statements queued, tables, checkpoint, positions): the
\* program's values stay in range whatever fails, is retried or replays.
THEOREM TypeCorrect == Spec => []TypeOK
<1>1. IInv => TypeOK
  BY DEF IInv
<1>. QED
  BY InitIInv, NextIInv, <1>1, PTL DEF Spec

\* Every event up to the checkpoint is stored, with the rows of its own: a batch whose
\* attempts fail half way, or whose replies are lost, is never passed by the checkpoint,
\* however many processes share the stream.
THEOREM CheckpointCovers == Spec => []StoredUpToCheckpoint
<1>1. IInv => StoredUpToCheckpoint
  BY DEF IInv, TablesInv, Covered, StoredUpToCheckpoint
<1>. QED
  BY InitIInv, NextIInv, <1>1, PTL DEF Spec

-----------------------------------------------------------------------------
(***************************************************************************)
(* A single process: a batch begins right behind the checkpoint.           *)
(***************************************************************************)

ProcessStep(p) == IndexStep(p) \/ GetLogsFails(p) \/ CheckpointFails(p) \/ Crash(p)

\* Positions of the checkpoint.
LEMMA BaseType ==
    ASSUME IInv
    PROVE  /\ Base \in Int /\ cp \in Int /\ cp <= Base
           /\ cp # NoBlock => Base = cp /\ cp \in Nat /\ StartBlock <= cp /\ cp <= Len(chain)
           /\ cp = NoBlock => Base = StartBlock - 1 /\ Base \in Nat
  BY ChainBlocksType DEF IInv, TypeOK, TablesInv, Base, BlockOrNull, NoBlock

\* What a step of the process is, seen from the checkpoint: it writes nothing, executes a
\* statement, or moves the checkpoint over its batch.
LEMMA ProcessMoves ==
    ASSUME IInv, NEW p \in Indexers, BatchAtBase(indexer[p]), ProcessStep(p)
    PROVE  \E s, s1 \in IndexerState :
           /\ s = indexer[p] /\ s1 = indexer'[p] /\ BatchInv(s) /\ BatchInv(s1)'
           /\ UNCHANGED chain
           /\ \/ UNCHANGED <<tables, cp>> /\ Moved(s, s1)
              \/ ExecuteStatement(p) /\ Executed(s, s1, Head(s.todo))
              \/ /\ UNCHANGED tables
                 /\ s.pc = "write" /\ s.todo = <<>> /\ s.next > s.to
                 /\ cp' \in {cp, s.to}
                 /\ \A b, do : ~ Passed(s1, b, do)
                 /\ s1 = AtRest \/ (cp' = s.to /\ s1.from = s.to + 1)
<1>1. PICK s \in IndexerState : s = indexer[p] /\ BatchInv(s)
  BY DEF IInv, TypeOK
<1>2. ASSUME NEW s1 \in IndexerState, Become(p, s1) PROVE s1 = indexer'[p]
  BY <1>2 DEF IInv, TypeOK, Become
<1>3. BatchInv(indexer[p])' /\ indexer'[p] \in IndexerState
  BY ProcessIInv DEF ProcessStep, IInv, TypeOK
<1>4. PICK r \in IndexerState : r = indexer'[p] /\ BatchInv(r)'
  BY <1>3 DEF BatchInv, Passed, InBatch
<1>5. CASE PollOnce(p) \/ PollPayroll(p)
  <2>1. UNCHANGED <<chain, tables, cp>>
    BY <1>5 DEF PollOnce, PollPayroll
  <2>2. Moved(s, r)
    BY <1>1, <1>2, <1>4, <1>5, PollMoves
  <2>. QED
    BY <1>1, <1>4, <2>1, <2>2
<1>6. CASE GetLogs(p) \/ TakeLog(p) \/ FindEmployee(p) \/ StatementFails(p)
           \/ GetLogsFails(p) \/ Crash(p)
  <2>1. UNCHANGED <<chain, tables, cp>>
    BY <1>6 DEF GetLogs, TakeLog, FindEmployee, StatementFails, GetLogsFails, Crash
  <2>2. Moved(s, r)
    BY <1>1, <1>2, <1>4, <1>6, SilentMoves
  <2>. QED
    BY <1>1, <1>4, <2>1, <2>2
<1>7. CASE ExecuteStatement(p)
  <2>1. UNCHANGED chain
    BY <1>7, ExecuteMoves
  <2>2. Executed(s, r, Head(s.todo))
    BY <1>1, <1>2, <1>4, <1>7, ExecuteMoves
  <2>. QED
    BY <1>1, <1>4, <1>7, <2>1, <2>2
<1>8. CASE SaveCheckpoint(p) \/ CheckpointFails(p)
  <2>1. /\ s.pc = "write" /\ s.todo = <<>> /\ s.next > s.to
        /\ UNCHANGED <<chain, tables>> /\ cp' \in {cp, s.to}
    BY <1>1, <1>8, CheckpointMoves
  <2>2. /\ \A b, do : ~ Passed(r, b, do)
        /\ r = AtRest \/ (cp' = s.to /\ r.from = s.to + 1)
    BY <1>1, <1>2, <1>4, <1>8, CheckpointMoves
  <2>. QED
    BY <1>1, <1>4, <2>1, <2>2
<1>. QED
  BY <1>5, <1>6, <1>7, <1>8 DEF ProcessStep, IndexStep

\* The next batch begins right behind the checkpoint again.
LEMMA BatchStaysAtBase ==
    ASSUME IInv, NEW p \in Indexers, BatchAtBase(indexer[p]), ProcessStep(p)
    PROVE  BatchAtBase(indexer[p])'
<1>1. PICK s \in IndexerState, s1 \in IndexerState :
        /\ s = indexer[p] /\ s1 = indexer'[p] /\ BatchInv(s)
        /\ \/ UNCHANGED <<tables, cp>> /\ Moved(s, s1)
           \/ ExecuteStatement(p) /\ Executed(s, s1, Head(s.todo))
           \/ /\ s.pc = "write" /\ s.todo = <<>> /\ s.next > s.to
              /\ cp' \in {cp, s.to}
              /\ s1 = AtRest \/ (cp' = s.to /\ s1.from = s.to + 1)
  BY ProcessMoves
<1>2. InBatch(s) => s.from = Base + 1
  BY <1>1 DEF BatchAtBase
<1>3. CASE UNCHANGED <<tables, cp>> /\ Moved(s, s1)
  <2>1. InBatch(s1) => s1.from = Base + 1
    BY <1>2, <1>3 DEF Moved
  <2>. QED
    BY <1>1, <1>3, <2>1 DEF BatchAtBase, InBatch, Base
<1>4. CASE ExecuteStatement(p) /\ Executed(s, s1, Head(s.todo))
  <2>1. s.pc = "write" /\ cp' = cp
    BY <1>1, <1>4, ExecuteMoves
  <2>2. InBatch(s1) => s1.from = Base + 1
    BY <1>2, <1>4, <2>1 DEF Executed, InBatch
  <2>. QED
    BY <1>1, <2>1, <2>2 DEF BatchAtBase, InBatch, Base
<1>5. CASE /\ s.pc = "write" /\ s.todo = <<>> /\ s.next > s.to
           /\ s1 = AtRest \/ (cp' = s.to /\ s1.from = s.to + 1)
  <2>1. s.to \in Nat
    BY DEF IndexerState
  <2>. QED
    BY <1>1, <1>5, <2>1, AtRestState DEF BatchAtBase, InBatch, Base, NoBlock
<1>. QED
  BY <1>1, <1>3, <1>4, <1>5

-----------------------------------------------------------------------------
(***************************************************************************)
(* A single process: what is secured.                                      *)
(***************************************************************************)

\* The statements that write the rows of employers and employees.
RowStatements ==
    {"employerAdded", "employerRemoved", "ensureEmployer", "employeeAdded", "employeeRemoved",
     "ensureEmployee", "claim"}

\* Less is secured: of the work that concerns rows nothing new.
LessSecured(s1, s) ==
    \A b \in Happened(Len(chain)) : \A do \in Work(b) \cap RowStatements :
        Secured(s1, b, do)' => Secured(s, b, do)

\* The statements that add and remove are those that leave a row.
LEMMA RowStatementNames ==
    /\ EmployerStatement("EmployerAdded") = "employerAdded"
    /\ EmployerStatement("EmployerRemoved") = "employerRemoved"
    /\ EmployeeStatement("EmployeeAdded") = "employeeAdded"
    /\ EmployeeStatement("EmployeeRemoved") = "employeeRemoved"
    /\ EmployeeStatement("PayrollFunded") = "ensureEmployee"
    /\ EmployeeStatement("SalaryClaimed") = "claim"
    /\ RowStatements \subseteq Watched
  BY DEF EmployerStatement, EmployeeStatement, RowStatements, Watched, Names

\* The statements that leave a row are work on a row.
LEMMA RowWork ==
    ASSUME TypeOK, NEW b \in Happened(Len(chain))
    PROVE  /\ chain[b].kind \in OfEmployer \cup OfBoth
                  => EmployerStatement(chain[b].kind) \in Work(b) \cap RowStatements
           /\ chain[b].kind \in OfBoth \cup {"SalaryClaimed"}
                  => EmployeeStatement(chain[b].kind) \in Work(b) \cap RowStatements
<1>1. ASSUME NEW kind \in OfEmployer \cup OfBoth PROVE EmployerStatement(kind) \in RowStatements
  BY DEF RowStatements, EmployerStatement, OfEmployer, OfBoth
<1>2. ASSUME NEW kind \in OfBoth \cup {"SalaryClaimed"}
      PROVE  EmployeeStatement(kind) \in RowStatements
  BY DEF RowStatements, EmployeeStatement, OfBoth
<1>. QED
  BY <1>1, <1>2, WorkOfEvent

\* A step that writes nothing secures nothing, nor does moving the checkpoint.
LEMMA SilentSecures ==
    ASSUME IInv, NEW s \in IndexerState, NEW s1 \in IndexerState, BatchInv(s), BatchAtBase(s),
           UNCHANGED chain,
           \/ UNCHANGED cp /\ LessPassed(s1, s)
           \/ /\ s.pc = "write" /\ s.todo = <<>> /\ s.next > s.to
              /\ cp' \in {cp, s.to}
              /\ \A b, do : ~ Passed(s1, b, do)
    PROVE  LessSecured(s1, s)
<1> SUFFICES ASSUME NEW b \in Happened(Len(chain)), NEW do \in Work(b) \cap RowStatements,
                    Secured(s1, b, do)'
             PROVE  Secured(s, b, do)
  BY DEF LessSecured
<1>1. TypeOK /\ do \in Work(b) \cap Watched /\ b \in Nat /\ StartBlock <= b
  BY RowStatementNames, ChainBlocksType DEF IInv
<1>2. CASE UNCHANGED cp /\ LessPassed(s1, s)
  <2>1. Base' = Base
    BY <1>2 DEF Base
  <2>2. Passed(s1, b, do)' => Passed(s1, b, do)
    BY DEF Passed
  <2>. QED
    BY <1>1, <1>2, <2>1, <2>2 DEF Secured, LessPassed
<1>3. CASE /\ s.pc = "write" /\ s.todo = <<>> /\ s.next > s.to
           /\ cp' \in {cp, s.to}
           /\ \A b1, do1 : ~ Passed(s1, b1, do1)
  <2>1. b <= Base'
    BY <1>3 DEF Secured, Passed
  <2>2. CASE cp' = cp
    BY <2>1, <2>2 DEF Secured, Base
  <2>3. CASE cp' = s.to
    <3>1. /\ s.to \in Nat /\ s.from \in Nat /\ s.from = Base + 1 /\ Base \in Int
          /\ \A b1 \in s.from .. s.to : \A do1 : Passed(s, b1, do1)
      BY <1>1, <1>3, BatchIsCovered, BaseType DEF BatchAtBase, InBatch
    <3>2. b <= s.to
      BY <2>1, <2>3, <3>1 DEF Base, NoBlock
    <3>3. b <= Base \/ b \in s.from .. s.to
      BY <1>1, <3>1, <3>2
    <3>. QED
      BY <3>1, <3>3 DEF Secured
  <2>. QED
    BY <1>3, <2>2, <2>3
<1>. QED
  BY <1>2, <1>3

\* A latest block stays the latest, also among more blocks that are not secured.
LEMMA LatestStays ==
    ASSUME NEW s, NEW s1, NEW x, NEW S, NEW S1, NEW do, LatestOf(s, x, S, do), S \subseteq S1,
           tables.transactions \subseteq tables'.transactions,
           \A b \in S1 : Secured(s1, b, do)' => b \in S /\ Secured(s, b, do)
    PROVE  LatestOf(s1, x, S1, do)'
  BY DEF LatestOf, Secured, Passed

\* A flag stays switched, also among more blocks that are neither touched nor secured.
LEMMA SwitchStays ==
    ASSUME NEW s, NEW s1, NEW flag, NEW ons, NEW on, NEW offs, NEW off, NEW ons1, NEW offs1,
           SwitchedBy(s, flag, ons, on, offs, off),
           ons \subseteq ons1, offs \subseteq offs1,
           offs1 \cap ({NoBlock} \cup tables.transactions) \subseteq offs,
           tables.transactions \subseteq tables'.transactions,
           \A b \in ons1 : Secured(s1, b, on)' => b \in ons /\ Secured(s, b, on),
           \A b \in offs1 : Secured(s1, b, off)' => b \in offs /\ Secured(s, b, off)
    PROVE  SwitchedBy(s1, flag, ons1, on, offs1, off)'
<1>1. PICK x \in {NoBlock} \cup ((ons \cup offs) \cap tables.transactions) :
        /\ flag <=> x \notin offs
        /\ \A b \in ons : Secured(s, b, on) => b <= x
        /\ \A b \in offs : Secured(s, b, off) => b <= x
  BY DEF SwitchedBy
<1>2. /\ x \in {NoBlock} \cup ((ons1 \cup offs1) \cap tables'.transactions)
      /\ flag <=> x \notin offs1
      /\ \A b \in ons1 : Secured(s1, b, on)' => b <= x
      /\ \A b \in offs1 : Secured(s1, b, off)' => b <= x
  BY <1>1
<1>. QED
  BY <1>2 DEF SwitchedBy, Secured, Passed

\* The blocks that concern employer e, and employee w; additions and removals among them.
EmployerBlocks(e, named, adds, removals) ==
    /\ named = Naming(Len(chain), e)
    /\ adds = OfKind(Len(chain), "EmployerAdded") \cap named
    /\ removals = OfKind(Len(chain), "EmployerRemoved") \cap named
EmployeeBlocks(w, about, adds, removals) ==
    /\ about = Concerning(Len(chain), w)
    /\ adds = OfKind(Len(chain), "EmployeeAdded") \cap about
    /\ removals = OfKind(Len(chain), "EmployeeRemoved") \cap about

\* What the blocks are.
LEMMA BlocksType ==
    ASSUME TypeOK
    PROVE  /\ \A e, named, adds, removals : EmployerBlocks(e, named, adds, removals) =>
                 /\ named \subseteq Happened(Len(chain))
                 /\ adds = {b \in named : chain[b].kind = "EmployerAdded"}
                 /\ removals = {b \in named : chain[b].kind = "EmployerRemoved"}
                 /\ \A b \in named : EmployerStatement(chain[b].kind) \in Work(b) \cap RowStatements
                 /\ NoBlock \notin named
           /\ \A w, about, adds, removals : EmployeeBlocks(w, about, adds, removals) =>
                 /\ about \subseteq Happened(Len(chain))
                 /\ adds = {b \in about : chain[b].kind = "EmployeeAdded"}
                 /\ removals = {b \in about : chain[b].kind = "EmployeeRemoved"}
                 /\ \A b \in about : EmployeeStatement(chain[b].kind) \in Work(b) \cap RowStatements
                 /\ NoBlock \notin about
<1>1. NoBlock \notin Happened(Len(chain))
  BY ChainBlocksType DEF NoBlock
<1>2. ASSUME NEW e, NEW named, NEW adds, NEW removals, EmployerBlocks(e, named, adds, removals)
      PROVE  /\ named \subseteq Happened(Len(chain))
             /\ adds = {b \in named : chain[b].kind = "EmployerAdded"}
             /\ removals = {b \in named : chain[b].kind = "EmployerRemoved"}
             /\ \A b \in named : EmployerStatement(chain[b].kind) \in Work(b) \cap RowStatements
  <2>1. /\ named \subseteq Happened(Len(chain))
        /\ \A b \in named : chain[b].kind \in OfEmployer \cup OfBoth
    BY <1>2 DEF EmployerBlocks, Naming
  <2>2. \A b \in named : EmployerStatement(chain[b].kind) \in Work(b) \cap RowStatements
    BY <2>1, RowWork
  <2>. QED
    BY <1>2, <2>1, <2>2 DEF EmployerBlocks, OfKind
<1>3. ASSUME NEW w, NEW about, NEW adds, NEW removals, EmployeeBlocks(w, about, adds, removals)
      PROVE  /\ about \subseteq Happened(Len(chain))
             /\ adds = {b \in about : chain[b].kind = "EmployeeAdded"}
             /\ removals = {b \in about : chain[b].kind = "EmployeeRemoved"}
             /\ \A b \in about : EmployeeStatement(chain[b].kind) \in Work(b) \cap RowStatements
  <2>1. /\ about \subseteq Happened(Len(chain))
        /\ \A b \in about : chain[b].kind \in OfBoth \cup {"SalaryClaimed"}
    BY <1>3 DEF EmployeeBlocks, Concerning
  <2>2. \A b \in about : EmployeeStatement(chain[b].kind) \in Work(b) \cap RowStatements
    BY <2>1, RowWork
  <2>. QED
    BY <1>3, <2>1, <2>2 DEF EmployeeBlocks, OfKind
<1>. QED
  BY <1>1, <1>2, <1>3

\* What is to be shown of an employer after a step.
LEMMA EmployerGoal ==
    ASSUME NEW s1, NEW e, NEW named, NEW adds, NEW removals,
           EmployerBlocks(e, named, adds, removals)', NEW r, r = tables'.employers[e],
           \A b \in named : Secured(s1, b, EmployerStatement(chain[b].kind))' => Exists(r),
           Exists(r) => named \cap tables'.transactions # {},
           LatestOf(s1, r.removed, removals, "employerRemoved")',
           Exists(r) => SwitchedBy(s1, r.active, adds, "employerAdded",
                                   removals, "employerRemoved")'
    PROVE  EmployerInv(s1, e)'
<1>1. /\ named = Naming(Len(chain), e)'
      /\ adds = OfKind(Len(chain), "EmployerAdded")' \cap named
      /\ removals = OfKind(Len(chain), "EmployerRemoved")' \cap named
  BY DEF EmployerBlocks
<1>. QED
  BY <1>1 DEF EmployerInv, LatestOf, SwitchedBy, Secured, Passed

\* What is to be shown of an employee.
LEMMA EmployeeGoal ==
    ASSUME NEW s1, NEW w, NEW about, NEW adds, NEW removals,
           EmployeeBlocks(w, about, adds, removals)', NEW r, r = tables'.employees[w],
           \A b \in about : Secured(s1, b, EmployeeStatement(chain[b].kind))' => Exists(r),
           Exists(r) => about \cap tables'.transactions # {},
           LatestOf(s1, r.removed, removals, "employeeRemoved")',
           LatestOf(s1, r.terms, adds, "employeeAdded")',
           r.terms # NoBlock => Exists(r) /\ r.employer = chain'[r.terms].employer,
           Exists(r) => SwitchedBy(s1, r.active, adds, "employeeAdded",
                                   removals, "employeeRemoved")'
    PROVE  EmployeeInv(s1, w)'
<1>1. /\ about = Concerning(Len(chain), w)'
      /\ adds = OfKind(Len(chain), "EmployeeAdded")' \cap about
      /\ removals = OfKind(Len(chain), "EmployeeRemoved")' \cap about
  BY DEF EmployeeBlocks
<1>. QED
  BY <1>1 DEF EmployeeInv, LatestOf, SwitchedBy, Secured, Passed

\* The row of an employer stays as it is, and nothing more of its work is secured.
LEMMA SameEmployer ==
    ASSUME TypeOK, NEW s, NEW s1, UNCHANGED chain, NEW e,
           tables.transactions \subseteq tables'.transactions,
           tables'.employers[e] = tables.employers[e], EmployerInv(s, e),
           \A b \in Naming(Len(chain), e) : \A do :
               do = EmployerStatement(chain[b].kind) /\ Secured(s1, b, do)' => Secured(s, b, do)
    PROVE  EmployerInv(s1, e)'
<1>1. PICK r : r = tables.employers[e] /\ r = tables'.employers[e]
  OBVIOUS
<1>2. PICK named, adds, removals : EmployerBlocks(e, named, adds, removals)
  BY DEF EmployerBlocks
<1>3. EmployerBlocks(e, named, adds, removals)'
  BY <1>2 DEF EmployerBlocks, Naming, OfKind, Happened
<1>4. /\ \A b \in named : Secured(s, b, EmployerStatement(chain[b].kind)) => Exists(r)
      /\ Exists(r) => named \cap tables.transactions # {}
      /\ LatestOf(s, r.removed, removals, "employerRemoved")
      /\ Exists(r) => SwitchedBy(s, r.active, adds, "employerAdded",
                                 removals, "employerRemoved")
  BY <1>1, <1>2 DEF EmployerInv, EmployerBlocks
<1>5. /\ adds = {b \in named : chain[b].kind = "EmployerAdded"}
      /\ removals = {b \in named : chain[b].kind = "EmployerRemoved"}
      /\ NoBlock \notin named
  BY <1>2, BlocksType
<1>6. \A b \in named : \A do :
          do = EmployerStatement(chain[b].kind) /\ Secured(s1, b, do)' => Secured(s, b, do)
  BY <1>2 DEF EmployerBlocks
<1>7. \A b \in adds : Secured(s1, b, "employerAdded")' => Secured(s, b, "employerAdded")
  BY <1>5, <1>6, RowStatementNames
<1>8. \A b \in removals : Secured(s1, b, "employerRemoved")' => Secured(s, b, "employerRemoved")
  BY <1>5, <1>6, RowStatementNames
<1>9. LatestOf(s1, r.removed, removals, "employerRemoved")'
  BY <1>4, <1>8, LatestStays
<1>10. Exists(r) => SwitchedBy(s1, r.active, adds, "employerAdded",
                               removals, "employerRemoved")'
  BY <1>4, <1>5, <1>7, <1>8, SwitchStays
<1>11. ASSUME NEW b \in named, Secured(s1, b, EmployerStatement(chain[b].kind))'
       PROVE  Exists(r)
  <2>1. PICK do : do = EmployerStatement(chain[b].kind)
    OBVIOUS
  <2>2. Secured(s1, b, do)'
    BY <1>11, <2>1 DEF Secured, Passed
  <2>. QED
    BY <1>4, <1>6, <2>1, <2>2
<1>. QED
  BY <1>1, <1>3, <1>4, <1>9, <1>10, <1>11, EmployerGoal

\* The row of an employee stays as it is, and nothing more of its work is secured, save
\* the claim of an employee that has a row.
LEMMA SameEmployee ==
    ASSUME TypeOK, NEW s, NEW s1, UNCHANGED chain, NEW w,
           tables.transactions \subseteq tables'.transactions,
           tables'.employees[w] = tables.employees[w], EmployeeInv(s, w),
           \A b \in Concerning(Len(chain), w) : \A do :
               do = EmployeeStatement(chain[b].kind) /\ Secured(s1, b, do)'
                   => \/ Secured(s, b, do)
                      \/ do = "claim" /\ Exists(tables.employees[w])
    PROVE  EmployeeInv(s1, w)'
<1>1. PICK r : r = tables.employees[w] /\ r = tables'.employees[w]
  OBVIOUS
<1>2. PICK about, adds, removals : EmployeeBlocks(w, about, adds, removals)
  BY DEF EmployeeBlocks
<1>3. EmployeeBlocks(w, about, adds, removals)'
  BY <1>2 DEF EmployeeBlocks, Concerning, OfKind, Happened
<1>4. /\ \A b \in about : Secured(s, b, EmployeeStatement(chain[b].kind)) => Exists(r)
      /\ Exists(r) => about \cap tables.transactions # {}
      /\ LatestOf(s, r.removed, removals, "employeeRemoved")
      /\ LatestOf(s, r.terms, adds, "employeeAdded")
      /\ r.terms # NoBlock => Exists(r) /\ r.employer = chain[r.terms].employer
      /\ Exists(r) => SwitchedBy(s, r.active, adds, "employeeAdded",
                                 removals, "employeeRemoved")
  BY <1>1, <1>2 DEF EmployeeInv, EmployeeBlocks
<1>5. /\ adds = {b \in about : chain[b].kind = "EmployeeAdded"}
      /\ removals = {b \in about : chain[b].kind = "EmployeeRemoved"}
      /\ NoBlock \notin about
  BY <1>2, BlocksType
<1>6. \A b \in about : \A do :
          do = EmployeeStatement(chain[b].kind) /\ Secured(s1, b, do)'
              => Secured(s, b, do) \/ (do = "claim" /\ Exists(r))
  BY <1>1, <1>2 DEF EmployeeBlocks
<1>7. \A b \in adds : Secured(s1, b, "employeeAdded")' => Secured(s, b, "employeeAdded")
  BY <1>5, <1>6, RowStatementNames
<1>8. \A b \in removals : Secured(s1, b, "employeeRemoved")' => Secured(s, b, "employeeRemoved")
  BY <1>5, <1>6, RowStatementNames
<1>9. LatestOf(s1, r.removed, removals, "employeeRemoved")'
  BY <1>4, <1>8, LatestStays
<1>10. LatestOf(s1, r.terms, adds, "employeeAdded")'
  BY <1>4, <1>7, LatestStays
<1>11. Exists(r) => SwitchedBy(s1, r.active, adds, "employeeAdded",
                               removals, "employeeRemoved")'
  BY <1>4, <1>5, <1>7, <1>8, SwitchStays
<1>12. ASSUME NEW b \in about, Secured(s1, b, EmployeeStatement(chain[b].kind))'
       PROVE  Exists(r)
  <2>1. PICK do : do = EmployeeStatement(chain[b].kind)
    OBVIOUS
  <2>2. Secured(s1, b, do)'
    BY <1>12, <2>1 DEF Secured, Passed
  <2>. QED
    BY <1>4, <1>6, <2>1, <2>2
<1>. QED
  BY <1>1, <1>3, <1>4, <1>9, <1>10, <1>11, <1>12, EmployeeGoal

\* A block just confirmed is not secured.
LEMMA ConfirmSecures ==
    ASSUME IInv, NEW ev \in Events, Confirm(ev), NEW s \in IndexerState, BatchInv(s)
    PROVE  \A b \in Happened(Len(chain))' : \A do :
               Secured(s, b, do)' => b \in Happened(Len(chain)) /\ Secured(s, b, do)
<1> SUFFICES ASSUME NEW b \in Happened(Len(chain))', NEW do, Secured(s, b, do)'
             PROVE  b \in Happened(Len(chain)) /\ Secured(s, b, do)
  OBVIOUS
<1>1. TypeOK /\ UNCHANGED <<tables, cp>>
  BY ConfirmedBlock DEF IInv
<1>2. Secured(s, b, do)
  BY <1>1 DEF Secured, Base, Passed
<1>3. b >= StartBlock /\ b \in Int /\ StartBlock \in Nat
  BY ChainBlocksType, <1>1 DEF Happened
<1>4. b # Len(chain) + 1
  <2> SUFFICES ASSUME b = Len(chain) + 1 PROVE FALSE
    OBVIOUS
  <2>1. Len(chain) \in Nat
    BY <1>1, ChainBlocksType
  <2>2. ~ (b <= Base)
    BY <1>3, <2>1, BaseType
  <2>3. /\ s.next \in Nat /\ s.to \in Nat /\ s.safe \in Nat /\ s.from \in Nat
        /\ s.to <= s.safe /\ s.safe <= Len(chain)
        /\ s.pc = "write" => s.next <= s.to + 1
    BY DEF IndexerState, BatchInv
  <2>4. ~ Passed(s, b, do)
    BY <2>1, <2>3 DEF Passed
  <2>. QED
    BY <1>2, <2>2, <2>4 DEF Secured
<1>5. b \in Happened(Len(chain))
  BY <1>1, <1>4, ConfirmKeepsHistory
<1>. QED
  BY <1>2, <1>5

\* So it leaves the row of every employer as right as it was.
LEMMA ConfirmEmployer ==
    ASSUME IInv, NEW ev \in Events, Confirm(ev), NEW s \in IndexerState, BatchInv(s),
           NEW e, EmployerInv(s, e)
    PROVE  EmployerInv(s, e)'
<1>1. /\ TypeOK /\ UNCHANGED <<tables, cp>>
      /\ \A b \in DOMAIN chain : chain'[b] = chain[b]
      /\ Len(chain) \in Nat /\ DOMAIN chain = 1 .. Len(chain)
      /\ Happened(Len(chain)) \subseteq DOMAIN chain
      /\ tables.transactions \subseteq DOMAIN chain
  BY ConfirmedBlock, ChainBlocksType DEF IInv, TablesInv, Happened
<1>2. /\ Happened(Len(chain)) \subseteq Happened(Len(chain))'
      /\ Happened(Len(chain))' \subseteq Happened(Len(chain)) \cup {Len(chain) + 1}
  BY <1>1, ConfirmKeepsHistory
<1>3. PICK r : r = tables.employers[e] /\ r = tables'.employers[e]
  BY <1>1
<1>4. PICK named, adds, removals : EmployerBlocks(e, named, adds, removals)
  BY DEF EmployerBlocks
<1>5. PICK named1, adds1, removals1 : EmployerBlocks(e, named1, adds1, removals1)'
  BY DEF EmployerBlocks
<1>6. /\ \A b \in named : Secured(s, b, EmployerStatement(chain[b].kind)) => Exists(r)
      /\ Exists(r) => named \cap tables.transactions # {}
      /\ LatestOf(s, r.removed, removals, "employerRemoved")
      /\ Exists(r) => SwitchedBy(s, r.active, adds, "employerAdded",
                                 removals, "employerRemoved")
  BY <1>3, <1>4 DEF EmployerInv, EmployerBlocks
<1>7. /\ named \subseteq named1 /\ named1 \cap Happened(Len(chain)) \subseteq named
      /\ named1 \subseteq Happened(Len(chain))'
  BY <1>1, <1>2, <1>4, <1>5 DEF EmployerBlocks, Naming
<1>8. /\ adds = {b \in named : chain[b].kind = "EmployerAdded"}
      /\ removals = {b \in named : chain[b].kind = "EmployerRemoved"}
      /\ named \subseteq Happened(Len(chain)) /\ NoBlock \notin named
  BY <1>1, <1>4, BlocksType
<1>9. /\ adds1 = {b \in named1 : chain'[b].kind = "EmployerAdded"}
      /\ removals1 = {b \in named1 : chain'[b].kind = "EmployerRemoved"}
  BY <1>5 DEF EmployerBlocks, Naming, OfKind
<1>10. /\ adds \subseteq adds1 /\ adds1 \cap Happened(Len(chain)) \subseteq adds
       /\ removals \subseteq removals1 /\ removals1 \cap Happened(Len(chain)) \subseteq removals
  BY <1>1, <1>7, <1>8, <1>9
<1>11. \A b \in named1 : \A do : Secured(s, b, do)' => b \in Happened(Len(chain)) /\ Secured(s, b, do)
  BY <1>7, ConfirmSecures
<1>12. LatestOf(s, r.removed, removals1, "employerRemoved")'
  <2>1. \A b \in removals1 : Secured(s, b, "employerRemoved")'
            => b \in removals /\ Secured(s, b, "employerRemoved")
    BY <1>9, <1>10, <1>11
  <2>. QED
    BY <1>1, <1>6, <1>10, <2>1, LatestStays
<1>13. ASSUME Exists(r)
       PROVE  SwitchedBy(s, r.active, adds1, "employerAdded", removals1, "employerRemoved")'
  <2>1. \A b \in removals1 : Secured(s, b, "employerRemoved")'
            => b \in removals /\ Secured(s, b, "employerRemoved")
    BY <1>9, <1>10, <1>11
  <2>2. \A b \in adds1 : Secured(s, b, "employerAdded")'
            => b \in adds /\ Secured(s, b, "employerAdded")
    BY <1>9, <1>10, <1>11
  <2>3. removals1 \cap ({NoBlock} \cup tables.transactions) \subseteq removals
    <3>1. Len(chain) + 1 \notin DOMAIN chain /\ Len(chain) + 1 # NoBlock
      BY <1>1 DEF NoBlock
    <3>2. NoBlock \notin Happened(Len(chain))
      BY <1>1 DEF NoBlock
    <3>. QED
      BY <1>1, <1>2, <1>7, <1>9, <1>10, <3>1, <3>2
  <2>. QED
    BY <1>1, <1>6, <1>10, <1>13, <2>1, <2>2, <2>3, SwitchStays
<1>14. ASSUME NEW b \in named1, Secured(s, b, EmployerStatement(chain[b].kind))'
       PROVE  Exists(r)
  <2>1. PICK do : do = EmployerStatement(chain'[b].kind)
    OBVIOUS
  <2>2. Secured(s, b, do)'
    BY <1>14, <2>1 DEF Secured, Passed
  <2>3. b \in named /\ chain'[b] = chain[b] /\ Secured(s, b, do)
    BY <1>1, <1>7, <1>11, <2>2
  <2>. QED
    BY <1>6, <2>1, <2>3
<1>15. Exists(r) => named1 \cap tables'.transactions # {}
  BY <1>1, <1>6, <1>7
<1>. QED
  BY <1>3, <1>5, <1>12, <1>13, <1>14, <1>15, EmployerGoal

\* And the row of every employee.
LEMMA ConfirmEmployee ==
    ASSUME IInv, NEW ev \in Events, Confirm(ev), NEW s \in IndexerState, BatchInv(s),
           NEW w, EmployeeInv(s, w)
    PROVE  EmployeeInv(s, w)'
<1>1. /\ TypeOK /\ UNCHANGED <<tables, cp>>
      /\ \A b \in DOMAIN chain : chain'[b] = chain[b]
      /\ Len(chain) \in Nat /\ DOMAIN chain = 1 .. Len(chain)
      /\ Happened(Len(chain)) \subseteq DOMAIN chain
      /\ tables.transactions \subseteq DOMAIN chain
  BY ConfirmedBlock, ChainBlocksType DEF IInv, TablesInv, Happened
<1>2. /\ Happened(Len(chain)) \subseteq Happened(Len(chain))'
      /\ Happened(Len(chain))' \subseteq Happened(Len(chain)) \cup {Len(chain) + 1}
  BY <1>1, ConfirmKeepsHistory
<1>3. PICK r : r = tables.employees[w] /\ r = tables'.employees[w]
  BY <1>1
<1>4. PICK about, adds, removals : EmployeeBlocks(w, about, adds, removals)
  BY DEF EmployeeBlocks
<1>5. PICK about1, adds1, removals1 : EmployeeBlocks(w, about1, adds1, removals1)'
  BY DEF EmployeeBlocks
<1>6. /\ \A b \in about : Secured(s, b, EmployeeStatement(chain[b].kind)) => Exists(r)
      /\ Exists(r) => about \cap tables.transactions # {}
      /\ LatestOf(s, r.removed, removals, "employeeRemoved")
      /\ LatestOf(s, r.terms, adds, "employeeAdded")
      /\ r.terms # NoBlock => Exists(r) /\ r.employer = chain[r.terms].employer
      /\ Exists(r) => SwitchedBy(s, r.active, adds, "employeeAdded",
                                 removals, "employeeRemoved")
  BY <1>3, <1>4 DEF EmployeeInv, EmployeeBlocks
<1>7. /\ about \subseteq about1 /\ about1 \cap Happened(Len(chain)) \subseteq about
      /\ about1 \subseteq Happened(Len(chain))'
  BY <1>1, <1>2, <1>4, <1>5 DEF EmployeeBlocks, Concerning
<1>8. /\ adds = {b \in about : chain[b].kind = "EmployeeAdded"}
      /\ removals = {b \in about : chain[b].kind = "EmployeeRemoved"}
      /\ about \subseteq Happened(Len(chain)) /\ NoBlock \notin about
  BY <1>1, <1>4, BlocksType
<1>9. /\ adds1 = {b \in about1 : chain'[b].kind = "EmployeeAdded"}
      /\ removals1 = {b \in about1 : chain'[b].kind = "EmployeeRemoved"}
  BY <1>5 DEF EmployeeBlocks, Concerning, OfKind
<1>10. /\ adds \subseteq adds1 /\ adds1 \cap Happened(Len(chain)) \subseteq adds
       /\ removals \subseteq removals1 /\ removals1 \cap Happened(Len(chain)) \subseteq removals
  BY <1>1, <1>7, <1>8, <1>9
<1>11. \A b \in about1 : \A do : Secured(s, b, do)' => b \in Happened(Len(chain)) /\ Secured(s, b, do)
  BY <1>7, ConfirmSecures
<1>12. \A b \in removals1 : Secured(s, b, "employeeRemoved")'
           => b \in removals /\ Secured(s, b, "employeeRemoved")
  BY <1>9, <1>10, <1>11
<1>13. \A b \in adds1 : Secured(s, b, "employeeAdded")'
           => b \in adds /\ Secured(s, b, "employeeAdded")
  BY <1>9, <1>10, <1>11
<1>14. LatestOf(s, r.removed, removals1, "employeeRemoved")'
  BY <1>1, <1>6, <1>10, <1>12, LatestStays
<1>15. LatestOf(s, r.terms, adds1, "employeeAdded")'
  BY <1>1, <1>6, <1>10, <1>13, LatestStays
<1>16. ASSUME r.terms # NoBlock
       PROVE  Exists(r) /\ r.employer = chain'[r.terms].employer
  <2>1. r.terms \in DOMAIN chain
    BY <1>1, <1>6, <1>16 DEF LatestOf
  <2>. QED
    BY <1>1, <1>6, <1>16, <2>1
<1>17. ASSUME Exists(r)
       PROVE  SwitchedBy(s, r.active, adds1, "employeeAdded", removals1, "employeeRemoved")'
  <2>1. removals1 \cap ({NoBlock} \cup tables.transactions) \subseteq removals
    <3>1. Len(chain) + 1 \notin DOMAIN chain /\ Len(chain) + 1 # NoBlock
      BY <1>1 DEF NoBlock
    <3>2. NoBlock \notin Happened(Len(chain))
      BY <1>1 DEF NoBlock
    <3>. QED
      BY <1>1, <1>2, <1>7, <1>9, <1>10, <3>1, <3>2
  <2>. QED
    BY <1>1, <1>6, <1>10, <1>12, <1>13, <1>17, <2>1, SwitchStays
<1>18. ASSUME NEW b \in about1, Secured(s, b, EmployeeStatement(chain[b].kind))'
       PROVE  Exists(r)
  <2>1. PICK do : do = EmployeeStatement(chain'[b].kind)
    OBVIOUS
  <2>2. Secured(s, b, do)'
    BY <1>18, <2>1 DEF Secured, Passed
  <2>3. b \in about /\ chain'[b] = chain[b] /\ Secured(s, b, do)
    BY <1>1, <1>7, <1>11, <2>2
  <2>. QED
    BY <1>6, <2>1, <2>3
<1>19. Exists(r) => about1 \cap tables'.transactions # {}
  BY <1>1, <1>6, <1>7
<1>. QED
  BY <1>3, <1>5, <1>14, <1>15, <1>16, <1>17, <1>18, <1>19, EmployeeGoal

-----------------------------------------------------------------------------
(***************************************************************************)
(* A single process: a statement on the row of an employer or employee.    *)
(***************************************************************************)

\* What executing statement st of block blk secures.
Secures(s, s1, st) ==
    /\ st \in Statement /\ st.do # "findEmployee"
    /\ st.blk \in Happened(Len(chain)) /\ st.event = chain[st.blk]
    /\ Satisfied(tables, st) /\ tables' = Execute(tables, st)
    /\ UNCHANGED <<chain, cp>>
    /\ tables.transactions \subseteq tables'.transactions /\ st.blk \in tables'.transactions
    /\ \A b, do : Secured(s1, b, do)' => Secured(s, b, do) \/ (b = st.blk /\ do = st.do)
    /\ \A b \in Happened(Len(chain)) : \A do : Secured(s1, b, do)' => b <= st.blk

\* The block of the statement is touched, is the last one secured, and nothing else is
\* newly secured.
LEMMA ExecuteSecures ==
    ASSUME IInv, NEW p \in Indexers, ExecuteStatement(p), NEW s \in IndexerState, s = indexer[p],
           BatchInv(s), BatchAtBase(s), NEW s1 \in IndexerState, Executed(s, s1, Head(s.todo))
    PROVE  Secures(s, s1, Head(s.todo))
<1>1. TypeOK
  BY DEF IInv
<1>2. PICK st : st = Head(s.todo)
  OBVIOUS
<1>3. /\ s.pc = "write" /\ s.todo # <<>> /\ st.do # "findEmployee"
      /\ Satisfied(tables, st) /\ tables' = Execute(tables, st)
      /\ UNCHANGED <<chain, cp>>
  BY <1>2, ExecuteMoves
<1>4. /\ st \in Statement /\ st = s.todo[1] /\ 1 \in DOMAIN s.todo
      /\ st.blk = s.next - 1 /\ st.event = chain[st.blk]
      /\ st.blk \in s.from .. s.to
      /\ st.blk \in Happened(Len(chain))
  BY <1>1, <1>2, <1>3, NextStatement
<1>5. /\ s.from \in Nat /\ s.next \in Nat /\ s.from = Base + 1 /\ Base \in Int
      /\ st.blk \in Nat
  <2>1. s.from \in Nat /\ s.next \in Nat /\ s.from = Base + 1
    BY <1>3 DEF IndexerState, BatchAtBase, InBatch
  <2>2. Base \in Int
    BY BaseType
  <2>3. st.blk \in Nat
    BY <1>1, <1>4, ChainBlocksType
  <2>. QED
    BY <2>1, <2>2, <2>3
<1>6. /\ tables.transactions \subseteq tables'.transactions
      /\ st.do = "transaction" => st.blk \in tables'.transactions
  BY <1>2, ExecuteGrows DEF Grows
<1>7. ASSUME st.do # "transaction" PROVE st.blk \in tables.transactions
  <2>1. \A i \in DOMAIN s.todo : s.todo[i].do # "transaction"
    BY <1>3, <1>4, <1>7 DEF BatchInv
  <2>2. Passed(s, st.blk, "transaction")
    BY <1>3, <1>4, <1>5, <2>1 DEF Passed
  <2>. QED
    BY <1>4, <2>2 DEF BatchInv
<1>8. Base' = Base
  BY <1>3 DEF Base
<1>9. \A b, do : Passed(s1, b, do)' => Passed(s, b, do) \/ (b = st.blk /\ do = st.do)
  BY <1>2 DEF Executed, Passed
<1>10. \A b, do : Secured(s1, b, do)' => Secured(s, b, do) \/ (b = st.blk /\ do = st.do)
  BY <1>8, <1>9 DEF Secured
<1>11. ASSUME NEW b \in Happened(Len(chain)), NEW do, Secured(s1, b, do)' PROVE b <= st.blk
  <2>1. b \in Nat
    BY <1>1, ChainBlocksType
  <2>2. CASE b <= Base
    BY <1>4, <1>5, <2>1, <2>2
  <2>3. CASE Passed(s, b, do)
    BY <1>4, <1>5, <2>1, <2>3 DEF Passed
  <2>4. CASE b = st.blk
    BY <1>5, <2>4
  <2>. QED
    BY <1>10, <1>11, <2>2, <2>3, <2>4 DEF Secured
<1>. QED
  BY <1>2, <1>3, <1>4, <1>6, <1>7, <1>10, <1>11 DEF Secures

\* The row of every employer stays right.
LEMMA ExecuteEmployer ==
    ASSUME TypeOK, NEW s, NEW s1, NEW st, Secures(s, s1, st),
           NEW e \in Employers, EmployerInv(s, e)
    PROVE  EmployerInv(s1, e)'
<1>1. PICK B : B = st.blk
  OBVIOUS
<1>2. /\ st \in Statement /\ st.do # "findEmployee"
      /\ B \in Happened(Len(chain)) /\ st.event = chain[B]
      /\ tables' = Execute(tables, st) /\ tables \in Tables
      /\ UNCHANGED <<chain, cp>>
      /\ tables.transactions \subseteq tables'.transactions /\ B \in tables'.transactions
      /\ \A b, do : Secured(s1, b, do)' => Secured(s, b, do) \/ (b = B /\ do = st.do)
      /\ \A b \in Happened(Len(chain)) : \A do : Secured(s1, b, do)' => b <= B
  BY <1>1 DEF Secures, TypeOK
<1>3. PICK r \in EmployerRow : r = tables.employers[e]
  BY <1>2, RowsType
<1>4. PICK r1 : r1 = tables'.employers[e]
  OBVIOUS
<1>5. PICK named, adds, removals : EmployerBlocks(e, named, adds, removals)
  BY DEF EmployerBlocks
<1>6. EmployerBlocks(e, named, adds, removals)'
  BY <1>2, <1>5 DEF EmployerBlocks, Naming, OfKind, Happened
<1>7. /\ \A b \in named : Secured(s, b, EmployerStatement(chain[b].kind)) => Exists(r)
      /\ Exists(r) => named \cap tables.transactions # {}
      /\ LatestOf(s, r.removed, removals, "employerRemoved")
      /\ Exists(r) => SwitchedBy(s, r.active, adds, "employerAdded",
                                 removals, "employerRemoved")
  BY <1>3, <1>5 DEF EmployerInv, EmployerBlocks
<1>8. /\ adds = {b \in named : chain[b].kind = "EmployerAdded"}
      /\ removals = {b \in named : chain[b].kind = "EmployerRemoved"}
      /\ named \subseteq Happened(Len(chain)) /\ NoBlock \notin named
  BY <1>5, BlocksType
<1> DEFINE Touches == /\ st.do \in {"employerAdded", "employerRemoved", "ensureEmployer"}
                      /\ st.event.employer = e
<1>9. CASE ~ Touches
  <2>1. tables'.employers[e] = tables.employers[e]
    BY <1>2, <1>9, ExecuteEmployers
  <2>2. ASSUME NEW b \in Naming(Len(chain), e), NEW do,
               do = EmployerStatement(chain[b].kind), Secured(s1, b, do)'
        PROVE  Secured(s, b, do)
    <3>1. chain[b].kind \in OfEmployer \cup OfBoth /\ chain[b].employer = e
      BY <2>2 DEF Naming
    <3>2. do \in {"employerAdded", "employerRemoved", "ensureEmployer"}
      BY <2>2 DEF EmployerStatement
    <3>. QED
      BY <1>2, <1>9, <2>2, <3>1, <3>2
  <2>. HIDE DEF Touches
  <2>. QED
    BY <1>2, <2>1, <2>2, SameEmployer
<1>10. CASE Touches
  <2>1. /\ st.do = "employerAdded" => chain[B].kind = "EmployerAdded"
        /\ st.do = "employerRemoved" => chain[B].kind = "EmployerRemoved"
        /\ st.do = "ensureEmployer" => chain[B].kind \in OfBoth
        /\ st.do \in {"employerAdded", "employerRemoved", "ensureEmployer"}
    BY <1>2, <1>10, StatementFields
  <2>2. B \in named
    BY <1>2, <1>5, <1>10, <2>1 DEF EmployerBlocks, Naming, OfEmployer
  <2>3. /\ st.do = "employerAdded" => r1 = AddEmployer(r, B)
        /\ st.do = "employerRemoved" => r1 = RemoveEmployer(r, B)
        /\ st.do = "ensureEmployer" => r1 = EnsureEmployer(r, B)
    BY <1>1, <1>2, <1>3, <1>4, <1>10, ExecuteEmployers
  <2>4. B # NoBlock
    BY <1>8, <2>2
  <2>5. Exists(r1)
    BY <1>3, <2>1, <2>3, <2>4 DEF AddEmployer, RemoveEmployer, EnsureEmployer, Exists, EmployerRow
  <2>6. /\ \A b \in adds : Secured(s1, b, "employerAdded")' => b <= B
        /\ \A b \in removals : Secured(s1, b, "employerRemoved")' => b <= B
    BY <1>2, <1>8
  <2>7. LatestOf(s1, r1.removed, removals, "employerRemoved")'
    <3>1. CASE st.do = "employerRemoved"
      <4>1. r1.removed = B
        BY <1>3, <2>3, <3>1 DEF RemoveEmployer, EmployerRow
      <4>2. B \in removals \cap tables'.transactions
        BY <1>2, <1>8, <2>1, <2>2, <3>1
      <4>. QED
        BY <2>6, <4>1, <4>2 DEF LatestOf, Secured, Passed
    <3>2. CASE st.do # "employerRemoved"
      <4>1. r1.removed = r.removed
        BY <1>3, <2>1, <2>3, <3>2 DEF AddEmployer, EnsureEmployer, EmployerRow
      <4>2. \A b \in removals : Secured(s1, b, "employerRemoved")'
                => b \in removals /\ Secured(s, b, "employerRemoved")
        BY <1>2, <3>2
      <4>. QED
        BY <1>2, <1>7, <4>1, <4>2, LatestStays
    <3>. QED
      BY <3>1, <3>2
  <2>8. SwitchedBy(s1, r1.active, adds, "employerAdded", removals, "employerRemoved")'
    <3>1. CASE st.do = "employerAdded"
      <4>1. r1.active = TRUE
        BY <1>3, <2>3, <3>1 DEF AddEmployer, EmployerRow
      <4>2. B \in adds \cap tables'.transactions /\ B \notin removals
        BY <1>2, <1>8, <2>1, <2>2, <3>1
      <4>. QED
        BY <2>6, <4>1, <4>2 DEF SwitchedBy, Secured, Passed
    <3>2. CASE st.do = "employerRemoved"
      <4>1. r1.active = FALSE
        BY <1>3, <2>3, <3>2 DEF RemoveEmployer, EmployerRow
      <4>2. B \in removals \cap tables'.transactions
        BY <1>2, <1>8, <2>1, <2>2, <3>2
      <4>. QED
        BY <2>6, <4>1, <4>2 DEF SwitchedBy, Secured, Passed
    <3>3. CASE st.do = "ensureEmployer"
      <4>1. /\ \A b \in adds : Secured(s1, b, "employerAdded")' => Secured(s, b, "employerAdded")
            /\ \A b \in removals : Secured(s1, b, "employerRemoved")'
                   => Secured(s, b, "employerRemoved")
        BY <1>2, <3>3
      <4>2. CASE Exists(r)
        <5>1. r1 = r
          BY <2>3, <3>3, <4>2 DEF EnsureEmployer
        <5>2. removals \cap ({NoBlock} \cup tables.transactions) \subseteq removals
          OBVIOUS
        <5>. QED
          BY <1>2, <1>7, <4>1, <4>2, <5>1, <5>2, SwitchStays
      <4>3. CASE ~ Exists(r)
        <5>1. r1.active = TRUE
          BY <1>3, <2>3, <3>3, <4>3 DEF EnsureEmployer, AddEmployer, EmployerRow
        <5>2. /\ \A b \in adds : ~ Secured(s, b, "employerAdded")
              /\ \A b \in removals : ~ Secured(s, b, "employerRemoved")
          BY <1>7, <1>8, <4>3, RowStatementNames
        <5>3. NoBlock \notin removals
          BY <1>8
        <5>4. /\ \A b \in adds : ~ Secured(s1, b, "employerAdded")'
              /\ \A b \in removals : ~ Secured(s1, b, "employerRemoved")'
          BY <4>1, <5>2
        <5>. QED
          BY <5>1, <5>3, <5>4 DEF SwitchedBy, Secured, Passed
      <4>. QED
        BY <4>2, <4>3
    <3>. QED
      BY <2>1, <3>1, <3>2, <3>3
  <2>9. named \cap tables'.transactions # {}
    BY <1>2, <2>2
  <2>. HIDE DEF Touches
  <2>. QED
    BY <1>4, <1>6, <2>5, <2>7, <2>8, <2>9, EmployerGoal
<1>. QED
  BY <1>9, <1>10

\* The row of every employee stays right.
LEMMA ExecuteEmployee ==
    ASSUME TypeOK, NEW s, NEW s1, NEW st, Secures(s, s1, st),
           NEW w \in Employees, EmployeeInv(s, w)
    PROVE  EmployeeInv(s1, w)'
<1>1. PICK B : B = st.blk
  OBVIOUS
<1>2. /\ st \in Statement /\ st.do # "findEmployee"
      /\ B \in Happened(Len(chain)) /\ st.event = chain[B]
      /\ tables' = Execute(tables, st) /\ tables \in Tables
      /\ st.do = "claim" => Exists(tables.employees[st.event.employee])
      /\ UNCHANGED <<chain, cp>>
      /\ tables.transactions \subseteq tables'.transactions /\ B \in tables'.transactions
      /\ \A b, do : Secured(s1, b, do)' => Secured(s, b, do) \/ (b = B /\ do = st.do)
      /\ \A b \in Happened(Len(chain)) : \A do : Secured(s1, b, do)' => b <= B
  BY <1>1 DEF Secures, TypeOK, Satisfied
<1>3. PICK r \in EmployeeRow : r = tables.employees[w]
  BY <1>2, RowsType
<1>4. PICK r1 : r1 = tables'.employees[w]
  OBVIOUS
<1>5. PICK about, adds, removals : EmployeeBlocks(w, about, adds, removals)
  BY DEF EmployeeBlocks
<1>6. EmployeeBlocks(w, about, adds, removals)'
  BY <1>2, <1>5 DEF EmployeeBlocks, Concerning, OfKind, Happened
<1>7. /\ \A b \in about : Secured(s, b, EmployeeStatement(chain[b].kind)) => Exists(r)
      /\ Exists(r) => about \cap tables.transactions # {}
      /\ LatestOf(s, r.removed, removals, "employeeRemoved")
      /\ LatestOf(s, r.terms, adds, "employeeAdded")
      /\ r.terms # NoBlock => Exists(r) /\ r.employer = chain[r.terms].employer
      /\ Exists(r) => SwitchedBy(s, r.active, adds, "employeeAdded",
                                 removals, "employeeRemoved")
  BY <1>3, <1>5 DEF EmployeeInv, EmployeeBlocks
<1>8. /\ adds = {b \in about : chain[b].kind = "EmployeeAdded"}
      /\ removals = {b \in about : chain[b].kind = "EmployeeRemoved"}
      /\ about \subseteq Happened(Len(chain)) /\ NoBlock \notin about
  BY <1>5, BlocksType
<1> DEFINE Writers == {"employeeAdded", "employeeRemoved", "ensureEmployee", "zeroEmployee",
                       "lastWithdraw"}
           Touches == st.do \in Writers /\ st.event.employee = w
<1>9. CASE ~ Touches
  <2>1. tables'.employees[w] = tables.employees[w]
    BY <1>2, <1>9, ExecuteEmployees
  <2>2. ASSUME NEW b \in Concerning(Len(chain), w), NEW do,
               do = EmployeeStatement(chain[b].kind), Secured(s1, b, do)'
        PROVE  Secured(s, b, do) \/ (do = "claim" /\ Exists(tables.employees[w]))
    <3>1. chain[b].employee = w
      BY <2>2 DEF Concerning
    <3>2. do \in {"employeeAdded", "employeeRemoved", "ensureEmployee", "claim"}
      BY <2>2 DEF EmployeeStatement
    <3>. QED
      BY <1>2, <1>9, <2>2, <3>1, <3>2
  <2>. HIDE DEF Touches
  <2>. QED
    BY <1>2, <2>1, <2>2, SameEmployee
<1>10. CASE Touches
  <2>1. /\ st.do = "employeeAdded" => chain[B].kind = "EmployeeAdded"
        /\ st.do = "employeeRemoved" => chain[B].kind = "EmployeeRemoved"
        /\ chain[B].kind \in OfBoth \cup {"SalaryClaimed"}
        /\ st.do \in Writers
    BY <1>2, <1>10, StatementFields DEF OfBoth
  <2>2. B \in about
    BY <1>2, <1>5, <1>10, <2>1 DEF EmployeeBlocks, Concerning
  <2>3. /\ st.do = "employeeAdded" => r1 = AddEmployee(r, chain[B].employer, B)
        /\ st.do = "employeeRemoved" => r1 = RemoveEmployee(r, chain[B].employer, B)
        /\ st.do = "ensureEmployee" => r1 = EnsureEmployee(r, chain[B].employer, B)
        /\ st.do = "zeroEmployee" => r1 = EnsureEmployee(r, ZeroAddress, B)
        /\ st.do = "lastWithdraw" => r1 = UpdateWithdraw(r, B)
    BY <1>1, <1>2, <1>3, <1>4, <1>10, ExecuteEmployees
  <2>4. B # NoBlock
    BY <1>8, <2>2
  <2>5. /\ \A b \in adds : Secured(s1, b, "employeeAdded")' => b <= B
        /\ \A b \in removals : Secured(s1, b, "employeeRemoved")' => b <= B
    BY <1>2, <1>8
  <2>6. /\ st.do # "employeeAdded" => \A b \in adds :
               Secured(s1, b, "employeeAdded")' => b \in adds /\ Secured(s, b, "employeeAdded")
        /\ st.do # "employeeRemoved" => \A b \in removals :
               Secured(s1, b, "employeeRemoved")'
                   => b \in removals /\ Secured(s, b, "employeeRemoved")
    BY <1>2
  <2>. HIDE DEF Touches
  \* What each statement makes of the fields.
  <2>7. CASE st.do = "employeeAdded"
    <3>1. /\ Exists(r1) /\ r1.removed = r.removed /\ r1.terms = B /\ r1.active = TRUE
          /\ r1.employer = chain[B].employer
      BY <1>3, <2>3, <2>4, <2>7 DEF AddEmployee, Exists, EmployeeRow
    <3>2. B \in adds \cap tables'.transactions /\ B \notin removals
      BY <1>2, <1>8, <2>1, <2>2, <2>7
    <3>3. LatestOf(s1, r1.removed, removals, "employeeRemoved")'
      BY <1>2, <1>7, <2>6, <2>7, <3>1, LatestStays
    <3>4. LatestOf(s1, r1.terms, adds, "employeeAdded")'
      BY <2>5, <3>1, <3>2 DEF LatestOf, Secured, Passed
    <3>5. SwitchedBy(s1, r1.active, adds, "employeeAdded", removals, "employeeRemoved")'
      BY <2>5, <3>1, <3>2 DEF SwitchedBy, Secured, Passed
    <3>6. r1.terms # NoBlock => Exists(r1) /\ r1.employer = chain'[r1.terms].employer
      BY <1>2, <3>1
    <3>7. about \cap tables'.transactions # {}
      BY <1>2, <2>2
    <3>. QED
      BY <1>4, <1>6, <3>1, <3>3, <3>4, <3>5, <3>6, <3>7, EmployeeGoal
  <2>8. CASE st.do = "employeeRemoved"
    <3>1. /\ Exists(r1) /\ r1.removed = B /\ r1.terms = r.terms /\ r1.active = FALSE
          /\ Exists(r) => r1.employer = r.employer
      BY <1>3, <2>3, <2>4, <2>8 DEF RemoveEmployee, Exists, EmployeeRow
    <3>2. B \in removals \cap tables'.transactions
      BY <1>2, <1>8, <2>1, <2>2, <2>8
    <3>3. LatestOf(s1, r1.removed, removals, "employeeRemoved")'
      BY <2>5, <3>1, <3>2 DEF LatestOf, Secured, Passed
    <3>4. LatestOf(s1, r1.terms, adds, "employeeAdded")'
      BY <1>2, <1>7, <2>6, <2>8, <3>1, LatestStays
    <3>5. SwitchedBy(s1, r1.active, adds, "employeeAdded", removals, "employeeRemoved")'
      BY <2>5, <3>1, <3>2 DEF SwitchedBy, Secured, Passed
    <3>6. r1.terms # NoBlock => Exists(r1) /\ r1.employer = chain'[r1.terms].employer
      BY <1>2, <1>7, <3>1
    <3>7. about \cap tables'.transactions # {}
      BY <1>2, <2>2
    <3>. QED
      BY <1>4, <1>6, <3>1, <3>3, <3>4, <3>5, <3>6, <3>7, EmployeeGoal
  <2>9. CASE st.do \in {"ensureEmployee", "zeroEmployee", "lastWithdraw"} /\ Exists(r)
    <3>1. /\ Exists(r1) /\ r1.removed = r.removed /\ r1.terms = r.terms
          /\ r1.active = r.active /\ r1.employer = r.employer
      BY <1>3, <2>3, <2>4, <2>9 DEF EnsureEmployee, UpdateWithdraw, Exists, EmployeeRow
    <3>2. LatestOf(s1, r1.removed, removals, "employeeRemoved")'
      BY <1>2, <1>7, <2>6, <2>9, <3>1, LatestStays
    <3>3. LatestOf(s1, r1.terms, adds, "employeeAdded")'
      BY <1>2, <1>7, <2>6, <2>9, <3>1, LatestStays
    <3>4. SwitchedBy(s1, r1.active, adds, "employeeAdded", removals, "employeeRemoved")'
      <4>1. removals \cap ({NoBlock} \cup tables.transactions) \subseteq removals
        OBVIOUS
      <4>. QED
        BY <1>2, <1>7, <2>6, <2>9, <3>1, <4>1, SwitchStays
    <3>5. r1.terms # NoBlock => Exists(r1) /\ r1.employer = chain'[r1.terms].employer
      BY <1>2, <1>7, <3>1
    <3>6. about \cap tables'.transactions # {}
      BY <1>2, <2>2
    <3>. QED
      BY <1>4, <1>6, <3>1, <3>2, <3>3, <3>4, <3>5, <3>6, EmployeeGoal
  <2>10. CASE st.do \in {"ensureEmployee", "zeroEmployee"} /\ ~ Exists(r)
    <3>1. Exists(r1) /\ r1.removed = r.removed /\ r1.terms = r.terms /\ r1.active = TRUE
      <4>1. PICK e1 : r1 = EnsureEmployee(r, e1, B)
        BY <2>3, <2>10
      <4>2. r1 = [r EXCEPT !.employer = e1, !.active = TRUE, !.added = B, !.latest = B]
        BY <2>10, <4>1 DEF EnsureEmployee
      <4>3. /\ r1.latest = B /\ r1.active = TRUE
            /\ r1.removed = r.removed /\ r1.terms = r.terms
        BY <1>3, <4>2 DEF EmployeeRow
      <4>. QED
        BY <2>4, <4>3 DEF Exists
    <3>2. LatestOf(s1, r1.removed, removals, "employeeRemoved")'
      BY <1>2, <1>7, <2>6, <2>10, <3>1, LatestStays
    <3>3. LatestOf(s1, r1.terms, adds, "employeeAdded")'
      BY <1>2, <1>7, <2>6, <2>10, <3>1, LatestStays
    <3>4. SwitchedBy(s1, r1.active, adds, "employeeAdded", removals, "employeeRemoved")'
      <4>1. /\ \A b \in adds : ~ Secured(s, b, "employeeAdded")
            /\ \A b \in removals : ~ Secured(s, b, "employeeRemoved")
        BY <1>7, <1>8, <2>10, RowStatementNames
      <4>2. /\ \A b \in adds : ~ Secured(s1, b, "employeeAdded")'
            /\ \A b \in removals : ~ Secured(s1, b, "employeeRemoved")'
        BY <2>6, <2>10, <4>1
      <4>3. NoBlock \notin removals
        BY <1>8
      <4>. QED
        BY <3>1, <4>2, <4>3 DEF SwitchedBy, Secured, Passed
    <3>5. r1.terms # NoBlock => Exists(r1) /\ r1.employer = chain'[r1.terms].employer
      BY <1>7, <2>10, <3>1
    <3>6. about \cap tables'.transactions # {}
      BY <1>2, <2>2
    <3>. QED
      BY <1>4, <1>6, <3>1, <3>2, <3>3, <3>4, <3>5, <3>6, EmployeeGoal
  <2>11. CASE st.do = "lastWithdraw" /\ ~ Exists(r)
    <3>1. tables'.employees[w] = tables.employees[w]
      BY <1>3, <1>4, <2>3, <2>11 DEF UpdateWithdraw
    <3>2. ASSUME NEW b \in Concerning(Len(chain), w), NEW do,
                 do = EmployeeStatement(chain[b].kind), Secured(s1, b, do)'
          PROVE  Secured(s, b, do)
      <4>1. do # "lastWithdraw"
        BY <3>2 DEF EmployeeStatement
      <4>. QED
        BY <1>2, <2>11, <3>2, <4>1
    <3>. QED
      BY <1>2, <3>1, <3>2, SameEmployee
  <2>. QED
    BY <2>1, <2>7, <2>8, <2>9, <2>10, <2>11
<1>. QED
  BY <1>9, <1>10

-----------------------------------------------------------------------------
(***************************************************************************)
(* A single process: the invariant.                                        *)
(***************************************************************************)

\* What the invariant says of the one process.
Settled(s) ==
    /\ BatchAtBase(s)
    /\ \A e \in Employers : EmployerInv(s, e)
    /\ \A w \in Employees : EmployeeInv(s, w)

\* The parts of the invariant.
LEMMA SoloParts == SoloInv <=> IInv /\ \A p \in Indexers : Settled(indexer[p])
  BY DEF SoloInv, Settled

\* Rows stay as they are when nothing is secured and nothing written.
LEMMA LessIsSettled ==
    ASSUME TypeOK, NEW s, NEW s1, UNCHANGED <<chain, tables>>, LessSecured(s1, s)
    PROVE  /\ \A e \in Employers : EmployerInv(s, e) => EmployerInv(s1, e)'
           /\ \A w \in Employees : EmployeeInv(s, w) => EmployeeInv(s1, w)'
<1>1. /\ UNCHANGED chain /\ tables.transactions \subseteq tables'.transactions
      /\ tables'.employers = tables.employers /\ tables'.employees = tables.employees
  OBVIOUS
<1>2. ASSUME NEW e \in Employers, EmployerInv(s, e) PROVE EmployerInv(s1, e)'
  <2>1. ASSUME NEW b \in Naming(Len(chain), e), NEW do,
               do = EmployerStatement(chain[b].kind), Secured(s1, b, do)'
        PROVE  Secured(s, b, do)
    <3>1. b \in Happened(Len(chain)) /\ chain[b].kind \in OfEmployer \cup OfBoth
      BY DEF Naming
    <3>2. do \in Work(b) \cap RowStatements
      BY <2>1, <3>1, RowWork
    <3>. QED
      BY <2>1, <3>1, <3>2 DEF LessSecured
  <2>. QED
    BY <1>1, <1>2, <2>1, SameEmployer
<1>3. ASSUME NEW w \in Employees, EmployeeInv(s, w) PROVE EmployeeInv(s1, w)'
  <2>1. ASSUME NEW b \in Concerning(Len(chain), w), NEW do,
               do = EmployeeStatement(chain[b].kind), Secured(s1, b, do)'
        PROVE  Secured(s, b, do)
    <3>1. b \in Happened(Len(chain)) /\ chain[b].kind \in OfBoth \cup {"SalaryClaimed"}
      BY DEF Concerning
    <3>2. do \in Work(b) \cap RowStatements
      BY <2>1, <3>1, RowWork
    <3>. QED
      BY <2>1, <3>1, <3>2 DEF LessSecured
  <2>. QED
    BY <1>1, <1>3, <2>1, SameEmployee
<1>. QED
  BY <1>2, <1>3

\* Nothing is secured initially, and there is no row.
LEMMA InitSettled ==
    ASSUME Init, NEW p \in Indexers
    PROVE  Settled(indexer[p])
<1>1. /\ indexer[p] = AtRest /\ chain = <<>> /\ tables = EmptyTables
  BY DEF Init
<1>2. \A c : Happened(c) = {}
  BY <1>1 DEF Happened
<1>3. BatchAtBase(AtRest)
  BY AtRestState DEF BatchAtBase, InBatch
<1>4. ASSUME NEW s, NEW x, NEW do, x = NoBlock PROVE LatestOf(s, x, {}, do)
  BY <1>4 DEF LatestOf
<1>5. ASSUME NEW e \in Employers PROVE EmployerInv(AtRest, e)
  <2>1. tables.employers[e] = NoEmployer
    BY <1>1 DEF EmptyTables
  <2>2. ~ Exists(NoEmployer) /\ NoEmployer.removed = NoBlock
    BY DEF NoEmployer, Exists
  <2>3. Naming(Len(chain), e) = {} /\ OfKind(Len(chain), "EmployerRemoved") = {}
    BY <1>2 DEF Naming, OfKind
  <2>. QED
    BY <1>4, <2>1, <2>2, <2>3 DEF EmployerInv
<1>6. ASSUME NEW w \in Employees PROVE EmployeeInv(AtRest, w)
  <2>1. tables.employees[w] = NoEmployee
    BY <1>1 DEF EmptyTables
  <2>2. ~ Exists(NoEmployee) /\ NoEmployee.removed = NoBlock /\ NoEmployee.terms = NoBlock
    BY DEF NoEmployee, Exists
  <2>3. /\ Concerning(Len(chain), w) = {}
        /\ OfKind(Len(chain), "EmployeeRemoved") = {} /\ OfKind(Len(chain), "EmployeeAdded") = {}
    BY <1>2 DEF Concerning, OfKind
  <2>. QED
    BY <1>4, <2>1, <2>2, <2>3 DEF EmployeeInv
<1>. QED
  BY <1>1, <1>3, <1>5, <1>6 DEF Settled

\* A state after a step, told of the rigid position of the process in it.
LEMMA SettledGoal ==
    ASSUME NEW p, NEW s1, s1 = indexer'[p], BatchAtBase(indexer[p])',
           \A e \in Employers : EmployerInv(s1, e)',
           \A w \in Employees : EmployeeInv(s1, w)'
    PROVE  Settled(indexer[p])'
<1>1. ASSUME NEW e \in Employers PROVE EmployerInv(indexer[p], e)'
  BY DEF EmployerInv, LatestOf, SwitchedBy, Secured, Passed
<1>2. ASSUME NEW w \in Employees PROVE EmployeeInv(indexer[p], w)'
  BY DEF EmployeeInv, LatestOf, SwitchedBy, Secured, Passed
<1>. QED
  BY <1>1, <1>2 DEF Settled

\* Every step of the process keeps the rows right.
LEMMA ProcessSettled ==
    ASSUME IInv, NEW p \in Indexers, Settled(indexer[p]), ProcessStep(p)
    PROVE  Settled(indexer[p])'
<1>1. BatchAtBase(indexer[p]) /\ TypeOK
  BY DEF Settled, IInv
<1>2. PICK s \in IndexerState, s1 \in IndexerState :
           /\ s = indexer[p] /\ s1 = indexer'[p] /\ BatchInv(s)
           /\ UNCHANGED chain
           /\ \/ UNCHANGED <<tables, cp>> /\ Moved(s, s1)
              \/ ExecuteStatement(p) /\ Executed(s, s1, Head(s.todo))
              \/ /\ UNCHANGED tables
                 /\ s.pc = "write" /\ s.todo = <<>> /\ s.next > s.to
                 /\ cp' \in {cp, s.to}
                 /\ \A b, do : ~ Passed(s1, b, do)
  BY <1>1, ProcessMoves
<1>3. /\ BatchAtBase(s)
      /\ \A e \in Employers : EmployerInv(s, e)
      /\ \A w \in Employees : EmployeeInv(s, w)
  BY <1>2 DEF Settled
<1>4. BatchAtBase(indexer[p])'
  BY <1>1, BatchStaysAtBase
<1>5. CASE \/ UNCHANGED <<tables, cp>> /\ Moved(s, s1)
           \/ /\ UNCHANGED tables
              /\ s.pc = "write" /\ s.todo = <<>> /\ s.next > s.to
              /\ cp' \in {cp, s.to}
              /\ \A b, do : ~ Passed(s1, b, do)
  <2>1. \/ UNCHANGED cp /\ LessPassed(s1, s)
        \/ /\ s.pc = "write" /\ s.todo = <<>> /\ s.next > s.to
           /\ cp' \in {cp, s.to}
           /\ \A b, do : ~ Passed(s1, b, do)
    BY <1>5 DEF Moved
  <2>2. LessSecured(s1, s)
    BY <1>2, <1>3, <2>1, SilentSecures
  <2>3. UNCHANGED <<chain, tables>>
    BY <1>2, <1>5
  <2>. QED
    BY <1>1, <1>2, <1>3, <1>4, <2>2, <2>3, LessIsSettled, SettledGoal
<1>6. CASE ExecuteStatement(p) /\ Executed(s, s1, Head(s.todo))
  <2>1. PICK st : st = Head(s.todo) /\ Secures(s, s1, st)
    BY <1>2, <1>3, <1>6, ExecuteSecures
  <2>2. \A e \in Employers : EmployerInv(s1, e)'
    BY <1>1, <1>3, <2>1, ExecuteEmployer
  <2>3. \A w \in Employees : EmployeeInv(s1, w)'
    BY <1>1, <1>3, <2>1, ExecuteEmployee
  <2>. QED
    BY <1>2, <1>4, <2>2, <2>3, SettledGoal
<1>. QED
  BY <1>2, <1>5, <1>6

\* A confirmation keeps the rows right.
LEMMA ConfirmSettled ==
    ASSUME IInv, NEW ev \in Events, Confirm(ev), NEW p \in Indexers, Settled(indexer[p])
    PROVE  Settled(indexer[p])'
<1>1. PICK s \in IndexerState : s = indexer[p] /\ s = indexer'[p] /\ BatchInv(s)
  BY DEF IInv, TypeOK, Confirm
<1>2. /\ BatchAtBase(s)
      /\ \A e \in Employers : EmployerInv(s, e)
      /\ \A w \in Employees : EmployeeInv(s, w)
  BY <1>1 DEF Settled
<1>3. BatchAtBase(indexer[p])'
  BY <1>1, <1>2 DEF Confirm, BatchAtBase, InBatch, Base
<1>4. \A e \in Employers : EmployerInv(s, e)'
  BY <1>1, <1>2, ConfirmEmployer
<1>5. \A w \in Employees : EmployeeInv(s, w)'
  BY <1>1, <1>2, ConfirmEmployee
<1>. QED
  BY <1>1, <1>3, <1>4, <1>5, SettledGoal

\* With a single process the invariant is inductive.
LEMMA InitSoloInv == Init => SoloInv
  BY InitIInv, InitSettled, SoloParts

LEMMA NextSoloInv ==
    ASSUME OneIndexer, SoloInv, [Next]_vars
    PROVE  SoloInv'
<1>1. PICK p \in Indexers : Indexers = {p}
  BY DEF OneIndexer
<1>2. IInv /\ Settled(indexer[p])
  BY <1>1, SoloParts
<1>3. IInv'
  BY <1>2, NextIInv
<1>4. Settled(indexer[p])'
  <2>1. CASE UNCHANGED vars
    <3>1. UNCHANGED <<chain, tables, cp, indexer>>
      BY <2>1 DEF vars
    <3>. QED
      BY <1>2, <3>1 DEF Settled, BatchAtBase, InBatch, Base, EmployerInv, EmployeeInv,
         LatestOf, SwitchedBy, Secured, Passed, Naming, Concerning, OfKind, Happened
  <2>2. CASE \E e \in Events : Confirm(e)
    BY <1>2, <2>2, ConfirmSettled
  <2>3. CASE \E q \in Indexers : ProcessStep(q)
    BY <1>1, <1>2, <2>3, ProcessSettled
  <2>. QED
    BY <2>1, <2>2, <2>3 DEF Next, ProcessStep
<1>5. \A q \in Indexers : Settled(indexer[q])'
  BY <1>1, <1>4
<1>. QED
  BY <1>3, <1>5, SoloParts DEF SoloInv, Settled

-----------------------------------------------------------------------------
(***************************************************************************)
(* A single process: the tables say what the chain says.                   *)
(***************************************************************************)

\* A set of naturals has a least element.
LEMMA NatMin ==
    ASSUME NEW T \in SUBSET Nat, T # {}
    PROVE  \E m \in T : \A n \in T : m <= n
<1> DEFINE R == {ss \in Nat \X Nat : ss[1] < ss[2]}
<1>1. IsWellFoundedOn(R, Nat)
  BY NatLessThanWellFounded DEF OpToRel
<1> HIDE DEF R
<1>2. PICK m \in T : \A n \in T : <<n, m>> \notin R
  BY <1>1, WFMin
<1>3. ASSUME NEW n \in T PROVE m <= n
  <2>1. n \in Nat /\ m \in Nat /\ <<n, m>> \notin R
    BY <1>2
  <2>. QED
    BY <2>1 DEF R
<1>. QED
  BY <1>3

\* The latest of bounded blocks is an upper bound in or below them.
LEMMA LatestIs ==
    ASSUME NEW c \in Nat, NEW S \in SUBSET (0 .. c), NEW x \in {NoBlock} \cup S,
           \A b \in S : b <= x
    PROVE  Latest(S) = x
<1>1. \A y \in {NoBlock} \cup S : x >= y /\ y \in Int
  BY DEF NoBlock
<1>2. \A y \in {NoBlock} \cup S : (\A z \in {NoBlock} \cup S : y >= z) => y = x
  BY <1>1
<1>. QED
  BY <1>1, <1>2 DEF Latest, Max

\* There is one.
LEMMA LatestType ==
    ASSUME NEW c \in Nat, NEW S \in SUBSET (0 .. c)
    PROVE  /\ Latest(S) \in {NoBlock} \cup S
           /\ \A b \in S : b <= Latest(S)
<1>1. CASE S = {}
  BY <1>1, LatestIs
<1>2. CASE S # {}
  <2> DEFINE T == {k \in Nat : c - k \in S}
  <2>1. T # {}
    <3>1. PICK b \in S : TRUE
      BY <1>2
    <3>2. c - b \in Nat /\ c - (c - b) = b
      OBVIOUS
    <3>. QED
      BY <3>1, <3>2
  <2>2. PICK m \in T : \A k \in T : m <= k
    BY <2>1, NatMin
  <2>3. ASSUME NEW b \in S PROVE b <= c - m
    <3>1. c - b \in Nat /\ c - (c - b) = b
      OBVIOUS
    <3>2. c - b \in T
      BY <3>1
    <3>3. m <= c - b /\ m \in Nat
      BY <2>2, <3>2
    <3>. QED
      BY <3>3
  <2>4. c - m \in S
    BY <2>2
  <2>. HIDE DEF T
  <2>5. PICK x \in S : \A b \in S : b <= x
    BY <2>3, <2>4
  <2>6. Latest(S) = x
    BY <2>5, LatestIs
  <2>. QED
    BY <2>5, <2>6
<1>. QED
  BY <1>1, <1>2

\* x is the last of some blocks up to c that switch on and others that switch off.
Decides(x, ons, offs, c) ==
    /\ c \in Nat /\ ons \subseteq 0 .. c /\ offs \subseteq 0 .. c
    /\ ons \cap offs = {}
    /\ x \in {NoBlock} \cup ons \cup offs
    /\ \A b \in ons \cup offs : b <= x

\* It decides.
LEMMA LastSwitch ==
    ASSUME NEW c, NEW ons, NEW offs, NEW x, Decides(x, ons, offs, c)
    PROVE  x \notin offs <=> Latest(offs) <= Latest(ons)
<1>0. /\ c \in Nat /\ ons \in SUBSET (0 .. c) /\ offs \in SUBSET (0 .. c)
      /\ ons \cap offs = {}
      /\ x \in {NoBlock} \cup ons \cup offs
      /\ \A b \in ons \cup offs : b <= x
  BY DEF Decides
<1>1. /\ Latest(ons) \in {NoBlock} \cup ons /\ \A b \in ons : b <= Latest(ons)
      /\ Latest(offs) \in {NoBlock} \cup offs /\ \A b \in offs : b <= Latest(offs)
  BY <1>0, LatestType
<1>2. PICK on, off : on = Latest(ons) /\ off = Latest(offs)
  OBVIOUS
<1>3. /\ on \in Int /\ off \in Int /\ x \in Int
      /\ \A b \in ons \cup offs : b \in Nat
  <2>1. \A b \in ons \cup offs : b \in Nat
    BY <1>0
  <2>2. NoBlock \in Int
    BY DEF NoBlock
  <2>3. /\ \A b \in {NoBlock} \cup ons : b \in Int
        /\ \A b \in {NoBlock} \cup offs : b \in Int
        /\ \A b \in {NoBlock} \cup ons \cup offs : b \in Int
    BY <2>1, <2>2
  <2>4. on \in Int /\ off \in Int
    BY <1>0, <1>1, <1>2, <2>3
  <2>5. x \in Int
    BY <1>0, <2>3
  <2>. QED
    BY <2>1, <2>4, <2>5
<1>4. CASE x \in offs
  <2>1. off = x
    BY <1>0, <1>2, <1>4, LatestIs
  <2>2. on < x
    <3>1. on # x
      BY <1>0, <1>1, <1>2, <1>4 DEF NoBlock
    <3>2. on <= x
      BY <1>0, <1>1, <1>2, <1>3, <1>4 DEF NoBlock
    <3>. QED
      BY <1>3, <3>1, <3>2
  <2>. QED
    BY <1>2, <1>3, <1>4, <2>1, <2>2
<1>5. CASE x \in ons
  <2>1. on = x
    BY <1>0, <1>2, <1>5, LatestIs
  <2>2. off <= x
    BY <1>0, <1>1, <1>2, <1>3, <1>5 DEF NoBlock
  <2>. QED
    BY <1>0, <1>2, <1>5, <2>1, <2>2
<1>6. CASE x = NoBlock
  <2>1. ons = {} /\ offs = {}
    BY <1>0, <1>3, <1>6 DEF NoBlock
  <2>2. on = NoBlock /\ off = NoBlock
    BY <1>1, <1>2, <2>1
  <2>3. off <= on
    BY <1>3, <2>2
  <2>. QED
    BY <1>2, <2>1, <2>3
<1>. QED
  BY <1>0, <1>4, <1>5, <1>6

\* What happened up to the checkpoint, when there is one.
LEMMA UpToCheckpoint ==
    ASSUME IInv, cp # NoBlock
    PROVE  /\ cp \in Nat /\ Base = cp
           /\ Happened(cp) = {b \in Happened(Len(chain)) : b <= cp}
           /\ Happened(cp) \subseteq 0 .. cp
           /\ \A s, do : \A b \in Happened(cp) : Secured(s, b, do)
<1>1. TypeOK /\ cp \in Nat /\ Base = cp /\ cp <= Len(chain) /\ Len(chain) \in Nat
      /\ StartBlock \in Nat
  BY BaseType, ChainBlocksType DEF IInv
<1>2. Happened(cp) = {b \in Happened(Len(chain)) : b <= cp}
  BY <1>1 DEF Happened
<1>3. Happened(cp) \subseteq 0 .. cp
  BY <1>1 DEF Happened
<1>. QED
  BY <1>1, <1>2, <1>3 DEF Secured

\* Without a checkpoint nothing has happened up to it.
LEMMA NothingHappened ==
    ASSUME cp = NoBlock
    PROVE  Happened(cp) = {} /\ 0 .. cp = {}
  BY IndexerAssumption DEF Happened, NoBlock

\* The row of an employer when no log beyond the checkpoint has been touched.
LEMMA EmployerProjected ==
    ASSUME IInv, cp # NoBlock, tables.transactions \subseteq 0 .. cp,
           NEW s, NEW e, EmployerInv(s, e)
    PROVE  LET adds == OfKind(cp, "EmployerAdded") \cap Naming(cp, e)
               removals == OfKind(cp, "EmployerRemoved") \cap Naming(cp, e)
               r == tables.employers[e]
           IN  /\ Exists(r) <=> Naming(cp, e) # {}
               /\ Exists(r) => /\ r.active <=> Latest(removals) <= Latest(adds)
                               /\ r.removed = Latest(removals)
<1>1. TypeOK /\ cp \in Nat /\ Base = cp
  BY UpToCheckpoint DEF IInv
<1>2. PICK named, adds, removals : EmployerBlocks(e, named, adds, removals)
  BY DEF EmployerBlocks
<1>3. PICK r : r = tables.employers[e]
  OBVIOUS
<1>4. /\ \A b \in named : Secured(s, b, EmployerStatement(chain[b].kind)) => Exists(r)
      /\ Exists(r) => named \cap tables.transactions # {}
      /\ LatestOf(s, r.removed, removals, "employerRemoved")
      /\ Exists(r) => SwitchedBy(s, r.active, adds, "employerAdded",
                                 removals, "employerRemoved")
  BY <1>2, <1>3 DEF EmployerInv, EmployerBlocks
<1>5. /\ adds = {b \in named : chain[b].kind = "EmployerAdded"}
      /\ removals = {b \in named : chain[b].kind = "EmployerRemoved"}
      /\ named \subseteq Happened(Len(chain))
  BY <1>1, <1>2, BlocksType
<1>6. PICK named0 : named0 = Naming(cp, e)
  OBVIOUS
<1>7. PICK adds0 : adds0 = OfKind(cp, "EmployerAdded") \cap named0
  OBVIOUS
<1>8. PICK removals0 : removals0 = OfKind(cp, "EmployerRemoved") \cap named0
  OBVIOUS
<1>9. /\ Happened(cp) = {b \in Happened(Len(chain)) : b <= cp}
      /\ Happened(cp) \subseteq 0 .. cp
      /\ \A do : \A b \in Happened(cp) : Secured(s, b, do)
  BY UpToCheckpoint
<1>10. named0 = {b \in named : b <= cp} /\ named0 \subseteq Happened(cp)
  BY <1>2, <1>6, <1>9 DEF Naming, EmployerBlocks
<1>11. /\ adds0 = {b \in adds : b <= cp} /\ adds0 \subseteq Happened(cp)
       /\ removals0 = {b \in removals : b <= cp} /\ removals0 \subseteq Happened(cp)
       /\ adds0 \cap removals0 = {}
  BY <1>5, <1>7, <1>8, <1>10 DEF OfKind
<1>12. \A b \in tables.transactions : b <= cp
  BY <1>1
<1>13. Exists(r) <=> named0 # {}
  BY <1>4, <1>9, <1>10, <1>12
<1>14. r.removed = Latest(removals0)
  <2>1. /\ r.removed \in {NoBlock} \cup removals0
        /\ \A b \in removals0 : b <= r.removed
    BY <1>4, <1>9, <1>11, <1>12 DEF LatestOf
  <2>. QED
    BY <1>1, <1>9, <1>11, <2>1, LatestIs
<1>15. ASSUME Exists(r) PROVE r.active <=> Latest(removals0) <= Latest(adds0)
  <2>1. PICK x \in {NoBlock} \cup ((adds \cup removals) \cap tables.transactions) :
          /\ r.active <=> x \notin removals
          /\ \A b \in adds : Secured(s, b, "employerAdded") => b <= x
          /\ \A b \in removals : Secured(s, b, "employerRemoved") => b <= x
    BY <1>4, <1>15 DEF SwitchedBy
  <2>2. /\ x \in {NoBlock} \cup adds0 \cup removals0
        /\ \A b \in adds0 \cup removals0 : b <= x
    BY <1>9, <1>11, <1>12, <2>1
  <2>3. x \in removals <=> x \in removals0
    BY <1>1, <1>11, <1>12, <2>1 DEF NoBlock
  <2>4. adds0 \in SUBSET (0 .. cp) /\ removals0 \in SUBSET (0 .. cp)
    BY <1>9, <1>11
  <2>5. x \notin removals0 <=> Latest(removals0) <= Latest(adds0)
    <3>1. Decides(x, adds0, removals0, cp)
      BY <1>1, <1>11, <2>2, <2>4 DEF Decides
    <3>. QED
      BY <3>1, LastSwitch
  <2>. QED
    BY <2>1, <2>3, <2>5
<1>. QED
  BY <1>3, <1>6, <1>7, <1>8, <1>13, <1>14, <1>15

\* The row of an employee.
LEMMA EmployeeProjected ==
    ASSUME IInv, cp # NoBlock, tables.transactions \subseteq 0 .. cp,
           NEW s, NEW w, EmployeeInv(s, w)
    PROVE  LET adds == OfKind(cp, "EmployeeAdded") \cap Concerning(cp, w)
               removals == OfKind(cp, "EmployeeRemoved") \cap Concerning(cp, w)
               r == tables.employees[w]
           IN  /\ Exists(r) <=> Concerning(cp, w) # {}
               /\ Exists(r) => /\ r.active <=> Latest(removals) <= Latest(adds)
                               /\ r.removed = Latest(removals)
                               /\ r.terms = Latest(adds)
                               /\ adds # {} => r.employer = chain[Latest(adds)].employer
<1>1. TypeOK /\ cp \in Nat /\ Base = cp
  BY UpToCheckpoint DEF IInv
<1>2. PICK about, adds, removals : EmployeeBlocks(w, about, adds, removals)
  BY DEF EmployeeBlocks
<1>3. PICK r : r = tables.employees[w]
  OBVIOUS
<1>4. /\ \A b \in about : Secured(s, b, EmployeeStatement(chain[b].kind)) => Exists(r)
      /\ Exists(r) => about \cap tables.transactions # {}
      /\ LatestOf(s, r.removed, removals, "employeeRemoved")
      /\ LatestOf(s, r.terms, adds, "employeeAdded")
      /\ r.terms # NoBlock => Exists(r) /\ r.employer = chain[r.terms].employer
      /\ Exists(r) => SwitchedBy(s, r.active, adds, "employeeAdded",
                                 removals, "employeeRemoved")
  BY <1>2, <1>3 DEF EmployeeInv, EmployeeBlocks
<1>5. /\ adds = {b \in about : chain[b].kind = "EmployeeAdded"}
      /\ removals = {b \in about : chain[b].kind = "EmployeeRemoved"}
      /\ about \subseteq Happened(Len(chain))
  BY <1>1, <1>2, BlocksType
<1>6. PICK about0 : about0 = Concerning(cp, w)
  OBVIOUS
<1>7. PICK adds0 : adds0 = OfKind(cp, "EmployeeAdded") \cap about0
  OBVIOUS
<1>8. PICK removals0 : removals0 = OfKind(cp, "EmployeeRemoved") \cap about0
  OBVIOUS
<1>9. /\ Happened(cp) = {b \in Happened(Len(chain)) : b <= cp}
      /\ Happened(cp) \subseteq 0 .. cp
      /\ \A do : \A b \in Happened(cp) : Secured(s, b, do)
  BY UpToCheckpoint
<1>10. about0 = {b \in about : b <= cp} /\ about0 \subseteq Happened(cp)
  BY <1>2, <1>6, <1>9 DEF Concerning, EmployeeBlocks
<1>11. /\ adds0 = {b \in adds : b <= cp} /\ adds0 \subseteq Happened(cp)
       /\ removals0 = {b \in removals : b <= cp} /\ removals0 \subseteq Happened(cp)
       /\ adds0 \cap removals0 = {}
  BY <1>5, <1>7, <1>8, <1>10 DEF OfKind
<1>12. \A b \in tables.transactions : b <= cp
  BY <1>1
<1>13. Exists(r) <=> about0 # {}
  BY <1>4, <1>9, <1>10, <1>12
<1>14. r.removed = Latest(removals0)
  <2>1. /\ r.removed \in {NoBlock} \cup removals0
        /\ \A b \in removals0 : b <= r.removed
    BY <1>4, <1>9, <1>11, <1>12 DEF LatestOf
  <2>. QED
    BY <1>1, <1>9, <1>11, <2>1, LatestIs
<1>15. r.terms = Latest(adds0)
  <2>1. /\ r.terms \in {NoBlock} \cup adds0
        /\ \A b \in adds0 : b <= r.terms
    BY <1>4, <1>9, <1>11, <1>12 DEF LatestOf
  <2>. QED
    BY <1>1, <1>9, <1>11, <2>1, LatestIs
<1>16. ASSUME adds0 # {} PROVE r.employer = chain[Latest(adds0)].employer
  <2>1. PICK b \in adds0 : b \in Nat /\ b <= Latest(adds0)
    <3>1. adds0 \in SUBSET (0 .. cp)
      BY <1>9, <1>11
    <3>2. \A b \in adds0 : b <= Latest(adds0)
      BY <1>1, <3>1, LatestType
    <3>3. PICK b \in adds0 : TRUE
      BY <1>16
    <3>4. b \in Nat
      BY <1>1, <3>1, <3>3
    <3>. QED
      BY <3>2, <3>3, <3>4
  <2>2. r.terms # NoBlock
    BY <1>15, <2>1 DEF NoBlock
  <2>. QED
    BY <1>4, <1>15, <2>2
<1>17. ASSUME Exists(r) PROVE r.active <=> Latest(removals0) <= Latest(adds0)
  <2>1. PICK x \in {NoBlock} \cup ((adds \cup removals) \cap tables.transactions) :
          /\ r.active <=> x \notin removals
          /\ \A b \in adds : Secured(s, b, "employeeAdded") => b <= x
          /\ \A b \in removals : Secured(s, b, "employeeRemoved") => b <= x
    BY <1>4, <1>17 DEF SwitchedBy
  <2>2. /\ x \in {NoBlock} \cup adds0 \cup removals0
        /\ \A b \in adds0 \cup removals0 : b <= x
    BY <1>9, <1>11, <1>12, <2>1
  <2>3. x \in removals <=> x \in removals0
    BY <1>1, <1>11, <1>12, <2>1 DEF NoBlock
  <2>4. adds0 \in SUBSET (0 .. cp) /\ removals0 \in SUBSET (0 .. cp)
    BY <1>9, <1>11
  <2>5. x \notin removals0 <=> Latest(removals0) <= Latest(adds0)
    <3>1. Decides(x, adds0, removals0, cp)
      BY <1>1, <1>11, <2>2, <2>4 DEF Decides
    <3>. QED
      BY <3>1, LastSwitch
  <2>. QED
    BY <2>1, <2>3, <2>5
<1>. QED
  BY <1>3, <1>6, <1>7, <1>8, <1>13, <1>14, <1>15, <1>16, <1>17

\* The invariant implies that the tables say what the chain says.
LEMMA SoloConverges ==
    ASSUME SoloInv, NEW p \in Indexers
    PROVE  ProjectionConverges
<1> SUFFICES ASSUME tables.transactions \subseteq 0 .. cp
             PROVE  /\ \A b \in Happened(cp) : Recorded(b)
                    /\ EmployersAreProjected(cp)
                    /\ EmployeesAreProjected(cp)
  BY DEF ProjectionConverges
<1>1. PICK s : /\ s = indexer[p] /\ IInv
               /\ \A e \in Employers : EmployerInv(s, e)
               /\ \A w \in Employees : EmployeeInv(s, w)
  BY DEF SoloInv
<1>2. \A b \in Happened(cp) : Recorded(b)
  BY <1>1 DEF IInv, TablesInv, Covered
<1>3. CASE cp = NoBlock
  <2>1. Happened(cp) = {} /\ tables.transactions = {}
    BY <1>3, NothingHappened
  <2>2. ASSUME NEW e \in Employers
        PROVE  ~ Exists(tables.employers[e]) /\ Naming(cp, e) = {}
    <3>1. EmployerInv(s, e)
      BY <1>1
    <3>. QED
      BY <2>1, <3>1 DEF EmployerInv, Naming
  <2>3. ASSUME NEW w \in Employees
        PROVE  ~ Exists(tables.employees[w]) /\ Concerning(cp, w) = {}
    <3>1. EmployeeInv(s, w)
      BY <1>1
    <3>. QED
      BY <2>1, <3>1 DEF EmployeeInv, Concerning
  <2>. QED
    BY <1>2, <2>2, <2>3 DEF EmployersAreProjected, EmployeesAreProjected
<1>4. CASE cp # NoBlock
  <2>1. EmployersAreProjected(cp)
    BY <1>1, <1>4, EmployerProjected DEF EmployersAreProjected
  <2>2. EmployeesAreProjected(cp)
    BY <1>1, <1>4, EmployeeProjected DEF EmployeesAreProjected
  <2>. QED
    BY <1>2, <2>1, <2>2
<1>. QED
  BY <1>3, <1>4

\* With a single process: whenever no log beyond the checkpoint has been touched, every
\* event up to the checkpoint is stored and the rows of employers and employees are those
\* of its last event, however often batches failed half way and were executed again.
THEOREM TablesConverge == OneIndexer => (Spec => []ProjectionConverges)
<1> SUFFICES ASSUME OneIndexer PROVE Spec => []ProjectionConverges
  OBVIOUS
<1>1. SoloInv /\ [Next]_vars => SoloInv'
  BY NextSoloInv
<1>2. SoloInv => ProjectionConverges
  BY SoloConverges DEF OneIndexer
<1>. QED
  BY InitSoloInv, <1>1, <1>2, PTL DEF Spec

-----------------------------------------------------------------------------
(***************************************************************************)
(* A single process: the payroll stream is a checkpointed stream.          *)
(***************************************************************************)

\* The block of a log in the abstract stream, and the logs it has accounted for.
Where(l) == IF l \in DOMAIN chain /\ chain[l] # Nothing THEN l ELSE NoBlock
Done == {b \in DOMAIN chain : Recorded(b)}

\* A confirmation puts one log on a block that is not buried.
LEMMA ConfirmImplements ==
    ASSUME IInv, NEW ev \in Events, Confirm(ev)
    PROVE  Stream!ChainMoves
<1>1. /\ TypeOK /\ UNCHANGED <<tables, cp>>
      /\ \A b \in DOMAIN chain : chain'[b] = chain[b]
      /\ Len(chain) \in Nat /\ DOMAIN chain = 1 .. Len(chain)
      /\ Len(chain') = Len(chain) + 1 /\ DOMAIN chain' = 1 .. Len(chain) + 1
      /\ tables.transactions \subseteq DOMAIN chain
  BY ConfirmedBlock, ChainBlocksType DEF IInv, TablesInv
<1>2. ASSUME NEW l \in 1 .. MaxBlock, Where(l)' # Where(l)
      PROVE  ~ Stream!Buried(Where(l), Len(chain)) /\ ~ Stream!Buried(Where(l)', Len(chain))
  <2>1. l \in Nat /\ l \notin DOMAIN chain
    BY <1>1, <1>2 DEF Where
  <2>2. Where(l) = NoBlock
    BY <2>1 DEF Where
  <2>3. Where(l)' = l /\ l = Len(chain) + 1
    BY <1>1, <1>2, <2>1, <2>2 DEF Where
  <2>. QED
    BY <1>1, <2>2, <2>3 DEF Stream!Buried, NoBlock
<1>3. Done' = Done
  <2>1. ASSUME NEW b \in DOMAIN chain PROVE Recorded(b)' <=> Recorded(b)
    BY <1>1 DEF Recorded
  <2>2. ASSUME NEW b \in DOMAIN chain', Recorded(b)' PROVE b \in DOMAIN chain
    BY <1>1, <2>2 DEF Recorded
  <2>3. DOMAIN chain \subseteq DOMAIN chain'
    BY <1>1
  <2>. QED
    BY <2>1, <2>2, <2>3 DEF Done
<1>. QED
  BY <1>1, <1>2, <1>3 DEF Stream!ChainMoves, Where, Done

\* A step of the process accounts for logs; when it moves the checkpoint, it moves it
\* forward over confirmed blocks whose logs are all stored.
LEMMA ProcessImplements ==
    ASSUME IInv, IInv', NEW p \in Indexers, BatchAtBase(indexer[p]), ProcessStep(p)
    PROVE  Stream!Account
<1>1. PICK s \in IndexerState, s1 \in IndexerState :
           /\ s = indexer[p] /\ BatchInv(s)
           /\ UNCHANGED chain
           /\ \/ UNCHANGED <<tables, cp>>
              \/ ExecuteStatement(p) /\ Executed(s, s1, Head(s.todo))
              \/ UNCHANGED tables /\ s.pc = "write" /\ cp' \in {cp, s.to}
  BY ProcessMoves
<1>2. Done \subseteq Done'
  <2>1. CASE UNCHANGED tables
    BY <1>1, <2>1 DEF Done, Recorded
  <2>2. CASE ExecuteStatement(p) /\ Executed(s, s1, Head(s.todo))
    <3>1. Grows
      BY <1>1, <2>2, ExecuteGrows
    <3>. QED
      BY <1>1, <3>1 DEF Grows, Done, Recorded
  <2>. QED
    BY <1>1, <2>1, <2>2
<1>3. CASE cp' = cp
  <2>1. UNCHANGED chain
    BY <1>1
  <2>. QED
    BY <1>2, <1>3, <2>1 DEF Stream!Account, Done, Where
<1>4. CASE s.pc = "write" /\ cp' = s.to
  <2>1. /\ s.from = Base + 1 /\ StartBlock <= s.from /\ s.from <= s.to
        /\ s.to <= s.safe /\ s.safe <= Len(chain)
    BY <1>1, <1>4 DEF BatchAtBase, BatchInv, InBatch
  <2>2. /\ s.from \in Nat /\ s.to \in Nat /\ s.safe \in Nat /\ Len(chain) \in Nat
        /\ StartBlock \in Nat \ {0} /\ Base \in Int /\ cp \in Int /\ cp <= Base
    <3>1. s.from \in Nat /\ s.to \in Nat /\ s.safe \in Nat
      BY DEF IndexerState
    <3>2. Len(chain) \in Nat /\ StartBlock \in Nat \ {0}
      BY ChainBlocksType, IndexerAssumption DEF IInv
    <3>. QED
      BY <3>1, <3>2, BaseType
  <2>3. cp' \in Nat /\ cp' > cp
    BY <1>4, <2>1, <2>2
  <2>4. Stream!Buried(cp', Len(chain))
    BY <1>4, <2>1, <2>2 DEF Stream!Buried
  <2>5. ASSUME NEW l \in 1 .. MaxBlock, Where(l) \in StartBlock .. cp' PROVE l \in Done'
    <3>1. l \in DOMAIN chain /\ chain[l] # Nothing /\ l \in StartBlock .. cp'
      BY <2>2, <2>5 DEF Where, NoBlock
    <3>2. l \in Happened(cp)'
      BY <1>1, <3>1 DEF Happened
    <3>3. Recorded(l)'
      BY <3>2 DEF IInv, TablesInv, Covered
    <3>. QED
      BY <1>1, <3>1, <3>3 DEF Done
  <2>. QED
    BY <1>1, <1>2, <2>3, <2>4, <2>5 DEF Stream!Account, Done, Where
<1>5. cp' = cp \/ (s.pc = "write" /\ cp' = s.to)
  BY <1>1, ExecuteMoves
<1>. QED
  BY <1>3, <1>4, <1>5

\* With a single process the payroll stream, whose statements and checkpoint commit one by
\* one, implements the checkpointed stream: the checkpoint moves only forward, only over
\* confirmed blocks, and only past events that are stored.
THEOREM PayrollImplementsStream == OneIndexer => (Spec => ImplementsStream)
<1> SUFFICES ASSUME OneIndexer PROVE Spec => ImplementsStream
  OBVIOUS
<1>1. Init => Stream!Init
  <2> SUFFICES ASSUME Init PROVE Stream!Init
    OBVIOUS
  <2>1. /\ chain = <<>> /\ Len(chain) = 0 /\ DOMAIN chain = {} /\ cp = NoBlock
    BY DEF Init
  <2>. QED
    BY <2>1 DEF Stream!Init, NoBlock, Stream!NoBlock
<1>2. SoloInv /\ [Next]_vars => SoloInv'
  BY NextSoloInv
<1>3. SoloInv /\ SoloInv' /\ [Next]_vars => [Stream!Next]_(Stream!vars)
  <2> SUFFICES ASSUME SoloInv, SoloInv', [Next]_vars PROVE [Stream!Next]_(Stream!vars)
    OBVIOUS
  <2>1. IInv /\ IInv' /\ \A p \in Indexers : BatchAtBase(indexer[p])
    BY DEF SoloInv
  <2>2. CASE UNCHANGED vars
    BY <2>2 DEF vars, Stream!vars, Recorded
  <2>3. CASE \E e \in Events : Confirm(e)
    BY <2>1, <2>3, ConfirmImplements DEF Stream!Next
  <2>4. CASE \E p \in Indexers : ProcessStep(p)
    BY <2>1, <2>4, ProcessImplements DEF Stream!Next
  <2>. QED
    BY <2>2, <2>3, <2>4 DEF Next, ProcessStep
<1>. QED
  BY InitSoloInv, <1>1, <1>2, <1>3, PTL DEF Spec, ImplementsStream, Stream!Spec

=============================================================================
