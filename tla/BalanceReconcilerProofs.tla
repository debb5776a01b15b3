---------------------- MODULE BalanceReconcilerProofs ----------------------
(***************************************************************************)
(* Proofs about BalanceReconciler for every number of addresses, transfers,*)
(* employers, employees, reconcilers, blocks and accidents.                *)
(***************************************************************************)
EXTENDS BalanceReconciler, FiniteSetTheorems, WellFoundedInduction, TLAPS

---------------------------------------------------------------------------
(***************************************************************************)
(* Extrema of sets of naturals.                                            *)
(***************************************************************************)

LEMMA NatMin ==
    ASSUME NEW T \in SUBSET Nat, T # {}
    PROVE  \E m \in T : \A n \in T : m <= n
<1> DEFINE R == {ss \in Nat \X Nat : ss[1] < ss[2]}
<1>1. IsWellFoundedOn(R, Nat)
  BY NatLessThanWellFounded DEF OpToRel
<1> HIDE DEF R
<1>2. PICK m \in T : \A n \in T : <<n, m>> \notin R
  BY <1>1, WFMin
<1>3. ASSUME NEW n \in T PROVE m <= n
  <2>1. n \in Nat /\ m \in Nat /\ <<n, m>> \notin R
    BY <1>2
  <2>. QED
    BY <2>1 DEF R
<1>. QED
  BY <1>3

\* A finite set of naturals has an upper bound: none of least cardinality has not.
LEMMA NatBounded ==
    ASSUME NEW A \in SUBSET Nat, IsFiniteSet(A)
    PROVE  \E b \in Nat : \A n \in A : n <= b
<1> DEFINE Bounded(S) == \E b \in Nat : \A n \in S : n <= b
           Bad == {k \in Nat : \E S \in SUBSET Nat :
                                   IsFiniteSet(S) /\ Cardinality(S) = k /\ ~ Bounded(S)}
<1>1. Bad = {}
  <2> SUFFICES ASSUME Bad # {} PROVE FALSE
    OBVIOUS
  <2>1. PICK k \in Bad : \A j \in Bad : k <= j
    BY NatMin
  <2>2. PICK S \in SUBSET Nat : IsFiniteSet(S) /\ Cardinality(S) = k /\ ~ Bounded(S)
    BY <2>1
  <2>3. PICK a \in S : TRUE
    BY <2>2
  <2>4. IsFiniteSet(S \ {a}) /\ Cardinality(S \ {a}) = k - 1
    BY <2>2, <2>3, FS_RemoveElement
  <2>5. Cardinality(S \ {a}) \in Nat /\ k \in Nat
    BY <2>1, <2>4, FS_CardinalityType
  <2>6. Bounded(S \ {a})
    <3> HIDE DEF Bounded
    <3>1. k - 1 \notin Bad /\ k - 1 \in Nat
      <4> HIDE DEF Bad
      <4>. QED
        BY <2>1, <2>4, <2>5
    <3>. QED
      BY <2>4, <3>1
  <2>7. PICK b \in Nat : \A n \in S \ {a} : n <= b
    BY <2>6
  <2>8. a \in Nat
    BY <2>2, <2>3
  <2>9. a + b \in Nat /\ \A n \in S : n <= a + b
    BY <2>2, <2>7, <2>8
  <2>10. Bounded(S)
    <3> DEFINE c == a + b
    <3>1. c \in Nat /\ \A n \in S : n <= c
      BY <2>9
    <3> HIDE DEF c
    <3>. QED
      BY <3>1
  <2> HIDE DEF Bounded
  <2>. QED
    BY <2>2, <2>10
<1>2. Cardinality(A) \in Nat
  BY FS_CardinalityType
<1>3. Bounded(A)
  BY <1>1, <1>2
<1>. QED
  BY <1>3

LEMMA NatMax ==
    ASSUME NEW A \in SUBSET Nat, IsFiniteSet(A), A # {}
    PROVE  \E m \in A : \A n \in A : n <= m
<1> DEFINE U == {b \in Nat : \A n \in A : n <= b}
<1>1. PICK m \in U : \A b \in U : m <= b
  <2>1. U # {}
    BY NatBounded
  <2> HIDE DEF U
  <2>2. U \subseteq Nat
    BY DEF U
  <2>. QED
    BY <2>1, <2>2, NatMin
<1>2. m \in A
  <2> SUFFICES ASSUME m \notin A PROVE FALSE
    OBVIOUS
  <2>1. PICK a \in A : TRUE
    OBVIOUS
  <2>2. m - 1 \in Nat /\ \A n \in A : n <= m - 1
    BY <1>1, <2>1
  <2>3. m - 1 \in U
    BY <2>2
  <2>. QED
    BY <1>1, <2>2, <2>3
<1>. QED
  BY <1>1, <1>2

---------------------------------------------------------------------------
(***************************************************************************)
(* Types.  An id is taken above those in use, which are finitely many.     *)
(* A sweep's cursor starts at the start block.                             *)
(***************************************************************************)

CursorInv ==
    /\ sweepCp = NoBlock \/ sweepCp >= StartBlock
    /\ \A w \in Sweepers : worker[w].pc # "idle" => worker[w].last >= StartBlock

TypeInv ==
    /\ TypeOK
    /\ IsFiniteSet(exceptions)
    /\ \A w \in Reconcilers : IsFiniteSet(worker[w].fixing)
    /\ CursorInv

\* TypeOK, without its operators.
LEMMA Types ==
    ASSUME TypeOK
    PROVE  /\ head \in Nat /\ indexed \in Nat
           /\ cp \in Nat \cup {NoBlock} /\ sweepCp \in Nat \cup {NoBlock}
           /\ where \in [Transfers -> Nat \cup {NoBlock}]
           /\ worker \in [Reconcilers -> WorkerState]
           /\ exceptions \subseteq Exceptions
           /\ faults \in 0 .. MaxFaults
  BY DEF TypeOK

LEMMA Constants ==
    /\ BatchSize \in Nat \ {0} /\ Window \in Nat /\ StartBlock \in Nat
    /\ ConfirmationDepth \in Nat /\ MaxHead \in Nat /\ MaxFaults \in Nat
    /\ Zero \in Wallets /\ Contract \in Wallets
    /\ Sender \in [Transfers -> Wallets] /\ Receiver \in [Transfers -> Wallets]
    /\ IsFiniteSet(Transfers) /\ IsFiniteSet(Reconcilers)
    /\ Loops \cap Sweepers = {} /\ Auditors \cap Sweepers = {}
  BY BalanceAssumption

LEMMA IdleType ==
    /\ Idle \in WorkerState /\ IsFiniteSet(Idle.fixing)
    /\ Idle.pc = "idle" /\ Idle.adding = {} /\ Idle.bad = {}
  BY FS_EmptySet DEF Idle, WorkerState

LEMMA TargetType ==
    ASSUME TypeOK
    PROVE  /\ SafeTarget \in Nat /\ SafeTarget <= head /\ WindowBlock \in Nat
           /\ LastSwept \in Nat /\ IndexedUpTo \in Nat
           /\ CursorInv => LastSwept >= StartBlock
<1>1. SafeTarget \in Nat /\ SafeTarget <= head
  BY Types, Constants DEF SafeTarget, CalculateSafeTarget
<1>2. WindowBlock \in Nat
  BY <1>1, Constants DEF WindowBlock
<1>3. LastSwept \in Nat /\ IndexedUpTo \in Nat
  BY Types, Constants DEF LastSwept, IndexedUpTo, NoBlock
<1>4. CursorInv => LastSwept >= StartBlock
  BY Types, Constants DEF LastSwept, CursorInv, NoBlock
<1>. QED
  BY <1>1, <1>2, <1>3, <1>4

LEMMA RefTypes ==
    /\ \A b : TokenRefs(GetRelevantAddresses(b)) \subseteq Refs
    /\ ContractRefs \subseteq Refs
    /\ StateRefs(Listed(Employers)) \subseteq Refs
    /\ StateRefs(Listed(Employees)) \subseteq Refs
<1>1. \A b : GetRelevantAddresses(b) \subseteq Wallets \ {Zero}
  BY Constants DEF GetRelevantAddresses, Parties, OnChain
<1>2. Listed(Employers) \subseteq Members /\ Listed(Employees) \subseteq Members
  BY DEF Listed, Members
<1>. QED
  BY <1>1, <1>2 DEF TokenRefs, ContractRefs, StateRefs, Refs

LEMMA IdsBounded ==
    ASSUME TypeInv, NEW r \in Refs
    PROVE  NextId(r) \in Nat
<1> DEFINE held == UNION {worker[w].fixing : w \in Reconcilers}
           X == OpenOf(r) \cup {y \in held : y.ref = r}
           Ids == {x.id : x \in X}
           S == {0} \cup Ids
<1>1. IsFiniteSet(X) /\ X \subseteq Exceptions
  <2> DEFINE F == {worker[w].fixing : w \in Reconcilers}
             f == [w \in Reconcilers |-> worker[w].fixing]
  <2>1. f \in Surjection(Reconcilers, F)
    BY DEF Surjection
  <2>2. IsFiniteSet(F)
    BY <2>1, Constants, FS_Surjection
  <2>3. \A T \in F : IsFiniteSet(T) /\ T \subseteq Exceptions
    BY Types DEF TypeInv, WorkerState
  <2>4. IsFiniteSet(held)
    BY <2>2, <2>3, FS_UNION
  <2>5. OpenOf(r) \in SUBSET exceptions /\ {y \in held : y.ref = r} \in SUBSET held
    BY DEF OpenOf
  <2>6. IsFiniteSet(OpenOf(r)) /\ IsFiniteSet({y \in held : y.ref = r})
    <3> HIDE DEF held
    <3>. QED
      BY <2>4, <2>5, FS_Subset DEF TypeInv
  <2>7. held \subseteq Exceptions
    BY <2>3
  <2> HIDE DEF held
  <2>. QED
    BY <2>5, <2>6, <2>7, Types, FS_Union DEF TypeInv
<1> HIDE DEF X
<1>2. IsFiniteSet(Ids) /\ Ids \subseteq Nat
  <2> DEFINE f == [x \in X |-> x.id]
  <2>1. f \in Surjection(X, Ids)
    BY DEF Surjection
  <2>2. Ids \subseteq Nat
    BY <1>1 DEF Exceptions
  <2> HIDE DEF f, Ids
  <2>. QED
    BY <1>1, <2>1, <2>2, FS_Surjection
<1> HIDE DEF Ids
<1>3. IsFiniteSet(S) /\ S \in SUBSET Nat /\ S # {}
  <2>1. IsFiniteSet({0})
    BY FS_Singleton
  <2>2. IsFiniteSet({0} \cup Ids)
    BY <1>2, <2>1, FS_Union
  <2>. QED
    BY <1>2, <2>2
<1> HIDE DEF S
<1>4. \E m \in S : \A n \in S : n <= m
  BY <1>3, NatMax
<1>5. \E m \in S : \A n \in S : m >= n
  BY <1>3, <1>4
<1>6. Max(S) \in S
  BY <1>5 DEF Max
<1>7. \A n \in S : 1 + n \in Nat
  BY <1>3
<1>8. 1 + Max(S) \in Nat
  BY <1>6, <1>7
<1>. QED
  BY <1>8 DEF NextId, S, Ids, X

\* Nothing found, nothing open: of finitely many open exceptions one is the newest.
LEMMA NothingFound ==
    ASSUME TypeInv, NEW r \in Refs, GetOpenException(r) = {}
    PROVE  OpenOf(r) = {}
<1> SUFFICES ASSUME OpenOf(r) # {} PROVE FALSE
  OBVIOUS
<1> DEFINE X == OpenOf(r)
           Ids == {x.id : x \in X}
           f == [x \in X |-> x.id]
<1>1. X \in SUBSET exceptions /\ X \subseteq Exceptions
  BY Types DEF OpenOf, TypeInv
<1>2. IsFiniteSet(X)
  BY <1>1, FS_Subset DEF TypeInv
<1> HIDE DEF X
<1>3. f \in Surjection(X, Ids) /\ Ids \in SUBSET Nat /\ Ids # {}
  BY <1>1 DEF Surjection, Exceptions, X
<1>4. \E m \in Ids : \A n \in Ids : n <= m
  <2> HIDE DEF f, Ids
  <2>. QED
    BY <1>2, <1>3, FS_Surjection, NatMax
<1>5. PICK x \in X : \A y \in X : y.id <= x.id
  BY <1>4
<1>. QED
  BY <1>5 DEF GetOpenException, X

---------------------------------------------------------------------------
(***************************************************************************)
(* What a step of a pass does to its worker, in the terms of the           *)
(* invariants below.                                                       *)
(***************************************************************************)

\* A pass that has not found out how far the stream is indexed compares nothing.
Early(w, s) ==
    /\ s.pc \in {"idle", "head", "lag"}
    /\ \/ s.bad = {} /\ s.adding = {}
       \/ /\ worker[w].pc \in {"idle", "head", "lag"}
          /\ s.bad = worker[w].bad /\ s.adding = worker[w].adding
    /\ s.pc = "lag" => s.target <= head

\* The block is bounded by the checkpoint.
Clamps(w, s) ==
    /\ worker[w].pc = "lag" /\ s.pc = "addresses"
    /\ s.bad = worker[w].bad /\ s.adding = worker[w].adding
    /\ s.target <= worker[w].target /\ s.target <= IndexedUpTo
    /\ s.blind = (cp = NoBlock)

Late == {"addresses", "balances", "contract", "employers", "employees", "advance"}

Reads(w, s) ==
    /\ worker[w].pc \in Late /\ s.pc \in Late
    /\ s.target = worker[w].target /\ s.blind = worker[w].blind
    /\ s.adding = worker[w].adding
    /\ \A r \in s.bad : r \in worker[w].bad \/ Differs(r, worker[w].target)

\* One reference is dealt with.
Works(w, s) ==
    /\ s.pc = worker[w].pc /\ s.target = worker[w].target /\ s.blind = worker[w].blind
    /\ s.bad \subseteq worker[w].bad
    /\ s.adding \subseteq worker[w].adding \cup worker[w].bad

Opens(w, s) ==
    /\ s.adding = {}
    /\ \E r \in worker[w].adding, n \in Nat : exceptions' = exceptions \cup {[ref |-> r, id |-> n]}

OpensNothing(w, s) ==
    /\ exceptions' \subseteq exceptions
    /\ \/ s.adding \subseteq worker[w].adding
       \/ \E r \in Refs : s.adding = {r} /\ GetOpenException(r) = {} /\ exceptions' = exceptions

\* A sweep goes on with the cursor it has read, which is not below the start block.
HoldsCursor(w, s) ==
    w \in Sweepers /\ s.pc # "idle"
        => s.last >= StartBlock \/ (worker[w].pc # "idle" /\ s.last = worker[w].last)

\* The cursor is kept, or overwritten by a pass that got ahead of the one it has read.
Sweeps(w) ==
    \/ sweepCp' = sweepCp
    \/ /\ w \in Sweepers /\ worker[w].pc = "advance"
       /\ worker[w].target > worker[w].last /\ sweepCp' = worker[w].target

Step(w, s) ==
    /\ s \in WorkerState /\ IsFiniteSet(s.fixing)
    /\ worker' = [worker EXCEPT ![w] = s]
    /\ UNCHANGED <<chainVars, tableVars>>
    /\ faults' \in 0 .. MaxFaults
    /\ HoldsCursor(w, s) /\ Sweeps(w)
    /\ Opens(w, s) \/ OpensNothing(w, s)
    /\ Early(w, s) \/ Clamps(w, s) \/ Reads(w, s) \/ Works(w, s)

\* A step that only moves the worker.
LEMMA QuietStep ==
    ASSUME TypeInv, NEW w \in Reconcilers, NEW s \in WorkerState,
           s.fixing = {} \/ s.fixing \subseteq worker[w].fixing,
           worker' = [worker EXCEPT ![w] = s],
           UNCHANGED <<chainVars, tableVars, exceptions>>,
           HoldsCursor(w, s), Sweeps(w),
           UNCHANGED faults \/ (faults < MaxFaults /\ faults' = faults + 1),
           s.adding \subseteq worker[w].adding,
           Early(w, s) \/ Clamps(w, s) \/ Reads(w, s) \/ Works(w, s)
    PROVE  Step(w, s)
<1>1. IsFiniteSet(s.fixing)
  <2>1. IsFiniteSet(worker[w].fixing) /\ s.fixing \in SUBSET worker[w].fixing
    BY DEF TypeInv
  <2>. QED
    BY <2>1, FS_Subset
<1>2. faults' \in 0 .. MaxFaults
  BY Types, Constants DEF TypeInv
<1>3. OpensNothing(w, s)
  BY DEF OpensNothing
<1>. QED
  BY <1>1, <1>2, <1>3 DEF Step

\* Ending a pass forgets the cursor; going on with it keeps it.
LEMMA Cursor ==
    ASSUME NEW w \in Reconcilers, NEW s
    PROVE  /\ s.pc = "idle" => HoldsCursor(w, s)
           /\ (s.pc = worker[w].pc \/ worker[w].pc # "idle") /\ s.last = worker[w].last
                => HoldsCursor(w, s)
           /\ UNCHANGED sweepCp => Sweeps(w)
  BY DEF HoldsCursor, Sweeps

LEMMA ChooseBlockStep ==
    ASSUME TypeInv, NEW w \in Reconcilers,
           ChooseWindowBlock(w) \/ ReadCursor(w) \/ ClampToFinal(w) \/ ClampToIndexed(w)
    PROVE  \E s : Step(w, s)
<1>0. worker[w] \in WorkerState /\ TypeOK
  BY Types DEF TypeInv
<1>1. CASE ChooseWindowBlock(w)
  <2> DEFINE s == [worker[w] EXCEPT !.pc = "head", !.target = WindowBlock]
  <2>1. /\ worker' = [worker EXCEPT ![w] = s] /\ worker[w].pc = "idle"
        /\ UNCHANGED <<chainVars, tableVars, sweepCp, exceptions, faults>>
    BY <1>1 DEF ChooseWindowBlock, At
  <2>2. s \in WorkerState /\ s.fixing = worker[w].fixing /\ s.adding = worker[w].adding
        /\ s.bad = worker[w].bad /\ s.pc = "head"
    BY <1>0, TargetType DEF WorkerState
  <2> HIDE DEF s
  <2>3. Early(w, s)
    BY <2>1, <2>2 DEF Early
  <2>4. w \notin Sweepers
    BY <1>1, Constants DEF ChooseWindowBlock
  <2>5. HoldsCursor(w, s) /\ Sweeps(w)
    BY <2>1, <2>4 DEF HoldsCursor, Sweeps
  <2>. QED
    BY <2>1, <2>2, <2>3, <2>5, QuietStep
<1>4. CASE ReadCursor(w)
  <2> DEFINE target == LastSwept + BatchSize
             s == [worker[w] EXCEPT !.pc = "head", !.last = LastSwept, !.target = target]
  <2>1. /\ worker' = [worker EXCEPT ![w] = s] /\ worker[w].pc = "idle"
        /\ UNCHANGED <<chainVars, tableVars, sweepCp, exceptions, faults>>
    BY <1>0, <1>4 DEF ReadCursor, At
  <2>2. LastSwept \in Nat /\ LastSwept >= StartBlock /\ target \in Nat
    BY <1>0, TargetType, Constants DEF TypeInv
  <2> HIDE DEF target
  <2>3. s \in WorkerState /\ s.fixing = worker[w].fixing /\ s.adding = worker[w].adding
        /\ s.bad = worker[w].bad /\ s.pc = "head" /\ s.last = LastSwept
    BY <1>0, <2>2 DEF WorkerState
  <2> HIDE DEF s
  <2>4. Early(w, s)
    BY <2>1, <2>3 DEF Early
  <2>5. HoldsCursor(w, s) /\ Sweeps(w)
    BY <2>1, <2>2, <2>3 DEF HoldsCursor, Sweeps
  <2>. QED
    BY <2>1, <2>3, <2>4, <2>5, QuietStep
<1>2. CASE ClampToFinal(w)
  <2>1. PICK b \in Requests(w) : worker' = [worker EXCEPT ![w] =
               IF head < ConfirmationDepth THEN Idle
               ELSE [worker[w] EXCEPT !.pc = "lag",
                              !.target = IF b > 0 /\ b < SafeTarget THEN b ELSE SafeTarget]]
    BY <1>0, <1>2, Types DEF ClampToFinal
  <2>2. UNCHANGED <<chainVars, tableVars, sweepCp, exceptions, faults>>
    BY <1>2 DEF ClampToFinal
  <2>3. worker[w].pc \in {"idle", "head", "lag"} /\ b \in Nat
    <3>1. worker[w].target \in Nat
      BY <1>0 DEF WorkerState
    <3>. QED
      BY <1>0, <3>1, TargetType, Constants DEF Requests, At, Blocks
  <2>6. w \in Sweepers => worker[w].pc # "idle"
    BY Constants DEF Requests, At
  <2>4. CASE head < ConfirmationDepth
    <3>1. worker' = [worker EXCEPT ![w] = Idle]
      BY <2>1, <2>4
    <3>2. Early(w, Idle) /\ Idle.fixing = {}
      BY IdleType DEF Early, Idle
    <3>. QED
      BY <2>2, <3>1, <3>2, Cursor, IdleType, QuietStep
  <2>5. CASE ~ (head < ConfirmationDepth)
    <3> DEFINE target == IF b > 0 /\ b < SafeTarget THEN b ELSE SafeTarget
               s == [worker[w] EXCEPT !.pc = "lag", !.target = target]
    <3>1. worker' = [worker EXCEPT ![w] = s]
      BY <2>1, <2>5
    <3>2. target \in Nat /\ target <= head
      BY <1>0, <2>3, TargetType, Types
    <3> HIDE DEF target
    <3>3. s \in WorkerState /\ s.fixing = worker[w].fixing /\ s.adding = worker[w].adding
          /\ s.bad = worker[w].bad /\ s.pc = "lag" /\ s.target = target
          /\ s.last = worker[w].last
      BY <1>0, <3>2 DEF WorkerState
    <3> HIDE DEF s
    <3>4. Early(w, s)
      BY <2>3, <3>2, <3>3 DEF Early
    <3>5. HoldsCursor(w, s) /\ Sweeps(w)
      BY <2>2, <2>6, <3>3 DEF HoldsCursor, Sweeps
    <3>. QED
      BY <2>2, <3>1, <3>3, <3>4, <3>5, QuietStep
  <2>. QED
    BY <2>4, <2>5
<1>3. CASE ClampToIndexed(w)
  <2> DEFINE b == IF worker[w].target > IndexedUpTo THEN IndexedUpTo ELSE worker[w].target
             blind == cp = NoBlock
  <2>1. /\ worker[w].pc = "lag"
        /\ worker' = [worker EXCEPT ![w] =
               IF b < StartBlock THEN Idle
               ELSE [worker[w] EXCEPT !.pc = "addresses", !.target = b, !.blind = blind]]
        /\ UNCHANGED <<chainVars, tableVars, sweepCp, exceptions, faults>>
    BY <1>0, <1>3, Types DEF ClampToIndexed, At
  <2>2. b \in Nat /\ b <= worker[w].target /\ b <= IndexedUpTo
    BY <1>0, TargetType DEF WorkerState
  <2> HIDE DEF b
  <2>3. CASE b < StartBlock
    <3>1. worker' = [worker EXCEPT ![w] = Idle]
      BY <2>1, <2>3
    <3>2. Early(w, Idle) /\ Idle.fixing = {}
      BY IdleType DEF Early, Idle
    <3>. QED
      BY <2>1, <3>1, <3>2, Cursor, IdleType, QuietStep
  <2>4. CASE ~ (b < StartBlock)
    <3> DEFINE s == [worker[w] EXCEPT !.pc = "addresses", !.target = b, !.blind = blind]
    <3>1. worker' = [worker EXCEPT ![w] = s]
      BY <2>1, <2>4
    <3>2. blind \in BOOLEAN
      OBVIOUS
    <3>3. s \in WorkerState /\ s.fixing = worker[w].fixing /\ s.adding = worker[w].adding
          /\ s.bad = worker[w].bad /\ s.pc = "addresses" /\ s.target = b /\ s.blind = blind
          /\ s.last = worker[w].last
      <4> HIDE DEF blind
      <4>. QED
        BY <1>0, <2>2, <3>2 DEF WorkerState
    <3> HIDE DEF s
    <3>4. Clamps(w, s)
      BY <2>1, <2>2, <3>3 DEF Clamps
    <3>. QED
      BY <2>1, <3>1, <3>3, <3>4, Cursor, QuietStep
  <2>. QED
    BY <2>3, <2>4
<1>. QED
  BY <1>1, <1>2, <1>3, <1>4

\* A stage that reads the references R anew, or compares those of the stage before.
LEMMA StageStep ==
    ASSUME TypeInv, NEW w \in Reconcilers, NEW next \in Late, worker[w].pc \in Late,
           NEW todo \in SUBSET Refs, NEW bad \in SUBSET Refs,
           worker' = [worker EXCEPT ![w] =
                         [worker[w] EXCEPT !.pc = next, !.todo = todo, !.bad = bad]],
           UNCHANGED <<chainVars, tableVars, sweepCp, exceptions, faults>>,
           \A r \in bad : r \in worker[w].bad \/ Differs(r, worker[w].target)
    PROVE  \E s : Step(w, s)
<1> DEFINE s == [worker[w] EXCEPT !.pc = next, !.todo = todo, !.bad = bad]
<1>1. worker[w] \in WorkerState
  BY Types DEF TypeInv
<1>2. /\ s \in WorkerState /\ s.fixing = worker[w].fixing /\ s.adding = worker[w].adding
      /\ s.bad = bad /\ s.pc = next /\ s.last = worker[w].last
      /\ s.target = worker[w].target /\ s.blind = worker[w].blind
  BY <1>1 DEF WorkerState, Late
<1>3. worker' = [worker EXCEPT ![w] = s]
  OBVIOUS
<1> HIDE DEF s
<1>4. Reads(w, s)
  BY <1>2 DEF Reads
<1>5. worker[w].pc # "idle"
  BY DEF Late
<1>. QED
  BY <1>2, <1>3, <1>4, <1>5, Cursor, QuietStep

LEMMA ReadStep ==
    ASSUME TypeInv, NEW w \in Reconcilers,
           \/ ReadAddresses(w) \/ ReadBalances(w) \/ ReadContract(w)
           \/ ListEmployers(w) \/ ListEmployees(w)
    PROVE  \E s : Step(w, s)
<1>0. worker[w] \in WorkerState /\ worker \in [Reconcilers -> WorkerState]
  BY Types DEF TypeInv
<1>1. CASE ReadAddresses(w)
  <2> DEFINE todo == TokenRefs(GetRelevantAddresses(worker[w].target))
  <2>1. todo \in SUBSET Refs
    BY RefTypes
  <2>2. worker[w].pc = "addresses"
        /\ UNCHANGED <<chainVars, tableVars, sweepCp, exceptions, faults>>
    BY <1>1 DEF ReadAddresses, At
  <2>3. worker' = [worker EXCEPT ![w] =
                      [worker[w] EXCEPT !.pc = "balances", !.todo = todo, !.bad = worker[w].bad]]
    <3>1. worker' = [worker EXCEPT ![w].pc = "balances", ![w].todo = todo]
      BY <1>1 DEF ReadAddresses
    <3> HIDE DEF todo
    <3>2. worker' = [worker EXCEPT ![w] = [worker[w] EXCEPT !.pc = "balances", !.todo = todo]]
      BY <1>0, <3>1
    <3>3. [worker[w] EXCEPT !.pc = "balances", !.todo = todo]
            = [worker[w] EXCEPT !.pc = "balances", !.todo = todo, !.bad = worker[w].bad]
      BY <1>0 DEF WorkerState
    <3>. QED
      BY <3>2, <3>3
  <2> HIDE DEF todo
  <2>4. worker[w].bad \in SUBSET Refs
    BY <1>0 DEF WorkerState
  <2>. QED
    BY <2>1, <2>2, <2>3, <2>4, StageStep DEF Late
<1>2. CASE ReadBalances(w)
  <2> DEFINE bad == DifferingAt(w, worker[w].todo)
  <2>1. worker[w].todo \in SUBSET Refs
    BY <1>0 DEF WorkerState
  <2>2. bad \in SUBSET Refs /\ \A r \in bad : Differs(r, worker[w].target)
    BY <2>1 DEF DifferingAt
  <2>3. worker[w].pc = "balances"
        /\ UNCHANGED <<chainVars, tableVars, sweepCp, exceptions, faults>>
    BY <1>2 DEF ReadBalances, At
  <2>4. worker' = [worker EXCEPT ![w] =
                  [worker[w] EXCEPT !.pc = "contract", !.todo = worker[w].todo, !.bad = bad]]
    <3>1. worker' = [worker EXCEPT ![w].pc = "contract", ![w].bad = bad]
      BY <1>2 DEF ReadBalances
    <3> HIDE DEF bad
    <3>2. worker' = [worker EXCEPT ![w] = [worker[w] EXCEPT !.pc = "contract", !.bad = bad]]
      BY <1>0, <3>1
    <3>3. [worker[w] EXCEPT !.pc = "contract", !.bad = bad]
            = [worker[w] EXCEPT !.pc = "contract", !.todo = worker[w].todo, !.bad = bad]
      BY <1>0 DEF WorkerState
    <3>. QED
      BY <3>2, <3>3
  <2> HIDE DEF bad
  <2>. QED
    BY <2>1, <2>2, <2>3, <2>4, StageStep DEF Late
<1>3. ASSUME NEW pc \in Late, NEW R \in SUBSET Refs, NEW next \in Late, ReadStage(w, pc, R, next)
      PROVE  \E s : Step(w, s)
  <2> DEFINE bad == DifferingAt(w, R)
  <2>1. bad \in SUBSET Refs /\ \A r \in bad : Differs(r, worker[w].target)
    BY <1>3 DEF DifferingAt
  <2>2. worker[w].pc \in Late
        /\ UNCHANGED <<chainVars, tableVars, sweepCp, exceptions, faults>>
    BY <1>3 DEF ReadStage, At
  <2>3. worker' = [worker EXCEPT ![w].pc = next, ![w].todo = R, ![w].bad = bad]
    BY <1>3 DEF ReadStage
  <2> HIDE DEF bad
  <2>4. worker' = [worker EXCEPT ![w] =
                      [worker[w] EXCEPT !.pc = next, !.todo = R, !.bad = bad]]
    BY <1>0, <2>3
  <2>. QED
    BY <2>1, <2>2, <2>4, StageStep
<1>4. {"contract", "employers", "employees", "advance"} \subseteq Late
  BY DEF Late
<1>5. CASE ReadContract(w)
  BY <1>3, <1>4, <1>5, RefTypes DEF ReadContract
<1>6. CASE ListEmployers(w)
  BY <1>3, <1>4, <1>6, RefTypes DEF ListEmployers
<1>7. CASE ListEmployees(w)
  BY <1>3, <1>4, <1>7, RefTypes DEF ListEmployees
<1>. QED
  BY <1>1, <1>2, <1>5, <1>6, <1>7

LEMMA DealStep ==
    ASSUME TypeInv, NEW w \in Reconcilers, NEW r \in Refs, LookUp(w, r) \/ CreateException(w, r)
    PROVE  \E s : Step(w, s)
<1>0. worker[w] \in WorkerState /\ worker \in [Reconcilers -> WorkerState]
      /\ exceptions \subseteq Exceptions /\ IsFiniteSet(exceptions)
      /\ faults \in 0 .. MaxFaults
  BY Types DEF TypeInv
<1>1. CASE LookUp(w, r)
  <2> DEFINE found == GetOpenException(r)
             bad == r \in worker[w].bad
  <2>1. /\ UNCHANGED <<chainVars, tableVars, sweepCp, exceptions>>
        /\ worker[w].adding = {} /\ worker[w].fixing = {}
    BY <1>1 DEF LookUp
  <2>2. found \in SUBSET exceptions /\ found \in SUBSET Exceptions
    BY <1>0 DEF GetOpenException, OpenOf
  <2>3. IsFiniteSet(found)
    BY <1>0, <2>2, FS_Subset
  <2>4. CASE /\ worker' = [worker EXCEPT ![w].todo = @ \ {r}, ![w].bad = @ \ {r},
                                         ![w].adding = IF bad /\ found = {} THEN {r} ELSE {},
                                         ![w].fixing = IF bad THEN {} ELSE found]
             /\ UNCHANGED faults
    <3> DEFINE adding == IF bad /\ found = {} THEN {r} ELSE {}
               fixing == IF bad THEN {} ELSE found
               s == [worker[w] EXCEPT !.todo = worker[w].todo \ {r},
                                      !.bad = worker[w].bad \ {r},
                                      !.adding = adding, !.fixing = fixing]
    <3>1. adding \in SUBSET Refs /\ adding \subseteq worker[w].bad
          /\ (adding # {} => adding = {r} /\ found = {})
      OBVIOUS
    <3>2. fixing \in SUBSET Exceptions /\ IsFiniteSet(fixing)
      BY <2>2, <2>3, FS_EmptySet
    <3>3. worker' = [worker EXCEPT ![w] = s]
      <4> HIDE DEF adding, fixing
      <4>1. worker' = [worker EXCEPT ![w].todo = @ \ {r}, ![w].bad = @ \ {r},
                                     ![w].adding = adding, ![w].fixing = fixing]
        BY <2>4 DEF adding, fixing
      <4>. QED
        BY <1>0, <4>1 DEF WorkerState
    <3> HIDE DEF adding, fixing
    <3>4. /\ s \in WorkerState /\ s.fixing = fixing /\ s.adding = adding
          /\ s.bad = worker[w].bad \ {r} /\ s.last = worker[w].last
          /\ s.pc = worker[w].pc /\ s.target = worker[w].target /\ s.blind = worker[w].blind
      BY <1>0, <3>1, <3>2 DEF WorkerState
    <3> HIDE DEF s
    <3>5. Works(w, s)
      BY <3>1, <3>4 DEF Works
    <3>6. OpensNothing(w, s)
      BY <2>1, <3>1, <3>4 DEF OpensNothing
    <3>7. HoldsCursor(w, s) /\ Sweeps(w)
      BY <2>1, <3>4, Cursor
    <3>8. faults' \in 0 .. MaxFaults
      BY <1>0, <2>4
    <3>9. IsFiniteSet(s.fixing)
      BY <3>2, <3>4
    <3>. QED
      BY <2>1, <3>3, <3>4, <3>5, <3>6, <3>7, <3>8, <3>9 DEF Step
  <2>5. CASE /\ faults < MaxFaults /\ faults' = faults + 1
             /\ worker' = [worker EXCEPT ![w].todo = @ \ {r}]
    <3> DEFINE s == [worker[w] EXCEPT !.todo = worker[w].todo \ {r}]
    <3>1. worker' = [worker EXCEPT ![w] = s]
      BY <1>0, <2>5
    <3>2. /\ s \in WorkerState /\ s.fixing = worker[w].fixing /\ s.adding = worker[w].adding
          /\ s.bad = worker[w].bad /\ s.last = worker[w].last
          /\ s.pc = worker[w].pc /\ s.target = worker[w].target /\ s.blind = worker[w].blind
      BY <1>0 DEF WorkerState
    <3> HIDE DEF s
    <3>3. Works(w, s)
      BY <3>2 DEF Works
    <3>. QED
      BY <2>1, <2>5, <3>1, <3>2, <3>3, Cursor, QuietStep
  <2>. QED
    BY <1>1, <2>4, <2>5 DEF LookUp
<1>2. CASE CreateException(w, r)
  <2>1. /\ r \in worker[w].adding
        /\ exceptions' = exceptions \cup {[ref |-> r, id |-> NextId(r)]}
        /\ UNCHANGED <<chainVars, tableVars, sweepCp>>
    BY <1>2 DEF CreateException
  <2>2. NextId(r) \in Nat
    BY IdsBounded
  <2>3. ASSUME NEW s \in WorkerState, s.fixing \subseteq worker[w].fixing, s.adding = {},
               worker' = [worker EXCEPT ![w] = s], faults' \in 0 .. MaxFaults,
               Early(w, s) \/ Works(w, s),
               s.pc = "idle" \/ (s.pc = worker[w].pc /\ s.last = worker[w].last)
        PROVE  Step(w, s)
    <3>1. IsFiniteSet(s.fixing)
      <4>1. IsFiniteSet(worker[w].fixing) /\ s.fixing \in SUBSET worker[w].fixing
        BY <2>3 DEF TypeInv
      <4>. QED
        BY <4>1, FS_Subset
    <3>2. Opens(w, s)
      BY <2>1, <2>2, <2>3 DEF Opens
    <3>3. HoldsCursor(w, s) /\ Sweeps(w)
      BY <2>1, <2>3, Cursor
    <3>. QED
      BY <2>1, <2>3, <3>1, <3>2, <3>3 DEF Step
  <2>4. CASE worker' = [worker EXCEPT ![w].adding = {}] /\ UNCHANGED faults
    <3> DEFINE s == [worker[w] EXCEPT !.adding = {}]
    <3>1. worker' = [worker EXCEPT ![w] = s]
      BY <1>0, <2>4
    <3>2. /\ s \in WorkerState /\ s.fixing = worker[w].fixing /\ s.adding = {}
          /\ s.bad = worker[w].bad /\ s.last = worker[w].last
          /\ s.pc = worker[w].pc /\ s.target = worker[w].target /\ s.blind = worker[w].blind
      BY <1>0 DEF WorkerState
    <3> HIDE DEF s
    <3>3. Works(w, s)
      BY <3>2 DEF Works
    <3>. QED
      BY <1>0, <2>3, <2>4, <3>1, <3>2, <3>3
  <2>5. CASE worker' = [worker EXCEPT ![w] = Idle] /\ faults < MaxFaults /\ faults' = faults + 1
    <3>1. faults' \in 0 .. MaxFaults
      BY <1>0, <2>5, Constants
    <3>2. Early(w, Idle) /\ Idle.fixing = {}
      BY IdleType DEF Early, Idle
    <3>. QED
      BY <2>3, <2>5, <3>1, <3>2, IdleType
  <2>. QED
    BY <1>2, <2>4, <2>5 DEF CreateException
<1>. QED
  BY <1>1, <1>2

LEMMA EndStep ==
    ASSUME TypeInv, NEW w \in Reconcilers,
           \/ \E x \in worker[w].fixing : ResolveException(w, x)
           \/ FinishPass(w) \/ PassFails(w)
    PROVE  \E s : Step(w, s)
<1>0. worker[w] \in WorkerState /\ worker \in [Reconcilers -> WorkerState]
      /\ faults \in 0 .. MaxFaults
  BY Types DEF TypeInv
<1>1. Early(w, Idle) /\ Idle.fixing = {}
  BY IdleType DEF Early, Idle
<1>2. ASSUME NEW x \in worker[w].fixing, ResolveException(w, x)
      PROVE  \E s : Step(w, s)
  <2> DEFINE s == [worker[w] EXCEPT !.fixing = {}]
  <2>1. worker' = [worker EXCEPT ![w] = s]
    BY <1>0, <1>2 DEF ResolveException
  <2>2. /\ s \in WorkerState /\ s.fixing = {} /\ s.adding = worker[w].adding
        /\ s.bad = worker[w].bad /\ s.last = worker[w].last
        /\ s.pc = worker[w].pc /\ s.target = worker[w].target /\ s.blind = worker[w].blind
    BY <1>0 DEF WorkerState
  <2> HIDE DEF s
  <2>3. Works(w, s)
    BY <2>2 DEF Works
  <2>4. OpensNothing(w, s)
    BY <1>2, <2>2 DEF OpensNothing, ResolveException
  <2>5. faults' \in 0 .. MaxFaults
    BY <1>0, <1>2, Constants DEF ResolveException
  <2>6. UNCHANGED <<chainVars, tableVars, sweepCp>>
    BY <1>2 DEF ResolveException
  <2>7. HoldsCursor(w, s) /\ Sweeps(w)
    BY <2>2, <2>6, Cursor
  <2>8. IsFiniteSet(s.fixing)
    BY <2>2, FS_EmptySet
  <2>. QED
    BY <2>1, <2>2, <2>3, <2>4, <2>5, <2>6, <2>7, <2>8 DEF Step
<1>3. CASE FinishPass(w)
  <2>1. /\ worker[w].pc = "advance"
        /\ sweepCp' = (IF w \in Sweepers /\ worker[w].target > worker[w].last
                       THEN worker[w].target ELSE sweepCp)
        /\ worker' = [worker EXCEPT ![w] = Idle]
        /\ UNCHANGED <<chainVars, tableVars, exceptions, faults>>
    BY <1>3 DEF FinishPass, At
  <2>2. Sweeps(w)
    BY <2>1 DEF Sweeps
  <2>. QED
    BY <1>1, <2>1, <2>2, Cursor, IdleType, QuietStep
<1>4. CASE PassFails(w)
  BY <1>1, <1>4, Cursor, IdleType, QuietStep DEF PassFails
<1>. QED
  BY <1>2, <1>3, <1>4

LEMMA PassStep ==
    ASSUME TypeInv, NEW w \in Reconcilers, Pass(w) \/ PassFails(w)
    PROVE  \E s : Step(w, s)
  BY ChooseBlockStep, ReadStep, DealStep, EndStep DEF Pass

---------------------------------------------------------------------------
(***************************************************************************)
(* The types are kept.                                                     *)
(***************************************************************************)

World ==
    \/ \E S \in SUBSET Transfers, M, N \in SUBSET Members : Mine(S, M, N)
    \/ \E b \in Blocks : SaveTokenBatch(b) \/ IndexPayroll(b)
    \/ \E t \in Transfers : Drift(t)
    \/ \E m \in Members : Tamper(m)
    \/ ClearCheckpoint

LEMMA InitTypes == Init => TypeInv
<1> SUFFICES ASSUME Init PROVE TypeInv
  OBVIOUS
<1>1. worker \in [Reconcilers -> WorkerState]
      /\ \A w \in Reconcilers : IsFiniteSet(worker[w].fixing)
  BY IdleType DEF Init
<1>2. TypeOK
  BY <1>1, Constants DEF Init, TypeOK
<1>. QED
  BY <1>1, <1>2, FS_EmptySet DEF TypeInv, CursorInv, Init, Idle, Reconcilers

LEMMA WorldTypes ==
    ASSUME TypeInv, World
    PROVE  TypeInv'
<1>0. /\ TypeOK /\ IsFiniteSet(exceptions)
      /\ \A w \in Reconcilers : IsFiniteSet(worker[w].fixing)
      /\ CursorInv
  BY DEF TypeInv
<1>a. UNCHANGED <<sweepCp, worker>> => CursorInv'
  BY <1>0 DEF CursorInv
<1>1. ASSUME NEW S \in SUBSET Transfers, NEW M \in SUBSET Members,
             NEW N \in SUBSET Members, Mine(S, M, N)
      PROVE  TypeInv'
  <2>1. /\ head' = head + 1
        /\ where' = [t \in Transfers |-> IF t \in S THEN head + 1 ELSE where[t]]
        /\ flips' = [m \in Members |-> IF m \in M THEN flips[m] \cup {head + 1} ELSE flips[m]]
        /\ named' = [m \in Members |-> IF m \in N THEN named[m] \cup {head + 1} ELSE named[m]]
        /\ UNCHANGED <<row, cp, indexed, tampered, altered, sweepCp, exceptions, worker, faults>>
    BY <1>1 DEF Mine, tableVars
  <2>2. head + 1 \in Nat
    BY <1>0, Types
  <2>3. where' \in [Transfers -> Nat \cup {NoBlock}] /\ flips' \in [Members -> SUBSET Nat]
        /\ named' \in [Members -> SUBSET Nat]
    BY <1>0, <2>1, <2>2 DEF TypeOK
  <2>5. TypeOK'
    BY <1>0, <2>1, <2>2, <2>3 DEF TypeOK
  <2>. QED
    BY <1>0, <1>a, <2>1, <2>5 DEF TypeInv
<1>2. ASSUME TypeOK', UNCHANGED <<sweepCp, exceptions, worker>> PROVE TypeInv'
  BY <1>0, <1>a, <1>2 DEF TypeInv
<1>3. ASSUME NEW b \in Blocks, SaveTokenBatch(b) PROVE TypeInv'
  <2>1. b \in Nat
    BY Constants DEF Blocks
  <2>2. row' \in [Transfers -> {"absent", "stored", "removed"}]
    BY <1>0, <1>3 DEF SaveTokenBatch, TypeOK
  <2>3. TypeOK'
    BY <1>0, <1>3, <2>1, <2>2 DEF SaveTokenBatch, TypeOK, chainVars
  <2>. QED
    BY <1>2, <1>3, <2>3 DEF SaveTokenBatch, chainVars
<1>4. ASSUME NEW b \in Blocks, IndexPayroll(b) PROVE TypeInv'
  <2>1. b \in Nat
    BY Constants DEF Blocks
  <2>2. TypeOK'
    BY <1>0, <1>4, <2>1 DEF IndexPayroll, TypeOK, chainVars
  <2>. QED
    BY <1>2, <1>4, <2>2 DEF IndexPayroll, chainVars
<1>5. ASSUME NEW t \in Transfers, Drift(t) PROVE TypeInv'
  <2>1. row' \in [Transfers -> {"absent", "stored", "removed"}]
    BY <1>0, <1>5 DEF Drift, TypeOK
  <2>2. TypeOK'
    BY <1>0, <1>5, <2>1, Constants DEF Drift, TypeOK, chainVars
  <2>. QED
    BY <1>2, <1>5, <2>2 DEF Drift, chainVars
<1>6. ASSUME NEW m \in Members, Tamper(m) PROVE TypeInv'
  <2>1. TypeOK'
    BY <1>0, <1>6, Constants DEF Tamper, TypeOK, chainVars
  <2>. QED
    BY <1>2, <1>6, <2>1 DEF Tamper, chainVars
<1>7. ASSUME ClearCheckpoint PROVE TypeInv'
  <2>1. TypeOK'
    BY <1>0, <1>7, Constants DEF ClearCheckpoint, TypeOK, chainVars
  <2>. QED
    BY <1>2, <1>7, <2>1 DEF ClearCheckpoint, chainVars
<1>. QED
  BY <1>1, <1>3, <1>4, <1>5, <1>6, <1>7 DEF World

LEMMA PassTypes ==
    ASSUME TypeInv, NEW w \in Reconcilers, NEW s, Step(w, s)
    PROVE  TypeInv'
<1>0. /\ TypeOK /\ IsFiniteSet(exceptions)
      /\ \A v \in Reconcilers : IsFiniteSet(worker[v].fixing)
      /\ CursorInv /\ worker \in [Reconcilers -> WorkerState] /\ StartBlock \in Nat
  BY Types, Constants DEF TypeInv
<1>1. /\ worker' \in [Reconcilers -> WorkerState]
      /\ \A v \in Reconcilers : IsFiniteSet(worker'[v].fixing)
  BY <1>0, Types DEF Step
<1>2. exceptions' \subseteq Exceptions /\ IsFiniteSet(exceptions')
  <2>1. CASE Opens(w, s)
    <3>1. PICK r \in worker[w].adding, n \in Nat :
              exceptions' = exceptions \cup {[ref |-> r, id |-> n]}
      BY <2>1 DEF Opens
    <3>2. r \in Refs
      BY <1>0, Types DEF WorkerState
    <3>3. [ref |-> r, id |-> n] \in Exceptions
      BY <3>2 DEF Exceptions
    <3>4. IsFiniteSet(exceptions \cup {[ref |-> r, id |-> n]})
      BY <1>0, FS_AddElement
    <3>. QED
      BY <1>0, <3>1, <3>3, <3>4, Types
  <2>2. CASE OpensNothing(w, s)
    <3>1. exceptions' \in SUBSET exceptions
      BY <2>2 DEF OpensNothing
    <3>. QED
      BY <1>0, <3>1, FS_Subset, Types
  <2>. QED
    BY <2>1, <2>2 DEF Step
<1>3. sweepCp' \in Nat \cup {NoBlock}
  BY <1>0, Types DEF Step, Sweeps, WorkerState
<1>5. CursorInv'
  <2>1. worker' = [worker EXCEPT ![w] = s] /\ s \in WorkerState
    BY DEF Step
  <2>2. sweepCp' = NoBlock \/ sweepCp' >= StartBlock
    <3>1. CASE sweepCp' = sweepCp
      BY <1>0, <3>1 DEF CursorInv
    <3>2. CASE /\ w \in Sweepers /\ worker[w].pc = "advance"
               /\ worker[w].target > worker[w].last /\ sweepCp' = worker[w].target
      <4>1. worker[w].last >= StartBlock /\ worker[w].last \in Nat /\ worker[w].target \in Nat
        BY <1>0, <3>2 DEF CursorInv, WorkerState
      <4>. QED
        BY <1>0, <3>2, <4>1
    <3>. QED
      BY <3>1, <3>2 DEF Step, Sweeps
  <2>3. HoldsCursor(w, s)
    BY DEF Step
  <2>. QED
    BY <1>0, <2>1, <2>2, <2>3 DEF CursorInv, HoldsCursor, Reconcilers
<1>4. TypeOK'
  BY <1>0, <1>1, <1>2, <1>3 DEF Step, TypeOK, chainVars, tableVars
<1>. QED
  BY <1>1, <1>2, <1>4, <1>5 DEF TypeInv

LEMMA StutterTypes == ASSUME TypeInv, UNCHANGED vars PROVE TypeInv'
  BY DEF TypeInv, CursorInv, TypeOK, vars, chainVars, tableVars

\* Next, in the terms of the lemmas.
LEMMA Steps ==
    ASSUME TypeInv, [Next]_vars
    PROVE  World \/ (\E w \in Reconcilers : \E s : Step(w, s)) \/ UNCHANGED vars
  BY PassStep DEF Next, World

LEMMA TypesInvariant == Spec => []TypeInv
<1>1. TypeInv /\ [Next]_vars => TypeInv'
  BY Steps, WorldTypes, PassTypes, StutterTypes
<1>. QED
  BY <1>1, InitTypes, PTL DEF Spec

\* Every reachable state of any number of reconcilers beside two indexers is well typed.
THEOREM TypeCorrect == Spec => []TypeOK
<1>1. TypeInv => TypeOK
  BY DEF TypeInv
<1>. QED
  BY <1>1, TypesInvariant, PTL

---------------------------------------------------------------------------
(***************************************************************************)
(* What a pass reports, and what its cursor passes.                        *)
(***************************************************************************)

\* Up to b every row nobody altered is stored.
Covered(b) == \A t \in Transfers : where[t] \in 0 .. b /\ t \notin altered => row[t] = "stored"

WorldInv ==
    /\ \A t \in Transfers : where[t] <= head /\ (where[t] # NoBlock => where[t] >= StartBlock)
    /\ cp <= head /\ sweepCp <= head
    /\ Covered(cp) /\ Covered(sweepCp)

\* The worker state s has a reason to take the reference r for wrong.
Explained(s, r) ==
    \/ r.kind = "state"
    \/ r.who \in Parties(altered \cap OnChain(s.target))
    \/ s.blind /\ r.who \in Parties(OnChain(StartBlock))

\* What a worker knows of the block it audits.
WorkerAudit(s) ==
    /\ s.pc \in {"idle", "head", "lag"} => s.bad = {} /\ s.adding = {}
    /\ s.pc \in {"lag"} \cup Late => s.target <= head
    /\ s.pc \in Late => IF s.blind THEN s.target <= StartBlock ELSE Covered(s.target)
    /\ \A r \in s.bad \cup s.adding : Explained(s, r)

AuditInv == WorldInv /\ \A w \in Reconcilers : WorkerAudit(worker[w])

LEMMA InitAudit == Init => AuditInv
<1> SUFFICES ASSUME Init PROVE AuditInv
  OBVIOUS
<1>1. \A w \in Reconcilers : worker[w] = Idle
  BY DEF Init
<1>2. WorkerAudit(Idle)
  BY DEF WorkerAudit, Idle, Late
<1>3. WorldInv
  BY Constants DEF Init, WorldInv, Covered, NoBlock
<1>. QED
  BY <1>1, <1>2, <1>3 DEF AuditInv

\* Mined blocks are new, and rows change for the better or by an alteration.
LEMMA WorldKeepsWorkers ==
    ASSUME TypeInv, AuditInv, worker' = worker,
           head' \in Nat, head' >= head, altered \subseteq altered',
           \A t \in Transfers : \/ where'[t] = where[t]
                                \/ where[t] = NoBlock /\ where'[t] > head,
           \A t \in Transfers \ altered' : row[t] = "stored" => row'[t] = "stored"
    PROVE  \A w \in Reconcilers : WorkerAudit(worker[w])'
<1> SUFFICES ASSUME NEW w \in Reconcilers PROVE WorkerAudit(worker[w])'
  OBVIOUS
<1> DEFINE s == worker[w]
<1>0. /\ s \in WorkerState /\ worker'[w] = s /\ WorkerAudit(s)
      /\ where \in [Transfers -> Nat \cup {NoBlock}] /\ head \in Nat /\ s.target \in Nat
  BY Types DEF TypeInv, AuditInv, WorkerState
<1>1. s.pc \in {"lag"} \cup Late => s.target <= head'
  BY <1>0 DEF WorkerAudit
<1>2. ASSUME s.pc \in Late, ~ s.blind, NEW t \in Transfers,
             where'[t] \in 0 .. s.target, t \notin altered'
      PROVE  row'[t] = "stored"
  <2>1. Covered(s.target) /\ s.target <= head
    BY <1>0, <1>2 DEF WorkerAudit
  <2>2. where'[t] = where[t]
    BY <1>0, <1>2, <2>1
  <2>. QED
    BY <1>2, <2>1, <2>2 DEF Covered
<1>3. ASSUME NEW b PROVE OnChain(b) \subseteq OnChain(b)'
  <2>1. \A t \in OnChain(b) : where'[t] = where[t]
    BY <1>0 DEF OnChain, NoBlock
  <2>. QED
    BY <2>1 DEF OnChain
<1>4. ASSUME NEW r \in s.bad \cup s.adding PROVE Explained(s, r)'
  <2>1. /\ altered \cap OnChain(s.target) \subseteq altered' \cap OnChain(s.target)'
        /\ OnChain(StartBlock) \subseteq OnChain(StartBlock)'
    BY <1>3
  <2>2. /\ Parties(altered \cap OnChain(s.target)) \subseteq Parties(altered' \cap OnChain(s.target)')
        /\ Parties(OnChain(StartBlock)) \subseteq Parties(OnChain(StartBlock)')
    BY <2>1 DEF Parties
  <2>3. Explained(s, r)
    BY <1>0 DEF WorkerAudit
  <2>. QED
    BY <1>0, <2>2, <2>3 DEF Explained
<1>5. s.pc \in Late => IF s.blind THEN s.target <= StartBlock ELSE Covered(s.target)'
  BY <1>0, <1>2 DEF Covered, WorkerAudit
<1>6. s.pc \in {"idle", "head", "lag"} => s.bad = {} /\ s.adding = {}
  BY <1>0 DEF WorkerAudit
<1>7. s' = s
  BY <1>0
<1>. QED
  BY <1>1, <1>4, <1>5, <1>6, <1>7 DEF WorkerAudit

LEMMA WorldAudit ==
    ASSUME TypeInv, TypeInv', AuditInv, World
    PROVE  AuditInv'
<1>0. /\ WorldInv /\ head \in Nat /\ head' \in Nat
      /\ cp \in Nat \cup {NoBlock} /\ sweepCp \in Nat \cup {NoBlock}
      /\ where \in [Transfers -> Nat \cup {NoBlock}]
      /\ row \in [Transfers -> {"absent", "stored", "removed"}]
  BY DEF AuditInv, TypeInv, TypeOK
<1>1. ASSUME NEW S \in SUBSET Transfers, NEW M \in SUBSET Members,
             NEW N \in SUBSET Members, Mine(S, M, N)
      PROVE  AuditInv'
  <2>1. /\ head' = head + 1
        /\ where' = [t \in Transfers |-> IF t \in S THEN head + 1 ELSE where[t]]
        /\ \A t \in S : where[t] = NoBlock
        /\ S \cup M \cup N # {} => head + 1 \in StartBlock .. MaxHead - ConfirmationDepth
        /\ UNCHANGED <<row, cp, sweepCp, altered, worker>>
    BY <1>1 DEF Mine, tableVars
  <2>2. \A t \in S : head + 1 >= StartBlock
    BY <2>1, Constants
  <2>3. WorldInv'
    <3>1. ASSUME NEW t \in Transfers
          PROVE  where'[t] <= head' /\ (where'[t] # NoBlock => where'[t] >= StartBlock)
      BY <1>0, <2>1, <2>2 DEF WorldInv, NoBlock
    <3>2. cp' <= head' /\ sweepCp' <= head'
      BY <1>0, <2>1 DEF WorldInv, NoBlock
    <3>3. ASSUME NEW b \in Nat \cup {NoBlock}, b <= head, NEW t \in Transfers,
                 where'[t] \in 0 .. b
          PROVE  where'[t] = where[t]
      BY <1>0, <2>1, <3>3 DEF NoBlock
    <3>4. Covered(cp)' /\ Covered(sweepCp)'
      BY <1>0, <2>1, <3>3 DEF Covered, WorldInv
    <3>. QED
      BY <3>1, <3>2, <3>4 DEF WorldInv
  <2>4. /\ \A t \in Transfers : where'[t] = where[t] \/ (where[t] = NoBlock /\ where'[t] > head)
        /\ head' >= head
    BY <1>0, <2>1
  <2>. QED
    BY <1>0, <2>1, <2>3, <2>4, WorldKeepsWorkers DEF AuditInv
<1>2. ASSUME WorldInv', UNCHANGED <<chainVars, worker>>, altered \subseteq altered',
             \A t \in Transfers \ altered' : row[t] = "stored" => row'[t] = "stored"
      PROVE  AuditInv'
  <2>1. UNCHANGED <<head, where>> /\ head' >= head
    BY <1>0, <1>2 DEF chainVars
  <2>. QED
    BY <1>0, <1>2, <2>1, WorldKeepsWorkers DEF AuditInv
<1>3. ASSUME NEW b \in Blocks, SaveTokenBatch(b) PROVE AuditInv'
  <2> DEFINE from == GetEffectiveStartBlock(cp, StartBlock)
  <2>1. /\ b \in from .. SafeTarget
        /\ row' = [t \in Transfers |-> IF where[t] \in from .. b THEN "stored" ELSE row[t]]
        /\ cp' = b
        /\ UNCHANGED <<chainVars, sweepCp, altered, worker>>
    BY <1>3 DEF SaveTokenBatch
  <2>2. from \in Nat /\ from <= (IF cp + 1 < StartBlock THEN StartBlock ELSE cp + 1)
    BY <1>0, Constants DEF GetEffectiveStartBlock, NoBlock
  <2>3. b \in Nat /\ b <= head
    BY <2>1, <2>2, TargetType, <1>0 DEF TypeInv
  <2> HIDE DEF from
  <2>4. \A t \in Transfers : row[t] = "stored" => row'[t] = "stored"
    BY <2>1
  <2>5. Covered(cp)'
    <3> SUFFICES ASSUME NEW t \in Transfers, where'[t] \in 0 .. b, t \notin altered'
                 PROVE  row'[t] = "stored"
      BY <2>1 DEF Covered
    <3>1. where[t] \in 0 .. b /\ t \notin altered /\ where[t] >= StartBlock
      BY <1>0, <2>1 DEF chainVars, WorldInv, NoBlock
    <3>2. CASE where[t] \in from .. b
      BY <2>1, <3>2
    <3>3. CASE where[t] \notin from .. b
      <4>1. where[t] \in 0 .. cp
        BY <1>0, <2>2, <2>3, <3>1, <3>3, Constants DEF NoBlock
      <4>. QED
        BY <1>0, <2>4, <3>1, <4>1 DEF WorldInv, Covered
    <3>. QED
      BY <3>2, <3>3
  <2>6. Covered(sweepCp)'
    BY <1>0, <2>1, <2>4 DEF WorldInv, Covered, chainVars
  <2>7. WorldInv'
    BY <1>0, <2>1, <2>3, <2>5, <2>6 DEF WorldInv, chainVars
  <2>. QED
    BY <1>2, <2>1, <2>4, <2>7
<1>4. ASSUME NEW b \in Blocks, IndexPayroll(b) PROVE AuditInv'
  <2>1. UNCHANGED <<chainVars, row, cp, sweepCp, altered, worker>>
    BY <1>4 DEF IndexPayroll
  <2>2. WorldInv'
    BY <1>0, <2>1 DEF WorldInv, Covered, chainVars
  <2>. QED
    BY <1>2, <2>1, <2>2
<1>5. ASSUME NEW t \in Transfers, Drift(t) PROVE AuditInv'
  <2>1. /\ UNCHANGED <<chainVars, cp, sweepCp, worker>>
        /\ altered' = altered \cup {t} /\ \E v : row' = [row EXCEPT ![t] = v]
    BY <1>5 DEF Drift
  <2>2. \A u \in Transfers \ altered' : row'[u] = row[u]
    BY <1>0, <2>1
  <2>3. WorldInv'
    BY <1>0, <2>1, <2>2 DEF WorldInv, Covered, chainVars
  <2>. QED
    BY <1>2, <2>1, <2>2, <2>3
<1>6. ASSUME NEW m \in Members, Tamper(m) PROVE AuditInv'
  <2>1. UNCHANGED <<chainVars, row, cp, sweepCp, altered, worker>>
    BY <1>6 DEF Tamper
  <2>2. WorldInv'
    BY <1>0, <2>1 DEF WorldInv, Covered, chainVars
  <2>. QED
    BY <1>2, <2>1, <2>2
<1>7. ASSUME ClearCheckpoint PROVE AuditInv'
  <2>1. UNCHANGED <<chainVars, row, sweepCp, altered, worker>> /\ cp' = NoBlock
    BY <1>7 DEF ClearCheckpoint
  <2>2. 0 .. NoBlock = {}
    BY DEF NoBlock
  <2>3. Covered(cp)' /\ Covered(sweepCp)'
    BY <1>0, <2>1, <2>2 DEF Covered, WorldInv, chainVars
  <2>4. WorldInv'
    BY <1>0, <2>1, <2>3 DEF WorldInv, chainVars, NoBlock
  <2>. QED
    BY <1>2, <2>1, <2>4
<1>. QED
  BY <1>1, <1>3, <1>4, <1>5, <1>6, <1>7 DEF World

\* Two balances differ only by rows of the wallet that are not stored.
LEMMA BalanceDiffers ==
    ASSUME NEW r \in Refs, r.kind # "state", NEW b, Differs(r, b)
    PROVE  r.who \in Parties({t \in OnChain(b) : row[t] # "stored"})
<1> DEFINE a == r.who
           All == OnChain(b)
           Stored == {t \in All : row[t] = "stored"}
           Missing == {t \in All : row[t] # "stored"}
<1>1. Net(All, a) # Net(Stored, a)
  BY DEF Differs, ChainBalance, CalculateTokenBalance
<1> SUFFICES ASSUME a \notin Parties(Missing) PROVE FALSE
  OBVIOUS
<1>2. \A t \in All : Receiver[t] = a \/ Sender[t] = a => row[t] = "stored"
  BY DEF Parties
<1>3. {t \in All : Receiver[t] = a} = {t \in Stored : Receiver[t] = a}
  BY <1>2
<1>4. {t \in All : Sender[t] = a} = {t \in Stored : Sender[t] = a}
  BY <1>2
<1>. QED
  BY <1>1, <1>3, <1>4 DEF Net

\* What a pass finds wrong it has a reason for.
LEMMA FoundWrong ==
    ASSUME TypeInv, NEW o \in WorkerState, WorkerAudit(o), o.pc \in Late,
           NEW r \in Refs, Differs(r, o.target)
    PROVE  Explained(o, r)
<1> SUFFICES ASSUME r.kind # "state" PROVE Explained(o, r)
  BY DEF Explained
<1> DEFINE Missing == {t \in OnChain(o.target) : row[t] # "stored"}
<1>1. r.who \in Parties(Missing)
  BY BalanceDiffers
<1>2. o.target \in Nat /\ where \in [Transfers -> Nat \cup {NoBlock}] /\ StartBlock \in Nat
  BY Types, Constants DEF WorkerState, TypeInv
<1>3. CASE o.blind
  <2>1. o.target <= StartBlock
    BY <1>3 DEF WorkerAudit
  <2>2. Missing \subseteq OnChain(StartBlock)
    BY <1>2, <2>1 DEF OnChain
  <2>. QED
    BY <1>1, <1>3, <2>2 DEF Explained, Parties
<1>4. CASE ~ o.blind
  <2>1. Covered(o.target)
    BY <1>4 DEF WorkerAudit
  <2>2. Missing \subseteq altered \cap OnChain(o.target)
    BY <2>1 DEF Covered, OnChain
  <2>. QED
    BY <1>1, <2>2 DEF Explained, Parties
<1>. QED
  BY <1>3, <1>4

LEMMA PassAudit ==
    ASSUME TypeInv, TypeInv', AuditInv, NEW w \in Reconcilers, NEW s, Step(w, s)
    PROVE  AuditInv'
<1> DEFINE o == worker[w]
<1>0. /\ WorldInv /\ WorkerAudit(o) /\ o \in WorkerState /\ s \in WorkerState
      /\ head \in Nat /\ cp \in Nat \cup {NoBlock} /\ StartBlock \in Nat
      /\ UNCHANGED <<head, where, row, cp, altered>>
      /\ worker' = [worker EXCEPT ![w] = s] /\ worker \in [Reconcilers -> WorkerState]
  BY Types, Constants DEF AuditInv, Step, TypeInv, chainVars, tableVars
<1>1. WorldInv'
  <2>1. CASE sweepCp' = sweepCp
    BY <1>0, <2>1 DEF WorldInv, Covered
  <2>2. CASE /\ w \in Sweepers /\ o.pc = "advance"
             /\ o.target > o.last /\ sweepCp' = o.target
    <3>1. o.last >= StartBlock /\ o.target \in Nat /\ o.last \in Nat
      BY <1>0, <2>2 DEF TypeInv, CursorInv, WorkerState
    <3>2. o.pc \in Late
      BY <2>2 DEF Late
    <3>3. Covered(o.target) /\ o.target <= head
      BY <1>0, <2>2, <3>1, <3>2 DEF WorkerAudit
    <3>. QED
      BY <1>0, <2>2, <3>3 DEF WorldInv, Covered
  <2>. QED
    BY <2>1, <2>2 DEF Step, Sweeps
<1>2. ASSUME NEW v \in WorkerState, WorkerAudit(v)
      PROVE  /\ v.pc \in {"idle", "head", "lag"} => v.bad = {} /\ v.adding = {}
             /\ v.pc \in {"lag"} \cup Late => v.target <= head'
             /\ v.pc \in Late =>
                    IF v.blind THEN v.target <= StartBlock
                    ELSE \A t \in Transfers :
                             where'[t] \in 0 .. v.target /\ t \notin altered' => row'[t] = "stored"
             /\ \A r \in v.bad \cup v.adding :
                    \/ r.kind = "state"
                    \/ r.who \in Parties(altered' \cap {t \in Transfers : where'[t] \in 0 .. v.target})
                    \/ v.blind /\ r.who \in Parties({t \in Transfers : where'[t] \in 0 .. StartBlock})
  BY <1>0, <1>2 DEF WorkerAudit, Covered, Explained, OnChain
<1>3. WorkerAudit(s)
  <2>0. o.target \in Nat /\ s.target \in Nat /\ s.bad \subseteq Refs
    BY <1>0 DEF WorkerState
  <2>1. CASE Early(w, s)
    BY <1>0, <2>1 DEF Early, WorkerAudit, Late
  <2>2. CASE Clamps(w, s)
    <3>1. /\ o.pc = "lag" /\ s.pc = "addresses" /\ s.bad = {} /\ s.adding = {}
          /\ s.target <= head /\ s.blind = (cp = NoBlock) /\ s.target <= IndexedUpTo
      BY <1>0, <2>0, <2>2 DEF Clamps, WorkerAudit
    <3>2. ASSUME ~ s.blind PROVE Covered(s.target)
      <4>1. cp # NoBlock /\ s.target <= cp /\ cp \in Nat
        BY <1>0, <3>1, <3>2 DEF IndexedUpTo
      <4>. QED
        BY <1>0, <2>0, <4>1 DEF WorldInv, Covered
    <3>3. s.blind => s.target <= StartBlock
      BY <3>1 DEF IndexedUpTo
    <3>. QED
      BY <3>1, <3>2, <3>3 DEF WorkerAudit
  <2>3. CASE Reads(w, s)
    <3>1. /\ o.pc \in Late /\ s.pc \in Late /\ s.target = o.target /\ s.blind = o.blind
          /\ s.adding = o.adding
      BY <2>3 DEF Reads
    <3>2. /\ o.target <= head
          /\ IF o.blind THEN o.target <= StartBlock ELSE Covered(o.target)
      BY <1>0, <3>1 DEF WorkerAudit
    <3>3. \A r \in o.bad \cup o.adding : Explained(o, r)
      BY <1>0 DEF WorkerAudit
    <3>4. ASSUME NEW r \in s.bad, r \notin o.bad PROVE Explained(o, r)
      BY <1>0, <2>0, <2>3, <3>1, <3>4, FoundWrong DEF Reads
    <3>5. \A r \in s.bad \cup s.adding : Explained(s, r)
      BY <3>1, <3>3, <3>4 DEF Explained
    <3>6. s.pc \notin {"idle", "head", "lag"}
      BY <3>1 DEF Late
    <3>. QED
      BY <3>1, <3>2, <3>5, <3>6 DEF WorkerAudit
  <2>4. CASE Works(w, s)
    <3>1. /\ s.pc = o.pc /\ s.target = o.target /\ s.blind = o.blind
          /\ s.bad \subseteq o.bad /\ s.adding \subseteq o.adding \cup o.bad
      BY <2>4 DEF Works
    <3>2. \A r \in o.bad \cup o.adding : Explained(s, r)
      BY <1>0, <3>1 DEF WorkerAudit, Explained
    <3>3. /\ o.pc \in {"idle", "head", "lag"} => o.bad = {} /\ o.adding = {}
          /\ o.pc \in {"lag"} \cup Late => o.target <= head
          /\ o.pc \in Late => IF o.blind THEN o.target <= StartBlock ELSE Covered(o.target)
      BY <1>0 DEF WorkerAudit
    <3>4. s.pc \in Late => IF s.blind THEN s.target <= StartBlock ELSE Covered(s.target)
      BY <3>1, <3>3
    <3>5. /\ s.pc \in {"idle", "head", "lag"} => s.bad = {} /\ s.adding = {}
          /\ s.pc \in {"lag"} \cup Late => s.target <= head
      BY <3>1, <3>3
    <3> HIDE DEF o
    <3>6. \A r \in s.bad \cup s.adding : Explained(s, r)
      BY <3>1, <3>2
    <3>. QED
      BY <3>4, <3>5, <3>6 DEF WorkerAudit
  <2>. QED
    BY <2>1, <2>2, <2>3, <2>4 DEF Step
<1>4. ASSUME NEW v \in Reconcilers PROVE WorkerAudit(worker[v])'
  <2>1. worker'[v] \in WorkerState /\ WorkerAudit(worker'[v])
    BY <1>0, <1>3 DEF AuditInv
  <2>. QED
    BY <1>2, <2>1 DEF WorkerAudit, Covered, Explained, OnChain
<1>. QED
  BY <1>1, <1>4 DEF AuditInv

LEMMA AuditInvariant == Spec => []AuditInv
<1>1. AuditInv /\ UNCHANGED vars => AuditInv'
  BY DEF AuditInv, WorldInv, WorkerAudit, Covered, Explained, OnChain, Parties, vars
<1>2. TypeInv /\ TypeInv' /\ AuditInv /\ [Next]_vars => AuditInv'
  BY <1>1, Steps, WorldAudit, PassAudit
<1>. QED
  BY <1>2, InitAudit, TypesInvariant, PTL DEF Spec

\* However passes, indexers and cleared checkpoints interleave, a wrong balance is reported
\* because of an altered row of that wallet, or by a pass that found no checkpoint and
\* because of a transfer of the start block.
THEOREM LagIsNoWrongBalance == Spec => []BalanceAlarmsAreReal
<1>1. AuditInv => BalanceAlarmsAreReal
  BY DEF BalanceAlarmsAreReal, AuditInv, WorkerAudit, Explained
<1>. QED
  BY <1>1, AuditInvariant, PTL

\* However many sweeps write the cursor and however often the checkpoint it was bounded by
\* is cleared, it stays behind what the token stream had stored: a pass that found no
\* checkpoint audits the start block at most, and never gets ahead of the cursor it read.
THEOREM SweepStaysBehind == Spec => []SweptIsIndexed
<1>1. AuditInv => SweptIsIndexed
  BY DEF SweptIsIndexed, AuditInv, WorldInv, Covered
<1>. QED
  BY <1>1, AuditInvariant, PTL

---------------------------------------------------------------------------
(***************************************************************************)
(* Passes that race open an exception at most once each.                   *)
(***************************************************************************)

AboutToOpen(r) == {w \in Reconcilers : r \in worker[w].adding}

OpeningInv ==
    \A r \in Refs : Cardinality(OpenOf(r)) + Cardinality(AboutToOpen(r)) <= Cardinality(Reconcilers)

LEMMA OpeningsFinite ==
    ASSUME TypeInv, NEW r
    PROVE  /\ IsFiniteSet(OpenOf(r)) /\ IsFiniteSet(AboutToOpen(r))
           /\ Cardinality(OpenOf(r)) \in Nat /\ Cardinality(AboutToOpen(r)) \in Nat
           /\ Cardinality(AboutToOpen(r)) <= Cardinality(Reconcilers)
           /\ Cardinality(Reconcilers) \in Nat
<1>1. OpenOf(r) \in SUBSET exceptions /\ AboutToOpen(r) \in SUBSET Reconcilers
  BY DEF OpenOf, AboutToOpen
<1>2. IsFiniteSet(exceptions) /\ IsFiniteSet(Reconcilers)
  BY Constants DEF TypeInv
<1>3. IsFiniteSet(OpenOf(r)) /\ IsFiniteSet(AboutToOpen(r))
      /\ Cardinality(AboutToOpen(r)) <= Cardinality(Reconcilers)
  BY <1>1, <1>2, FS_Subset
<1>. QED
  BY <1>2, <1>3, FS_CardinalityType

\* Sets that do not grow keep the count.
LEMMA CountKept ==
    ASSUME TypeInv, TypeInv', OpeningInv, NEW r \in Refs,
           OpenOf(r)' \subseteq OpenOf(r), AboutToOpen(r)' \subseteq AboutToOpen(r)
    PROVE  Cardinality(OpenOf(r)') + Cardinality(AboutToOpen(r)') <= Cardinality(Reconcilers)
<1>1. Cardinality(OpenOf(r)') <= Cardinality(OpenOf(r))
      /\ Cardinality(AboutToOpen(r)') <= Cardinality(AboutToOpen(r))
  BY OpeningsFinite, FS_Subset
<1>2. IsFiniteSet(OpenOf(r)') /\ IsFiniteSet(AboutToOpen(r)')
  BY OpeningsFinite, FS_Subset
<1>3. Cardinality(OpenOf(r)') \in Nat /\ Cardinality(AboutToOpen(r)') \in Nat
  BY <1>2, FS_CardinalityType
<1>4. Cardinality(OpenOf(r)) + Cardinality(AboutToOpen(r)) <= Cardinality(Reconcilers)
  BY DEF OpeningInv
<1>. QED
  BY <1>1, <1>3, <1>4, OpeningsFinite

LEMMA InitOpening == Init => OpeningInv
<1> SUFFICES ASSUME Init, NEW r \in Refs
             PROVE  Cardinality(OpenOf(r)) + Cardinality(AboutToOpen(r)) <= Cardinality(Reconcilers)
  BY DEF OpeningInv
<1>1. OpenOf(r) = {} /\ AboutToOpen(r) = {}
  BY DEF Init, OpenOf, AboutToOpen, Idle
<1>2. Cardinality(Reconcilers) \in Nat
  BY Constants, FS_CardinalityType
<1>. QED
  BY <1>1, <1>2, FS_EmptySet

LEMMA PassOpening ==
    ASSUME TypeInv, TypeInv', AuditInv, OpeningInv, NEW w \in Reconcilers, NEW s, Step(w, s)
    PROVE  OpeningInv'
<1>0. /\ worker' = [worker EXCEPT ![w] = s] /\ worker \in [Reconcilers -> WorkerState]
      /\ Opens(w, s) \/ OpensNothing(w, s)
  BY Types DEF Step, TypeInv
<1>a. worker'[w] = s /\ \A v \in Reconcilers \ {w} : worker'[v] = worker[v]
  BY <1>0
<1> SUFFICES ASSUME NEW r \in Refs
             PROVE  Cardinality(OpenOf(r)') + Cardinality(AboutToOpen(r)')
                        <= Cardinality(Reconcilers)
  BY DEF OpeningInv
<1>1. CASE Opens(w, s)
  <2>1. PICK q \in worker[w].adding, n \in Nat : exceptions' = exceptions \cup {[ref |-> q, id |-> n]}
    BY <1>1 DEF Opens
  <2>2. s.adding = {}
    BY <1>1 DEF Opens
  <2>3. AboutToOpen(r)' = AboutToOpen(r) \ {w}
    BY <1>a, <2>2 DEF AboutToOpen
  <2>4. CASE q # r
    <3>1. OpenOf(r)' \subseteq OpenOf(r)
      BY <2>1, <2>4 DEF OpenOf
    <3>. QED
      BY <2>3, <3>1, CountKept
  <2>5. CASE q = r
    <3>1. OpenOf(r)' = OpenOf(r) \cup {[ref |-> r, id |-> n]}
      BY <2>1, <2>5 DEF OpenOf
    <3>2. w \in AboutToOpen(r)
      BY <2>1, <2>5 DEF AboutToOpen
    <3>3. Cardinality(OpenOf(r)') <= Cardinality(OpenOf(r)) + 1 /\ IsFiniteSet(OpenOf(r)')
      <4> DEFINE x == [ref |-> r, id |-> n]
      <4>1. OpenOf(r)' = OpenOf(r) \cup {x}
        BY <3>1
      <4> HIDE DEF x
      <4>2. /\ IsFiniteSet(OpenOf(r) \cup {x})
            /\ Cardinality(OpenOf(r) \cup {x})
                 = IF x \in OpenOf(r) THEN Cardinality(OpenOf(r)) ELSE Cardinality(OpenOf(r)) + 1
        BY OpeningsFinite, FS_AddElement
      <4>. QED
        BY <4>1, <4>2, OpeningsFinite
    <3>4. Cardinality(AboutToOpen(r)') = Cardinality(AboutToOpen(r)) - 1
      BY <2>3, <3>2, OpeningsFinite, FS_RemoveElement
    <3>6. Cardinality(OpenOf(r)') \in Nat
      BY <3>3, FS_CardinalityType
    <3>7. Cardinality(OpenOf(r)) + Cardinality(AboutToOpen(r)) <= Cardinality(Reconcilers)
      BY DEF OpeningInv
    <3>. QED
      BY <3>3, <3>4, <3>6, <3>7, OpeningsFinite
  <2>. QED
    BY <2>4, <2>5
<1>2. CASE OpensNothing(w, s)
  <2>1. OpenOf(r)' \subseteq OpenOf(r)
    BY <1>2 DEF OpensNothing, OpenOf
  <2>2. CASE r \in s.adding /\ r \notin worker[w].adding
    <3>1. GetOpenException(r) = {} /\ exceptions' = exceptions
      BY <1>2, <2>2 DEF OpensNothing
    <3>2. OpenOf(r) = {} /\ OpenOf(r)' = {}
      <4>1. OpenOf(r) = {}
        BY <3>1, NothingFound
      <4>. QED
        BY <2>1, <4>1
    <3>3. AboutToOpen(r)' \in SUBSET Reconcilers
      BY DEF AboutToOpen
    <3>4. Cardinality(AboutToOpen(r)') <= Cardinality(Reconcilers) /\ IsFiniteSet(AboutToOpen(r)')
      BY <3>3, Constants, FS_Subset
    <3>5. Cardinality(AboutToOpen(r)') \in Nat /\ Cardinality(Reconcilers) \in Nat
      BY <3>4, Constants, FS_CardinalityType
    <3>6. Cardinality(OpenOf(r)') = 0
      BY <3>2, FS_EmptySet
    <3>. QED
      BY <3>4, <3>5, <3>6
  <2>3. CASE ~ (r \in s.adding /\ r \notin worker[w].adding)
    <3>1. AboutToOpen(r)' \subseteq AboutToOpen(r)
      BY <1>a, <2>3 DEF AboutToOpen
    <3>. QED
      BY <2>1, <3>1, CountKept
  <2>. QED
    BY <2>2, <2>3
<1>. QED
  BY <1>0, <1>1, <1>2

\* No more exceptions of one reference are open than reconcilers run: the bound that a
\* lookup and an insert without lock or unique index leave.
THEOREM OpenedOnceEach == Spec => []OpenAtMostOncePerReconciler
<1>1. ASSUME TypeInv, TypeInv', OpeningInv, UNCHANGED <<worker, exceptions>> PROVE OpeningInv'
  BY <1>1 DEF OpeningInv, OpenOf, AboutToOpen
<1>2. World => UNCHANGED <<worker, exceptions>>
  BY DEF World, Mine, SaveTokenBatch, IndexPayroll, Drift, Tamper, ClearCheckpoint
<1>3. TypeInv /\ TypeInv' /\ AuditInv /\ OpeningInv /\ [Next]_vars => OpeningInv'
  BY <1>1, <1>2, Steps, PassOpening DEF vars
<1>4. TypeInv /\ OpeningInv => OpenAtMostOncePerReconciler
  <2> SUFFICES ASSUME TypeInv, OpeningInv, NEW r \in Refs
               PROVE  Cardinality(OpenOf(r)) <= Cardinality(Reconcilers)
    BY DEF OpenAtMostOncePerReconciler
  <2>1. Cardinality(OpenOf(r)) + Cardinality(AboutToOpen(r)) <= Cardinality(Reconcilers)
    BY DEF OpeningInv
  <2>. QED
    BY <2>1, OpeningsFinite
<1>. QED
  BY <1>3, <1>4, InitOpening, TypesInvariant, AuditInvariant, PTL DEF Spec

===========================================================================
