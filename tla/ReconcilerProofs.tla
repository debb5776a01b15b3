-------------------------- MODULE ReconcilerProofs --------------------------
(***************************************************************************)
(* Proofs about Reconciler for every number of logs, reconcilers, blocks,  *)
(* accidents and failed passes.                                            *)
(***************************************************************************)
EXTENDS Reconciler, FiniteSetTheorems, SequenceTheorems, TLAPS

-----------------------------------------------------------------------------
(***************************************************************************)
(* Types.                                                                  *)
(***************************************************************************)

\* The block arithmetic yields blocks.
LEMMA BlocksAreNat ==
    ASSUME TypeOK
    PROVE  /\ SafeTarget \in Nat
           /\ WindowStart(SafeTarget) \in Nat
           /\ WindowStart(SafeTarget) >= StartBlock
           /\ GetEffectiveStartBlock(sweepCp, StartBlock) \in Nat
           /\ GetEffectiveStartBlock(sweepCp, StartBlock) >= StartBlock
           /\ Indexable \subseteq Nat
           /\ \A b \in Indexable : b <= head
<1> USE ReconcilerAssumption
<1>1. head \in Nat /\ sweepCp \in Nat \cup {NoBlock} /\ cp \in Nat \cup {NoBlock}
  BY DEF TypeOK
<1>2. SafeTarget \in Nat
  BY <1>1 DEF SafeTarget, BackfillTarget
<1>3. WindowStart(SafeTarget) \in Nat /\ WindowStart(SafeTarget) >= StartBlock
  BY <1>2 DEF WindowStart
<1>4. /\ GetEffectiveStartBlock(sweepCp, StartBlock) \in Nat
      /\ GetEffectiveStartBlock(sweepCp, StartBlock) >= StartBlock
      /\ GetEffectiveStartBlock(cp, StartBlock) \in Nat
  BY <1>1 DEF GetEffectiveStartBlock, NoBlock
<1>5. /\ CalculateSafeTarget(head, ConfirmationDepth) \in Nat
      /\ CalculateSafeTarget(head, ConfirmationDepth) <= head
  BY <1>1 DEF CalculateSafeTarget
<1>6. Indexable \subseteq Nat /\ \A b \in Indexable : b <= head
  BY <1>1, <1>4, <1>5 DEF Indexable
<1>. QED
  BY <1>2, <1>3, <1>4, <1>6

\* An idle worker has the type of a worker.
LEMMA IdleType == Idle \in WorkerState /\ Idle.from <= Idle.to
  BY DEF Idle, WorkerState, NoBlock

LEMMA InitType == Init => TypeOK
<1> SUFFICES ASSUME Init PROVE TypeOK
  OBVIOUS
<1>1. worker \in [Reconcilers -> WorkerState]
      /\ \A w \in Reconcilers : worker[w].from <= worker[w].to
  BY IdleType DEF Init
<1>2. exceptions \in Seq([ref : Refs, open : BOOLEAN])
  BY DEF Init
<1>. QED
  BY <1>1, <1>2, ReconcilerAssumption DEF Init, TypeOK, NoBlock, Rows, NoRow

\* The steps of the chain, of the indexer and of the accidents keep the types.
LEMMA WorldType ==
    ASSUME TypeOK,
           \/ \E S \in SUBSET Logs : Mine(S)
           \/ \E l \in Logs : StoreEvent(l) \/ Drift(l)
           \/ \E b \in Blocks : SaveIndexerCheckpoint(b)
           \/ ClearCheckpoint
    PROVE  TypeOK'
<1> USE DEF TypeOK
<1>1. ASSUME NEW S \in SUBSET Logs, Mine(S) PROVE TypeOK'
  <2>1. head' \in Nat /\ where' \in [Logs -> Nat \cup {NoBlock}]
    BY <1>1 DEF Mine
  <2>. QED
    BY <1>1, <2>1 DEF Mine
<1>2. ASSUME NEW l \in Logs, StoreEvent(l) PROVE TypeOK'
  <2>1. row' \in [Logs -> Rows]
    BY <1>2 DEF StoreEvent, Rows
  <2>. QED
    BY <1>2, <2>1 DEF StoreEvent
<1>3. ASSUME NEW l \in Logs, Drift(l) PROVE TypeOK'
  <2>1. NoRow \in Rows /\ [blk : Blocks, wrong : SUBSET Fields] \subseteq Rows
    BY DEF NoRow, Rows, Blocks
  <2>2. row' \in [Logs -> Rows]
    BY <1>3, <2>1 DEF Drift
  <2>3. drift' \in 0 .. MaxDrift
    BY <1>3, ReconcilerAssumption DEF Drift
  <2>. QED
    BY <1>3, <2>2, <2>3 DEF Drift
<1>4. ASSUME NEW b \in Blocks, SaveIndexerCheckpoint(b) PROVE TypeOK'
  <2> DEFINE unstored == {l \in Logs : where[l] \in Indexable /\ where[l] <= b /\ row[l] = NoRow}
  <2>1. cp' \in Nat
    BY <1>4, BlocksAreNat DEF SaveIndexerCheckpoint
  <2>2. skipped' \cup altered' \subseteq Logs
    BY <1>4 DEF SaveIndexerCheckpoint
  <2>3. drift' \in 0 .. MaxDrift
    <3>1. unstored \subseteq Logs /\ IsFiniteSet(Logs)
      BY ReconcilerAssumption
    <3>2. Cardinality(unstored) \in Nat
      BY <3>1, FS_Subset, FS_CardinalityType
    <3>. QED
      BY <1>4, <3>2, ReconcilerAssumption DEF SaveIndexerCheckpoint
  <2>. QED
    BY <1>4, <2>1, <2>2, <2>3 DEF SaveIndexerCheckpoint
<1>5. ASSUME ClearCheckpoint PROVE TypeOK'
  <2>1. drift' \in 0 .. MaxDrift
    BY <1>5, ReconcilerAssumption DEF ClearCheckpoint
  <2>. QED
    BY <1>5, <2>1 DEF ClearCheckpoint, NoBlock
<1>. QED
  BY <1>1, <1>2, <1>3, <1>4, <1>5

\* A step that replaces one worker's state by a well-typed one keeps the types.
LEMMA WorkerType ==
    ASSUME TypeOK, NEW w \in Reconcilers, NEW s \in WorkerState, s.from <= s.to,
           worker' = [worker EXCEPT ![w] = s],
           UNCHANGED <<chainVars, tableVars>>,
           sweepCp' \in Nat \cup {NoBlock},
           exceptions' \in Seq([ref : Refs, open : BOOLEAN]),
           faults' \in 0 .. MaxFaults
    PROVE  TypeOK'
<1>1. worker' \in [Reconcilers -> WorkerState]
  BY DEF TypeOK
<1>2. \A v \in Reconcilers : worker'[v].from <= worker'[v].to
  BY DEF TypeOK
<1>. QED
  BY <1>1, <1>2 DEF TypeOK, chainVars, tableVars

\* So does the end of a comparison.
LEMMA DoneType ==
    ASSUME TypeOK, NEW w \in Reconcilers
    PROVE  Done(w) \in WorkerState /\ Done(w).from <= Done(w).to
<1>1. worker[w] \in WorkerState /\ worker[w].from <= worker[w].to
  BY DEF TypeOK
<1>2. [worker[w] EXCEPT !.pc = "advance"] \in WorkerState
      /\ [worker[w] EXCEPT !.pc = "advance"].from <= [worker[w] EXCEPT !.pc = "advance"].to
  BY <1>1 DEF WorkerState
<1>. QED
  BY <1>2, IdleType DEF Done

\* The steps of a pass keep the types.
LEMMA PassType ==
    ASSUME TypeOK, NEW w \in Reconcilers, Pass(w) \/ PassFails(w)
    PROVE  TypeOK'
<1>1. worker[w] \in WorkerState /\ worker[w].from <= worker[w].to /\ faults \in 0 .. MaxFaults
      /\ faults \in Nat /\ sweepCp \in Nat \cup {NoBlock} /\ cp \in Nat \cup {NoBlock}
      /\ exceptions \in Seq([ref : Refs, open : BOOLEAN])
  BY ReconcilerAssumption DEF TypeOK
<1>2. faults < MaxFaults => faults + 1 \in 0 .. MaxFaults
  BY <1>1, ReconcilerAssumption
<1> DEFINE Keeps == UNCHANGED <<chainVars, tableVars, sweepCp, exceptions, faults>>
<1>3. ASSUME ChooseRange(w) PROVE TypeOK'
  <2> DEFINE from == IF w \in Sweepers THEN GetEffectiveStartBlock(sweepCp, StartBlock)
                                       ELSE WindowStart(SafeTarget)
             to == IF w \in Sweepers THEN BatchEnd(from, BatchSize, SafeTarget) ELSE SafeTarget
             s == [Idle EXCEPT !.pc = "range", !.from = from, !.to = to]
  <2>1. from \in Nat /\ SafeTarget \in Nat /\ from <= SafeTarget
    BY <1>3, BlocksAreNat DEF ChooseRange
  <2>2. to \in Nat /\ from <= to
    BY <2>1, ReconcilerAssumption DEF BatchEnd
  <2>3. s \in WorkerState /\ s.from <= s.to
    BY <2>1, <2>2 DEF Idle, WorkerState, NoBlock
  <2>4. worker' = [worker EXCEPT ![w] = s] /\ Keeps
    BY <1>3 DEF ChooseRange
  <2>. QED
    BY <1>1, <2>3, <2>4, WorkerType
<1>4. ASSUME SkipUnfinalized(w) PROVE TypeOK'
  BY <1>1, <1>4, DoneType, WorkerType DEF SkipUnfinalized
<1>5. ASSUME ClampToFinal(w) PROVE TypeOK'
  <2> DEFINE to == IF worker[w].to > SafeTarget THEN SafeTarget ELSE worker[w].to
             s == [worker[w] EXCEPT !.pc = "lag", !.to = to]
  <2>1. SafeTarget \in Nat /\ worker[w].from <= SafeTarget
    BY <1>5, BlocksAreNat DEF ClampToFinal
  <2>2. to \in Nat /\ worker[w].from <= to
    BY <1>1, <2>1 DEF WorkerState
  <2>3. s \in WorkerState /\ s.from <= s.to
    BY <1>1, <2>2 DEF WorkerState
  <2>4. worker' = [worker EXCEPT ![w] = s] /\ Keeps
    BY <1>5 DEF ClampToFinal
  <2>. QED
    BY <1>1, <2>3, <2>4, WorkerType
<1>6. ASSUME ReadIndexerCheckpoint(w) PROVE TypeOK'
  <2> DEFINE s == [worker[w] EXCEPT !.pc = "compare", !.lagAt = cp]
  <2>1. s \in WorkerState /\ s.from <= s.to
    BY <1>1 DEF WorkerState
  <2>2. worker' = [worker EXCEPT ![w] = s] /\ Keeps
    BY <1>6 DEF ReadIndexerCheckpoint
  <2>. QED
    BY <1>1, <2>1, <2>2, WorkerType
<1>7. ASSUME Compare(w) PROVE TypeOK'
  <2> DEFINE found == {r \in Refs : InRange(w, where[r.log]) /\ r.kind \in Mismatches(w, r.log)}
             s == [worker[w] EXCEPT !.pc = "record", !.active = found, !.todo = found]
  <2>1. s \in WorkerState /\ s.from <= s.to
    <3> HIDE DEF found
    <3>1. found \in SUBSET Refs
      BY DEF found
    <3>. QED
      BY <1>1, <3>1 DEF WorkerState
  <2>2. worker' = [worker EXCEPT ![w] = s] /\ Keeps
    BY <1>7 DEF Compare
  <2> HIDE DEF found
  <2>. QED
    BY <1>1, <2>1, <2>2, WorkerType
<1>8. ASSUME NEW r \in Refs, CheckOpen(w, r) PROVE TypeOK'
  <2> DEFINE adding == IF GetOpenException(r) THEN {} ELSE {r}
             s == [worker[w] EXCEPT !.todo = @ \ {r}, !.adding = adding]
  <2>1. s \in WorkerState /\ s.from <= s.to
    <3>1. adding \in SUBSET Refs
      OBVIOUS
    <3> HIDE DEF adding
    <3>. QED
      BY <1>1, <3>1 DEF WorkerState
  <2>2. worker' = [worker EXCEPT ![w] = s] /\ Keeps
    BY <1>8 DEF CheckOpen
  <2> HIDE DEF s
  <2>. QED
    BY <1>1, <2>1, <2>2, WorkerType
<1>9. ASSUME NEW r \in Refs, CreateException(w, r) PROVE TypeOK'
  <2>1. exceptions' \in Seq([ref : Refs, open : BOOLEAN])
    BY <1>1, <1>9 DEF CreateException
  <2>2. [worker[w] EXCEPT !.adding = {}] \in WorkerState
        /\ [worker[w] EXCEPT !.adding = {}].from <= [worker[w] EXCEPT !.adding = {}].to
    BY <1>1 DEF WorkerState
  <2>3. CASE worker' = [worker EXCEPT ![w].adding = {}] /\ UNCHANGED faults
    BY <1>1, <1>9, <2>1, <2>2, <2>3, WorkerType DEF CreateException
  <2>4. CASE worker' = [worker EXCEPT ![w] = Idle] /\ faults < MaxFaults /\ faults' = faults + 1
    BY <1>1, <1>2, <1>9, <2>1, <2>4, IdleType, WorkerType DEF CreateException
  <2>. QED
    BY <1>9, <2>3, <2>4 DEF CreateException
<1>10. ASSUME ListOpen(w) PROVE TypeOK'
  <2> DEFINE stale == {n \in DOMAIN exceptions : Fixed(w, n)}
             s == [worker[w] EXCEPT !.pc = "resolve", !.stale = stale]
  <2>1. s \in WorkerState /\ s.from <= s.to
    <3>1. stale \in SUBSET Nat
      BY <1>1
    <3> HIDE DEF stale
    <3>. QED
      BY <1>1, <3>1 DEF WorkerState
  <2>2. worker' = [worker EXCEPT ![w] = Done(w)] \/ worker' = [worker EXCEPT ![w] = s]
    BY <1>10 DEF ListOpen
  <2>3. Keeps
    BY <1>10 DEF ListOpen
  <2> HIDE DEF s
  <2>. QED
    BY <1>1, <2>1, <2>2, <2>3, DoneType, WorkerType
<1>11. ASSUME ResolveException(w) PROVE TypeOK'
  <2> DEFINE n == CHOOSE i \in worker[w].stale : \A j \in worker[w].stale : i <= j
             rest == worker[w].stale \ {n}
             s == [worker[w] EXCEPT !.stale = rest]
  <2>1. s \in WorkerState /\ s.from <= s.to
    <3>1. rest \in SUBSET Nat
      BY <1>1 DEF WorkerState
    <3> HIDE DEF rest
    <3>. QED
      BY <1>1, <3>1 DEF WorkerState
  <2>2. exceptions' \in Seq([ref : Refs, open : BOOLEAN])
    <3>1. exceptions' = [exceptions EXCEPT ![n].open = FALSE]
      BY <1>11 DEF ResolveException
    <3> HIDE DEF n
    <3> DEFINE S == [ref : Refs, open : BOOLEAN]
               e == [exceptions[n] EXCEPT !.open = FALSE]
    <3>2. exceptions' = [exceptions EXCEPT ![n] = e]
      BY <3>1
    <3>3. CASE n \in 1 .. Len(exceptions)
      <4>1. exceptions[n] \in S
        BY <1>1, <3>3, ElementOfSeq
      <4>2. e \in S
        BY <4>1
      <4> HIDE DEF e, S
      <4>. QED
        BY <1>1, <3>2, <3>3, <4>2, ExceptSeq DEF S
    <3>4. CASE n \notin 1 .. Len(exceptions)
      <4> HIDE DEF e, S
      <4>1. exceptions \in Seq(S)
        BY <1>1 DEF S
      <4>2. exceptions \in [1 .. Len(exceptions) -> S]
        BY <4>1
      <4>3. [exceptions EXCEPT ![n] = e] = exceptions
        BY <3>4, <4>2
      <4>. QED
        BY <3>2, <4>1, <4>3 DEF S
    <3>. QED
      BY <3>3, <3>4
  <2>3. \/ (worker' = [worker EXCEPT ![w] = Done(w)] \/ worker' = [worker EXCEPT ![w] = s])
           /\ UNCHANGED faults
        \/ worker' = [worker EXCEPT ![w] = Idle] /\ faults < MaxFaults /\ faults' = faults + 1
    BY <1>11 DEF ResolveException
  <2>4. UNCHANGED <<chainVars, tableVars, sweepCp>>
    BY <1>11 DEF ResolveException
  <2> HIDE DEF s
  <2>. QED
    BY <1>1, <1>2, <2>1, <2>2, <2>3, <2>4, DoneType, IdleType, WorkerType
<1>12. ASSUME AdvanceSweep(w) PROVE TypeOK'
  <2>1. sweepCp' \in Nat
    BY <1>1, <1>12 DEF AdvanceSweep, WorkerState
  <2>. QED
    BY <1>1, <1>12, <2>1, IdleType, WorkerType DEF AdvanceSweep
<1>13. ASSUME PassFails(w) PROVE TypeOK'
  BY <1>1, <1>2, <1>13, IdleType, WorkerType DEF PassFails
<1>. QED
  BY <1>3, <1>4, <1>5, <1>6, <1>7, <1>8, <1>9, <1>10, <1>11, <1>12, <1>13 DEF Pass

\* The types hold for ever.
THEOREM TypeCorrect == Spec => []TypeOK
<1>1. TypeOK /\ UNCHANGED vars => TypeOK'
  BY DEF TypeOK, vars
<1>2. TypeOK /\ [Next]_vars => TypeOK'
  BY <1>1, WorldType, PassType DEF Next
<1>. QED
  BY <1>2, InitType, PTL DEF Spec

-----------------------------------------------------------------------------
(***************************************************************************)
(* Indexing lag is never reported.                                         *)
(***************************************************************************)

LEMMA InitAudit == Init => AuditInv
<1> SUFFICES ASSUME Init PROVE AuditInv
  OBVIOUS
<1>1. TypeOK
  BY InitType
<1>2. NoFalseAlarm
  BY DEF Init, NoFalseAlarm
<1>3. PassedBy(NoBlock)
  BY ReconcilerAssumption DEF Init, PassedBy, NoBlock
<1>4. \A l \in Logs : Explained(l)
  BY DEF Init, Explained
<1>5. \A w \in Reconcilers : WorkerKnows(w)
  BY <1>3 DEF Init, WorkerKnows, At, Idle
<1>. QED
  BY <1>1, <1>2, <1>3, <1>4, <1>5 DEF Init, AuditInv

\* What the chain, the indexer and the accidents do leaves every worker's knowledge true:
\* the accused stay accused, and no absent row appears below a position already passed.
LEMMA WorldKeepsAudit ==
    ASSUME AuditInv, TypeOK', UNCHANGED <<worker, exceptions>>,
           skipped \cup altered \subseteq skipped' \cup altered',
           \A b \in Nat \cup {NoBlock} : PassedBy(b) => PassedBy(b)',
           PassedBy(cp)',
           \A l \in Logs : Explained(l)'
    PROVE  AuditInv'
<1>1. NoFalseAlarm'
  BY DEF AuditInv, NoFalseAlarm
<1>2. ASSUME NEW w \in Reconcilers PROVE WorkerKnows(w)'
  <2>1. WorkerKnows(w) /\ worker[w] \in WorkerState /\ worker'[w] = worker[w]
    BY DEF AuditInv, TypeOK
  <2>2. worker[w].lagAt \in Nat \cup {NoBlock}
    BY <2>1 DEF WorkerState
  <2>3. PassedBy(worker[w].lagAt)'
    BY <2>1, <2>2 DEF WorkerKnows
  <2>. QED
    BY <2>1, <2>3 DEF WorkerKnows, At
<1>. QED
  BY <1>1, <1>2 DEF AuditInv

LEMMA WorldAudit ==
    ASSUME AuditInv,
           \/ \E S \in SUBSET Logs : Mine(S)
           \/ \E l \in Logs : StoreEvent(l) \/ Drift(l)
           \/ \E b \in Blocks : SaveIndexerCheckpoint(b)
           \/ ClearCheckpoint
    PROVE  AuditInv'
<1>1. TypeOK /\ TypeOK'
  BY WorldType DEF AuditInv
<1>2. head \in Nat /\ where \in [Logs -> Nat \cup {NoBlock}] /\ row \in [Logs -> Rows]
      /\ cp \in Nat \cup {NoBlock}
  BY <1>1 DEF TypeOK
<1>3. PassedBy(cp) /\ \A l \in Logs : Explained(l)
  BY DEF AuditInv
<1>4. ASSUME NEW S \in SUBSET Logs, Mine(S) PROVE AuditInv'
  <2>1. ASSUME NEW b \in Nat \cup {NoBlock}, PassedBy(b) PROVE PassedBy(b)'
    BY <1>2, <1>4, <2>1, ReconcilerAssumption DEF Mine, PassedBy, NoBlock
  <2>2. ASSUME NEW l \in Logs PROVE Explained(l)'
    BY <1>2, <1>3, <1>4 DEF Mine, Explained, Healthy, NoRow
  <2>. QED
    BY <1>1, <1>2, <1>3, <1>4, <2>1, <2>2, WorldKeepsAudit DEF Mine, PassedBy
<1>5. ASSUME NEW k \in Logs, StoreEvent(k) PROVE AuditInv'
  <2>1. row'[k] = [blk |-> where[k], wrong |-> {}] /\ where[k] \in Nat
        /\ \A l \in Logs \ {k} : row'[l] = row[l]
    BY <1>1, <1>2, <1>5, BlocksAreNat DEF StoreEvent
  <2>2. row'[k] # NoRow
    BY <2>1 DEF NoRow, NoBlock
  <2>3. ASSUME NEW b \in Nat \cup {NoBlock}, PassedBy(b) PROVE PassedBy(b)'
    BY <1>5, <2>1, <2>2, <2>3 DEF StoreEvent, PassedBy
  <2>4. ASSUME NEW l \in Logs PROVE Explained(l)'
    BY <1>3, <1>5, <2>1 DEF StoreEvent, Explained, Healthy
  <2>. QED
    BY <1>1, <1>2, <1>3, <1>5, <2>3, <2>4, WorldKeepsAudit DEF StoreEvent
<1>6. ASSUME NEW k \in Logs, Drift(k) PROVE AuditInv'
  <2>1. k \in altered' /\ \A l \in Logs \ {k} : row'[l] = row[l]
    BY <1>2, <1>6 DEF Drift
  <2>2. ASSUME NEW b \in Nat \cup {NoBlock}, PassedBy(b) PROVE PassedBy(b)'
    BY <1>6, <2>1, <2>2 DEF Drift, PassedBy
  <2>3. ASSUME NEW l \in Logs PROVE Explained(l)'
    BY <1>3, <1>6, <2>1 DEF Drift, Explained, Healthy
  <2>. QED
    BY <1>1, <1>2, <1>3, <1>6, <2>2, <2>3, WorldKeepsAudit DEF Drift
<1>7. ASSUME NEW b \in Blocks, SaveIndexerCheckpoint(b) PROVE AuditInv'
  <2>1. ASSUME NEW c \in Nat \cup {NoBlock}, PassedBy(c) PROVE PassedBy(c)'
    BY <1>7, <2>1 DEF SaveIndexerCheckpoint, PassedBy
  <2>2. b \in Indexable /\ b \in Nat /\ b <= head /\ cp' = b
    BY <1>1, <1>7, BlocksAreNat DEF SaveIndexerCheckpoint
  <2>3. ASSUME NEW l \in Logs, where[l] \in StartBlock .. b, row[l] = NoRow
        PROVE  l \in skipped' \cup altered'
    <3>1. CASE where[l] \in Indexable
      BY <1>2, <1>7, <2>2, <2>3, <3>1, ReconcilerAssumption DEF SaveIndexerCheckpoint
    <3>2. CASE where[l] \notin Indexable
      <4>1. where[l] \in StartBlock .. cp
        BY <1>2, <2>2, <2>3, <3>2, ReconcilerAssumption
           DEF Indexable, GetEffectiveStartBlock, CalculateSafeTarget, NoBlock
      <4>. QED
        BY <1>3, <1>7, <2>3, <4>1 DEF PassedBy, SaveIndexerCheckpoint
    <3>. QED
      BY <3>1, <3>2
  <2>4. PassedBy(cp)'
    BY <1>7, <2>2, <2>3 DEF PassedBy, SaveIndexerCheckpoint
  <2>5. ASSUME NEW l \in Logs PROVE Explained(l)'
    BY <1>3, <1>7 DEF SaveIndexerCheckpoint, Explained, Healthy
  <2>. QED
    BY <1>1, <1>7, <2>1, <2>4, <2>5, WorldKeepsAudit DEF SaveIndexerCheckpoint
<1>8. ASSUME ClearCheckpoint PROVE AuditInv'
  <2>1. ASSUME NEW b \in Nat \cup {NoBlock}, PassedBy(b) PROVE PassedBy(b)'
    BY <1>8, <2>1 DEF ClearCheckpoint, PassedBy
  <2>2. PassedBy(NoBlock)
    BY <1>2, ReconcilerAssumption DEF PassedBy, NoBlock
  <2>3. \A l \in Logs : Explained(l)'
    BY <1>3, <1>8 DEF ClearCheckpoint, Explained, Healthy
  <2>4. PassedBy(cp)'
    BY <1>8, <2>1, <2>2 DEF ClearCheckpoint, PassedBy
  <2>. QED
    BY <1>1, <1>8, <2>1, <2>3, <2>4, WorldKeepsAudit DEF ClearCheckpoint
<1>. QED
  BY <1>4, <1>5, <1>6, <1>7, <1>8

\* A pass that knows enough accuses only logs that went wrong.
LEMMA ComparisonIsFair ==
    ASSUME AuditInv, NEW w \in Reconcilers, ~ At(w, "idle"),
           NEW l \in Logs, InRange(w, where[l]), Mismatches(w, l) # {}
    PROVE  l \in skipped \cup altered
<1>1. WorkerKnows(w) /\ Explained(l) /\ worker[w] \in WorkerState
      /\ where[l] \in Nat \cup {NoBlock}
  BY DEF AuditInv, TypeOK
<1>2. where[l] >= StartBlock /\ where[l] \in Nat
  BY <1>1, ReconcilerAssumption DEF WorkerKnows, InRange, WorkerState, NoBlock
<1>3. CASE row[l] = NoRow
  <2>1. ~ InRange(w, row[l].blk)
    BY <1>1, <1>3 DEF InRange, WorkerState, NoRow, NoBlock
  <2>2. ~ Lagging(w, l)
    BY <2>1 DEF Mismatches
  <2>3. where[l] \in StartBlock .. worker[w].lagAt
    BY <1>1, <1>2, <2>2, ReconcilerAssumption DEF Lagging, WorkerState, NoBlock
  <2>. QED
    BY <1>1, <1>3, <2>3 DEF WorkerKnows, PassedBy
<1>4. CASE Healthy(l)
  BY <1>4 DEF Healthy, Mismatches
<1>. QED
  BY <1>1, <1>3, <1>4 DEF Explained

\* A step of one worker keeps the invariant if what it then holds is well founded.
LEMMA PassKeepsAudit ==
    ASSUME AuditInv, TypeOK', NEW w \in Reconcilers, NEW s,
           worker' = [worker EXCEPT ![w] = s],
           UNCHANGED <<chainVars, tableVars>>,
           NoFalseAlarm', WorkerKnows(w)'
    PROVE  AuditInv'
<1>1. ASSUME NEW v \in Reconcilers \ {w} PROVE WorkerKnows(v)'
  <2>1. worker'[v] = worker[v] /\ WorkerKnows(v)
    BY DEF AuditInv, TypeOK
  <2>. QED
    BY <2>1 DEF WorkerKnows, PassedBy, At, chainVars, tableVars
<1>2. PassedBy(cp)' /\ \A l \in Logs : Explained(l)'
  BY DEF AuditInv, PassedBy, Explained, Healthy, chainVars, tableVars
<1>. QED
  BY <1>1, <1>2 DEF AuditInv

LEMMA PassAudit ==
    ASSUME AuditInv, NEW w \in Reconcilers, Pass(w) \/ PassFails(w)
    PROVE  AuditInv'
<1>1. TypeOK /\ TypeOK'
  BY PassType DEF AuditInv
<1>2. WorkerKnows(w) /\ NoFalseAlarm /\ worker[w] \in WorkerState /\ PassedBy(NoBlock)
      /\ worker \in [Reconcilers -> WorkerState]
  BY <1>1, ReconcilerAssumption DEF AuditInv, TypeOK, PassedBy, NoBlock
<1> DEFINE World == UNCHANGED <<chainVars, tableVars>>
           Accused(R) == \A r \in R : r.log \in skipped \cup altered
           Knows(s) == /\ PassedBy(s.lagAt)
                       /\ s.pc # "idle" => s.from >= StartBlock
                       /\ Accused(s.active) /\ Accused(s.todo) /\ Accused(s.adding)
<1>3. Knows(worker[w])
  BY <1>2 DEF WorkerKnows, At
<1>4. Knows(Idle)
  BY <1>2 DEF Idle
<1>5. Knows(Done(w)) \/ At(w, "idle")
  <2>1. CASE ~ At(w, "idle")
    <3>1. Knows([worker[w] EXCEPT !.pc = "advance"])
      BY <1>2, <1>3, <2>1 DEF WorkerState, At
    <3>. QED
      BY <1>4, <3>1 DEF Done
  <2>. QED
    BY <2>1
<1>6. ASSUME NEW s, worker' = [worker EXCEPT ![w] = s], World, Knows(s), NoFalseAlarm'
      PROVE  AuditInv'
  <2>1. worker'[w] = s
    BY <1>2, <1>6
  <2>2. WorkerKnows(w)'
    BY <1>6, <2>1 DEF WorkerKnows, PassedBy, At, chainVars, tableVars
  <2>. QED
    BY <1>1, <1>6, <2>2, PassKeepsAudit
<1>7. ASSUME World, UNCHANGED exceptions PROVE NoFalseAlarm'
  BY <1>2, <1>7 DEF NoFalseAlarm, tableVars
<1> HIDE DEF Knows, Accused
<1>8. ASSUME ChooseRange(w) PROVE AuditInv'
  <2> DEFINE from == IF w \in Sweepers THEN GetEffectiveStartBlock(sweepCp, StartBlock)
                                       ELSE WindowStart(SafeTarget)
             to == IF w \in Sweepers THEN BatchEnd(from, BatchSize, SafeTarget) ELSE SafeTarget
             s == [Idle EXCEPT !.pc = "range", !.from = from, !.to = to]
  <2>1. from >= StartBlock
    BY <1>1, BlocksAreNat
  <2> HIDE DEF from, to
  <2>2. Knows(s)
    BY <1>4, <2>1 DEF Knows, Idle
  <2>3. worker' = [worker EXCEPT ![w] = s] /\ World /\ UNCHANGED exceptions
    BY <1>8 DEF ChooseRange, from, to
  <2>. QED
    BY <1>6, <1>7, <2>2, <2>3
<1>9. ASSUME SkipUnfinalized(w) PROVE AuditInv'
  BY <1>5, <1>6, <1>7, <1>9 DEF SkipUnfinalized, At
<1>10. ASSUME ClampToFinal(w) PROVE AuditInv'
  <2> DEFINE to == IF worker[w].to > SafeTarget THEN SafeTarget ELSE worker[w].to
             s == [worker[w] EXCEPT !.pc = "lag", !.to = to]
  <2> HIDE DEF to
  <2>1. Knows(s)
    BY <1>2, <1>3, <1>10 DEF Knows, WorkerState, ClampToFinal, At
  <2>2. worker' = [worker EXCEPT ![w] = s] /\ World /\ UNCHANGED exceptions
    BY <1>10 DEF ClampToFinal, to
  <2>. QED
    BY <1>6, <1>7, <2>1, <2>2
<1>11. ASSUME ReadIndexerCheckpoint(w) PROVE AuditInv'
  <2> DEFINE s == [worker[w] EXCEPT !.pc = "compare", !.lagAt = cp]
  <2>1. PassedBy(cp)
    BY DEF AuditInv
  <2>2. Knows(s)
    BY <1>2, <1>3, <1>11, <2>1 DEF Knows, WorkerState, ReadIndexerCheckpoint, At
  <2>3. worker' = [worker EXCEPT ![w] = s] /\ World /\ UNCHANGED exceptions
    BY <1>11 DEF ReadIndexerCheckpoint
  <2>. QED
    BY <1>6, <1>7, <2>2, <2>3
<1>12. ASSUME Compare(w) PROVE AuditInv'
  <2> DEFINE found == {r \in Refs : InRange(w, where[r.log]) /\ r.kind \in Mismatches(w, r.log)}
             s == [worker[w] EXCEPT !.pc = "record", !.active = found, !.todo = found]
  <2>1. Accused(found)
    BY <1>12, ComparisonIsFair DEF Accused, Compare, At, Refs
  <2>2. worker' = [worker EXCEPT ![w] = s] /\ World /\ UNCHANGED exceptions
    BY <1>12 DEF Compare
  <2>3. ~ At(w, "idle")
    BY <1>12 DEF Compare, At
  <2> HIDE DEF found
  <2>4. Knows(s)
    BY <1>2, <1>3, <2>1, <2>3 DEF Knows, WorkerState, At
  <2>. QED
    BY <1>6, <1>7, <2>2, <2>4
<1>13. ASSUME NEW r \in Refs, CheckOpen(w, r) PROVE AuditInv'
  <2> DEFINE adding == IF GetOpenException(r) THEN {} ELSE {r}
             s == [worker[w] EXCEPT !.todo = @ \ {r}, !.adding = adding]
  <2>1. Accused(adding) /\ Accused(worker[w].todo \ {r})
    BY <1>3, <1>13 DEF Knows, Accused, CheckOpen
  <2>2. worker' = [worker EXCEPT ![w] = s] /\ World /\ UNCHANGED exceptions
    BY <1>13 DEF CheckOpen
  <2> HIDE DEF adding
  <2>3. Knows(s)
    BY <1>2, <1>3, <2>1 DEF Knows, WorkerState
  <2>. QED
    BY <1>6, <1>7, <2>2, <2>3
<1>14. ASSUME NEW r \in Refs, CreateException(w, r) PROVE AuditInv'
  <2>1. r.log \in skipped \cup altered
    BY <1>3, <1>14 DEF Knows, Accused, CreateException
  <2>2. World /\ exceptions' = Append(exceptions, [ref |-> r, open |-> TRUE])
    BY <1>14 DEF CreateException
  <2>3. NoFalseAlarm'
    <3>1. exceptions \in Seq([ref : Refs, open : BOOLEAN])
      BY <1>1 DEF TypeOK
    <3>. QED
      BY <1>2, <2>1, <2>2, <3>1 DEF NoFalseAlarm, tableVars
  <2>4. Knows([worker[w] EXCEPT !.adding = {}])
    BY <1>2, <1>3 DEF Knows, Accused, WorkerState
  <2>5. worker' = [worker EXCEPT ![w] = [worker[w] EXCEPT !.adding = {}]]
        \/ worker' = [worker EXCEPT ![w] = Idle]
    BY <1>14 DEF CreateException
  <2>. QED
    BY <1>4, <1>6, <2>2, <2>3, <2>4, <2>5
<1>15. ASSUME ListOpen(w) PROVE AuditInv'
  <2> DEFINE stale == {n \in DOMAIN exceptions : Fixed(w, n)}
             s == [worker[w] EXCEPT !.pc = "resolve", !.stale = stale]
  <2>1. World /\ UNCHANGED exceptions
        /\ (worker' = [worker EXCEPT ![w] = Done(w)] \/ worker' = [worker EXCEPT ![w] = s])
    BY <1>15 DEF ListOpen
  <2>2. ~ At(w, "idle")
    BY <1>15 DEF ListOpen, At
  <2> HIDE DEF stale
  <2>3. Knows(s)
    BY <1>2, <1>3, <2>2 DEF Knows, WorkerState, At
  <2>. QED
    BY <1>5, <1>6, <1>7, <2>1, <2>2, <2>3
<1>16. ASSUME ResolveException(w) PROVE AuditInv'
  <2> DEFINE n == CHOOSE i \in worker[w].stale : \A j \in worker[w].stale : i <= j
             rest == worker[w].stale \ {n}
             s == [worker[w] EXCEPT !.stale = rest]
  <2>1. World /\ exceptions' = [exceptions EXCEPT ![n].open = FALSE]
        /\ (\/ worker' = [worker EXCEPT ![w] = Done(w)]
            \/ worker' = [worker EXCEPT ![w] = s]
            \/ worker' = [worker EXCEPT ![w] = Idle])
    BY <1>16 DEF ResolveException
  <2>2. ~ At(w, "idle")
    BY <1>16 DEF ResolveException, At
  <2> HIDE DEF n, rest
  <2>3. NoFalseAlarm'
    <3>1. exceptions \in Seq([ref : Refs, open : BOOLEAN])
      BY <1>1 DEF TypeOK
    <3>2. \A i \in 1 .. Len(exceptions) : exceptions[i] \in [ref : Refs, open : BOOLEAN]
      BY <3>1, ElementOfSeq
    <3>3. DOMAIN exceptions' = 1 .. Len(exceptions) /\ DOMAIN exceptions = 1 .. Len(exceptions)
      BY <2>1, <3>1
    <3>4. \A i \in 1 .. Len(exceptions) : exceptions'[i].ref = exceptions[i].ref
      BY <2>1, <3>2, <3>3
    <3>. QED
      BY <1>2, <2>1, <3>3, <3>4 DEF NoFalseAlarm, tableVars
  <2>4. Knows(s)
    BY <1>2, <1>3 DEF Knows, WorkerState
  <2>. QED
    BY <1>4, <1>5, <1>6, <2>1, <2>2, <2>3, <2>4
<1>17. ASSUME AdvanceSweep(w) PROVE AuditInv'
  BY <1>4, <1>6, <1>7, <1>17 DEF AdvanceSweep
<1>18. ASSUME PassFails(w) PROVE AuditInv'
  BY <1>4, <1>6, <1>7, <1>18 DEF PassFails
<1>. QED
  BY <1>8, <1>9, <1>10, <1>11, <1>12, <1>13, <1>14, <1>15, <1>16, <1>17, <1>18 DEF Pass

\* However a pass interleaves with the indexer and with other passes, an exception is about
\* a log that was skipped or whose row was lost or altered (ReconcileRange, Case A).
THEOREM LagIsNeverReported == Spec => []NoFalseAlarm
<1>1. AuditInv /\ UNCHANGED vars => AuditInv'
  BY DEF AuditInv, TypeOK, NoFalseAlarm, PassedBy, Explained, Healthy, WorkerKnows, At, vars
<1>2. AuditInv /\ [Next]_vars => AuditInv'
  BY <1>1, WorldAudit, PassAudit DEF Next
<1>3. AuditInv => NoFalseAlarm
  BY DEF AuditInv
<1>. QED
  BY <1>2, <1>3, InitAudit, PTL DEF Spec

-----------------------------------------------------------------------------
(***************************************************************************)
(* Reconcilers that race open an exception at most once each.              *)
(***************************************************************************)

\* Both sets are finite.
LEMMA OpeningsFinite ==
    ASSUME TypeOK, NEW r
    PROVE  /\ IsFiniteSet(OpenOf(r)) /\ IsFiniteSet(AboutToOpen(r))
           /\ Cardinality(OpenOf(r)) \in Nat /\ Cardinality(AboutToOpen(r)) \in Nat
           /\ Cardinality(AboutToOpen(r)) <= Cardinality(Reconcilers)
           /\ Cardinality(Reconcilers) \in Nat
<1>1. Len(exceptions) \in Nat /\ DOMAIN exceptions = 1 .. Len(exceptions)
  BY DEF TypeOK
<1>2. IsFiniteSet(1 .. Len(exceptions))
  BY <1>1, FS_Interval
<1>3. OpenOf(r) \subseteq 1 .. Len(exceptions) /\ AboutToOpen(r) \subseteq Reconcilers
  BY <1>1 DEF OpenOf, AboutToOpen
<1>4. IsFiniteSet(Reconcilers)
  BY ReconcilerAssumption
<1>. QED
  BY <1>2, <1>3, <1>4, FS_Subset, FS_CardinalityType

\* A step that opens nothing and lets nobody get ready to keeps the count.
LEMMA NothingOpened ==
    ASSUME TypeOK, OpeningInv,
           \A r \in Refs : OpenOf(r)' \subseteq OpenOf(r)
                           /\ AboutToOpen(r)' \subseteq AboutToOpen(r)
    PROVE  OpeningInv'
<1>1. ASSUME NEW r \in Refs
      PROVE  (Cardinality(OpenOf(r)) + Cardinality(AboutToOpen(r)) <= Cardinality(Reconcilers))'
  <2>1. /\ IsFiniteSet(OpenOf(r)') /\ Cardinality(OpenOf(r)') <= Cardinality(OpenOf(r))
        /\ IsFiniteSet(AboutToOpen(r)')
        /\ Cardinality(AboutToOpen(r)') <= Cardinality(AboutToOpen(r))
    BY OpeningsFinite, FS_Subset
  <2>2. Cardinality(OpenOf(r)') \in Nat /\ Cardinality(AboutToOpen(r)') \in Nat
    BY <2>1, FS_CardinalityType
  <2>3. Cardinality(OpenOf(r)) + Cardinality(AboutToOpen(r)) <= Cardinality(Reconcilers)
    BY DEF OpeningInv
  <2>. QED
    BY <2>1, <2>2, <2>3, OpeningsFinite
<1>. QED
  BY <1>1 DEF OpeningInv

LEMMA InitOpening == Init => OpeningInv
<1> SUFFICES ASSUME Init, NEW r \in Refs
             PROVE  Cardinality(OpenOf(r)) + Cardinality(AboutToOpen(r)) <= Cardinality(Reconcilers)
  BY DEF OpeningInv
<1>1. OpenOf(r) = {} /\ AboutToOpen(r) = {}
  BY DEF Init, OpenOf, AboutToOpen, Idle
<1>2. Cardinality(Reconcilers) \in Nat
  BY ReconcilerAssumption, FS_CardinalityType
<1>. QED
  BY <1>1, <1>2, FS_EmptySet

\* A worker's step that adds no exception and no intention.
LEMMA QuietStep ==
    ASSUME TypeOK, OpeningInv, NEW w \in Reconcilers, NEW s,
           worker' = [worker EXCEPT ![w] = s], s.adding \subseteq worker[w].adding,
           \A r \in Refs : OpenOf(r)' \subseteq OpenOf(r)
    PROVE  OpeningInv'
<1>1. ASSUME NEW r \in Refs PROVE AboutToOpen(r)' \subseteq AboutToOpen(r)
  BY DEF AboutToOpen, TypeOK
<1>. QED
  BY <1>1, NothingOpened

LEMMA PassOpening ==
    ASSUME TypeOK, TypeOK', OpeningInv, NEW w \in Reconcilers, Pass(w) \/ PassFails(w)
    PROVE  OpeningInv'
<1>1. /\ worker[w] \in WorkerState /\ worker \in [Reconcilers -> WorkerState]
      /\ exceptions \in Seq([ref : Refs, open : BOOLEAN])
  BY DEF TypeOK
<1>2. Idle.adding \subseteq worker[w].adding /\ Done(w).adding \subseteq worker[w].adding
  BY <1>1 DEF Idle, Done, WorkerState
<1>3. UNCHANGED exceptions => \A r \in Refs : OpenOf(r)' \subseteq OpenOf(r)
  BY DEF OpenOf
<1>4. ASSUME ChooseRange(w) PROVE OpeningInv'
  <2> DEFINE from == IF w \in Sweepers THEN GetEffectiveStartBlock(sweepCp, StartBlock)
                                       ELSE WindowStart(SafeTarget)
             to == IF w \in Sweepers THEN BatchEnd(from, BatchSize, SafeTarget) ELSE SafeTarget
             s == [Idle EXCEPT !.pc = "range", !.from = from, !.to = to]
  <2>1. worker' = [worker EXCEPT ![w] = s] /\ UNCHANGED exceptions
    BY <1>4 DEF ChooseRange
  <2>2. s.adding \subseteq worker[w].adding
    BY DEF Idle
  <2>. QED
    BY <1>3, <2>1, <2>2, QuietStep
<1>5. ASSUME SkipUnfinalized(w) PROVE OpeningInv'
  BY <1>2, <1>3, <1>5, QuietStep DEF SkipUnfinalized
<1>6. ASSUME ClampToFinal(w) PROVE OpeningInv'
  <2> DEFINE to == IF worker[w].to > SafeTarget THEN SafeTarget ELSE worker[w].to
             s == [worker[w] EXCEPT !.pc = "lag", !.to = to]
  <2>1. worker' = [worker EXCEPT ![w] = s] /\ UNCHANGED exceptions
    BY <1>6 DEF ClampToFinal
  <2>2. s.adding \subseteq worker[w].adding
    BY <1>1 DEF WorkerState
  <2>. QED
    BY <1>3, <2>1, <2>2, QuietStep
<1>7. ASSUME ReadIndexerCheckpoint(w) PROVE OpeningInv'
  <2> DEFINE s == [worker[w] EXCEPT !.pc = "compare", !.lagAt = cp]
  <2>1. worker' = [worker EXCEPT ![w] = s] /\ UNCHANGED exceptions
    BY <1>7 DEF ReadIndexerCheckpoint
  <2>2. s.adding \subseteq worker[w].adding
    BY <1>1 DEF WorkerState
  <2>. QED
    BY <1>3, <2>1, <2>2, QuietStep
<1>8. ASSUME Compare(w) PROVE OpeningInv'
  <2> DEFINE found == {r \in Refs : InRange(w, where[r.log]) /\ r.kind \in Mismatches(w, r.log)}
             s == [worker[w] EXCEPT !.pc = "record", !.active = found, !.todo = found]
  <2>1. worker' = [worker EXCEPT ![w] = s] /\ UNCHANGED exceptions
    BY <1>8 DEF Compare
  <2> HIDE DEF found
  <2>2. s.adding \subseteq worker[w].adding
    BY <1>1 DEF WorkerState
  <2>. QED
    BY <1>3, <2>1, <2>2, QuietStep
<1>9. ASSUME NEW r \in Refs, CheckOpen(w, r) PROVE OpeningInv'
  <2> DEFINE adding == IF GetOpenException(r) THEN {} ELSE {r}
             s == [worker[w] EXCEPT !.todo = @ \ {r}, !.adding = adding]
  <2>1. worker' = [worker EXCEPT ![w] = s] /\ UNCHANGED exceptions
    BY <1>9 DEF CheckOpen
  <2>2. CASE IsOpen(r)
    <3>1. s.adding \subseteq worker[w].adding
      BY <1>1, <2>2 DEF WorkerState, GetOpenException
    <3>. QED
      BY <1>3, <2>1, <3>1, QuietStep
  <2>3. CASE ~ IsOpen(r)
    <3>1. ASSUME NEW q \in Refs
          PROVE  (Cardinality(OpenOf(q)) + Cardinality(AboutToOpen(q)) <= Cardinality(Reconcilers))'
      <4>1. OpenOf(q)' = OpenOf(q)
        BY <2>1 DEF OpenOf
      <4>2. CASE q = r
        <5>1. OpenOf(q) = {}
          BY <2>3, <4>2 DEF OpenOf, IsOpen
        <5>2. /\ Cardinality(AboutToOpen(q)') \in Nat
              /\ Cardinality(AboutToOpen(q)') <= Cardinality(Reconcilers)
          <6>1. AboutToOpen(q)' \subseteq Reconcilers /\ IsFiniteSet(Reconcilers)
            BY ReconcilerAssumption DEF AboutToOpen
          <6>. QED
            BY <6>1, FS_Subset, FS_CardinalityType
        <5>. QED
          BY <4>1, <5>1, <5>2, FS_EmptySet
      <4>3. CASE q # r
        <5>1. AboutToOpen(q)' = AboutToOpen(q) \ {w}
          <6>1. s.adding = {r} /\ worker'[w] = s
            BY <1>1, <2>1, <2>3 DEF WorkerState, GetOpenException
          <6>2. \A v \in Reconcilers \ {w} : worker'[v] = worker[v]
            BY <1>1, <2>1
          <6> HIDE DEF s
          <6>. QED
            BY <4>3, <6>1, <6>2 DEF AboutToOpen
        <5>2. /\ Cardinality(AboutToOpen(q)') \in Nat
              /\ Cardinality(AboutToOpen(q)') <= Cardinality(AboutToOpen(q))
          BY <5>1, OpeningsFinite, FS_Subset, FS_CardinalityType
        <5>3. Cardinality(OpenOf(q)) + Cardinality(AboutToOpen(q)) <= Cardinality(Reconcilers)
          BY DEF OpeningInv
        <5>. QED
          BY <4>1, <5>2, <5>3, OpeningsFinite
      <4>. QED
        BY <4>2, <4>3
    <3>. QED
      BY <3>1 DEF OpeningInv
  <2>. QED
    BY <2>2, <2>3
<1>10. ASSUME NEW r \in Refs, CreateException(w, r) PROVE OpeningInv'
  <2> DEFINE id == Len(exceptions) + 1
  <2>1. exceptions' = Append(exceptions, [ref |-> r, open |-> TRUE]) /\ r \in worker[w].adding
    BY <1>10 DEF CreateException
  <2>2. worker'[w].adding = {} /\ \A v \in Reconcilers \ {w} : worker'[v] = worker[v]
    BY <1>1, <1>10 DEF CreateException, WorkerState, Idle
  <2>3. ASSUME NEW q \in Refs
        PROVE  (Cardinality(OpenOf(q)) + Cardinality(AboutToOpen(q)) <= Cardinality(Reconcilers))'
    <3>1. /\ Len(exceptions) \in Nat /\ DOMAIN exceptions = 1 .. Len(exceptions)
          /\ DOMAIN exceptions' = 1 .. id
          /\ exceptions'[id] = [ref |-> r, open |-> TRUE]
          /\ \A n \in 1 .. Len(exceptions) : exceptions'[n] = exceptions[n]
      BY <1>1, <2>1
    <3>2. AboutToOpen(q)' = AboutToOpen(q) \ {w}
      BY <2>2 DEF AboutToOpen
    <3>3. Cardinality(OpenOf(q)) + Cardinality(AboutToOpen(q)) <= Cardinality(Reconcilers)
      BY DEF OpeningInv
    <3>4. CASE q = r
      <4>1. OpenOf(q)' = OpenOf(q) \cup {id} /\ id \notin OpenOf(q)
        BY <3>1, <3>4 DEF OpenOf
      <4>2. w \in AboutToOpen(q)
        BY <2>1, <3>4 DEF AboutToOpen
      <4>3. Cardinality(OpenOf(q)') = Cardinality(OpenOf(q)) + 1
        BY <4>1, OpeningsFinite, FS_AddElement
      <4>4. Cardinality(AboutToOpen(q)') = Cardinality(AboutToOpen(q)) - 1
        BY <3>2, <4>2, OpeningsFinite, FS_RemoveElement
      <4>. QED
        BY <3>3, <4>3, <4>4, OpeningsFinite
    <3>5. CASE q # r
      <4>1. OpenOf(q)' = OpenOf(q)
        BY <3>1, <3>5 DEF OpenOf
      <4>2. /\ Cardinality(AboutToOpen(q)') \in Nat
            /\ Cardinality(AboutToOpen(q)') <= Cardinality(AboutToOpen(q))
        BY <3>2, OpeningsFinite, FS_Subset, FS_CardinalityType
      <4>. QED
        BY <3>3, <4>1, <4>2, OpeningsFinite
    <3>. QED
      BY <3>4, <3>5
  <2>. QED
    BY <2>3 DEF OpeningInv
<1>11. ASSUME ListOpen(w) PROVE OpeningInv'
  <2> DEFINE stale == {n \in DOMAIN exceptions : Fixed(w, n)}
             s == [worker[w] EXCEPT !.pc = "resolve", !.stale = stale]
  <2>1. UNCHANGED exceptions
        /\ (worker' = [worker EXCEPT ![w] = Done(w)] \/ worker' = [worker EXCEPT ![w] = s])
    BY <1>11 DEF ListOpen
  <2> HIDE DEF stale
  <2>2. s.adding \subseteq worker[w].adding
    BY <1>1 DEF WorkerState
  <2> HIDE DEF s
  <2>. QED
    BY <1>2, <1>3, <2>1, <2>2, QuietStep
<1>12. ASSUME ResolveException(w) PROVE OpeningInv'
  <2> DEFINE n == CHOOSE i \in worker[w].stale : \A j \in worker[w].stale : i <= j
             rest == worker[w].stale \ {n}
             s == [worker[w] EXCEPT !.stale = rest]
  <2>1. exceptions' = [exceptions EXCEPT ![n].open = FALSE]
        /\ (\/ worker' = [worker EXCEPT ![w] = Done(w)]
            \/ worker' = [worker EXCEPT ![w] = s]
            \/ worker' = [worker EXCEPT ![w] = Idle])
    BY <1>12 DEF ResolveException
  <2> HIDE DEF n, rest
  <2>2. s.adding \subseteq worker[w].adding
    BY <1>1 DEF WorkerState
  <2>3. ASSUME NEW r \in Refs PROVE OpenOf(r)' \subseteq OpenOf(r)
    <3>1. DOMAIN exceptions' = 1 .. Len(exceptions) /\ DOMAIN exceptions = 1 .. Len(exceptions)
      BY <1>1, <2>1
    <3>2. \A i \in 1 .. Len(exceptions) : exceptions[i] \in [ref : Refs, open : BOOLEAN]
      BY <1>1, ElementOfSeq
    <3>3. \A i \in 1 .. Len(exceptions) : exceptions'[i].ref = exceptions[i].ref
                                          /\ (exceptions'[i].open => exceptions[i].open)
      BY <2>1, <3>1, <3>2
    <3>. QED
      BY <3>1, <3>3 DEF OpenOf
  <2> HIDE DEF s
  <2>. QED
    BY <1>2, <2>1, <2>2, <2>3, QuietStep
<1>13. ASSUME AdvanceSweep(w) PROVE OpeningInv'
  BY <1>2, <1>3, <1>13, QuietStep DEF AdvanceSweep
<1>14. ASSUME PassFails(w) PROVE OpeningInv'
  BY <1>2, <1>3, <1>14, QuietStep DEF PassFails
<1>. QED
  BY <1>4, <1>5, <1>6, <1>7, <1>8, <1>9, <1>10, <1>11, <1>12, <1>13, <1>14 DEF Pass

\* No more exceptions of one mismatch are open than reconcilers run (recordMismatch): the
\* bound that two statements without a lock or a unique index leave.
THEOREM OpenedOnceEach == Spec => []OpenAtMostOncePerReconciler
<1>1. ASSUME TypeOK, OpeningInv, UNCHANGED <<worker, exceptions>> PROVE OpeningInv'
  BY <1>1 DEF OpeningInv, OpenOf, AboutToOpen
<1>2. TypeOK /\ TypeOK' /\ OpeningInv /\ [Next]_vars => OpeningInv'
  BY <1>1, PassOpening DEF Next, vars, Mine, StoreEvent, Drift, SaveIndexerCheckpoint, ClearCheckpoint
<1>3. TypeOK /\ OpeningInv => OpenAtMostOncePerReconciler
  <2>1. ASSUME TypeOK, OpeningInv, NEW r \in Refs
        PROVE  Cardinality(OpenOf(r)) <= Cardinality(Reconcilers)
    <3>1. Cardinality(OpenOf(r)) + Cardinality(AboutToOpen(r)) <= Cardinality(Reconcilers)
      BY <2>1 DEF OpeningInv
    <3>. QED
      BY <2>1, <3>1, OpeningsFinite
  <2>. QED
    BY <2>1 DEF OpenAtMostOncePerReconciler
<1>. QED
  BY <1>2, <1>3, InitOpening, TypeCorrect, PTL DEF Spec

=============================================================================
