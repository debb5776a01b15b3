------------------------- MODULE DeploymentProofs -------------------------
(***************************************************************************)
(* Proofs about Deployment for every number of processes, migration files, *)
(* blocks, streams, batches and faults.                                    *)
(***************************************************************************)
EXTENDS Deployment, SequenceTheorems, TLAPS

ServiceState == [pc : {"down", "check", "apply", "up"}, file : 1 .. FileCount + 1]

---------------------------------------------------------------------------
(***************************************************************************)
(* Migrations.                                                             *)
(***************************************************************************)

MigrationType ==
    /\ applied \subseteq Files
    /\ executed \in [Files -> Nat]
    /\ service \in [Services -> ServiceState]
    /\ stops \in 0 .. MaxStops

\* A process stands at a file only when all files before it are recorded.
MigrationInv ==
    /\ MigrationType
    /\ MigratedOnce
    /\ \A p \in Services :
          /\ service[p].pc \in {"check", "apply"} =>
                 \A g \in Files : g < service[p].file => g \in applied
          /\ service[p].pc = "apply" => service[p].file \in Files
    /\ service["indexer"].pc = "up" => Files \subseteq applied

LEMMA MigrationInit_ == Init => MigrationInv
<1> SUFFICES ASSUME Init PROVE MigrationInv
  OBVIOUS
<1> USE MigrationAssumption, DeploymentAssumption DEF Init, MigrationInit
<1>1. Down \in ServiceState
  BY DEF Down, ServiceState
<1>2. MigrationType
  BY <1>1 DEF MigrationType
<1>3. MigratedOnce
  BY DEF MigratedOnce
<1>4. \A p \in Services : service[p].pc = "down"
  BY DEF Down
<1>. QED
  BY <1>2, <1>3, <1>4 DEF MigrationInv

\* A change of one process to the state s.
LEMMA Becoming ==
    ASSUME MigrationType, NEW p \in Services,
           NEW pc \in {"down", "check", "apply", "up"}, NEW f \in 1 .. FileCount + 1,
           Becomes(p, pc, f)
    PROVE  /\ service' \in [Services -> ServiceState]
           /\ service'[p].pc = pc /\ service'[p].file = f
           /\ \A q \in Services \ {p} : service'[q] = service[q]
<1>1. [pc |-> pc, file |-> f] \in ServiceState
  BY DEF ServiceState
<1>. QED
  BY <1>1 DEF MigrationType, Becomes

LEMMA StopType == ASSUME MigrationType, Stop \/ UNCHANGED stops PROVE stops' \in 0 .. MaxStops
  BY MigrationAssumption DEF MigrationType, Stop

\* A file to look at lies in the list, or just behind it.
LEMMA FileRange ==
    ASSUME MigrationType, NEW p \in Services
    PROVE  /\ service[p].file \in 1 .. FileCount + 1
           /\ service[p].file \in Files <=> service[p].file <= FileCount
           /\ service[p].file \in Files => service[p].file + 1 \in 1 .. FileCount + 1
           /\ 1 \in 1 .. FileCount + 1
  BY MigrationAssumption DEF MigrationType, ServiceState, Files

LEMMA MigrateStep ==
    ASSUME MigrationInv, NEW p \in Services, Migrate(p) \/ Crash(p)
    PROVE  MigrationInv'
<1> USE MigrationAssumption, DeploymentAssumption
<1> DEFINE f == service[p].file
<1>0. MigrationType /\ MigratedOnce
  BY DEF MigrationInv
<1>1. CASE StartService(p)
  <2>1. Becomes(p, "check", 1) /\ UNCHANGED <<applied, executed, stops>>
    BY <1>1 DEF StartService
  <2>2. /\ service' \in [Services -> ServiceState]
        /\ service'[p].pc = "check" /\ service'[p].file = 1
        /\ \A q \in Services \ {p} : service'[q] = service[q]
    BY <1>0, <2>1, Becoming, FileRange
  <2>3. \A g \in Files : ~ (g < 1)
    BY DEF Files
  <2>. QED
    BY <2>1, <2>2, <2>3 DEF MigrationInv, MigrationType, MigratedOnce
<1>2. CASE CheckVersion(p)
  <2>1. /\ service[p].pc = "check" /\ UNCHANGED <<applied, executed, stops>>
        /\ Becomes(p, IF f > FileCount THEN "up" ELSE IF f \in applied THEN "check" ELSE "apply",
                      IF f \in applied THEN f + 1 ELSE f)
    BY <1>2 DEF CheckVersion
  <2>2. f \in applied => f \in Files
    BY <1>0 DEF MigrationType
  <2>3. \A g \in Files : g < f => g \in applied
    BY <2>1 DEF MigrationInv
  <2>4. CASE f > FileCount
    <3>1. f \notin applied /\ f \in 1 .. FileCount + 1
      BY <1>0, <2>2, <2>4, FileRange
    <3>2. Becomes(p, "up", f)
      BY <2>1, <2>4, <3>1
    <3>3. /\ service' \in [Services -> ServiceState] /\ service'[p].pc = "up"
          /\ \A q \in Services \ {p} : service'[q] = service[q]
      BY <1>0, <3>1, <3>2, Becoming
    <3>4. Files \subseteq applied
      BY <2>3, <2>4, <3>1 DEF Files
    <3>. QED
      BY <2>1, <3>3, <3>4 DEF MigrationInv, MigrationType, MigratedOnce
  <2>5. CASE f \in applied
    <3>1. ~ (f > FileCount) /\ f + 1 \in 1 .. FileCount + 1 /\ f \in Nat
      BY <1>0, <2>2, <2>5, FileRange DEF Files
    <3>2. Becomes(p, "check", f + 1)
      BY <2>1, <2>5, <3>1
    <3>3. /\ service' \in [Services -> ServiceState]
          /\ service'[p].pc = "check" /\ service'[p].file = f + 1
          /\ \A q \in Services \ {p} : service'[q] = service[q]
      BY <1>0, <3>1, <3>2, Becoming
    <3>4. \A g \in Files : g < f + 1 => g \in applied
      BY <2>3, <2>5, <3>1 DEF Files
    <3>. QED
      BY <2>1, <3>3, <3>4 DEF MigrationInv, MigrationType, MigratedOnce
  <2>6. CASE ~ (f > FileCount) /\ f \notin applied
    <3>1. f \in Files /\ f \in 1 .. FileCount + 1
      BY <1>0, <2>6, FileRange DEF Files
    <3>2. Becomes(p, "apply", f)
      BY <2>1, <2>6
    <3>3. /\ service' \in [Services -> ServiceState]
          /\ service'[p].pc = "apply" /\ service'[p].file = f
          /\ \A q \in Services \ {p} : service'[q] = service[q]
      BY <1>0, <3>1, <3>2, Becoming
    <3>. QED
      BY <2>1, <2>3, <3>1, <3>3 DEF MigrationInv, MigrationType, MigratedOnce
  <2>. QED
    BY <2>4, <2>5, <2>6
<1>3. CASE ApplyFile(p)
  <2>1. /\ f \in Files /\ f \notin applied /\ \A g \in Files : g < f => g \in applied
        /\ applied' = applied \cup {f} /\ executed' = [executed EXCEPT ![f] = @ + 1]
    BY <1>3 DEF ApplyFile, VersionConflict, MigrationInv
  <2>2. stops' \in 0 .. MaxStops
    BY <1>0, <1>3, StopType DEF ApplyFile
  <2>3. applied' \subseteq Files /\ executed' \in [Files -> Nat]
    BY <1>0, <2>1 DEF MigrationType
  <2>4. MigratedOnce'
    <3>1. \A g \in Files : executed'[g] = (IF g \in applied' THEN 1 ELSE 0)
      BY <1>0, <2>1 DEF MigrationType, MigratedOnce
    <3>2. ASSUME NEW g \in applied' PROVE 1 .. g \subseteq applied'
      <4>1. CASE g \in applied
        BY <1>0, <2>1, <4>1 DEF MigratedOnce
      <4>2. CASE g = f
        BY <2>1, <4>2 DEF Files
      <4>. QED
        BY <2>1, <3>2, <4>1, <4>2
    <3>. QED
      BY <3>1, <3>2 DEF MigratedOnce
  <2>5. ASSUME NEW pc \in {"down", "check", "up"}, NEW h \in 1 .. FileCount + 1,
               Becomes(p, pc, h), pc = "up" => p # "indexer",
               pc = "check" => h = f + 1
        PROVE  MigrationInv'
    <3>1. /\ service' \in [Services -> ServiceState]
          /\ service'[p].pc = pc /\ service'[p].file = h
          /\ \A q \in Services \ {p} : service'[q] = service[q]
      BY <1>0, <2>5, Becoming
    <3>2. pc = "check" => \A g \in Files : g < h => g \in applied'
      BY <2>1, <2>5 DEF Files
    <3>3. service'["indexer"].pc = "up" => Files \subseteq applied'
      BY <2>1, <2>5, <3>1 DEF MigrationInv
    <3>. QED
      BY <2>1, <2>2, <2>3, <2>4, <2>5, <3>1, <3>2, <3>3 DEF MigrationInv, MigrationType
  <2>6. f + 1 \in 1 .. FileCount + 1 /\ 1 \in 1 .. FileCount + 1
    BY <1>0, <2>1, FileRange
  <2>7. Becomes(p, "check", f + 1) \/ Becomes(p, AfterMigrationError(p), 1)
    BY <1>3 DEF ApplyFile
  <2>. QED
    BY <2>5, <2>6, <2>7 DEF AfterMigrationError
<1>4. CASE MigrationFails(p) \/ Crash(p)
  <2>1. stops' \in 0 .. MaxStops /\ UNCHANGED <<applied, executed>>
    BY <1>0, <1>4, StopType DEF MigrationFails, Crash
  <2>2. PICK pc \in {"down", "up"} : Becomes(p, pc, 1) /\ (pc = "up" => p # "indexer")
    BY <1>4 DEF MigrationFails, Crash, AfterMigrationError
  <2>3. /\ service' \in [Services -> ServiceState] /\ service'[p].pc = pc
        /\ \A q \in Services \ {p} : service'[q] = service[q]
    BY <1>0, <2>2, Becoming, FileRange
  <2>. QED
    BY <2>1, <2>2, <2>3 DEF MigrationInv, MigrationType, MigratedOnce
<1>. QED
  BY <1>1, <1>2, <1>3, <1>4 DEF Migrate

---------------------------------------------------------------------------
(***************************************************************************)
(* The live monitor.                                                       *)
(***************************************************************************)

MonitorState == [pc : {"idle", "resolve", "index", "save"}, turn : Nat, target : Nat,
                 from : Nat, batches : Nat]

MonitorType ==
    /\ head \in Nat
    /\ unindexable \in [Configured -> Blocks \cup {NoBlock}]
    /\ cp \in [Configured -> Nat \cup {NoBlock}]
    /\ fresh \in [Configured -> SUBSET Nat]
    /\ monitor \in MonitorState
    /\ tool \in {"payroll", "token"}
    /\ clears \in 0 .. MaxClears
    /\ faults \in 0 .. MaxFaults

\* A poll is at one of its streams and keeps to final blocks.
InPoll(m) == m.pc # "idle" => m.turn \in 1 .. Len(PollOrder) /\ m.target <= SafeTarget

\* What lies below a batch is indexed, and its first block is above the checkpoint.
InBatch == monitor.pc \in {"index", "save"} =>
    /\ monitor.from <= monitor.target
    /\ StartBlock .. monitor.from - 1 \subseteq fresh[Stream]
    /\ cp[Stream] < monitor.from

InSave == At("save") => Batch \subseteq fresh[Stream]

CheckpointsFinal == \A s \in Configured : cp[s] <= SafeTarget

MonitorInv ==
    MonitorType /\ CheckpointsCover /\ CheckpointsFinal /\ InPoll(monitor) /\ InBatch /\ InSave

\* What a status request relies on between its two queries.
Progress == SafeTarget' >= SafeTarget /\ \A s \in Configured : cp'[s] >= cp[s]

LEMMA TargetType ==
    ASSUME NEW h \in Nat
    PROVE  /\ CalculateSafeTarget(h, ConfirmationDepth) \in Nat
           /\ CalculateSafeTarget(h + 1, ConfirmationDepth)
                >= CalculateSafeTarget(h, ConfirmationDepth)
  BY MonitorAssumption DEF CalculateSafeTarget

LEMMA TurnIsConfigured ==
    /\ Len(PollOrder) \in Nat
    /\ \A n \in 1 .. Len(PollOrder) : PollOrder[n] \in Configured
<1>1. \A s : IfConfigured(s) \in Seq(Configured)
  BY DEF IfConfigured
<1>2. PollOrder \in Seq(Configured)
  BY <1>1, ConcatProperties DEF PollOrder
<1>. QED
  BY <1>2, ElementOfSeq, LenProperties

\* A poll that is between two streams, or over.
LEMMA Parked ==
    ASSUME monitor' \in MonitorState, monitor'.pc \in {"idle", "resolve"},
           MonitorType', CheckpointsCover', CheckpointsFinal', InPoll(monitor)'
    PROVE  MonitorInv'
  BY DEF MonitorInv, InBatch, InSave, At

LEMMA IdleParked == Idle \in MonitorState /\ Idle.pc = "idle"
  BY DEF Idle, MonitorState

LEMMA NextStreamParked ==
    ASSUME monitor \in MonitorState, ~ At("idle"), InPoll(monitor)
    PROVE  /\ NextStream \in MonitorState
           /\ NextStream.pc \in {"idle", "resolve"}
           /\ InPoll(NextStream)
<1> USE TurnIsConfigured, IdleParked DEF At, InPoll
<1>1. CASE monitor.turn < Len(PollOrder)
  <2>1. NextStream = [pc |-> "resolve", turn |-> monitor.turn + 1, target |-> monitor.target,
                      from |-> 0, batches |-> 0]
    BY <1>1 DEF NextStream, Idle
  <2>. QED
    BY <1>1, <2>1 DEF MonitorState
<1>2. CASE ~ (monitor.turn < Len(PollOrder))
  BY <1>2 DEF NextStream
<1>. QED
  BY <1>1, <1>2

LEMMA StreamType ==
    ASSUME MonitorInv, ~ At("idle")
    PROVE  Stream \in Configured /\ monitor.target <= SafeTarget
  BY TurnIsConfigured DEF MonitorInv, InPoll, Stream, At

LEMMA ToType ==
    ASSUME MonitorInv, monitor.pc \in {"index", "save"}
    PROVE  To \in Nat /\ monitor.from <= To /\ To <= monitor.target /\ monitor.target \in Nat
           /\ monitor.from \in Nat
  BY MonitorAssumption DEF MonitorInv, MonitorType, MonitorState, InBatch, To, BatchEnd

LEMMA FaultType == ASSUME MonitorType, Fault \/ UNCHANGED faults PROVE faults' \in 0 .. MaxFaults
  BY MonitorAssumption DEF MonitorType, Fault

\* The end of a batch whose blocks are indexed and whose checkpoint is saved.
LEMMA BatchSaved ==
    ASSUME MonitorInv, monitor.pc \in {"index", "save"},
           fresh' \in [Configured -> SUBSET Nat],
           \A s \in Configured : fresh[s] \subseteq fresh'[s],
           Batch \subseteq fresh'[Stream],
           cp' = [cp EXCEPT ![Stream] = To],
           monitor' = AfterBatch \/ monitor' = AfterError,
           Fault \/ UNCHANGED faults,
           UNCHANGED <<head, unindexable, tool, clears>>
    PROVE  MonitorInv' /\ Progress
<1> DEFINE s == Stream
<1>1. /\ s \in Configured /\ ~ At("idle") /\ monitor.target <= SafeTarget
      /\ To \in Nat /\ monitor.from <= To /\ To <= monitor.target
      /\ monitor.target \in Nat /\ monitor.from \in Nat
  BY StreamType, ToType DEF At
<1>2. /\ MonitorType /\ CheckpointsCover /\ CheckpointsFinal /\ InPoll(monitor)
      /\ StartBlock .. monitor.from - 1 \subseteq fresh[s] /\ cp[s] < monitor.from
  BY DEF MonitorInv, InBatch
<1>3. SafeTarget \in Nat /\ SafeTarget' = SafeTarget
  BY <1>2, TargetType DEF SafeTarget, MonitorType
<1>4. cp' \in [Configured -> Nat \cup {NoBlock}] /\ cp'[s] = To
      /\ \A t \in Configured \ {s} : cp'[t] = cp[t]
  BY <1>1, <1>2 DEF MonitorType
<1>5. StartBlock .. To \subseteq fresh'[s]
  BY <1>1, <1>2, MonitorAssumption DEF Batch
<1>6. CheckpointsCover'
  BY <1>2, <1>4, <1>5 DEF CheckpointsCover
<1>7. CheckpointsFinal'
  BY <1>1, <1>2, <1>3, <1>4 DEF CheckpointsFinal
<1>8. Progress
  BY <1>1, <1>2, <1>3, <1>4 DEF Progress, MonitorType, NoBlock
<1>9. ASSUME monitor' \in MonitorState PROVE MonitorType'
  BY <1>2, <1>4, <1>9, FaultType DEF MonitorType
<1>10. CASE monitor' = NextStream
  <2>1. /\ NextStream \in MonitorState /\ NextStream.pc \in {"idle", "resolve"}
        /\ InPoll(NextStream)
    BY <1>1, <1>2, NextStreamParked DEF MonitorType
  <2>2. InPoll(monitor)'
    BY <1>3, <1>10, <2>1 DEF InPoll
  <2>. QED
    BY <1>6, <1>7, <1>8, <1>9, <1>10, <2>1, <2>2, Parked
<1>11. CASE /\ To < monitor.target
            /\ monitor' = [monitor EXCEPT !.pc = "index", !.from = To + 1, !.batches = @ + 1]
  <2>1. /\ monitor' \in MonitorState /\ monitor'.pc = "index" /\ monitor'.from = To + 1
        /\ monitor'.target = monitor.target /\ monitor'.turn = monitor.turn
    <3>1. monitor' = [pc |-> "index", turn |-> monitor.turn, target |-> monitor.target,
                      from |-> To + 1, batches |-> monitor.batches + 1]
      BY <1>2, <1>11 DEF MonitorType, MonitorState
    <3>2. monitor.turn \in Nat /\ monitor.batches + 1 \in Nat
      BY <1>2 DEF MonitorType, MonitorState
    <3>3. To + 1 \in Nat
      BY <1>1
    <3>4. monitor' \in MonitorState
      BY <1>1, <3>1, <3>2, <3>3 DEF MonitorState
    <3>. QED
      BY <3>1, <3>4
  <2>2. Stream' = s
    BY <2>1 DEF Stream
  <2>3. InPoll(monitor)'
    BY <1>1, <1>2, <1>3, <2>1 DEF InPoll, At
  <2>4. StartBlock .. monitor'.from - 1 \subseteq fresh'[s]
    BY <1>1, <1>5, <2>1
  <2>5. InBatch'
    BY <1>1, <1>4, <1>11, <2>1, <2>2, <2>4 DEF InBatch
  <2>6. InSave'
    BY <2>1 DEF InSave, At
  <2>. QED
    BY <1>6, <1>7, <1>8, <1>9, <2>1, <2>3, <2>5, <2>6 DEF MonitorInv
<1>. QED
  BY <1>10, <1>11 DEF AfterBatch, AfterError

LEMMA ResumeType ==
    ASSUME MonitorInv, At("resolve"), ResumeAt(Stream) <= monitor.target
    PROVE  /\ ResumeAt(Stream) \in Nat
           /\ StartBlock .. ResumeAt(Stream) - 1 \subseteq fresh[Stream]
           /\ cp[Stream] < ResumeAt(Stream)
<1> DEFINE s == Stream
<1>1. s \in Configured
  BY StreamType DEF At
<1>2. /\ cp[s] \in Nat \cup {NoBlock} /\ StartBlock .. cp[s] \subseteq fresh[s]
      /\ StartBlock \in Nat \ {0}
  BY <1>1, MonitorAssumption DEF MonitorInv, MonitorType, CheckpointsCover
<1>3. ResumeAt(s) \in {StartBlock, cp[s] + 1} /\ ResumeAt(s) \in Nat /\ cp[s] < ResumeAt(s)
  BY <1>2 DEF ResumeAt, CalculateNextBlock, GetEffectiveStartBlock, NoBlock
<1>4. StartBlock .. StartBlock - 1 = {} /\ StartBlock .. (cp[s] + 1) - 1 = StartBlock .. cp[s]
  BY <1>2 DEF NoBlock
<1>. QED
  BY <1>2, <1>3, <1>4

LEMMA PollStep ==
    ASSUME MonitorInv, Poll
    PROVE  MonitorInv' /\ Progress
<1>0. /\ MonitorType /\ CheckpointsCover /\ CheckpointsFinal
      /\ InPoll(monitor) /\ InBatch /\ InSave
  BY DEF MonitorInv
<1>1. SafeTarget \in Nat
  BY <1>0, TargetType DEF SafeTarget, MonitorType
<1>2. ASSUME monitor' \in MonitorState, monitor'.pc \in {"idle", "resolve"}, InPoll(monitor'),
             Fault \/ UNCHANGED faults,
             UNCHANGED <<head, unindexable, cp, fresh, tool, clears>>
      PROVE  MonitorInv' /\ Progress
  <2>1. SafeTarget' = SafeTarget
    BY <1>2 DEF SafeTarget
  <2>2. MonitorType' /\ CheckpointsCover' /\ CheckpointsFinal' /\ InPoll(monitor)'
    BY <1>0, <1>2, <2>1, FaultType DEF MonitorType, CheckpointsCover, CheckpointsFinal, InPoll
  <2>3. Progress
    BY <1>0, <1>1, <1>2, <2>1 DEF Progress, MonitorType, NoBlock
  <2>. QED
    BY <1>2, <2>2, <2>3, Parked
<1>3. CASE PollOnce
  <2>1. Len(PollOrder) \in Nat /\ 1 \in 1 .. Len(PollOrder)
    BY <1>3, TurnIsConfigured, EmptySeq DEF PollOnce, PollOrder, IfConfigured
  <2>2. monitor' = [pc |-> "resolve", turn |-> 1, target |-> SafeTarget, from |-> 0,
                    batches |-> 0]
    BY <1>3 DEF PollOnce, Idle
  <2>3. monitor' \in MonitorState /\ monitor'.pc = "resolve"
    BY <1>1, <2>2 DEF MonitorState
  <2>4. InPoll(monitor')
    BY <1>1, <2>1, <2>2 DEF InPoll
  <2>5. UNCHANGED <<head, unindexable, cp, fresh, tool, clears, faults>>
    BY <1>3 DEF PollOnce
  <2>. QED
    BY <1>2, <2>3, <2>4, <2>5
<1>4. CASE ResolveStart
  <2>1. At("resolve") /\ ~ At("idle")
    BY <1>4 DEF ResolveStart, At
  <2>2. CASE monitor' = NextStream
    BY <1>0, <1>2, <1>4, <2>1, <2>2, NextStreamParked DEF ResolveStart, MonitorType
  <2>3. CASE /\ ~ (ResumeAt(Stream) > monitor.target)
             /\ monitor' = [monitor EXCEPT !.pc = "index", !.from = ResumeAt(Stream)]
    <3>1. /\ monitor.target \in Nat /\ monitor.turn \in Nat /\ monitor.batches \in Nat
      BY <1>0 DEF MonitorType, MonitorState
    <3>2. ResumeAt(Stream) \in Int
      BY <1>0, <2>1, StreamType, MonitorAssumption
      DEF ResumeAt, CalculateNextBlock, GetEffectiveStartBlock, NoBlock, MonitorType
    <3>3. ResumeAt(Stream) <= monitor.target
      BY <2>3, <3>1, <3>2
    <3>4. /\ ResumeAt(Stream) \in Nat /\ StartBlock .. ResumeAt(Stream) - 1 \subseteq fresh[Stream]
          /\ cp[Stream] < ResumeAt(Stream)
      BY <2>1, <3>3, ResumeType
    <3>5. monitor' = [pc |-> "index", turn |-> monitor.turn, target |-> monitor.target,
                      from |-> ResumeAt(Stream), batches |-> monitor.batches]
      BY <1>0, <2>3 DEF MonitorType, MonitorState
    <3>6. monitor' \in MonitorState
      BY <3>1, <3>4, <3>5 DEF MonitorState
    <3>7. Stream' = Stream /\ SafeTarget' = SafeTarget
      BY <1>4, <3>5 DEF Stream, SafeTarget, ResolveStart
    <3>8. MonitorType' /\ CheckpointsCover' /\ CheckpointsFinal'
      BY <1>0, <1>4, <3>6, <3>7
      DEF ResolveStart, MonitorType, CheckpointsCover, CheckpointsFinal
    <3>9. InPoll(monitor)'
      BY <1>0, <2>1, <3>5, <3>7 DEF InPoll, At
    <3>10. InBatch' /\ InSave'
      BY <1>4, <3>3, <3>4, <3>5, <3>7 DEF InBatch, InSave, At, ResolveStart
    <3>11. Progress
      BY <1>0, <1>1, <1>4, <3>7 DEF Progress, MonitorType, NoBlock, ResolveStart
    <3>. QED
      BY <3>8, <3>9, <3>10, <3>11 DEF MonitorInv
  <2>. QED
    BY <1>4, <2>2, <2>3 DEF ResolveStart
<1>5. CASE IndexBatch
  <2>1. Stream \in Configured /\ Batch \subseteq Nat
    BY <1>5, StreamType, ToType DEF IndexBatch, At, Batch
  <2>2. /\ fresh' \in [Configured -> SUBSET Nat] /\ Batch \subseteq fresh'[Stream]
        /\ \A s \in Configured : fresh[s] \subseteq fresh'[s]
    BY <1>0, <1>5, <2>1 DEF IndexBatch, MonitorType
  <2>. QED
    BY <1>5, <2>2, BatchSaved DEF IndexBatch, At
<1>6. CASE IndexPayrollBatch
  <2>1. Stream \in Configured /\ Batch \subseteq Nat
    BY <1>6, StreamType, ToType DEF IndexPayrollBatch, At, Batch
  <2>2. /\ fresh' \in [Configured -> SUBSET Nat] /\ Batch \subseteq fresh'[Stream]
        /\ \A s \in Configured : fresh[s] \subseteq fresh'[s]
    BY <1>0, <1>6, <2>1 DEF IndexPayrollBatch, MonitorType
  <2>3. monitor' = [pc |-> "save", turn |-> monitor.turn, target |-> monitor.target,
                    from |-> monitor.from, batches |-> monitor.batches]
    BY <1>0, <1>6 DEF IndexPayrollBatch, MonitorType, MonitorState
  <2>4. monitor' \in MonitorState
    BY <1>0, <2>3 DEF MonitorType, MonitorState
  <2>5. Stream' = Stream /\ Batch' = Batch /\ SafeTarget' = SafeTarget
    BY <1>6, <2>3 DEF Stream, Batch, To, SafeTarget, IndexPayrollBatch
  <2>6. MonitorType' /\ CheckpointsFinal'
    BY <1>0, <1>6, <2>2, <2>4, <2>5 DEF IndexPayrollBatch, MonitorType, CheckpointsFinal
  <2>7. CheckpointsCover'
    BY <1>0, <1>6, <2>2 DEF IndexPayrollBatch, CheckpointsCover
  <2>8. InPoll(monitor)'
    BY <1>0, <1>6, <2>3, <2>5 DEF IndexPayrollBatch, InPoll, At
  <2>9. InBatch' /\ InSave'
    BY <1>0, <1>6, <2>1, <2>2, <2>3, <2>5 DEF IndexPayrollBatch, InBatch, InSave, At
  <2>10. Progress
    BY <1>0, <1>1, <1>6, <2>5 DEF Progress, MonitorType, NoBlock, IndexPayrollBatch
  <2>. QED
    BY <2>6, <2>7, <2>8, <2>9, <2>10 DEF MonitorInv
<1>7. CASE SavePayrollCheckpoint
  BY <1>0, <1>7, BatchSaved DEF SavePayrollCheckpoint, At, InSave, MonitorType
<1>8. CASE StreamFails
  <2>1. ~ At("idle") /\ monitor' = NextStream
    BY <1>8 DEF StreamFails, AfterError
  <2>2. /\ NextStream \in MonitorState /\ NextStream.pc \in {"idle", "resolve"}
        /\ InPoll(NextStream)
    BY <1>0, <2>1, NextStreamParked DEF MonitorType
  <2>. QED
    BY <1>2, <1>8, <2>1, <2>2 DEF StreamFails
<1>. QED
  BY <1>3, <1>4, <1>5, <1>6, <1>7, <1>8 DEF Poll

LEMMA MineStep ==
    ASSUME MonitorInv, Mine
    PROVE  MonitorInv' /\ Progress
<1>1. /\ head \in Nat /\ cp \in [Configured -> Nat \cup {NoBlock}]
      /\ monitor.target \in Nat
  BY DEF MonitorInv, MonitorType, MonitorState
<1>2. SafeTarget \in Nat /\ SafeTarget' \in Nat /\ SafeTarget' >= SafeTarget
  BY <1>1, TargetType DEF Mine, SafeTarget
<1>3. MonitorType' /\ CheckpointsCover' /\ InBatch' /\ InSave'
  BY DEF Mine, MonitorInv, MonitorType, CheckpointsCover, InBatch, InSave, At, Stream, Batch, To
<1>4. CheckpointsFinal'
  BY <1>1, <1>2 DEF Mine, MonitorInv, CheckpointsFinal, NoBlock
<1>5. InPoll(monitor)'
  BY <1>1, <1>2 DEF Mine, MonitorInv, InPoll
<1>6. Progress
  BY <1>1, <1>2 DEF Mine, Progress, NoBlock
<1>. QED
  BY <1>3, <1>4, <1>5, <1>6 DEF MonitorInv

\* The tool leaves what a batch under way has indexed: the batch saves a checkpoint again.
LEMMA ClearStep ==
    ASSUME MonitorInv, NEW statement \in {"payroll", "token"}, ClearStatement(statement)
    PROVE  MonitorInv' /\ SafeTarget' = SafeTarget
<1> DEFINE deleted == {s \in Configured : Deletes(statement, s)}
<1>1. /\ clears < MaxClears
      /\ cp' = [s \in Configured |-> IF s \in deleted THEN NoBlock ELSE cp[s]]
      /\ fresh' = [s \in Configured |-> IF s \in deleted /\ ~ InFlight(s) THEN {} ELSE fresh[s]]
      /\ tool' = (IF statement = "payroll" THEN "token" ELSE "payroll")
      /\ clears' = (IF statement = "payroll" THEN clears ELSE clears + 1)
      /\ UNCHANGED <<head, unindexable, monitor, faults>>
  BY DEF ClearStatement
<1> HIDE DEF deleted
<1>2. /\ MonitorType /\ CheckpointsCover /\ CheckpointsFinal
      /\ InPoll(monitor) /\ InBatch /\ InSave
  BY DEF MonitorInv
<1>3. SafeTarget' = SafeTarget /\ SafeTarget \in Nat /\ Stream' = Stream
  BY <1>1, <1>2, TargetType DEF SafeTarget, MonitorType, Stream
<1>4. MonitorType'
  BY <1>1, <1>2, MonitorAssumption DEF MonitorType
<1>5. StartBlock .. NoBlock = {}
  BY MonitorAssumption DEF NoBlock
<1>6. CheckpointsCover'
  <2> SUFFICES ASSUME NEW s \in Configured PROVE StartBlock .. cp'[s] \subseteq fresh'[s]
    BY DEF CheckpointsCover
  <2>1. CASE s \in deleted
    BY <1>1, <1>5, <2>1
  <2>2. CASE s \notin deleted
    BY <1>1, <1>2, <2>2 DEF CheckpointsCover
  <2>. QED
    BY <2>1, <2>2
<1>7. CheckpointsFinal'
  BY <1>1, <1>2, <1>3 DEF CheckpointsFinal, NoBlock
<1>8. InPoll(monitor)'
  BY <1>1, <1>2, <1>3 DEF InPoll
<1>9. ASSUME monitor.pc \in {"index", "save"}
      PROVE  /\ Stream \in Configured /\ InFlight(Stream)
             /\ fresh'[Stream] = fresh[Stream] /\ cp'[Stream] \in {NoBlock, cp[Stream]}
             /\ monitor.from \in Nat
  BY <1>1, <1>9, StreamType, ToType DEF InFlight, At
<1>10. InBatch' /\ InSave'
  BY <1>1, <1>2, <1>3, <1>9 DEF InBatch, InSave, At, Batch, To, NoBlock
<1>. QED
  BY <1>3, <1>4, <1>6, <1>7, <1>8, <1>10 DEF MonitorInv

LEMMA MonitorInitInv == MonitorInit => MonitorInv
<1> SUFFICES ASSUME MonitorInit PROVE MonitorInv
  OBVIOUS
<1>0. FinalBlocks \subseteq Blocks
  BY DEF FinalBlocks
<1>1. /\ head = 0 /\ monitor = Idle /\ tool = "payroll" /\ clears = 0 /\ faults = 0
      /\ unindexable \in [Configured -> Blocks \cup {NoBlock}]
      /\ cp = [s \in Configured |-> NoBlock] /\ fresh = [s \in Configured |-> {}]
  BY <1>0 DEF MonitorInit
<1>2. SafeTarget \in Nat
  BY <1>1, TargetType DEF SafeTarget
<1>3. StartBlock .. NoBlock = {}
  BY MonitorAssumption DEF NoBlock
<1>4. MonitorType
  BY <1>1, IdleParked, MonitorAssumption DEF MonitorType
<1>5. CheckpointsCover /\ CheckpointsFinal
  BY <1>1, <1>2, <1>3 DEF CheckpointsCover, CheckpointsFinal, NoBlock
<1>. QED
  BY <1>1, <1>4, <1>5, IdleParked DEF MonitorInv, InPoll, InBatch, InSave, At

---------------------------------------------------------------------------
(***************************************************************************)
(* The status request.                                                     *)
(***************************************************************************)

RowValues == [Rows -> Nat \cup {NoBlock}]

ReportState == [pc : {"idle", "listed", "done"}, rows : RowValues, latest : Nat,
                cleared : BOOLEAN]

\* Rows read by the first query are below the rows of now, and later below their maximum.
StatusInv ==
    /\ swept \in Nat \cup {NoBlock}
    /\ swept <= SafeTarget
    /\ report \in ReportState
    /\ report.pc = "listed" /\ ~ report.cleared =>
           \A r \in Rows : report.rows[r] <= Checkpoints[r]
    /\ report.pc = "done" /\ ~ report.cleared =>
           (\A r \in Rows : report.rows[r] <= report.latest) /\ report.latest <= SafeTarget

\* At most four rows have a highest one.
LEMMA HighestRow ==
    ASSUME NEW rows \in RowValues
    PROVE  /\ GetLatestChainBlock(rows) \in {rows[r] : r \in Rows} \cup {0}
           /\ GetLatestChainBlock(rows) \in Nat
           /\ \A r \in Rows : rows[r] <= GetLatestChainBlock(rows)
<1> DEFINE S == {rows[r] : r \in Rows} \cup {0}
           v(r) == IF r \in Rows THEN rows[r] ELSE 0
           a == v("payroll")  b == v("token")  c == v("escrow")  d == v("sweep")
<1>1. Rows \subseteq {"payroll", "token", "escrow", "sweep"}
  BY MonitorAssumption DEF Rows, Streams
<1>2. a \in Int /\ b \in Int /\ c \in Int /\ d \in Int
  BY DEF RowValues, NoBlock
<1>3. {a, b, c, d} \subseteq S
  OBVIOUS
<1>4. S \subseteq {0, a, b, c, d}
  BY <1>1
<1>5. \E m \in {0, a, b, c, d} : m >= 0 /\ m >= a /\ m >= b /\ m >= c /\ m >= d
  <2> HIDE DEF a, b, c, d
  <2>. QED
    BY <1>2
<1>6. \E m \in S : \A y \in S : m >= y
  <2>1. PICK m \in {0, a, b, c, d} : m >= 0 /\ m >= a /\ m >= b /\ m >= c /\ m >= d
    BY <1>5
  <2> HIDE DEF a, b, c, d, S
  <2>2. m \in S
    BY <1>3, <2>1 DEF S
  <2>. QED
    BY <1>4, <2>1, <2>2
<1>7. Max(S) \in S /\ \A y \in S : Max(S) >= y
  <2> HIDE DEF S
  <2>. QED
    BY <1>6 DEF Max
<1>8. S \subseteq Int /\ 0 \in S
  BY DEF RowValues, NoBlock
<1>9. GetLatestChainBlock(rows) = Max(S)
  BY DEF GetLatestChainBlock
<1>10. Max(S) \in Int /\ Max(S) >= 0
  <2> HIDE DEF S
  <2>. QED
    BY <1>7, <1>8
<1>11. ASSUME NEW r \in Rows PROVE rows[r] <= Max(S)
  <2>1. rows[r] \in S
    OBVIOUS
  <2> HIDE DEF S
  <2>. QED
    BY <1>7, <1>8, <1>10, <2>1
<1> HIDE DEF S
<1>12. GetLatestChainBlock(rows) \in S /\ GetLatestChainBlock(rows) \in Nat
  BY <1>7, <1>9, <1>10
<1>13. \A r \in Rows : rows[r] <= GetLatestChainBlock(rows)
  BY <1>9, <1>11
<1>. QED
  BY <1>12, <1>13 DEF S

LEMMA CheckpointsType ==
    ASSUME MonitorInv, StatusInv
    PROVE  Checkpoints \in RowValues /\ \A r \in Rows : Checkpoints[r] <= SafeTarget
  BY DEF MonitorInv, MonitorType, CheckpointsFinal, StatusInv, Checkpoints, RowValues, Rows

LEMMA NoReportType == NoReport \in ReportState /\ NoReport.pc = "idle"
  BY DEF NoReport, ReportState, RowValues

LEMMA StatusInitInv == MonitorInit /\ StatusInit => StatusInv
<1> SUFFICES ASSUME MonitorInit, StatusInit PROVE StatusInv
  OBVIOUS
<1>1. SafeTarget \in Nat
  BY TargetType DEF MonitorInit, SafeTarget
<1>. QED
  BY <1>1, NoReportType DEF StatusInit, StatusInv, NoBlock

\* Steps of the others raise checkpoints and the target.
LEMMA StatusAside ==
    ASSUME MonitorInv, MonitorInv', StatusInv, Progress, UNCHANGED statusVars
    PROVE  StatusInv'
<1>1. /\ swept' = swept /\ report' = report
      /\ SafeTarget \in Nat /\ SafeTarget' \in Nat /\ SafeTarget' >= SafeTarget
  BY TargetType DEF Progress, statusVars, MonitorInv, MonitorType, SafeTarget
<1>2. swept \in Nat \cup {NoBlock} /\ report \in ReportState /\ swept <= SafeTarget
  BY DEF StatusInv
<1>3. ASSUME NEW r \in Rows
      PROVE  Checkpoints'[r] >= Checkpoints[r] /\ Checkpoints[r] \in Int /\ Checkpoints'[r] \in Int
             /\ report.rows[r] \in Int
  BY <1>1, <1>2 DEF Progress, Checkpoints, Rows, MonitorInv, MonitorType, NoBlock, ReportState,
                    RowValues
<1>4. report'.pc = "listed" /\ ~ report'.cleared =>
          \A r \in Rows : report'.rows[r] <= Checkpoints'[r]
  BY <1>1, <1>3 DEF StatusInv
<1>5. swept' <= SafeTarget'
  BY <1>1, <1>2 DEF NoBlock
<1>6. report.latest \in Nat
  BY <1>2 DEF ReportState
<1>. QED
  BY <1>1, <1>2, <1>4, <1>5, <1>6 DEF StatusInv

LEMMA StatusStep ==
    ASSUME MonitorInv, StatusInv, Status, UNCHANGED monitorVars
    PROVE  StatusInv'
<1>1. UNCHANGED <<head, cp, swept>> /\ SafeTarget' = SafeTarget /\ Checkpoints' = Checkpoints
  BY DEF Status, GetAllCheckpoints, SyncStatusHandler, StatusFails, monitorVars, SafeTarget,
         Checkpoints
<1>2. /\ swept \in Nat \cup {NoBlock} /\ swept <= SafeTarget /\ report \in ReportState
      /\ Checkpoints \in RowValues /\ \A r \in Rows : Checkpoints[r] <= SafeTarget
      /\ SafeTarget \in Nat
  BY CheckpointsType, TargetType DEF StatusInv, MonitorInv, MonitorType, SafeTarget
<1>3. CASE GetAllCheckpoints
  <2>1. report' = [pc |-> "listed", rows |-> Checkpoints, latest |-> 0, cleared |-> FALSE]
    BY <1>3 DEF GetAllCheckpoints, NoReport
  <2>2. report' \in ReportState
    BY <1>2, <2>1 DEF ReportState
  <2>3. \A r \in Rows : report'.rows[r] <= Checkpoints[r]
    BY <1>2, <2>1 DEF RowValues, NoBlock
  <2>. QED
    BY <1>1, <1>2, <2>1, <2>2, <2>3 DEF StatusInv
<1>4. CASE SyncStatusHandler
  <2> DEFINE latest == GetLatestChainBlock(Checkpoints)
  <2>1. /\ latest \in {Checkpoints[r] : r \in Rows} \cup {0} /\ latest \in Nat
        /\ \A r \in Rows : Checkpoints[r] <= latest
    BY <1>2, HighestRow
  <2> HIDE DEF latest
  <2>2. report' = [pc |-> "done", rows |-> report.rows, latest |-> latest,
                   cleared |-> report.cleared]
    BY <1>2, <1>4 DEF SyncStatusHandler, ReportState, latest
  <2>3. report' \in ReportState
    BY <1>2, <2>1, <2>2 DEF ReportState
  <2>4. latest <= SafeTarget
    BY <1>2, <2>1
  <2>5. ASSUME ~ report.cleared, NEW r \in Rows PROVE report.rows[r] <= latest
    <3>1. report.rows[r] <= Checkpoints[r]
      BY <1>4, <2>5 DEF StatusInv, SyncStatusHandler
    <3>2. report.rows[r] \in Int /\ Checkpoints[r] \in Int
      BY <1>2 DEF ReportState, RowValues, NoBlock
    <3>. QED
      BY <2>1, <3>1, <3>2
  <2>. QED
    BY <1>1, <1>2, <2>2, <2>3, <2>4, <2>5 DEF StatusInv
<1>5. CASE StatusFails
  BY <1>1, <1>2, <1>5, NoReportType DEF StatusFails, StatusInv
<1>. QED
  BY <1>3, <1>4, <1>5 DEF Status

\* A reconciler's cursor moves up to final blocks.
LEMMA SweepStep ==
    ASSUME MonitorInv, StatusInv, NEW b \in Blocks, SweepSaves(b), UNCHANGED monitorVars
    PROVE  StatusInv'
<1>1. /\ b \in Nat /\ b <= SafeTarget /\ b > swept /\ swept' = b /\ report' = report
      /\ SafeTarget' = SafeTarget /\ cp' = cp
  BY DEF SweepSaves, Blocks, monitorVars, SafeTarget, StatusInv, NoBlock
<1>2. report \in ReportState /\ swept \in Nat \cup {NoBlock}
  BY DEF StatusInv
<1>3. ASSUME NEW r \in Rows, report.rows[r] <= Checkpoints[r]
      PROVE  report.rows[r] <= Checkpoints'[r]
  <2>1. report.rows[r] \in Int
    BY <1>2 DEF ReportState, RowValues, NoBlock
  <2>2. CASE r = "sweep"
    BY <1>1, <1>2, <1>3, <2>1, <2>2 DEF Checkpoints, NoBlock
  <2>3. CASE r # "sweep"
    BY <1>1, <1>3, <2>3 DEF Checkpoints
  <2>. QED
    BY <2>2, <2>3
<1>. QED
  BY <1>1, <1>2, <1>3 DEF StatusInv

---------------------------------------------------------------------------
(***************************************************************************)
(* The deployment.                                                         *)
(***************************************************************************)

\* Only an indexer that is up polls.
PollNeedsIndexer == At("idle") \/ service["indexer"].pc = "up"

IInv == MigrationInv /\ MonitorInv /\ StatusInv /\ PollNeedsIndexer

LEMMA Initial == Init => IInv
  BY MigrationInit_, MonitorInitInv, StatusInitInv, IdleParked
  DEF Init, IInv, PollNeedsIndexer, MonitorInit, At

LEMMA ConfiguredProgress ==
    ASSUME MonitorInv, UNCHANGED <<head, cp>>
    PROVE  Progress
<1>1. SafeTarget \in Nat /\ SafeTarget' = SafeTarget
  BY TargetType DEF MonitorInv, MonitorType, SafeTarget
<1>. QED
  BY <1>1 DEF Progress, MonitorInv, MonitorType, NoBlock

\* The variables of a part decide its invariant.
LEMMA MigrationAside ==
    ASSUME MigrationInv, UNCHANGED migrationVars
    PROVE  MigrationInv' /\ service' = service
  BY DEF MigrationInv, MigrationType, MigratedOnce, migrationVars

LEMMA MonitorAside ==
    ASSUME MonitorInv, UNCHANGED monitorVars
    PROVE  MonitorInv' /\ monitor' = monitor
  BY DEF MonitorInv, MonitorType, CheckpointsCover, CheckpointsFinal, InPoll, InBatch, InSave,
         At, Stream, Batch, To, SafeTarget, monitorVars

\* A crash: what the indexer or the API held in memory is gone.
LEMMA ForgetStep ==
    ASSUME MonitorInv, StatusInv, NEW p \in Services, Forget(p)
    PROVE  MonitorInv' /\ StatusInv' /\ monitor' \in {monitor, Idle}
           /\ (p = "indexer" => monitor' = Idle)
<1>1. /\ monitor' = (IF p = "indexer" THEN Idle ELSE monitor)
      /\ report' = (IF p = "api" THEN NoReport ELSE report)
      /\ UNCHANGED <<head, unindexable, cp, fresh, tool, clears, faults, swept>>
  BY DEF Forget
<1>2. SafeTarget' = SafeTarget /\ Checkpoints' = Checkpoints
  BY <1>1 DEF SafeTarget, Checkpoints
<1>3. CASE p = "indexer"
  <2>1. monitor' = Idle
    BY <1>1, <1>3
  <2>2. MonitorType' /\ CheckpointsCover' /\ CheckpointsFinal' /\ InPoll(monitor)'
    BY <1>1, <1>2, <2>1, IdleParked
    DEF MonitorInv, MonitorType, CheckpointsCover, CheckpointsFinal, InPoll
  <2>3. MonitorInv'
    BY <2>1, <2>2, IdleParked, Parked
  <2>4. report' = report
    BY <1>1, <1>3
  <2>5. StatusInv'
    BY <1>1, <1>2, <2>4 DEF StatusInv
  <2>. QED
    BY <2>1, <2>3, <2>5
<1>4. CASE p # "indexer"
  <2>1. UNCHANGED monitorVars
    BY <1>1, <1>4 DEF monitorVars
  <2>2. MonitorInv' /\ monitor' = monitor
    BY <2>1, MonitorAside
  <2>3. StatusInv'
    BY <1>1, <1>2, NoReportType DEF StatusInv
  <2>. QED
    BY <1>4, <2>2, <2>3
<1>. QED
  BY <1>3, <1>4

LEMMA ToolStep ==
    ASSUME MonitorInv, StatusInv, NEW statement \in {"payroll", "token"}, RunTool(statement)
    PROVE  MonitorInv' /\ StatusInv' /\ monitor' = monitor
<1>1. /\ MonitorInv' /\ SafeTarget' = SafeTarget
      /\ monitor' = monitor /\ swept' = swept
      /\ report' = [report EXCEPT !.cleared = @ \/ (report.pc = "listed" /\ cp' # cp)]
  BY ClearStep DEF RunTool, ClearStatement
<1>2. report \in ReportState
  BY DEF StatusInv
<1> DEFINE cleared == report.cleared \/ (report.pc = "listed" /\ cp' # cp)
<1>3. cleared \in BOOLEAN
  BY <1>2 DEF ReportState
<1>4. report' = [pc |-> report.pc, rows |-> report.rows, latest |-> report.latest,
                 cleared |-> cleared]
  BY <1>1, <1>2 DEF ReportState
<1>5. report' \in ReportState
  BY <1>2, <1>3, <1>4 DEF ReportState
<1>6. report'.pc = "listed" /\ ~ report'.cleared => Checkpoints' = Checkpoints /\ ~ report.cleared
  BY <1>1, <1>4 DEF Checkpoints
<1>7. report'.pc = "listed" /\ ~ report'.cleared =>
          \A r \in Rows : report'.rows[r] <= Checkpoints'[r]
  BY <1>4, <1>6 DEF StatusInv
<1>8. report'.pc = "done" /\ ~ report'.cleared => ~ report.cleared
  BY <1>4
<1>. QED
  BY <1>1, <1>4, <1>5, <1>7, <1>8 DEF StatusInv

LEMMA Inductive == IInv /\ [Next]_vars => IInv'
<1> SUFFICES ASSUME IInv, [Next]_vars PROVE IInv'
  OBVIOUS
<1>0. MigrationInv /\ MonitorInv /\ StatusInv /\ PollNeedsIndexer
  BY DEF IInv
<1>1. ASSUME NEW p \in Services, Migrate(p), UNCHANGED <<monitorVars, statusVars>>
      PROVE  IInv'
  <2>1. MigrationInv' /\ MonitorInv' /\ monitor' = monitor
    BY <1>0, <1>1, MigrateStep, MonitorAside
  <2>2. StatusInv'
    BY <1>0, <1>1, <2>1, ConfiguredProgress, StatusAside DEF monitorVars
  <2>3. service[p].pc # "up"
    BY <1>1 DEF Migrate, StartService, CheckVersion, ApplyFile, MigrationFails
  <2>4. p # "indexer" => service'["indexer"] = service["indexer"]
    BY <1>0, <1>1, DeploymentAssumption
    DEF Migrate, StartService, CheckVersion, ApplyFile, MigrationFails, Becomes, MigrationInv,
        MigrationType
  <2>. QED
    BY <1>0, <2>1, <2>2, <2>3, <2>4 DEF IInv, PollNeedsIndexer, At
<1>2. ASSUME NEW p \in Services, Crash(p), Forget(p)
      PROVE  IInv'
  <2>1. MigrationInv'
    BY <1>0, <1>2, MigrateStep
  <2>2. MonitorInv' /\ StatusInv' /\ monitor' \in {monitor, Idle}
        /\ (p = "indexer" => monitor' = Idle)
    BY <1>0, <1>2, ForgetStep
  <2>3. p # "indexer" => service'["indexer"] = service["indexer"]
    BY <1>0, <1>2, DeploymentAssumption DEF Crash, Becomes, MigrationInv, MigrationType
  <2>. QED
    BY <1>0, <2>1, <2>2, <2>3, IdleParked DEF IInv, PollNeedsIndexer, At
<1>3. CASE Mine /\ UNCHANGED <<migrationVars, statusVars>>
  <2>1. monitor' = monitor
    BY <1>3 DEF Mine
  <2>. QED
    BY <1>0, <1>3, <2>1, MineStep, StatusAside, MigrationAside DEF IInv, PollNeedsIndexer, At
<1>4. CASE RunIndexer
  <2>1. service["indexer"].pc = "up" /\ Poll /\ UNCHANGED <<migrationVars, statusVars>>
    BY <1>4 DEF RunIndexer, Up
  <2>. QED
    BY <1>0, <2>1, PollStep, StatusAside, MigrationAside DEF IInv, PollNeedsIndexer
<1>5. CASE RunAPI
  BY <1>0, <1>5, StatusStep, MonitorAside, MigrationAside DEF RunAPI, IInv, PollNeedsIndexer, At
<1>6. ASSUME NEW statement \in {"payroll", "token"}, RunTool(statement)
      PROVE  IInv'
  BY <1>0, <1>6, ToolStep, MigrationAside DEF RunTool, IInv, PollNeedsIndexer, At
<1>7. ASSUME NEW b \in Blocks, SweepSaves(b), UNCHANGED <<migrationVars, monitorVars>>
      PROVE  IInv'
  BY <1>0, <1>7, SweepStep, MonitorAside, MigrationAside DEF IInv, PollNeedsIndexer, At
<1>8. CASE UNCHANGED vars
  <2>1. UNCHANGED migrationVars /\ UNCHANGED monitorVars /\ UNCHANGED statusVars
    BY <1>8 DEF vars
  <2>. QED
    BY <1>0, <2>1, ConfiguredProgress, StatusAside, MonitorAside, MigrationAside
    DEF IInv, PollNeedsIndexer, At, monitorVars
<1>. QED
  BY <1>1, <1>2, <1>3, <1>4, <1>5, <1>6, <1>7, <1>8 DEF Next

LEMMA Invariance == Spec => []IInv
  BY Initial, Inductive, PTL DEF Spec

---------------------------------------------------------------------------
(* Theorems *)

\* The lag the answer gives of a row and its safe block, from the request's invariant.
LEMMA LagBound ==
    ASSUME MonitorInv, StatusInv
    PROVE  LagIsSound /\ \A r \in Listed : ReportedLag(r) \in Nat
<1>1. /\ report \in ReportState /\ Listed \subseteq Rows /\ SafeTarget \in Nat
      /\ \A r \in Rows : report.rows[r] \in Nat \cup {NoBlock}
      /\ report.latest \in Nat
  BY TargetType DEF StatusInv, ReportState, RowValues, Listed, MonitorInv, MonitorType, SafeTarget
<1>2. ASSUME NEW r \in Listed PROVE report.rows[r] \in Nat
  BY <1>1 DEF Listed
<1>3. \A r \in Listed : ReportedLag(r) \in Nat
  BY <1>1, <1>2 DEF ReportedLag, Lag
<1>4. ASSUME report.pc = "done", ~ report.cleared
      PROVE  /\ \A r, t \in Listed : ReportedLag(r) >= report.rows[t] - report.rows[r]
             /\ \A r \in Listed : ReportedLag(r) <= SafeTarget - report.rows[r]
             /\ SafeBlock <= SafeTarget
  <2>1. (\A r \in Rows : report.rows[r] <= report.latest) /\ report.latest <= SafeTarget
    BY <1>4 DEF StatusInv
  <2>2. \A r \in Listed : ReportedLag(r) = report.latest - report.rows[r]
    BY <1>1, <1>2, <2>1 DEF ReportedLag, Lag
  <2>3. \A r, t \in Listed : ReportedLag(r) >= report.rows[t] - report.rows[r]
    BY <1>1, <1>2, <2>1, <2>2
  <2>4. \A r \in Listed : ReportedLag(r) <= SafeTarget - report.rows[r]
    BY <1>1, <1>2, <2>1, <2>2
  <2>5. SafeBlock <= SafeTarget
    BY <1>1, <2>1, MonitorAssumption DEF SafeBlock
  <2>. QED
    BY <2>3, <2>4, <2>5
<1>. QED
  BY <1>3, <1>4 DEF LagIsSound

\* Every reachable state of any number of processes around one database is well typed,
\* and no lag the status answer gives is negative.
THEOREM TypeCorrect == Spec => []TypeOK
<1>1. ASSUME IInv PROVE TypeOK
  <2>1. MigrationType /\ MonitorType /\ \A r \in Listed : ReportedLag(r) \in Nat
    BY <1>1, LagBound DEF IInv, MigrationInv, MonitorInv
  <2>2. /\ service \in [Services -> ServiceState] /\ monitor \in MonitorState
        /\ report \in ReportState /\ swept \in Nat \cup {NoBlock}
    BY <1>1, <2>1 DEF MigrationType, MonitorType, IInv, StatusInv
  <2>. QED
    BY <2>1, <2>2 DEF TypeOK, MigrationType, MonitorType, ServiceState, MonitorState, ReportState,
                     RowValues
<1>. QED
  BY <1>1, Invariance, PTL

\* Any number of processes that migrate at once, die and lose replies execute every file
\* exactly once and in order.
THEOREM MigrationsRunOnce == Spec => []MigratedOnce
<1>1. IInv => MigratedOnce
  BY DEF IInv, MigrationInv
<1>. QED
  BY <1>1, Invariance, PTL

\* The monitor polls only over a complete schema.
THEOREM SchemaBeforeMonitor == Spec => []MonitorNeedsSchema
<1>1. IInv => MonitorNeedsSchema
  BY DEF IInv, PollNeedsIndexer, MigrationInv, MonitorNeedsSchema
<1>. QED
  BY <1>1, Invariance, PTL

\* Whatever fails in whatever stream, and whenever the process dies or the operator clears
\* checkpoints, no unindexed block lies below a checkpoint.
THEOREM CheckpointsHaveNoGap == Spec => []CheckpointsCover
<1>1. IInv => CheckpointsCover
  BY DEF IInv, MonitorInv
<1>. QED
  BY <1>1, Invariance, PTL

\* However the monitor and the reconciler move on between the two queries of a status
\* request, the lags of its answer are sound.
THEOREM StatusLagIsSound == Spec => []LagIsSound
<1>1. IInv => LagIsSound
  BY LagBound DEF IInv
<1>. QED
  BY <1>1, Invariance, PTL

===========================================================================
