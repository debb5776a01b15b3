------------------------- MODULE EscrowIngestProofs -------------------------
(***************************************************************************)
(* Proofs about EscrowIngest for every number of logs, handlers, pollers,  *)
(* blocks, faults and reorganisations.                                     *)
(***************************************************************************)
EXTENDS EscrowIngest, FiniteSets, FiniteSetTheorems, TLAPS

-----------------------------------------------------------------------------
(***************************************************************************)
(* Types.                                                                  *)
(***************************************************************************)

\* A batch that starts at a natural block ends at one.
LEMMA BatchEndIsNat ==
    ASSUME NEW from \in Nat, NEW target \in Nat
    PROVE  BatchEnd(from, BatchSize, target) \in Nat
  BY PollerAssumption DEF BatchEnd

\* Both ways to pick a target yield a block.
LEMMA TargetIsNat ==
    ASSUME NEW latest \in Nat
    PROVE  /\ CalculateSafeTarget(latest, ConfirmationDepth) \in Nat
           /\ BackfillTarget(latest, ConfirmationDepth) \in Nat
  BY ChainAssumption DEF CalculateSafeTarget, BackfillTarget

\* The resume position is a block at or above the start block.
LEMMA ResumeIsNat ==
    ASSUME cp \in Nat \cup {NoBlock}
    PROVE  /\ GetEffectiveStartBlock(cp, StartBlock) \in Nat
           /\ GetEffectiveStartBlock(cp, StartBlock) >= StartBlock
  BY ChainAssumption DEF GetEffectiveStartBlock, NoBlock

\* The state a poller starts a batch in has the type of a poller state.
LEMMA BeginBatchType ==
    ASSUME NEW s \in PollerState, NEW from \in Nat
    PROVE  BeginBatch(s, from) \in PollerState
  BY BatchEndIsNat DEF BeginBatch, PollerState, NoLogs

\* So has a poller at rest.
LEMMA AtRestType == AtRest \in PollerState
<1>1. NoLogs \in [Logs -> Nat \cup {NoBlock}]
  BY DEF NoLogs
<1>. QED
  BY <1>1 DEF AtRest, PollerState

\* So have the states RetryRange may leave it in.
LEMMA AfterFailureType ==
    ASSUME NEW s \in PollerState, NEW s1 \in AfterFailure(s)
    PROVE  s1 \in PollerState
<1>1. NoLogs \in [Logs -> Nat \cup {NoBlock}]
  BY DEF NoLogs
<1>3. [s EXCEPT !.pc = "getlogs", !.attempt = @ + 1, !.logs = NoLogs, !.kept = {}]
         \in PollerState
  <2>1. s.attempt + 1 \in Nat
    BY DEF PollerState
  <2>. QED
    BY <1>1, <2>1 DEF PollerState
<1>. QED
  BY <1>3, AtRestType DEF AfterFailure

\* An upsert of a block yields a row.
LEMMA UpsertType ==
    ASSUME NEW r \in Row, NEW b \in Nat \cup {NoBlock}, NEW rm \in BOOLEAN
    PROVE  Upsert(r, b, rm) \in Row
  BY DEF Upsert, Row

LEMMA InitType == Init => TypeOK
  BY ChainAssumption
     DEF Init, WorldInit, HookInit, PollInit, TypeOK, WorldTypeOK, HookTypeOK,
         PollTypeOK, Blocks, Row, NoRow, PollerState, AtRest, NoLogs, Idle, NoBlock

LEMMA WorldType ==
    ASSUME TypeOK, WorldNext, UNCHANGED <<hookVars, pollVars>>
    PROVE  TypeOK'
<1> USE ChainAssumption DEF TypeOK, WorldTypeOK
<1>1. HookTypeOK' /\ PollTypeOK'
  BY DEF hookVars, pollVars, HookTypeOK, PollTypeOK
<1>2. ASSUME NEW S \in SUBSET Logs, Mine(S)
      PROVE  WorldTypeOK'
  <2>1. head' \in Blocks /\ head + 1 \in Nat
    BY <1>2 DEF Mine, Blocks
  <2>2. where' \in [Logs -> Nat \cup {NoBlock}]
    BY <1>2, <2>1 DEF Mine
  <2>3. [log : S, blk : {head + 1}, removed : {FALSE}] \subseteq Note
    BY <2>1 DEF Note
  <2>. QED
    BY <1>2, <2>1, <2>2, <2>3 DEF Mine, storeVars
<1>3. ASSUME NEW d \in 1 .. MaxReorgDepth, Reorg(d)
      PROVE  WorldTypeOK'
  <2> DEFINE victims == {l \in Logs : where[l] > head - d}
             replacing == {NoBlock} \cup (head - d + 1) .. head
  <2>1. PICK f \in [victims -> replacing] :
          /\ where' = [l \in Logs |-> IF l \in victims THEN f[l] ELSE where[l]]
          /\ sent' = sent
               \cup {[log |-> l, blk |-> where[l], removed |-> TRUE] : l \in victims}
               \cup {[log |-> l, blk |-> f[l], removed |-> FALSE] :
                         l \in {v \in victims : f[v] # NoBlock}}
    BY <1>3 DEF Reorg
  <2>2. head \in Nat /\ d \in Nat /\ d <= head /\ replacing \subseteq Nat \cup {NoBlock}
    BY <1>3 DEF Reorg, Blocks
  <2>3. where' \in [Logs -> Nat \cup {NoBlock}]
    BY <2>1, <2>2
  <2>4. \A l \in victims : where[l] \in Nat
    BY <2>2 DEF NoBlock
  <2>5. sent' \subseteq Note
    <3>1. \A l \in victims : [log |-> l, blk |-> where[l], removed |-> TRUE] \in Note
      BY <2>4 DEF Note
    <3>2. \A l \in victims : f[l] # NoBlock => f[l] \in Nat
      BY <2>1, <2>2
    <3>3. \A l \in victims :
             f[l] # NoBlock => [log |-> l, blk |-> f[l], removed |-> FALSE] \in Note
      BY <3>2 DEF Note
    <3>. QED
      BY <2>1, <3>1, <3>3
  <2>. QED
    BY <1>3, <2>3, <2>5 DEF Reorg, storeVars
<1>4. ASSUME NEW l \in Logs, KeyExpires(l)
      PROVE  WorldTypeOK'
  BY <1>4 DEF KeyExpires, chainVars, storeVars
<1>. QED
  BY <1>1, <1>2, <1>3, <1>4 DEF WorldNext

LEMMA HookType ==
    ASSUME TypeOK, HookNext, UNCHANGED pollVars
    PROVE  TypeOK'
<1> DEFINE Busy == [pc : {"save", "publish", "respond"}, note : Note]
<1> USE DEF TypeOK
<1>1. PollTypeOK'
  BY DEF pollVars, PollTypeOK
<1>2. \A h \in Handlers : hook[h].pc # "idle" => hook[h] \in Busy
  BY DEF HookTypeOK, Idle
<1>3. ASSUME Fault PROVE faults' \in 0 .. MaxFaults
  BY <1>3, ChainAssumption DEF Fault, WorldTypeOK
<1>4. ASSUME NEW h \in Handlers, NEW n \in Note,
             NEW pc \in {"save", "publish", "respond"}, Goto(h, pc, n)
      PROVE  hook' \in [Handlers -> {Idle} \cup Busy]
  BY <1>4 DEF Goto, HookTypeOK
<1>5. ASSUME NEW h \in Handlers, NEW n \in sent,
             ClaimKey(h, n) \/ SkipDuplicate(h, n) \/ DropUnverified(h, n)
      PROVE  WorldTypeOK' /\ HookTypeOK'
  <2>1. n \in Note /\ n.log \in Logs
    BY DEF WorldTypeOK, Note
  <2>2. hook' \in [Handlers -> {Idle} \cup Busy]
    BY <1>5, <1>4, <2>1 DEF ClaimKey, SkipDuplicate, DropUnverified
  <2>3. dedupe' \subseteq Logs /\ faults' \in 0 .. MaxFaults
    BY <1>5, <1>3, <2>1 DEF ClaimKey, SkipDuplicate, DropUnverified, WorldTypeOK, worldVars
  <2>. QED
    BY <1>5, <2>2, <2>3 DEF ClaimKey, SkipDuplicate, DropUnverified, WorldTypeOK,
       HookTypeOK, worldVars, chainVars, storeVars
<1>6. ASSUME NEW h \in Handlers, SaveEscrowEvent(h)
      PROVE  WorldTypeOK' /\ HookTypeOK'
  <2> DEFINE n == hook[h].note
  <2>1. n \in Note /\ n.log \in Logs /\ n.blk \in Nat /\ n.removed \in BOOLEAN
    BY <1>6, <1>2 DEF SaveEscrowEvent, Note
  <2>2. hook' \in [Handlers -> {Idle} \cup Busy]
    BY <1>6, <1>4, <2>1 DEF SaveEscrowEvent
  <2>3. Upsert(row[n.log], n.blk, n.removed) \in Row
    BY <2>1, UpsertType DEF WorldTypeOK
  <2>4. row' \in [Logs -> Row] /\ faults' \in 0 .. MaxFaults
    BY <1>6, <1>3, <2>1, <2>3 DEF SaveEscrowEvent, WorldTypeOK
  <2>. QED
    BY <1>6, <2>2, <2>4 DEF SaveEscrowEvent, WorldTypeOK, HookTypeOK, chainVars
<1>7. ASSUME NEW h \in Handlers, PublishHook(h)
      PROVE  WorldTypeOK' /\ HookTypeOK'
  <2>1. hook[h].note \in Note /\ hook[h].note.log \in Logs
    BY <1>7, <1>2 DEF PublishHook, Note
  <2>2. hook' \in [Handlers -> {Idle} \cup Busy]
    BY <1>7, <1>4, <2>1 DEF PublishHook
  <2>3. hookPub' \in [Logs -> Nat] /\ faults' \in 0 .. MaxFaults
    BY <1>7, <1>3, <2>1 DEF PublishHook, HookTypeOK, WorldTypeOK
  <2>. QED
    BY <1>7, <2>2, <2>3 DEF PublishHook, WorldTypeOK, HookTypeOK, chainVars, storeVars
<1>8. ASSUME NEW h \in Handlers, Respond(h)
      PROVE  WorldTypeOK' /\ HookTypeOK'
  BY <1>8 DEF Respond, WorldTypeOK, HookTypeOK, worldVars, chainVars, storeVars
<1>9. ASSUME CrashApi
      PROVE  WorldTypeOK' /\ HookTypeOK'
  BY <1>9, <1>3 DEF CrashApi, WorldTypeOK, HookTypeOK, chainVars, storeVars
<1>. QED
  BY <1>1, <1>5, <1>6, <1>7, <1>8, <1>9 DEF HookNext

LEMMA PollType ==
    ASSUME TypeOK, PollNext, UNCHANGED hookVars
    PROVE  TypeOK'
<1> USE DEF TypeOK
<1>1. HookTypeOK'
  BY DEF hookVars, HookTypeOK
<1>2. ASSUME Fault PROVE faults' \in 0 .. MaxFaults
  BY <1>2, ChainAssumption DEF Fault, WorldTypeOK
<1>3. ASSUME NEW p \in Pollers, NEW s1 \in PollerState, poller' = [poller EXCEPT ![p] = s1]
      PROVE  poller' \in [Pollers -> PollerState]
  BY <1>3 DEF PollTypeOK
<1>4. ASSUME NEW p \in Pollers, PollOnce(p)
      PROVE  WorldTypeOK' /\ PollTypeOK'
  <2> DEFINE target == IF p \in Monitors
                       THEN CalculateSafeTarget(head, ConfirmationDepth)
                       ELSE BackfillTarget(head, ConfirmationDepth)
             s1 == [poller[p] EXCEPT !.pc = "resolve", !.safe = target]
  <2>1. target \in Nat
    BY TargetIsNat DEF WorldTypeOK, Blocks
  <2>2. s1 \in PollerState
    BY <2>1 DEF PollTypeOK, PollerState
  <2>3. poller' = [poller EXCEPT ![p] = s1]
    BY <1>4 DEF PollOnce
  <2>4. poller' \in [Pollers -> PollerState]
    BY <1>3, <2>2, <2>3
  <2>. QED
    BY <1>4, <2>4 DEF PollOnce, worldVars, chainVars, storeVars, WorldTypeOK, PollTypeOK
<1>5. ASSUME NEW p \in Pollers, PollEscrow(p)
      PROVE  WorldTypeOK' /\ PollTypeOK'
  <2> DEFINE from == GetEffectiveStartBlock(cp, StartBlock)
             s1 == IF from > poller[p].safe THEN AtRest ELSE BeginBatch(poller[p], from)
  <2>1. from \in Nat
    BY ResumeIsNat DEF WorldTypeOK
  <2>2. s1 \in PollerState
    BY <2>1, BeginBatchType, AtRestType DEF PollTypeOK
  <2>3. poller' = [poller EXCEPT ![p] = s1]
    BY <1>5 DEF PollEscrow
  <2>4. poller' \in [Pollers -> PollerState]
    BY <1>3, <2>2, <2>3
  <2>. QED
    BY <1>5, <2>4 DEF PollEscrow, worldVars, chainVars, storeVars, WorldTypeOK, PollTypeOK
<1>6. ASSUME NEW p \in Pollers, GetLogs(p)
      PROVE  WorldTypeOK' /\ PollTypeOK'
  <2> DEFINE answer == [l \in Logs |-> IF where[l] \in poller[p].from .. poller[p].to
                                       THEN where[l] ELSE NoBlock]
             s1 == [poller[p] EXCEPT !.pc = "decode", !.logs = answer]
  <2>1. answer \in [Logs -> Nat \cup {NoBlock}]
    BY DEF WorldTypeOK
  <2>2. s1 \in PollerState
    BY <2>1 DEF PollTypeOK, PollerState
  <2>3. poller' = [poller EXCEPT ![p] = s1]
    BY <1>6 DEF GetLogs
  <2>4. poller' \in [Pollers -> PollerState]
    BY <1>3, <2>2, <2>3
  <2>. QED
    BY <1>6, <2>4 DEF GetLogs, worldVars, chainVars, storeVars, WorldTypeOK, PollTypeOK
<1>7. ASSUME NEW p \in Pollers, ProcessLogs(p)
      PROVE  WorldTypeOK' /\ PollTypeOK'
  <2>1. faults' \in 0 .. MaxFaults
    BY <1>7, <1>2 DEF ProcessLogs, WorldTypeOK
  <2>2. poller' \in [Pollers -> PollerState]
    <3>1. PICK kept \in SUBSET Returned(poller[p]) :
             poller' = [poller EXCEPT ![p].pc = "save", ![p].kept = kept]
      BY <1>7 DEF ProcessLogs
    <3>2. [poller[p] EXCEPT !.pc = "save", !.kept = kept] \in PollerState
      BY DEF Returned, PollTypeOK, PollerState
    <3>. QED
      BY <1>3, <3>1, <3>2
  <2>. QED
    BY <1>7, <2>1, <2>2 DEF ProcessLogs, chainVars, storeVars, WorldTypeOK, PollTypeOK
<1>8. ASSUME NEW p \in Pollers, SaveEscrowBatch(p)
      PROVE  WorldTypeOK' /\ PollTypeOK'
  <2> DEFINE s == poller[p]
  <2>1. s \in PollerState /\ s.kept \subseteq Logs /\ s.to \in Nat
    BY DEF PollTypeOK, PollerState
  <2>2. poller' \in [Pollers -> PollerState] /\ faults' \in 0 .. MaxFaults
    BY <1>8, <1>2, <1>3, <2>1, AfterFailureType
       DEF SaveEscrowBatch, PollTypeOK, PollerState, WorldTypeOK
  <2>3. row' \in [Logs -> Row]
    <3>1. \A l \in Logs : s.logs[l] \in Nat \cup {NoBlock} /\ row[l] \in Row
      BY DEF PollTypeOK, PollerState, WorldTypeOK
    <3>2. \A l \in Logs : Upsert(row[l], s.logs[l], FALSE) \in Row
      BY <3>1, UpsertType
    <3>. QED
      BY <1>8, <3>1, <3>2 DEF SaveEscrowBatch, RowsAfter
  <2>4. cp' \in Nat \cup {NoBlock}
    BY <1>8, <2>1 DEF SaveEscrowBatch, CheckpointAfter, WorldTypeOK
  <2>5. skipped' \subseteq Logs
    BY <1>8 DEF SaveEscrowBatch, Returned, WorldTypeOK
  <2>. QED
    BY <1>8, <2>2, <2>3, <2>4, <2>5 DEF SaveEscrowBatch, chainVars, WorldTypeOK, PollTypeOK
<1>9. ASSUME NEW p \in Pollers, PublishEvent(p)
      PROVE  WorldTypeOK' /\ PollTypeOK'
  <2>1. faults' \in 0 .. MaxFaults
    BY <1>9, <1>2 DEF PublishEvent, WorldTypeOK
  <2>2. poller[p].kept \subseteq Logs
    BY DEF PollTypeOK, PollerState
  <2>3. pollPub' \subseteq Logs
    BY <1>9, <2>2 DEF PublishEvent, PollTypeOK
  <2>4. poller' \in [Pollers -> PollerState]
    BY <1>9 DEF PublishEvent, PollTypeOK, PollerState
  <2>. QED
    BY <1>9, <2>1, <2>3, <2>4 DEF PublishEvent, chainVars, storeVars, WorldTypeOK, PollTypeOK
<1>10. ASSUME NEW p \in Pollers, NextBatch(p)
       PROVE  WorldTypeOK' /\ PollTypeOK'
  <2> DEFINE s == [poller[p] EXCEPT !.batches = @ + 1]
  <2>1. s \in PollerState /\ s.to + 1 \in Nat
    BY DEF PollTypeOK, PollerState
  <2>2. BeginBatch(s, s.to + 1) \in PollerState
    BY <2>1, BeginBatchType
  <2>3. poller' \in [Pollers -> PollerState]
    BY <1>10, <1>3, <2>2, AtRestType DEF NextBatch
  <2>. QED
    BY <1>10, <2>3 DEF NextBatch, worldVars, chainVars, storeVars, WorldTypeOK, PollTypeOK
<1>11. ASSUME NEW p \in Pollers, AttemptFails(p)
       PROVE  WorldTypeOK' /\ PollTypeOK'
  <2>1. poller[p] \in PollerState
    BY DEF PollTypeOK
  <2>2. poller' \in [Pollers -> PollerState] /\ faults' \in 0 .. MaxFaults
    BY <1>11, <1>2, <1>3, <2>1, AfterFailureType DEF AttemptFails
  <2>. QED
    BY <1>11, <2>2 DEF AttemptFails, chainVars, storeVars, WorldTypeOK, PollTypeOK
<1>12. ASSUME NEW p \in Pollers, CrashPoller(p)
       PROVE  WorldTypeOK' /\ PollTypeOK'
  BY <1>12, <1>2, <1>3, AtRestType DEF CrashPoller, chainVars, storeVars, WorldTypeOK, PollTypeOK
<1>. QED
  BY <1>1, <1>4, <1>5, <1>6, <1>7, <1>8, <1>9, <1>10, <1>11, <1>12 DEF PollNext, PollStep

\* Every reachable state is well typed (all of both ingestion paths).
THEOREM TypeCorrect == Spec => []TypeOK
<1>1. TypeOK /\ [Next]_vars => TypeOK'
  <2> SUFFICES ASSUME TypeOK, [Next]_vars PROVE TypeOK'
    OBVIOUS
  <2>1. CASE UNCHANGED vars
    BY <2>1 DEF vars, worldVars, chainVars, storeVars, hookVars, pollVars,
       TypeOK, WorldTypeOK, HookTypeOK, PollTypeOK
  <2>. QED
    BY <2>1, WorldType, HookType, PollType DEF Next
<1>. QED
  BY InitType, <1>1, PTL DEF Spec

-----------------------------------------------------------------------------
(***************************************************************************)
(* The pollers' invariant.  It rests on one fact about the chain: a block  *)
(* that is final now stays final and keeps its logs.                       *)
(***************************************************************************)

\* What a deployment's pollers take for their target is final.
LEMMA TargetIsFinal ==
    ASSUME SafeDeployment, TypeOK
    PROVE  /\ Final(CalculateSafeTarget(head, ConfirmationDepth))
           /\ Backfills # {} => Final(BackfillTarget(head, ConfirmationDepth))
  BY ChainAssumption
     DEF SafeDeployment, Final, CalculateSafeTarget, BackfillTarget, TypeOK, WorldTypeOK, Blocks

\* A final block stays final, and no log enters or leaves the blocks up to it.
LEMMA FinalStable ==
    ASSUME SafeDeployment, TypeOK, ChainInv, WorldNext, NEW b \in Nat, Final(b)
    PROVE  /\ Final(b)'
           /\ \A l \in Logs :
                 (where[l] \in 0 .. b \/ where'[l] \in 0 .. b) => where'[l] = where[l]
<1> USE ChainAssumption DEF TypeOK, WorldTypeOK, Final, NoBlock
<1>1. ASSUME NEW S \in SUBSET Logs, Mine(S)
      PROVE  /\ Final(b)'
             /\ \A l \in Logs :
                   (where[l] \in 0 .. b \/ where'[l] \in 0 .. b) => where'[l] = where[l]
  BY <1>1 DEF Mine, Blocks
<1>2. ASSUME NEW d \in 1 .. MaxReorgDepth, Reorg(d)
      PROVE  /\ Final(b)'
             /\ \A l \in Logs :
                   (where[l] \in 0 .. b \/ where'[l] \in 0 .. b) => where'[l] = where[l]
  <2> DEFINE victims == {l \in Logs : where[l] > head - d}
             replacing == {NoBlock} \cup (head - d + 1) .. head
  <2>1. PICK f \in [victims -> replacing] :
            where' = [l \in Logs |-> IF l \in victims THEN f[l] ELSE where[l]]
    BY <1>2 DEF Reorg
  <2>2. head \in Nat /\ head' = head /\ d \in Nat /\ d <= head /\ b <= head - d
    BY <1>2 DEF Reorg, SafeDeployment, Blocks
  <2>3. \A l \in victims : f[l] = NoBlock \/ f[l] > b
    BY <2>1, <2>2
  <2>4. \A l \in victims : where[l] > b
    BY <2>2
  <2>. QED
    BY <2>1, <2>2, <2>3, <2>4
<1>3. ASSUME NEW l \in Logs, KeyExpires(l)
      PROVE  head' = head /\ where' = where
  BY <1>3 DEF KeyExpires, chainVars
<1>. QED
  BY <1>1, <1>2, <1>3 DEF WorldNext

\* Mining and reorganising keep logs on mined blocks, announced.
LEMMA ChainInvStable ==
    ASSUME TypeOK, ChainInv, WorldNext
    PROVE  ChainInv'
<1> USE ChainAssumption DEF TypeOK, WorldTypeOK, ChainInv, NoBlock
<1>1. ASSUME NEW S \in SUBSET Logs, Mine(S) PROVE ChainInv'
  <2> SUFFICES ASSUME NEW l \in Logs, where'[l] # NoBlock
               PROVE  where'[l] \in 1 .. head' /\ \E n \in sent' : n.log = l /\ n.blk = where'[l]
    OBVIOUS
  <2>1. CASE l \in S
    <3>1. where'[l] = head + 1 /\ head' = head + 1 /\ head \in Nat
      BY <1>1, <2>1 DEF Mine, Blocks
    <3>2. [log |-> l, blk |-> head + 1, removed |-> FALSE] \in sent'
      BY <1>1, <2>1 DEF Mine
    <3>. QED
      BY <3>1, <3>2
  <2>2. CASE l \notin S
    <3>1. where'[l] = where[l] /\ head' = head + 1 /\ head \in Nat
      BY <1>1, <2>2 DEF Mine, Blocks
    <3>2. sent \subseteq sent'
      BY <1>1 DEF Mine
    <3>. QED
      BY <3>1, <3>2
  <2>. QED
    BY <2>1, <2>2
<1>2. ASSUME NEW d \in 1 .. MaxReorgDepth, Reorg(d) PROVE ChainInv'
  <2> DEFINE victims == {l \in Logs : where[l] > head - d}
             replacing == {NoBlock} \cup (head - d + 1) .. head
  <2>1. PICK f \in [victims -> replacing] :
          /\ where' = [l \in Logs |-> IF l \in victims THEN f[l] ELSE where[l]]
          /\ sent' = sent
               \cup {[log |-> l, blk |-> where[l], removed |-> TRUE] : l \in victims}
               \cup {[log |-> l, blk |-> f[l], removed |-> FALSE] :
                         l \in {v \in victims : f[v] # NoBlock}}
    BY <1>2 DEF Reorg
  <2>2. head \in Nat /\ head' = head /\ d \in Nat /\ d <= head /\ d > 0
    BY <1>2 DEF Reorg, Blocks
  <2> SUFFICES ASSUME NEW l \in Logs, where'[l] # NoBlock
               PROVE  where'[l] \in 1 .. head' /\ \E n \in sent' : n.log = l /\ n.blk = where'[l]
    OBVIOUS
  <2>3. CASE l \in victims
    <3>1. where'[l] = f[l] /\ f[l] \in (head - d + 1) .. head
      BY <2>1, <2>3
    <3>2. [log |-> l, blk |-> f[l], removed |-> FALSE] \in sent'
      BY <2>1, <2>3, <3>1
    <3>. QED
      BY <2>2, <3>1, <3>2
  <2>4. CASE l \notin victims
    BY <2>1, <2>2, <2>4
  <2>. QED
    BY <2>3, <2>4
<1>3. ASSUME NEW l \in Logs, KeyExpires(l) PROVE ChainInv'
  BY <1>3 DEF KeyExpires, chainVars
<1>. QED
  BY <1>1, <1>2, <1>3 DEF WorldNext

\* The chain and the push service disturb no poller.
LEMMA WorldKeepsPollers ==
    ASSUME SafeDeployment, TypeOK, PollersInv, WorldNext, UNCHANGED <<hookVars, pollVars>>
    PROVE  PollersInv'
<1>1. UNCHANGED <<row, cp, skipped, poller, pollPub>>
  BY DEF WorldNext, Mine, Reorg, KeyExpires, storeVars, pollVars
<1>2. ChainInv /\ ChainInv'
  BY ChainInvStable DEF PollersInv
<1>3. ASSUME NEW b \in Nat, Final(b)
      PROVE  /\ Final(b)'
             /\ \A l \in Logs :
                   (where[l] \in 0 .. b \/ where'[l] \in 0 .. b) => where'[l] = where[l]
  BY <1>2, <1>3, FinalStable
<1>4. ASSUME NEW c \in Nat, Final(c), NEW b \in Int, b <= c, Covered(b)
      PROVE  Covered(b)'
  <2> SUFFICES ASSUME NEW l \in Logs, where'[l] \in StartBlock .. b
               PROVE  (Stored(l) \/ l \in skipped)'
    BY DEF Covered
  <2>1. where'[l] = where[l]
    BY <1>3, <1>4, ChainAssumption
  <2>. QED
    BY <1>1, <1>4, <2>1 DEF Covered, Stored
<1>5. (cp # NoBlock => Final(cp))' /\ CheckpointCovers'
  <2>1. CASE cp = NoBlock
    BY <1>1, <2>1, ChainAssumption DEF CheckpointCovers, Covered, NoBlock
  <2>2. CASE cp # NoBlock
    <3>1. cp \in Nat /\ Final(cp) /\ Covered(cp)
      BY <2>2 DEF PollersInv, CheckpointCovers, TypeOK, WorldTypeOK
    <3>2. Final(cp)' /\ Covered(cp)'
      BY <1>1, <1>3, <1>4, <3>1 DEF Final, Covered
    <3>. QED
      BY <3>2 DEF CheckpointCovers
  <2>. QED
    BY <2>1, <2>2
<1>6. PollerAnnouncesFinal'
  <2> SUFFICES ASSUME NEW l \in pollPub
               PROVE  Stored(l)' /\ where'[l] # NoBlock /\ (Final(where[l]))'
    BY <1>1 DEF PollerAnnouncesFinal
  <2>1. l \in Logs /\ Stored(l) /\ where[l] \in Nat /\ where[l] # NoBlock /\ Final(where[l])
    BY DEF PollersInv, PollerAnnouncesFinal, TypeOK, WorldTypeOK, PollTypeOK
  <2>2. where'[l] = where[l] /\ Final(where[l])'
    BY <1>3, <2>1 DEF Final
  <2>. QED
    BY <1>1, <2>1, <2>2 DEF Stored, Final
<1>7. ASSUME NEW s \in PollerState, PollerInv(s)
      PROVE  PollerInv(s)'
  <2>1. s.safe \in Nat /\ s.from \in Nat /\ s.to \in Nat
    BY DEF PollerState
  <2>2. s.pc # "idle" => Final(s.safe) /\ Final(s.safe)'
    BY <1>3, <1>7, <2>1 DEF PollerInv
  <2>3. InBatch(s) => Covered(s.from - 1)'
    BY <1>4, <1>7, <2>1, <2>2 DEF PollerInv, InBatch
  <2>4. ASSUME s.pc \in {"decode", "save", "publish"}, NEW l \in Logs
        PROVE  (where[l] \in s.from .. s.to \/ where'[l] \in s.from .. s.to)
                  => where'[l] = where[l]
    <3>1. Final(s.safe) /\ s.to <= s.safe
      BY <1>7, <2>4 DEF PollerInv, InBatch
    <3>. QED
      BY <1>3, <2>1, <3>1
  <2>5. s.pc = "publish" => Covered(s.to)'
    BY <1>4, <1>7, <2>1, <2>2 DEF PollerInv, InBatch
  <2>. QED
    BY <1>1, <1>7, <2>2, <2>3, <2>4, <2>5 DEF PollerInv, InBatch, Stored, Returned
<1>8. \A p \in Pollers : PollerInv(poller[p])'
  BY <1>1, <1>7 DEF PollersInv, TypeOK, PollTypeOK, PollerInv, InBatch, Final, Covered, Stored, Returned
<1>. QED
  BY <1>2, <1>5, <1>6, <1>8, <1>1 DEF PollersInv

\* On an unchanged chain, storing more logs takes nothing from any poller.
LEMMA StoringKeeps ==
    ASSUME UNCHANGED <<head, where>>,
           \A l \in Logs : Stored(l) => Stored(l)',
           \A l \in skipped : (Stored(l) \/ l \in skipped)'
    PROVE  /\ \A b \in Int : Covered(b) => Covered(b)'
           /\ \A s \in PollerState : PollerInv(s) => PollerInv(s)'
<1>1. \A b : Covered(b) => Covered(b)'
  BY DEF Covered
<1>2. ASSUME NEW s \in PollerState, PollerInv(s) PROVE PollerInv(s)'
  <2>1. s.kept \subseteq Logs
    BY DEF PollerState
  <2>. QED
    BY <1>1, <1>2, <2>1 DEF PollerInv, InBatch, Final, Returned
<1>. QED
  BY <1>1, <1>2

\* A handler only ever adds rows.
LEMMA HookStores ==
    ASSUME TypeOK, HookNext
    PROVE  \A l \in Logs : Stored(l) => Stored(l)'
<1>1. CASE \E h \in Handlers : SaveEscrowEvent(h)
  <2>1. PICK h \in Handlers : SaveEscrowEvent(h)
    BY <1>1
  <2>2. hook[h].note.blk \in Nat
    BY <2>1 DEF SaveEscrowEvent, TypeOK, HookTypeOK, Idle, Note
  <2>. QED
    BY <2>1, <2>2 DEF SaveEscrowEvent, Stored, Upsert, TypeOK, WorldTypeOK, NoBlock
<1>2. CASE UNCHANGED row
  BY <1>2 DEF Stored
<1>. QED
  BY <1>1, <1>2 DEF HookNext, ClaimKey, SkipDuplicate, DropUnverified, PublishHook,
     Respond, CrashApi, worldVars, storeVars

\* So no handler disturbs a poller.
LEMMA HookKeepsPollers ==
    ASSUME TypeOK, TypeOK', PollersInv, HookNext, UNCHANGED pollVars
    PROVE  PollersInv'
<1>1. UNCHANGED <<head, where, sent, cp, skipped, poller, pollPub>>
  BY DEF HookNext, ClaimKey, SkipDuplicate, DropUnverified, SaveEscrowEvent, PublishHook,
     Respond, CrashApi, worldVars, chainVars, storeVars, pollVars
<1>2. \A l \in Logs : Stored(l) => Stored(l)'
  BY HookStores
<1>3. /\ \A b \in Int : Covered(b) => Covered(b)'
      /\ \A s \in PollerState : PollerInv(s) => PollerInv(s)'
  BY <1>1, <1>2, StoringKeeps
<1>4. CheckpointCovers'
  BY <1>1, <1>3 DEF PollersInv, CheckpointCovers, Covered, TypeOK, WorldTypeOK, NoBlock
<1>5. PollerAnnouncesFinal' /\ ChainInv' /\ (cp # NoBlock => Final(cp))'
  BY <1>1, <1>2 DEF PollersInv, PollerAnnouncesFinal, ChainInv, Final, TypeOK, PollTypeOK
<1>6. \A p \in Pollers : PollerInv(poller[p])'
  BY <1>1, <1>3 DEF PollersInv, TypeOK, PollTypeOK, PollerInv, InBatch, Final, Covered,
     Stored, Returned
<1>. QED
  BY <1>4, <1>5, <1>6 DEF PollersInv

\* When one poller moves to a state that has the invariant, all pollers have it.
LEMMA OnePollerMoves ==
    ASSUME TypeOK, PollersInv, NEW p \in Pollers, NEW s1,
           poller' = [poller EXCEPT ![p] = s1], PollerInv(s1)',
           \A s \in PollerState : PollerInv(s) => PollerInv(s)'
    PROVE  \A q \in Pollers : PollerInv(poller[q])'
<1> SUFFICES ASSUME NEW q \in Pollers PROVE PollerInv(poller[q])'
  OBVIOUS
<1>1. PICK s \in PollerState : s = poller[q] /\ PollerInv(s)'
  BY DEF PollersInv, TypeOK, PollTypeOK
<1>2. poller'[q] = IF q = p THEN s1 ELSE s
  BY <1>1 DEF TypeOK, PollTypeOK
<1>. QED
  BY <1>1, <1>2 DEF PollerInv, InBatch, Final, Covered, Stored, Returned

\* A batch that starts at a covered position within a final target.
LEMMA BeginBatchInv ==
    ASSUME NEW s \in PollerState, NEW from \in Nat,
           Final(s.safe), StartBlock <= from, from <= s.safe, Covered(from - 1)
    PROVE  PollerInv(BeginBatch(s, from))
<1> DEFINE s1 == BeginBatch(s, from)
<1>1. /\ s1.pc = "getlogs" /\ s1.safe = s.safe /\ s1.from = from
      /\ s1.to = BatchEnd(from, BatchSize, s.safe)
  BY DEF BeginBatch, PollerState
<1>2. s1.from <= s1.to /\ s1.to <= s1.safe
  BY <1>1, PollerAssumption DEF BatchEnd, PollerState
<1>. QED
  BY <1>1, <1>2 DEF PollerInv, InBatch

\* A failed attempt leaves the range, and with it the invariant, as it was.
LEMMA AfterFailureInv ==
    ASSUME NEW s \in PollerState, PollerInv(s), InBatch(s), NEW s1 \in AfterFailure(s)
    PROVE  PollerInv(s1)
<1>1. CASE s1 = AtRest
  BY <1>1 DEF AtRest, PollerInv, InBatch
<1>2. CASE s1 = [s EXCEPT !.pc = "getlogs", !.attempt = @ + 1, !.logs = NoLogs, !.kept = {}]
  <2>1. s1.pc = "getlogs" /\ s1.safe = s.safe /\ s1.from = s.from /\ s1.to = s.to
    BY <1>2 DEF PollerState
  <2>. QED
    BY <2>1 DEF PollerInv, InBatch
<1>. QED
  BY <1>1, <1>2 DEF AfterFailure

\* A poller's steps other than the commit leave the tables alone and move the
\* poller to a state that has the invariant.
LEMMA QuietStepInv ==
    ASSUME SafeDeployment, TypeOK, PollersInv, NEW p \in Pollers,
           \/ PollOnce(p) \/ PollEscrow(p) \/ GetLogs(p) \/ ProcessLogs(p)
           \/ PublishEvent(p) \/ NextBatch(p) \/ AttemptFails(p) \/ CrashPoller(p)
    PROVE  /\ UNCHANGED <<chainVars, storeVars>>
           /\ PollerInv(poller'[p])
<1> DEFINE s == poller[p]
<1> USE DEF TypeOK, PollTypeOK
<1>1. s \in PollerState /\ PollerInv(s)
  BY DEF PollersInv
<1>2. UNCHANGED <<chainVars, storeVars>>
  BY DEF PollOnce, PollEscrow, GetLogs, ProcessLogs, PublishEvent, NextBatch, AttemptFails,
     CrashPoller, worldVars
<1>3. PollerInv(AtRest)
  BY DEF AtRest, PollerInv, InBatch
<1>4. CASE PollOnce(p)
  <2> DEFINE target == IF p \in Monitors
                       THEN CalculateSafeTarget(head, ConfirmationDepth)
                       ELSE BackfillTarget(head, ConfirmationDepth)
  <2>1. Final(target)
    BY TargetIsFinal DEF Pollers
  <2>2. poller'[p].pc = "resolve" /\ poller'[p].safe = target
    BY <1>1, <1>4 DEF PollOnce, PollerState
  <2>. QED
    BY <1>2, <2>1, <2>2 DEF PollerInv, InBatch
<1>5. CASE PollEscrow(p)
  <2> DEFINE from == GetEffectiveStartBlock(cp, StartBlock)
  <2>1. from \in Nat /\ StartBlock <= from /\ s.pc = "resolve" /\ Final(s.safe)
    BY <1>1, <1>5, ResumeIsNat DEF PollEscrow, PollerInv, WorldTypeOK
  <2>2. Covered(from - 1)
    BY ChainAssumption DEF PollersInv, CheckpointCovers, GetEffectiveStartBlock, Covered,
       WorldTypeOK, NoBlock
  <2>3. CASE from > s.safe
    BY <1>2, <1>3, <1>5, <2>3 DEF PollEscrow
  <2>4. CASE ~ (from > s.safe)
    <3>1. poller'[p] = BeginBatch(s, from)
      BY <1>5, <2>4 DEF PollEscrow
    <3>2. from <= s.safe
      BY <1>1, <2>1, <2>4 DEF PollerState
    <3>. QED
      BY <1>1, <1>2, <2>1, <2>2, <3>1, <3>2, BeginBatchInv
  <2>. QED
    BY <2>3, <2>4
<1>6. CASE GetLogs(p)
  <2> DEFINE s1 == poller'[p]
  <2>1. /\ s.pc = "getlogs" /\ s1.pc = "decode"
        /\ s1.safe = s.safe /\ s1.from = s.from /\ s1.to = s.to
        /\ s1.logs = [l \in Logs |-> IF where[l] \in s.from .. s.to THEN where[l] ELSE NoBlock]
    BY <1>1, <1>6 DEF GetLogs, PollerState
  <2>. QED
    BY <1>1, <1>2, <2>1 DEF PollerInv, InBatch
<1>7. CASE ProcessLogs(p)
  <2>1. PICK kept \in SUBSET Returned(s) :
           poller' = [poller EXCEPT ![p].pc = "save", ![p].kept = kept]
    BY <1>7 DEF ProcessLogs
  <2>2. /\ s.pc = "decode" /\ poller'[p].pc = "save" /\ poller'[p].kept = kept
        /\ poller'[p].safe = s.safe /\ poller'[p].from = s.from /\ poller'[p].to = s.to
        /\ poller'[p].logs = s.logs
    BY <1>1, <1>7, <2>1 DEF ProcessLogs, PollerState
  <2>. QED
    BY <1>1, <1>2, <2>2 DEF PollerInv, InBatch, Returned
<1>8. CASE PublishEvent(p)
  <2>1. PICK l \in s.kept : poller' = [poller EXCEPT ![p].kept = @ \ {l}]
    BY <1>8 DEF PublishEvent
  <2>2. /\ s.pc = "publish" /\ poller'[p].pc = "publish" /\ poller'[p].kept = s.kept \ {l}
        /\ poller'[p].safe = s.safe /\ poller'[p].from = s.from /\ poller'[p].to = s.to
        /\ poller'[p].logs = s.logs
    BY <1>1, <1>8, <2>1 DEF PublishEvent, PollerState
  <2>. QED
    BY <1>1, <1>2, <2>2 DEF PollerInv, InBatch, Returned
<1>9. CASE NextBatch(p)
  <2> DEFINE s2 == [s EXCEPT !.batches = @ + 1]
  <2>1. /\ s2 \in PollerState /\ s2.pc = s.pc /\ s2.safe = s.safe /\ s2.to = s.to
        /\ s.pc = "publish"
    BY <1>1, <1>9 DEF NextBatch, PollerState
  <2>2. CASE poller'[p] = AtRest
    BY <1>2, <1>3, <2>2
  <2>3. CASE poller'[p] # AtRest
    <3>1. poller'[p] = BeginBatch(s2, s2.to + 1) /\ s2.to < s2.safe
      BY <1>9, <2>3 DEF NextBatch
    <3>2. Final(s.safe) /\ StartBlock <= s.to /\ s.to < s.safe /\ Covered(s.to)
      BY <1>1, <2>1, <3>1, ChainAssumption DEF PollerState, PollerInv, InBatch
    <3>3. PICK r \in PollerState, f \in Nat : r = s2 /\ f = s2.to + 1
      BY <2>1 DEF PollerState
    <3>4. r.safe = s.safe /\ r.to = s.to /\ f = r.to + 1
      BY <2>1, <3>3
    <3> HIDE DEF s, s2
    <3>5. /\ Final(r.safe) /\ Covered(r.to)
          /\ StartBlock <= f /\ f <= r.safe /\ f - 1 = r.to
      <4>1. r.to \in Nat /\ r.safe \in Nat
        BY DEF PollerState
      <4>2. Final(r.safe) /\ Covered(r.to)
        BY <3>2, <3>4
      <4>. QED
        BY <3>2, <3>4, <4>1, <4>2, ChainAssumption
    <3>6. PollerInv(BeginBatch(r, f))
      <4>1. Covered(f - 1)
        BY <3>5
      <4>. QED
        BY <3>5, <4>1, BeginBatchInv
    <3>. QED
      BY <1>2, <3>1, <3>3, <3>6
  <2>. QED
    BY <2>2, <2>3
<1>10. CASE AttemptFails(p)
  <2>1. InBatch(s) /\ poller'[p] \in AfterFailure(s)
    BY <1>10 DEF AttemptFails, InBatch
  <2>. QED
    BY <1>1, <1>2, <2>1, AfterFailureInv
<1>11. CASE CrashPoller(p)
  BY <1>2, <1>3, <1>11 DEF CrashPoller
<1>. QED
  BY <1>4, <1>5, <1>6, <1>7, <1>8, <1>9, <1>10, <1>11

\* The commit stores what the poller decoded, accounts for the rest of the batch
\* and moves the checkpoint to the end of the batch.
LEMMA CommitInv ==
    ASSUME TypeOK, PollersInv, NEW p \in Pollers, SaveEscrowBatch(p),
           NEW s \in PollerState, s = poller[p],
           NEW s1, s1 = poller'[p],
           NEW c, c = cp'
    PROVE  /\ \A l \in Logs : Stored(l) => Stored(l)'
           /\ \A l \in skipped : (Stored(l) \/ l \in skipped)'
           /\ (c # NoBlock => Final(c))'
           /\ Covered(c)'
           /\ PollerInv(s1)'
<1> USE DEF TypeOK, PollTypeOK, WorldTypeOK
<1>1. PollerInv(s) /\ s.pc = "save"
  BY DEF PollersInv, SaveEscrowBatch
<1>2. /\ row' = RowsAfter(s) /\ c = CheckpointAfter(s)
      /\ skipped' = (skipped \cup Returned(s)) \ s.kept
      /\ UNCHANGED <<head, where>>
  BY DEF SaveEscrowBatch, chainVars
<1>3. /\ s.safe \in Nat /\ s.from \in Nat /\ s.to \in Nat /\ s.kept \subseteq Logs
      /\ StartBlock <= s.from /\ s.from <= s.to /\ s.to <= s.safe
      /\ Final(s.safe) /\ Covered(s.from - 1) /\ s.kept \subseteq Returned(s)
      /\ \A l \in Logs :
            s.logs[l] = IF where[l] \in s.from .. s.to THEN where[l] ELSE NoBlock
  BY <1>1 DEF PollerState, PollerInv, InBatch
<1>4. \A l \in Logs : Stored(l) => Stored(l)'
  BY <1>2, <1>3 DEF Stored, RowsAfter, Upsert, Returned
<1>5. \A l \in s.kept : Stored(l)'
  BY <1>2, <1>3 DEF Stored, RowsAfter, Upsert, Returned
<1>6. \A l \in skipped \cup Returned(s) : (Stored(l) \/ l \in skipped)'
  BY <1>2, <1>5
<1>7. Covered(s.from - 1)' /\ Covered(s.to)'
  <2>1. \A l \in Logs : where[l] \in s.from .. s.to => l \in Returned(s)
    BY <1>3, ChainAssumption DEF Returned, NoBlock
  <2>2. \A l \in Logs : where[l] \in StartBlock .. s.to =>
            where[l] \in StartBlock .. s.from - 1 \/ where[l] \in s.from .. s.to
    BY <1>3, ChainAssumption
  <2>. QED
    BY <1>2, <1>3, <1>4, <1>6, <2>1, <2>2 DEF Covered
<1>8. Final(s.safe)' /\ Final(s.to)'
  BY <1>2, <1>3, ChainAssumption DEF Final, Blocks
<1>9. \/ s1 = [s EXCEPT !.pc = "publish", !.kept = IF p \in WithRedis THEN @ ELSE {}]
      \/ s1 \in AfterFailure(s)
  BY DEF SaveEscrowBatch
<1>10. PollerInv(s1)'
  <2>1. CASE s1 = AtRest
    BY <2>1 DEF AtRest, PollerInv, InBatch
  <2>2. CASE s1 = [s EXCEPT !.pc = "getlogs", !.attempt = @ + 1, !.logs = NoLogs, !.kept = {}]
    <3>1. s1.pc = "getlogs" /\ s1.safe = s.safe /\ s1.from = s.from /\ s1.to = s.to
      BY <2>2 DEF PollerState
    <3>. QED
      BY <1>3, <1>7, <1>8, <3>1 DEF PollerInv, InBatch
  <2>3. CASE s1 = [s EXCEPT !.pc = "publish", !.kept = IF p \in WithRedis THEN @ ELSE {}]
    <3>1. /\ s1.pc = "publish" /\ s1.safe = s.safe /\ s1.from = s.from /\ s1.to = s.to
          /\ s1.logs = s.logs /\ s1.kept \subseteq s.kept
      BY <2>3 DEF PollerState
    <3>2. /\ \A l \in s1.kept : Stored(l)'
          /\ s1.kept \subseteq Returned(s1)
      BY <1>3, <1>5, <3>1 DEF Returned
    <3>. QED
      BY <1>2, <1>3, <1>7, <1>8, <3>1, <3>2 DEF PollerInv, InBatch
  <2>. QED
    BY <1>9, <2>1, <2>2, <2>3 DEF AfterFailure
<1>11. Covered(c)' /\ (c # NoBlock => Final(c))'
  <2>1. CASE s.to > 0
    BY <1>2, <1>7, <1>8, <2>1 DEF CheckpointAfter
  <2>2. CASE ~ (s.to > 0)
    <3>1. c = cp
      BY <1>2, <2>2 DEF CheckpointAfter
    <3>2. Covered(c) /\ (c # NoBlock => Final(c))
      BY <3>1 DEF PollersInv, CheckpointCovers
    <3>. QED
      BY <1>2, <1>4, <1>6, <3>2 DEF Covered, Final
  <2>. QED
    BY <2>1, <2>2
<1>. QED
  BY <1>4, <1>6, <1>10, <1>11

\* No poller disturbs another.
LEMMA PollKeepsPollers ==
    ASSUME SafeDeployment, TypeOK, PollersInv, PollNext
    PROVE  PollersInv'
<1> USE DEF TypeOK, PollTypeOK
<1>1. ASSUME NEW p \in Pollers,
             \/ PollOnce(p) \/ PollEscrow(p) \/ GetLogs(p) \/ ProcessLogs(p)
             \/ PublishEvent(p) \/ NextBatch(p) \/ AttemptFails(p) \/ CrashPoller(p)
      PROVE  PollersInv'
  <2>1. UNCHANGED <<chainVars, storeVars>> /\ PollerInv(poller'[p])
    BY <1>1, QuietStepInv
  <2>2. /\ UNCHANGED <<head, where, sent, row, cp, skipped>>
        /\ \A q \in Pollers : q # p => poller'[q] = poller[q]
    BY <1>1, <2>1 DEF chainVars, storeVars, PollOnce, PollEscrow, GetLogs, ProcessLogs,
       PublishEvent, NextBatch, AttemptFails, CrashPoller
  <2>3. PICK s1 : s1 = poller'[p]
    OBVIOUS
  <2>4. \A q \in Pollers : PollerInv(poller[q])'
    <3>1. \A s \in PollerState : PollerInv(s) => PollerInv(s)'
      BY <2>2, StoringKeeps DEF Stored
    <3>2. PollerInv(s1)
      BY <2>1, <2>3
    <3>3. PollerInv(s1)'
      BY <2>2, <3>2 DEF PollerInv, InBatch, Final, Covered, Stored, Returned
    <3>4. poller' = [poller EXCEPT ![p] = s1]
      <4>1. poller' \in [Pollers -> {poller'[q] : q \in Pollers}]
        BY <1>1 DEF PollOnce, PollEscrow, GetLogs, ProcessLogs, PublishEvent, NextBatch,
           AttemptFails, CrashPoller
      <4>. QED
        BY <2>2, <2>3, <4>1
    <3>. QED
      BY <3>1, <3>3, <3>4, OnePollerMoves
  <2>5. PollerAnnouncesFinal'
    <3>1. CASE pollPub' = pollPub
      BY <2>2, <3>1 DEF PollersInv, PollerAnnouncesFinal, Stored, Final
    <3>2. CASE PublishEvent(p)
      <4>1. PICK l \in poller[p].kept : pollPub' \subseteq pollPub \cup {l}
        BY <3>2 DEF PublishEvent
      <4>2. /\ poller[p] \in PollerState /\ PollerInv(poller[p]) /\ poller[p].pc = "publish"
        BY <3>2 DEF PollersInv, PublishEvent
      <4>3. l \in Logs /\ Stored(l) /\ where[l] # NoBlock
            /\ where[l] \in poller[p].from .. poller[p].to /\ Final(poller[p].safe)
        BY <4>2 DEF PollerInv, PollerState, Returned
      <4>4. where[l] <= poller[p].safe /\ poller[p].safe \in Nat /\ where[l] \in Nat
        BY <4>2, <4>3 DEF PollerInv, InBatch, PollerState
      <4>5. Final(where[l])
        BY <4>3, <4>4, ChainAssumption DEF Final, WorldTypeOK, Blocks
      <4>. QED
        BY <2>2, <4>1, <4>3, <4>5 DEF PollersInv, PollerAnnouncesFinal, Stored, Final
    <3>. QED
      BY <1>1, <3>1, <3>2 DEF PollOnce, PollEscrow, GetLogs, ProcessLogs, NextBatch,
         AttemptFails, CrashPoller
  <2>. QED
    BY <2>2, <2>4, <2>5
       DEF PollersInv, ChainInv, CheckpointCovers, Covered, Stored, Final
<1>2. ASSUME NEW p \in Pollers, SaveEscrowBatch(p)
      PROVE  PollersInv'
  <2>1. PICK s, s1, c : s \in PollerState /\ s = poller[p] /\ s1 = poller'[p] /\ c = cp'
    OBVIOUS
  <2>2. /\ \A l \in Logs : Stored(l) => Stored(l)'
        /\ \A l \in skipped : (Stored(l) \/ l \in skipped)'
        /\ (c # NoBlock => Final(c))'
        /\ Covered(c)'
        /\ PollerInv(s1)'
    BY <1>2, <2>1, CommitInv
  <2>3. UNCHANGED <<head, where, sent, pollPub>>
    BY <1>2 DEF SaveEscrowBatch, chainVars
  <2>4. \A r \in PollerState : PollerInv(r) => PollerInv(r)'
    BY <2>2, <2>3, StoringKeeps
  <2>5. poller' = [poller EXCEPT ![p] = s1]
    BY <1>2, <2>1 DEF SaveEscrowBatch
  <2>6. \A q \in Pollers : PollerInv(poller[q])'
    BY <2>2, <2>4, <2>5, OnePollerMoves
  <2>7. CheckpointCovers' /\ (cp # NoBlock => Final(cp))'
    BY <2>1, <2>2 DEF CheckpointCovers, Covered, Final
  <2>8. ChainInv' /\ PollerAnnouncesFinal'
    BY <2>2, <2>3 DEF PollersInv, ChainInv, PollerAnnouncesFinal, Final
  <2>. QED
    BY <2>6, <2>7, <2>8 DEF PollersInv
<1>. QED
  BY <1>1, <1>2 DEF PollNext, PollStep

LEMMA InitPollers == Init => PollersInv
<1> SUFFICES ASSUME Init PROVE PollersInv
  OBVIOUS
<1>1. /\ where = [l \in Logs |-> NoBlock] /\ cp = NoBlock /\ pollPub = {}
      /\ poller = [p \in Pollers |-> AtRest]
  BY DEF Init, WorldInit, PollInit
<1>2. PollerInv(AtRest)
  BY DEF AtRest, PollerInv, InBatch
<1>. QED
  BY <1>1, <1>2, ChainAssumption
     DEF PollersInv, ChainInv, CheckpointCovers, Covered, PollerAnnouncesFinal, NoBlock

\* Every step of either path, or of the chain, keeps what the pollers rely on.
LEMMA StepPollers ==
    ASSUME SafeDeployment, TypeOK, TypeOK', PollersInv, [Next]_vars
    PROVE  PollersInv'
<1>1. CASE UNCHANGED vars
  BY <1>1 DEF vars, worldVars, chainVars, storeVars, hookVars, pollVars, PollersInv,
     ChainInv, CheckpointCovers, PollerAnnouncesFinal, PollerInv, InBatch, Covered, Final,
     Stored, Returned
<1>. QED
  BY <1>1, WorldKeepsPollers, HookKeepsPollers, PollKeepsPollers DEF Next

\* Under a safe deployment, whatever the number of monitors and backfills that
\* index the stream at once: every log at or below the checkpoint was accounted
\* for, and what a poller broadcasts is stored and final.
THEOREM PollersCorrect == SafeDeployment => (Spec => []PollersInv)
<1> SUFFICES ASSUME SafeDeployment PROVE Spec => []PollersInv
  OBVIOUS
<1>1. TypeOK /\ TypeOK' /\ PollersInv /\ [Next]_vars => PollersInv'
  BY StepPollers
<1>. QED
  BY InitPollers, TypeCorrect, <1>1, PTL DEF Spec

\* The checkpoint passes no log that was not accounted for.
THEOREM CheckpointCoversAll == SafeDeployment => (Spec => []CheckpointCovers)
<1>1. PollersInv => CheckpointCovers
  BY DEF PollersInv
<1>. QED
  BY <1>1, PollersCorrect, PTL

\* Pollers broadcast only stored, final logs.
THEOREM AnnouncementsAreFinal == SafeDeployment => (Spec => []PollerAnnouncesFinal)
<1>1. PollersInv => PollerAnnouncesFinal
  BY DEF PollersInv
<1>. QED
  BY <1>1, PollersCorrect, PTL

\* The logs of the blocks at or below the checkpoint never change again.
THEOREM CheckpointedBlocksAreFinal == SafeDeployment => (Spec => CheckpointIsFinal)
<1> DEFINE Kept == \A l \in Logs :
               (where[l] \in 0 .. cp \/ where'[l] \in 0 .. cp) => where'[l] = where[l]
<1> SUFFICES ASSUME SafeDeployment PROVE Spec => CheckpointIsFinal
  OBVIOUS
<1>1. TypeOK /\ PollersInv /\ [Next]_vars => [Kept]_vars
  <2> SUFFICES ASSUME TypeOK, PollersInv, Next PROVE Kept
    OBVIOUS
  <2>1. CASE WorldNext
    <3>1. CASE cp = NoBlock
      BY <3>1 DEF NoBlock
    <3>2. CASE cp # NoBlock
      <4>1. cp \in Nat /\ Final(cp) /\ ChainInv
        BY <3>2 DEF PollersInv, TypeOK, WorldTypeOK
      <4>2. PICK b \in Nat : b = cp
        BY <4>1
      <4>3. \A l \in Logs :
               (where[l] \in 0 .. b \/ where'[l] \in 0 .. b) => where'[l] = where[l]
        BY <2>1, <4>1, <4>2, FinalStable
      <4>. QED
        BY <4>2, <4>3
    <3>. QED
      BY <3>1, <3>2
  <2>2. CASE HookNext
    BY <2>2 DEF HookNext, ClaimKey, SkipDuplicate, DropUnverified, SaveEscrowEvent,
       PublishHook, Respond, CrashApi, worldVars, chainVars
  <2>3. CASE PollNext
    BY <2>3 DEF PollNext, PollStep, PollOnce, PollEscrow, GetLogs, ProcessLogs,
       SaveEscrowBatch, PublishEvent, NextBatch, AttemptFails, CrashPoller, worldVars, chainVars
  <2>. QED
    BY <2>1, <2>2, <2>3 DEF Next
<1>. QED
  BY <1>1, TypeCorrect, PollersCorrect, PTL DEF Spec, CheckpointIsFinal

-----------------------------------------------------------------------------
(***************************************************************************)
(* With one poller the checkpoint never goes back, whatever the depth of   *)
(* reorganisations, and the tables implement the abstract stream.          *)
(***************************************************************************)

OnePoller == \A p, q \in Pollers : p = q

\* The poller's batch never ends below the checkpoint; after a lost commit reply
\* it may end at the checkpoint.
BatchAhead == \A p \in Pollers : InBatch(poller[p]) => cp <= poller[p].to

\* A batch that resumes above the checkpoint ends above it.
LEMMA BatchEndsAhead ==
    ASSUME NEW s \in PollerState, NEW from \in Nat, NEW c \in Int,
           c < from, from <= s.safe
    PROVE  c <= BeginBatch(s, from).to
<1>1. BeginBatch(s, from).to = BatchEnd(from, BatchSize, s.safe)
  BY DEF BeginBatch, PollerState
<1>. QED
  BY <1>1, PollerAssumption DEF BatchEnd, PollerState

\* The one poller's steps keep its batch ahead and never lower the checkpoint.
LEMMA PollKeepsAhead ==
    ASSUME OnePoller, TypeOK, BatchAhead, PollNext
    PROVE  BatchAhead' /\ cp' >= cp
<1> USE DEF TypeOK, PollTypeOK, WorldTypeOK, NoBlock
<1>1. PICK p \in Pollers : PollStep(p) \/ AttemptFails(p) \/ CrashPoller(p)
  BY DEF PollNext
<1>2. PICK s, s1 : s \in PollerState /\ s = poller[p] /\ s1 = poller'[p]
  OBVIOUS
<1>3. InBatch(s) => cp <= s.to
  BY <1>2 DEF BatchAhead
<1>4. SUFFICES cp' >= cp /\ (InBatch(s1) => cp' <= s1.to)
  BY <1>2 DEF BatchAhead, OnePoller, InBatch
<1>5. ~ InBatch(AtRest)
  BY DEF AtRest, InBatch
<1>6. \A r \in AfterFailure(s) : InBatch(r) => r.to = s.to
  BY <1>2, <1>5 DEF AfterFailure, PollerState
<1>7. CASE PollOnce(p)
  BY <1>2, <1>7 DEF PollOnce, PollerState, InBatch, worldVars, storeVars
<1>8. CASE PollEscrow(p)
  <2> DEFINE from == GetEffectiveStartBlock(cp, StartBlock)
  <2>1. from \in Nat /\ cp \in Int /\ cp < from /\ cp' = cp
    BY <1>8, ResumeIsNat, ChainAssumption
       DEF PollEscrow, GetEffectiveStartBlock, worldVars, storeVars
  <2>2. s1 = AtRest \/ (from <= s.safe /\ s1 = BeginBatch(s, from))
    BY <1>2, <1>8, <2>1 DEF PollEscrow, PollerState
  <2> HIDE DEF from
  <2>. QED
    BY <1>2, <1>5, <2>1, <2>2, BatchEndsAhead
<1>9. CASE GetLogs(p)
  BY <1>2, <1>3, <1>9 DEF GetLogs, PollerState, InBatch, worldVars, storeVars
<1>10. CASE ProcessLogs(p)
  BY <1>2, <1>3, <1>10 DEF ProcessLogs, PollerState, InBatch, storeVars
<1>11. CASE SaveEscrowBatch(p)
  <2>1. InBatch(s) /\ cp' = CheckpointAfter(s) /\ s.to \in Nat /\ cp \in Int
    BY <1>2, <1>11 DEF SaveEscrowBatch, InBatch, PollerState
  <2>2. InBatch(s1) => s1.to = s.to
    <3>1. \/ s1 = [s EXCEPT !.pc = "publish", !.kept = IF p \in WithRedis THEN @ ELSE {}]
          \/ s1 \in AfterFailure(s)
      BY <1>2, <1>11 DEF SaveEscrowBatch
    <3>. QED
      BY <1>2, <1>6, <3>1 DEF PollerState
  <2>. QED
    BY <1>3, <2>1, <2>2 DEF CheckpointAfter
<1>12. CASE PublishEvent(p)
  BY <1>2, <1>3, <1>12 DEF PublishEvent, PollerState, InBatch, storeVars
<1>13. CASE NextBatch(p)
  <2> DEFINE s2 == [s EXCEPT !.batches = @ + 1]
  <2>1. /\ s2 \in PollerState /\ s2.safe = s.safe /\ s2.to = s.to /\ s.to \in Nat
        /\ s.safe \in Nat /\ cp' = cp /\ cp \in Int /\ cp <= s.to
    BY <1>2, <1>3, <1>13 DEF NextBatch, PollerState, InBatch, worldVars, storeVars
  <2>2. s1 = AtRest \/ (s.to < s.safe /\ s1 = BeginBatch(s2, s.to + 1))
    BY <1>2, <1>13, <2>1 DEF NextBatch
  <2>3. PICK c \in Int, f \in Nat : c = cp /\ f = s.to + 1
    BY <2>1
  <2>4. s1 = BeginBatch(s2, f) /\ s.to < s.safe => c <= s1.to
    <3>1. c < f /\ (s.to < s.safe => f <= s2.safe)
      BY <2>1, <2>3
    <3> HIDE DEF s2
    <3>. QED
      BY <2>1, <3>1, BatchEndsAhead
  <2>. QED
    BY <1>5, <2>1, <2>2, <2>3, <2>4
<1>14. CASE AttemptFails(p)
  <2>1. InBatch(s) /\ s1 \in AfterFailure(s) /\ cp' = cp
    BY <1>2, <1>14 DEF AttemptFails, InBatch, storeVars
  <2>. QED
    BY <1>3, <1>6, <2>1
<1>15. CASE CrashPoller(p)
  BY <1>2, <1>5, <1>15 DEF CrashPoller, storeVars
<1>. QED
  BY <1>1, <1>7, <1>8, <1>9, <1>10, <1>11, <1>12, <1>13, <1>14, <1>15 DEF PollStep

\* Nothing but a poller moves the checkpoint.
LEMMA StepAhead ==
    ASSUME OnePoller, TypeOK, BatchAhead, [Next]_vars
    PROVE  BatchAhead' /\ cp' >= cp
<1>1. CASE PollNext
  BY <1>1, PollKeepsAhead
<1>2. CASE ~ PollNext
  <2>1. cp' = cp /\ poller' = poller
    BY <1>2 DEF Next, vars, WorldNext, Mine, Reorg, KeyExpires, HookNext, ClaimKey,
       SkipDuplicate, DropUnverified, SaveEscrowEvent, PublishHook, Respond, CrashApi,
       worldVars, storeVars, pollVars
  <2>2. cp \in Int
    BY DEF TypeOK, WorldTypeOK, NoBlock
  <2>. QED
    BY <2>1, <2>2 DEF BatchAhead, InBatch
<1>. QED
  BY <1>1, <1>2

\* The one poller's batch stays ahead of the checkpoint in every reachable state.
LEMMA AheadCorrect == OnePoller => (Spec => []BatchAhead)
<1> SUFFICES ASSUME OnePoller PROVE Spec => []BatchAhead
  OBVIOUS
<1>1. Init => BatchAhead
  BY DEF Init, PollInit, BatchAhead, AtRest, InBatch
<1>2. TypeOK /\ BatchAhead /\ [Next]_vars => BatchAhead'
  BY StepAhead
<1>. QED
  BY <1>1, <1>2, TypeCorrect, PTL DEF Spec

\* With one poller the checkpoint never goes back, through every retry, lost
\* reply, crash and restart, and through reorganisations of any depth.
THEOREM CheckpointNeverGoesBack == OnePoller => (Spec => CheckpointMonotonic)
<1> SUFFICES ASSUME OnePoller PROVE Spec => CheckpointMonotonic
  OBVIOUS
<1>1. TypeOK /\ BatchAhead /\ [Next]_vars => [cp' >= cp]_cp
  BY StepAhead
<1>. QED
  BY <1>1, TypeCorrect, AheadCorrect, PTL DEF Spec, CheckpointMonotonic

-----------------------------------------------------------------------------
(***************************************************************************)
(* Refinement: accounted for means stored or skipped.                      *)
(***************************************************************************)

\* The chain's steps are chain moves of the abstract stream.
LEMMA WorldImplements ==
    ASSUME SafeDeployment, TypeOK, TypeOK', PollersInv, WorldNext
    PROVE  Stream!ChainMoves
<1>1. UNCHANGED <<cp, row, skipped>>
  BY DEF WorldNext, Mine, Reorg, KeyExpires, storeVars
<1>2. head' \in Nat /\ head' >= head
  <2>1. head' = head \/ head' = head + 1
    BY DEF WorldNext, Mine, Reorg, KeyExpires, chainVars
  <2>2. head \in Nat
    BY ChainAssumption DEF TypeOK, WorldTypeOK, Blocks
  <2>. QED
    BY <2>1, <2>2
<1>3. ASSUME NEW l \in Logs, where'[l] # where[l], NEW b \in {where[l], where'[l]}
      PROVE  ~ Stream!Buried(b, head)
  <2>1. ~ (b \in Nat /\ Final(b))
    <3> SUFFICES ASSUME b \in Nat, Final(b) PROVE FALSE
      OBVIOUS
    <3>1. PICK c \in Nat : c = b
      OBVIOUS
    <3>2. where[l] \in 0 .. c \/ where'[l] \in 0 .. c
      BY <3>1
    <3>. QED
      BY <1>3, <3>1, <3>2, FinalStable DEF PollersInv, Final
  <2>2. b \in Nat \cup {NoBlock}
    BY DEF TypeOK, WorldTypeOK
  <2>. QED
    BY <2>1, <2>2 DEF Final, Stream!Buried, NoBlock
<1>4. {l \in Logs : Stored(l) \/ l \in skipped}' = {l \in Logs : Stored(l) \/ l \in skipped}
  BY <1>1 DEF Stored
<1>. QED
  BY <1>1, <1>2, <1>3, <1>4 DEF Stream!ChainMoves

\* A step that stores without touching chain or checkpoint accounts for logs.
LEMMA StoringImplements ==
    ASSUME UNCHANGED <<head, where, cp>>,
           \A l \in Logs : Stored(l) => Stored(l)',
           \A l \in skipped : (Stored(l) \/ l \in skipped)'
    PROVE  Stream!Account
  BY DEF Stream!Account

\* A handler accounts for logs and leaves the checkpoint alone.
LEMMA HookImplements ==
    ASSUME TypeOK, HookNext
    PROVE  Stream!Account
<1>1. UNCHANGED <<head, where, cp, skipped>>
  BY DEF HookNext, ClaimKey, SkipDuplicate, DropUnverified, SaveEscrowEvent, PublishHook,
     Respond, CrashApi, worldVars, chainVars, storeVars
<1>2. \A l \in Logs : Stored(l) => Stored(l)'
  BY HookStores
<1>. QED
  BY <1>1, <1>2, StoringImplements

\* A poller accounts for logs, and its commits pass only what is accounted for.
LEMMA PollImplements ==
    ASSUME TypeOK, TypeOK', PollersInv, cp' >= cp, PollNext
    PROVE  Stream!Account
<1>1. ASSUME NEW p \in Pollers, SaveEscrowBatch(p)
      PROVE  Stream!Account
  <2>1. PICK s, s1, c : s \in PollerState /\ s = poller[p] /\ s1 = poller'[p] /\ c = cp'
    BY DEF TypeOK, PollTypeOK
  <2>2. /\ \A l \in Logs : Stored(l) => Stored(l)'
        /\ \A l \in skipped : (Stored(l) \/ l \in skipped)'
        /\ (c # NoBlock => Final(c))'
        /\ Covered(c)'
    BY <1>1, <2>1, CommitInv
  <2>3. UNCHANGED <<head, where>>
    BY <1>1 DEF SaveEscrowBatch, chainVars
  <2>4. CASE cp' = cp
    BY <2>2, <2>3, <2>4, StoringImplements
  <2>5. CASE cp' # cp
    <3>1. cp' > cp /\ cp' \in Nat
      BY <2>5 DEF TypeOK, WorldTypeOK, NoBlock
    <3>2. Stream!Buried(cp', head)
      BY <2>1, <2>2, <2>3, <3>1 DEF Stream!Buried, Final, NoBlock
    <3>3. \A l \in Logs : where[l] \in StartBlock .. cp' => (Stored(l) \/ l \in skipped)'
      BY <2>1, <2>2, <2>3 DEF Covered
    <3>. QED
      BY <2>2, <2>3, <3>1, <3>2, <3>3 DEF Stream!Account
  <2>. QED
    BY <2>4, <2>5
<1>2. ASSUME NEW p \in Pollers,
             \/ PollOnce(p) \/ PollEscrow(p) \/ GetLogs(p) \/ ProcessLogs(p)
             \/ PublishEvent(p) \/ NextBatch(p) \/ AttemptFails(p) \/ CrashPoller(p)
      PROVE  Stream!Account
  <2>1. UNCHANGED <<head, where, row, cp, skipped>>
    BY <1>2 DEF PollOnce, PollEscrow, GetLogs, ProcessLogs, PublishEvent, NextBatch,
       AttemptFails, CrashPoller, worldVars, chainVars, storeVars
  <2>. QED
    BY <2>1, StoringImplements DEF Stored
<1>. QED
  BY <1>1, <1>2 DEF PollNext, PollStep

\* With one poller and a safe deployment the two ingestion paths implement the
\* checkpointed stream: the checkpoint moves only forward, only over buried
\* blocks, and only past logs that are accounted for.
THEOREM IngestImplementsStream == SafeDeployment /\ OnePoller => (Spec => ImplementsStream)
<1> SUFFICES ASSUME SafeDeployment, OnePoller PROVE Spec => ImplementsStream
  OBVIOUS
<1>1. Init => Stream!Init
  BY DEF Init, WorldInit, Stream!Init, Stored, NoRow, NoBlock, Stream!NoBlock
<1>2. TypeOK /\ TypeOK' /\ PollersInv /\ BatchAhead /\ [Next]_vars
         => [Stream!Next]_(Stream!vars)
  <2> SUFFICES ASSUME TypeOK, TypeOK', PollersInv, BatchAhead, [Next]_vars
               PROVE  [Stream!Next]_(Stream!vars)
    OBVIOUS
  <2>1. cp' >= cp
    BY StepAhead
  <2>2. CASE UNCHANGED vars
    BY <2>2 DEF vars, worldVars, chainVars, storeVars, Stream!vars, Stored
  <2>3. CASE Next
    BY <2>1, <2>3, WorldImplements, HookImplements, PollImplements DEF Next, Stream!Next
  <2>. QED
    BY <2>2, <2>3
<1>. QED
  BY <1>1, <1>2, TypeCorrect, PollersCorrect, AheadCorrect, PTL
     DEF Spec, ImplementsStream, Stream!Spec

-----------------------------------------------------------------------------
(***************************************************************************)
(* Provenance of rows, for reorganisations of any depth and any number of  *)
(* pollers and handlers: whatever a process holds between reading it and   *)
(* writing it was announced by the chain.                                  *)
(***************************************************************************)

\* Log l was announced on block b.
Announced(l, b) == \E n \in sent : n.log = l /\ n.blk = b

HeldInv ==
    /\ \A h \in Handlers : hook[h].pc # "idle" => hook[h].note \in sent
    /\ \A p \in Pollers : \A l \in Logs :
           poller[p].logs[l] # NoBlock => Announced(l, poller[p].logs[l])

ProvenanceInv == ChainInv /\ HeldInv /\ RowsComeFromChain

LEMMA InitProvenance == Init => ProvenanceInv
  BY DEF Init, WorldInit, HookInit, PollInit, ProvenanceInv, ChainInv, HeldInv,
     RowsComeFromChain, Stored, NoRow, AtRest, NoLogs, Idle

\* The chain only ever announces more.
LEMMA WorldKeepsProvenance ==
    ASSUME TypeOK, ProvenanceInv, WorldNext, UNCHANGED <<hookVars, pollVars>>
    PROVE  ProvenanceInv'
<1>1. sent \subseteq sent'
  BY DEF WorldNext, Mine, Reorg, KeyExpires, chainVars
<1>2. UNCHANGED <<row, hook, poller>>
  BY DEF WorldNext, Mine, Reorg, KeyExpires, storeVars, hookVars, pollVars
<1>3. ChainInv'
  BY ChainInvStable DEF ProvenanceInv
<1>4. HeldInv'
  BY <1>1, <1>2 DEF ProvenanceInv, HeldInv, Announced
<1>5. RowsComeFromChain'
  BY <1>1, <1>2 DEF ProvenanceInv, RowsComeFromChain, Stored
<1>. QED
  BY <1>3, <1>4, <1>5 DEF ProvenanceInv

\* A handler holds an announced notification and writes what it holds.
LEMMA HookKeepsProvenance ==
    ASSUME TypeOK, ProvenanceInv, HookNext, UNCHANGED pollVars
    PROVE  ProvenanceInv'
<1> USE DEF ProvenanceInv
<1>1. UNCHANGED <<head, where, sent, poller>>
  BY DEF HookNext, ClaimKey, SkipDuplicate, DropUnverified, SaveEscrowEvent, PublishHook,
     Respond, CrashApi, worldVars, chainVars, pollVars
<1>2. ChainInv'
  BY <1>1 DEF ChainInv
<1>3. ASSUME NEW g \in Handlers, NEW n \in sent, NEW pc, Goto(g, pc, n)
      PROVE  \A h \in Handlers : hook'[h].pc # "idle" => hook'[h].note \in sent
  BY <1>3 DEF Goto, HeldInv, TypeOK, HookTypeOK
<1>4. \A h \in Handlers : hook'[h].pc # "idle" => hook'[h].note \in sent
  <2>1. CASE CrashApi
    BY <2>1 DEF CrashApi, Idle
  <2>2. ASSUME NEW h \in Handlers, Respond(h)
        PROVE  \A g \in Handlers : hook'[g].pc # "idle" => hook'[g].note \in sent
    BY <2>2 DEF Respond, Idle, HeldInv, TypeOK, HookTypeOK
  <2>3. ASSUME NEW h \in Handlers, SaveEscrowEvent(h) \/ PublishHook(h)
        PROVE  \A g \in Handlers : hook'[g].pc # "idle" => hook'[g].note \in sent
    <3>1. hook[h].note \in sent
      BY <2>3 DEF SaveEscrowEvent, PublishHook, HeldInv
    <3>. QED
      BY <1>3, <2>3, <3>1 DEF SaveEscrowEvent, PublishHook
  <2>4. ASSUME NEW h \in Handlers, NEW n \in sent,
               ClaimKey(h, n) \/ SkipDuplicate(h, n) \/ DropUnverified(h, n)
        PROVE  \A g \in Handlers : hook'[g].pc # "idle" => hook'[g].note \in sent
    BY <1>3, <2>4 DEF ClaimKey, SkipDuplicate, DropUnverified
  <2>. QED
    BY <2>1, <2>2, <2>3, <2>4 DEF HookNext
<1>5. HeldInv'
  BY <1>1, <1>4 DEF HeldInv, Announced
<1>6. RowsComeFromChain'
  <2>1. CASE UNCHANGED row
    BY <1>1, <2>1 DEF RowsComeFromChain, Stored
  <2>2. ASSUME NEW h \in Handlers, SaveEscrowEvent(h), row' # row
        PROVE  RowsComeFromChain'
    <3>1. PICK n \in sent : n = hook[h].note
      BY <2>2 DEF SaveEscrowEvent, HeldInv
    <3>2. n.log \in Logs /\ n.blk \in Nat
      BY DEF TypeOK, WorldTypeOK, Note
    <3>3. row' = [row EXCEPT ![n.log] = Upsert(@, n.blk, n.removed)]
      BY <2>2, <3>1 DEF SaveEscrowEvent
    <3>4. SUFFICES ASSUME NEW l \in Logs, Stored(l)'
                   PROVE  /\ \E m \in sent : m.log = l /\ m.blk = row'[l].blk
                          /\ row'[l].removed => \E m \in sent : m.log = l /\ m.removed
      BY <1>1 DEF RowsComeFromChain
    <3>5. CASE l # n.log
      <4>1. row'[l] = row[l]
        BY <3>3, <3>5 DEF TypeOK, WorldTypeOK
      <4>. QED
        BY <3>4, <4>1 DEF RowsComeFromChain, Stored
    <3>6. CASE l = n.log
      <4>1. /\ row'[l].blk = IF row[l].blk = NoBlock THEN n.blk ELSE row[l].blk
            /\ row'[l].removed = n.removed
        BY <3>3, <3>6 DEF Upsert, TypeOK, WorldTypeOK
      <4>. QED
        BY <3>6, <4>1 DEF RowsComeFromChain, Stored
    <3>. QED
      BY <3>5, <3>6
  <2>. QED
    BY <2>1, <2>2 DEF HookNext, ClaimKey, SkipDuplicate, DropUnverified, PublishHook,
       Respond, CrashApi, worldVars, storeVars
<1>. QED
  BY <1>2, <1>5, <1>6

\* A poller holds logs of announced blocks and writes what it holds.
LEMMA PollKeepsProvenance ==
    ASSUME TypeOK, ProvenanceInv, PollNext, UNCHANGED hookVars
    PROVE  ProvenanceInv'
<1> USE DEF ProvenanceInv, TypeOK, PollTypeOK
<1>1. PICK p \in Pollers : PollStep(p) \/ AttemptFails(p) \/ CrashPoller(p)
  BY DEF PollNext
<1>2. UNCHANGED <<head, where, sent, hook>>
  BY <1>1 DEF PollStep, PollOnce, PollEscrow, GetLogs, ProcessLogs, SaveEscrowBatch,
     PublishEvent, NextBatch, AttemptFails, CrashPoller, worldVars, chainVars, hookVars
<1>3. ChainInv'
  BY <1>2 DEF ChainInv
<1>4. poller[p] \in PollerState
  OBVIOUS
<1>5. /\ \A q \in Pollers : q # p => poller'[q] = poller[q]
      /\ \A l \in Logs : poller'[p].logs[l] # NoBlock =>
             \/ poller'[p].logs[l] = poller[p].logs[l]
             \/ poller'[p].logs[l] = where[l]
  <2>1. \A l \in Logs : NoLogs[l] = NoBlock
    BY DEF NoLogs
  <2>2. ASSUME NEW s1 \in AfterFailure(poller[p]) PROVE s1.logs = NoLogs
    <3>1. PICK s \in PollerState : s = poller[p]
      BY <1>4
    <3>2. CASE s1 = AtRest
      BY <3>2 DEF AtRest
    <3>3. CASE s1 = [s EXCEPT !.pc = "getlogs", !.attempt = @ + 1, !.logs = NoLogs, !.kept = {}]
      BY <3>3 DEF PollerState
    <3>. QED
      BY <3>1, <3>2, <3>3 DEF AfterFailure
  <2>3. \A s \in PollerState, from \in Nat : BeginBatch(s, from).logs = NoLogs
    BY DEF BeginBatch, PollerState
  <2>4. AtRest.logs = NoLogs
    BY DEF AtRest
  <2>5. CASE AttemptFails(p)
    BY <2>1, <2>2, <2>5 DEF AttemptFails
  <2>6. CASE SaveEscrowBatch(p)
    <3>1. \/ poller' = [poller EXCEPT
                 ![p].pc = "publish", ![p].kept = IF p \in WithRedis THEN @ ELSE {}]
          \/ \E s1 \in AfterFailure(poller[p]) : poller' = [poller EXCEPT ![p] = s1]
      BY <2>6 DEF SaveEscrowBatch
    <3>. QED
      BY <1>4, <2>1, <2>2, <3>1 DEF PollerState
  <2>7. CASE PollEscrow(p)
    <3>1. GetEffectiveStartBlock(cp, StartBlock) \in Nat
      BY ResumeIsNat DEF WorldTypeOK
    <3>. QED
      BY <1>4, <2>1, <2>3, <2>4, <2>7, <3>1 DEF PollEscrow
  <2>8. CASE NextBatch(p)
    <3> DEFINE s == [poller[p] EXCEPT !.batches = @ + 1]
    <3>1. s \in PollerState /\ s.to + 1 \in Nat
      BY <1>4 DEF PollerState
    <3>2. poller' = [poller EXCEPT ![p] = BeginBatch(s, s.to + 1)]
          \/ poller' = [poller EXCEPT ![p] = AtRest]
      BY <2>8 DEF NextBatch
    <3>3. BeginBatch(s, s.to + 1).logs = NoLogs
      BY <2>3, <3>1
    <3>. QED
      BY <2>1, <2>4, <3>2, <3>3
  <2>9. CASE CrashPoller(p)
    BY <2>1, <2>4, <2>9 DEF CrashPoller
  <2>10. CASE PollOnce(p)
    BY <1>4, <2>10 DEF PollOnce, PollerState
  <2>11. CASE GetLogs(p)
    BY <1>4, <2>11 DEF GetLogs, PollerState
  <2>12. CASE ProcessLogs(p)
    BY <1>4, <2>12 DEF ProcessLogs, PollerState
  <2>13. CASE PublishEvent(p)
    BY <1>4, <2>13 DEF PublishEvent, PollerState
  <2>. QED
    BY <1>1, <2>5, <2>6, <2>7, <2>8, <2>9, <2>10, <2>11, <2>12, <2>13 DEF PollStep
<1>6. HeldInv'
  <2>1. \A l \in Logs : poller'[p].logs[l] # NoBlock =>
            \E n \in sent : n.log = l /\ n.blk = poller'[p].logs[l]
    BY <1>5 DEF HeldInv, Announced, ChainInv
  <2>. QED
    BY <1>2, <1>5, <2>1 DEF HeldInv, Announced
<1>7. RowsComeFromChain'
  <2>1. CASE UNCHANGED row
    BY <1>2, <2>1 DEF RowsComeFromChain, Stored
  <2>2. CASE SaveEscrowBatch(p)
    <3> DEFINE s == poller[p]
    <3>1. SUFFICES ASSUME NEW l \in Logs, Stored(l)'
                   PROVE  /\ \E m \in sent : m.log = l /\ m.blk = row'[l].blk
                          /\ row'[l].removed => \E m \in sent : m.log = l /\ m.removed
      BY <1>2 DEF RowsComeFromChain
    <3>2. row'[l] = IF l \in s.kept THEN Upsert(row[l], s.logs[l], FALSE) ELSE row[l]
      BY <2>2 DEF SaveEscrowBatch, RowsAfter
    <3>3. CASE l \notin s.kept
      BY <3>1, <3>2, <3>3 DEF RowsComeFromChain, Stored
    <3>4. CASE l \in s.kept
      <4>1. /\ row'[l].blk = IF row[l].blk = NoBlock THEN s.logs[l] ELSE row[l].blk
            /\ ~ row'[l].removed
        BY <3>2, <3>4 DEF Upsert
      <4>2. row[l].blk = NoBlock => s.logs[l] # NoBlock
        BY <3>1, <4>1 DEF Stored
      <4>. QED
        BY <4>1, <4>2 DEF RowsComeFromChain, Stored, HeldInv, Announced
    <3>. QED
      BY <3>3, <3>4
  <2>. QED
    BY <1>1, <2>1, <2>2 DEF PollStep, PollOnce, PollEscrow, GetLogs, ProcessLogs,
       PublishEvent, NextBatch, AttemptFails, CrashPoller, worldVars, storeVars
<1>. QED
  BY <1>3, <1>6, <1>7

\* No row is invented, by either path, under reorganisations of any depth: its
\* block is one the log was announced on, its removed flag one that was announced.
THEOREM RowsAreNotInvented == Spec => []RowsComeFromChain
<1>1. TypeOK /\ ProvenanceInv /\ [Next]_vars => ProvenanceInv'
  <2> SUFFICES ASSUME TypeOK, ProvenanceInv, [Next]_vars PROVE ProvenanceInv'
    OBVIOUS
  <2>1. CASE UNCHANGED vars
    BY <2>1 DEF vars, worldVars, chainVars, storeVars, hookVars, pollVars, ProvenanceInv,
       ChainInv, HeldInv, Announced, RowsComeFromChain, Stored
  <2>. QED
    BY <2>1, WorldKeepsProvenance, HookKeepsProvenance, PollKeepsProvenance DEF Next
<1>2. ProvenanceInv => RowsComeFromChain
  BY DEF ProvenanceInv
<1>. QED
  BY InitProvenance, <1>1, <1>2, TypeCorrect, PTL DEF Spec

-----------------------------------------------------------------------------
(***************************************************************************)
(* Broadcasts of the handlers.  What a handler may still broadcast is      *)
(* counted: every claim was made when the key was absent, so broadcasts    *)
(* made and to come are paid for by keys set and keys expired.             *)
(***************************************************************************)

\* The handlers that have claimed log l and not broadcast it yet.
Claims(l) == {h \in Handlers : hook[h].pc \in {"save", "publish"} /\ hook[h].note.log = l}

Paid(l) == expired + (IF l \in dedupe THEN 1 ELSE 0)

ClaimsInv ==
    \A l \in Logs :
        /\ hookPub[l] <= Paid(l)
        /\ apiRedis => /\ IsFiniteSet(Claims(l))
                       /\ hookPub[l] + Cardinality(Claims(l)) <= Paid(l)
        /\ ~ apiRedis => \A h \in Claims(l) : hook[h].pc # "publish"

LEMMA InitClaims == Init => ClaimsInv
<1> SUFFICES ASSUME Init, NEW l \in Logs
             PROVE  /\ hookPub[l] <= Paid(l)
                    /\ apiRedis => /\ IsFiniteSet(Claims(l))
                                   /\ hookPub[l] + Cardinality(Claims(l)) <= Paid(l)
                    /\ ~ apiRedis => \A h \in Claims(l) : hook[h].pc # "publish"
  BY DEF ClaimsInv
<1>1. Claims(l) = {}
  BY DEF Init, HookInit, Claims, Idle
<1>2. hookPub[l] = 0 /\ Paid(l) = 0
  BY DEF Init, WorldInit, HookInit, Paid
<1>. QED
  BY <1>1, <1>2, FS_EmptySet

\* Payments are counted, before and after a step.
LEMMA PaidIsNat ==
    ASSUME TypeOK
    PROVE  \A l \in Logs : Paid(l) \in Nat
<1>1. expired \in Nat
  BY ChainAssumption DEF TypeOK, WorldTypeOK
<1>. QED
  BY <1>1 DEF Paid

LEMMA PaidIsNatNext ==
    ASSUME TypeOK'
    PROVE  \A l \in Logs : Paid(l)' \in Nat
<1>1. expired' \in Nat
  BY ChainAssumption DEF TypeOK, WorldTypeOK
<1>2. \A l \in Logs : Paid(l)' = expired' + (IF l \in dedupe' THEN 1 ELSE 0)
  BY DEF Paid
<1>. QED
  BY <1>1, <1>2

\* A step that neither claims nor broadcasts and takes no payment away.
LEMMA NoClaimKeeps ==
    ASSUME TypeOK, TypeOK', ClaimsInv, UNCHANGED <<apiRedis, hookPub>>,
           \A l \in Logs : Paid(l)' >= Paid(l),
           \A h \in Handlers : \/ hook'[h].pc \notin {"save", "publish"}
                               \/ hook'[h] = hook[h]
    PROVE  ClaimsInv'
<1> SUFFICES ASSUME NEW l \in Logs
             PROVE  (/\ hookPub[l] <= Paid(l)
                     /\ apiRedis => /\ IsFiniteSet(Claims(l))
                                    /\ hookPub[l] + Cardinality(Claims(l)) <= Paid(l)
                     /\ ~ apiRedis => \A h \in Claims(l) : hook[h].pc # "publish")'
  BY DEF ClaimsInv
<1>1. Claims(l)' \subseteq Claims(l) /\ \A h \in Claims(l)' : hook'[h] = hook[h]
  BY DEF Claims
<1>2. Paid(l) \in Nat /\ Paid(l)' \in Nat /\ hookPub[l] \in Nat
  BY PaidIsNat, PaidIsNatNext DEF TypeOK, HookTypeOK
<1>3. Paid(l)' >= Paid(l)
  OBVIOUS
<1>4. CASE apiRedis
  <2>1. IsFiniteSet(Claims(l)) /\ hookPub[l] + Cardinality(Claims(l)) <= Paid(l)
    BY <1>4 DEF ClaimsInv
  <2>2. /\ IsFiniteSet(Claims(l)') /\ Cardinality(Claims(l)') <= Cardinality(Claims(l))
        /\ Cardinality(Claims(l)) \in Nat /\ Cardinality(Claims(l)') \in Nat
    BY <1>1, <2>1, FS_Subset, FS_CardinalityType
  <2>3. hookPub[l] + Cardinality(Claims(l)') <= Paid(l)'
    BY <1>2, <1>3, <2>1, <2>2
  <2>. QED
    BY <1>2, <1>4, <2>2, <2>3
<1>5. CASE ~ apiRedis
  BY <1>1, <1>2, <1>3, <1>5 DEF ClaimsInv, TypeOK, HookTypeOK
<1>. QED
  BY <1>4, <1>5

\* An expired key pays for the claim that its absence allows.
LEMMA WorldKeepsClaims ==
    ASSUME TypeOK, TypeOK', ClaimsInv, WorldNext, UNCHANGED <<hookVars, pollVars>>
    PROVE  ClaimsInv'
<1>1. expired \in Nat
  BY ChainAssumption DEF TypeOK, WorldTypeOK
<1>2. CASE \E k \in Logs : KeyExpires(k)
  <2>1. PICK k \in Logs : KeyExpires(k)
    BY <1>2
  <2>2. dedupe' = dedupe \ {k} /\ expired' = expired + 1
    BY <2>1 DEF KeyExpires
  <2>3. \A l \in Logs : Paid(l)' >= Paid(l)
    BY <1>1, <2>2 DEF Paid
  <2>. QED
    BY <2>3, NoClaimKeeps DEF hookVars
<1>3. CASE UNCHANGED <<dedupe, expired>>
  <2>1. \A l \in Logs : Paid(l)' >= Paid(l)
    BY <1>1, <1>3 DEF Paid
  <2>. QED
    BY <2>1, NoClaimKeeps DEF hookVars
<1>. QED
  BY <1>2, <1>3 DEF WorldNext, Mine, Reorg

\* A poller touches nothing the handlers' claims are made of.
LEMMA PollKeepsClaims ==
    ASSUME TypeOK, TypeOK', ClaimsInv, PollNext, UNCHANGED hookVars
    PROVE  ClaimsInv'
<1>1. UNCHANGED <<dedupe, expired>>
  BY DEF PollNext, PollStep, PollOnce, PollEscrow, GetLogs, ProcessLogs, SaveEscrowBatch,
     PublishEvent, NextBatch, AttemptFails, CrashPoller, worldVars
<1>2. \A l \in Logs : Paid(l)' >= Paid(l)
  BY <1>1 DEF Paid, TypeOK, WorldTypeOK
<1>. QED
  BY <1>2, NoClaimKeeps DEF hookVars

\* Each step of a handler keeps the account.
LEMMA HookKeepsClaims ==
    ASSUME TypeOK, TypeOK', ClaimsInv, HookNext
    PROVE  ClaimsInv'
<1> USE DEF TypeOK, HookTypeOK, WorldTypeOK
<1>1. ASSUME NEW h \in Handlers, NEW n \in sent, ClaimKey(h, n)
      PROVE  ClaimsInv'
  <2>1. /\ n \in Note /\ n.log \in Logs
        /\ hook' = [hook EXCEPT ![h] = [pc |-> "save", note |-> n]] /\ hook[h].pc = "idle"
        /\ UNCHANGED <<apiRedis, hookPub, expired>>
    BY <1>1 DEF ClaimKey, Goto, Note
  <2> SUFFICES ASSUME NEW l \in Logs
               PROVE  (/\ hookPub[l] <= Paid(l)
                       /\ apiRedis => /\ IsFiniteSet(Claims(l))
                                      /\ hookPub[l] + Cardinality(Claims(l)) <= Paid(l)
                       /\ ~ apiRedis => \A g \in Claims(l) : hook[g].pc # "publish")'
    BY DEF ClaimsInv
  <2>2. h \notin Claims(l)
    BY <2>1 DEF Claims
  <2>3. Claims(l)' = IF n.log = l THEN Claims(l) \cup {h} ELSE Claims(l)
    BY <2>1, <2>2 DEF Claims
  <2>4. CASE apiRedis
    <3>1. /\ n.log \notin dedupe /\ dedupe' = dedupe \cup {n.log}
      BY <1>1, <2>4 DEF ClaimKey
    <3>2. IsFiniteSet(Claims(l)) /\ hookPub[l] + Cardinality(Claims(l)) <= Paid(l)
      BY <2>4 DEF ClaimsInv
    <3>3. IF n.log = l THEN Paid(l)' = Paid(l) + 1 ELSE Paid(l)' = Paid(l)
      BY <2>1, <3>1 DEF Paid
    <3>4. /\ IsFiniteSet(Claims(l) \cup {h})
          /\ Cardinality(Claims(l) \cup {h}) = Cardinality(Claims(l)) + 1
          /\ Cardinality(Claims(l)) \in Nat
      BY <2>2, <3>2, FS_AddElement, FS_CardinalityType
    <3>5. hookPub[l] \in Nat /\ Paid(l) \in Nat
      BY DEF Paid
    <3>6. IsFiniteSet(Claims(l)') /\ hookPub[l] + Cardinality(Claims(l)') <= Paid(l)'
      BY <2>3, <3>2, <3>3, <3>4, <3>5
    <3>7. Cardinality(Claims(l)') \in Nat
      BY <3>6, FS_CardinalityType
    <3>8. hookPub[l] <= Paid(l)'
      BY <3>2, <3>3, <3>4, <3>5
    <3>. QED
      BY <2>1, <2>4, <3>6, <3>8
  <2>5. CASE ~ apiRedis
    <3>1. dedupe' = dedupe
      BY <1>1, <2>5 DEF ClaimKey
    <3>2. Paid(l)' = Paid(l)
      BY <2>1, <3>1 DEF Paid
    <3>3. \A g \in Claims(l)' : hook'[g].pc # "publish"
      BY <2>1, <2>3, <2>5 DEF ClaimsInv
    <3>. QED
      BY <2>1, <2>5, <3>2, <3>3 DEF ClaimsInv
  <2>. QED
    BY <2>4, <2>5
<1>2. ASSUME NEW h \in Handlers, NEW n \in sent, SkipDuplicate(h, n) \/ DropUnverified(h, n)
      PROVE  ClaimsInv'
  <2>1. /\ hook' = [hook EXCEPT ![h] = [pc |-> "respond", note |-> n]]
        /\ UNCHANGED <<apiRedis, hookPub, expired>> /\ dedupe \subseteq dedupe'
    BY <1>2 DEF SkipDuplicate, DropUnverified, Goto, worldVars
  <2>2. \A l \in Logs : Paid(l)' >= Paid(l)
    BY <2>1 DEF Paid
  <2>. QED
    BY <2>1, <2>2, NoClaimKeeps
<1>3. ASSUME NEW h \in Handlers, SaveEscrowEvent(h)
      PROVE  ClaimsInv'
  <2> DEFINE n == hook[h].note
  <2>1. /\ hook' = [hook EXCEPT ![h] = [pc |-> IF apiRedis THEN "publish" ELSE "respond",
                                        note |-> n]]
        /\ hook[h].pc = "save"
        /\ UNCHANGED <<apiRedis, hookPub, expired, dedupe>>
    BY <1>3 DEF SaveEscrowEvent, Goto
  <2>2. \A l \in Logs : Paid(l)' = Paid(l)
    BY <2>1 DEF Paid
  <2>3. CASE apiRedis
    <3>1. \A l \in Logs : Claims(l)' = Claims(l)
      BY <2>1, <2>3 DEF Claims
    <3>. QED
      BY <2>1, <2>2, <2>3, <3>1 DEF ClaimsInv
  <2>4. CASE ~ apiRedis
    <3>1. \A g \in Handlers : hook'[g].pc \notin {"save", "publish"} \/ hook'[g] = hook[g]
      BY <2>1, <2>4
    <3>2. \A l \in Logs : Paid(l)' >= Paid(l)
      BY <2>2, PaidIsNat
    <3>. QED
      BY <2>1, <3>1, <3>2, NoClaimKeeps
  <2>. QED
    BY <2>3, <2>4
<1>4. ASSUME NEW h \in Handlers, PublishHook(h)
      PROVE  ClaimsInv'
  <2> DEFINE n == hook[h].note
  <2>1. /\ hook' = [hook EXCEPT ![h] = [pc |-> "respond", note |-> n]]
        /\ hook[h].pc = "publish" /\ n.log \in Logs
        /\ UNCHANGED <<apiRedis, expired, dedupe>>
    BY <1>4 DEF PublishHook, Goto, Idle, Note
  <2>2. h \in Claims(n.log)
    BY <2>1 DEF Claims
  <2>3. apiRedis
    BY <2>1, <2>2 DEF ClaimsInv
  <2> SUFFICES ASSUME NEW l \in Logs
               PROVE  (/\ hookPub[l] <= Paid(l)
                       /\ IsFiniteSet(Claims(l))
                       /\ hookPub[l] + Cardinality(Claims(l)) <= Paid(l))'
    BY <2>1, <2>3 DEF ClaimsInv
  <2>4. Claims(l)' = IF n.log = l THEN Claims(l) \ {h} ELSE Claims(l)
    BY <2>1 DEF Claims
  <2>5. /\ IsFiniteSet(Claims(l)) /\ hookPub[l] + Cardinality(Claims(l)) <= Paid(l)
        /\ Paid(l)' = Paid(l) /\ Paid(l) \in Nat /\ hookPub[l] \in Nat
        /\ Cardinality(Claims(l)) \in Nat
    BY <2>1, <2>3, FS_CardinalityType DEF ClaimsInv, Paid
  <2>6. hookPub'[l] = hookPub[l] \/ (n.log = l /\ hookPub'[l] = hookPub[l] + 1)
    BY <1>4, <2>1 DEF PublishHook
  <2>7. CASE n.log = l
    <3>1. /\ IsFiniteSet(Claims(l) \ {h})
          /\ Cardinality(Claims(l) \ {h}) = Cardinality(Claims(l)) - 1
          /\ Cardinality(Claims(l) \ {h}) \in Nat
      BY <2>2, <2>5, <2>7, FS_RemoveElement, FS_CardinalityType
    <3>. QED
      BY <2>4, <2>5, <2>6, <2>7, <3>1
  <2>8. CASE n.log # l
    BY <2>4, <2>5, <2>6, <2>8
  <2>. QED
    BY <2>7, <2>8
<1>5. ASSUME NEW h \in Handlers, Respond(h)
      PROVE  ClaimsInv'
  <2>1. /\ hook' = [hook EXCEPT ![h] = Idle]
        /\ UNCHANGED <<apiRedis, hookPub, expired, dedupe>>
    BY <1>5 DEF Respond, worldVars
  <2>2. \A l \in Logs : Paid(l)' >= Paid(l)
    BY <2>1 DEF Paid
  <2>3. \A g \in Handlers : hook'[g].pc \notin {"save", "publish"} \/ hook'[g] = hook[g]
    BY <2>1 DEF Idle
  <2>. QED
    BY <2>1, <2>2, <2>3, NoClaimKeeps
<1>6. ASSUME CrashApi
      PROVE  ClaimsInv'
  <2>1. hook' = [h \in Handlers |-> Idle] /\ UNCHANGED <<hookPub, expired, dedupe>>
    BY <1>6 DEF CrashApi
  <2> SUFFICES ASSUME NEW l \in Logs
               PROVE  (/\ hookPub[l] <= Paid(l)
                       /\ apiRedis => /\ IsFiniteSet(Claims(l))
                                      /\ hookPub[l] + Cardinality(Claims(l)) <= Paid(l)
                       /\ ~ apiRedis => \A h \in Claims(l) : hook[h].pc # "publish")'
    BY DEF ClaimsInv
  <2>2. Claims(l)' = {}
    BY <2>1 DEF Claims, Idle
  <2>3. hookPub[l] <= Paid(l) /\ Paid(l)' = Paid(l) /\ hookPub[l] \in Nat
    BY <2>1 DEF ClaimsInv, Paid
  <2>. QED
    BY <2>1, <2>2, <2>3, FS_EmptySet
<1>. QED
  BY <1>1, <1>2, <1>3, <1>4, <1>5, <1>6 DEF HookNext

\* However often and to however many handlers its notifications are delivered,
\* a log is broadcast at most once for each life of its key.
THEOREM BroadcastOncePerKey == Spec => []HookAnnouncesOnce
<1>1. TypeOK /\ TypeOK' /\ ClaimsInv /\ [Next]_vars => ClaimsInv'
  <2> SUFFICES ASSUME TypeOK, TypeOK', ClaimsInv, [Next]_vars PROVE ClaimsInv'
    OBVIOUS
  <2>1. CASE UNCHANGED vars
    BY <2>1 DEF vars, worldVars, hookVars, ClaimsInv, Claims, Paid
  <2>. QED
    BY <2>1, WorldKeepsClaims, HookKeepsClaims, PollKeepsClaims DEF Next
<1>2. TypeOK /\ ClaimsInv => HookAnnouncesOnce
  BY DEF TypeOK, WorldTypeOK, HookTypeOK, ClaimsInv, Paid, HookAnnouncesOnce
<1>. QED
  BY InitClaims, <1>1, <1>2, TypeCorrect, PTL DEF Spec

=============================================================================
