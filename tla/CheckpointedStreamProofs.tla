---------------------- MODULE CheckpointedStreamProofs ----------------------
(***************************************************************************)
(* What every implementation of CheckpointedStream inherits from it, for   *)
(* any logs, start block and confirmation depth.                           *)
(***************************************************************************)
EXTENDS CheckpointedStream, TLAPS

StreamParameters == StartBlock \in Nat /\ ConfirmationDepth \in Nat

\* The checkpoint is buried, which later heads keep, and what it passed accounted for.
StreamInv ==
    /\ head \in Nat /\ cp \in Nat \cup {NoBlock}
    /\ cp # NoBlock => Buried(cp, head)
    /\ PassedIsAccounted

\* Every block up to a buried one is buried.
LEMMA BuriedBelow ==
    ASSUME StreamParameters, NEW h \in Nat, NEW c \in Nat, Buried(c, h),
           NEW b \in StartBlock .. c
    PROVE  Buried(b, h)
  BY DEF StreamParameters, Buried

\* So the chain leaves the logs of the blocks that were passed where they are.
LEMMA ChainLeavesPassed ==
    ASSUME StreamParameters, StreamInv, ChainMoves, NEW l \in Logs,
           where[l] \in StartBlock .. cp \/ where'[l] \in StartBlock .. cp
    PROVE  where'[l] = where[l]
<1>1. cp \in Nat /\ head \in Nat /\ Buried(cp, head)
  BY DEF StreamInv, StreamParameters, NoBlock
<1>2. Buried(where[l], head) \/ Buried(where'[l], head)
  BY <1>1, BuriedBelow
<1>. QED
  BY <1>2 DEF ChainMoves

LEMMA InitStream ==
    ASSUME StreamParameters, Init
    PROVE  StreamInv
<1>1. \A l \in Logs : where[l] = NoBlock
  BY DEF Init
<1>2. head = 0 /\ cp = NoBlock /\ NoBlock \notin StartBlock .. NoBlock
  BY DEF Init, NoBlock, StreamParameters
<1>. QED
  BY <1>1, <1>2 DEF StreamInv, PassedIsAccounted

LEMMA NextStream ==
    ASSUME StreamParameters, StreamInv, [Next]_vars
    PROVE  StreamInv'
<1>1. CASE ChainMoves
  <2>1. head' \in Nat /\ head' >= head /\ UNCHANGED <<cp, done>>
    BY <1>1 DEF ChainMoves
  <2>2. cp # NoBlock => Buried(cp, head')
    BY <2>1 DEF StreamInv, Buried, StreamParameters, NoBlock
  <2>3. PassedIsAccounted'
    <3> SUFFICES ASSUME NEW l \in Logs, where'[l] \in StartBlock .. cp' PROVE l \in done'
      BY DEF PassedIsAccounted
    <3>1. where'[l] = where[l]
      BY <1>1, <2>1, ChainLeavesPassed
    <3>. QED
      BY <2>1, <3>1 DEF StreamInv, PassedIsAccounted
  <2>. QED
    BY <2>1, <2>2, <2>3 DEF StreamInv, Buried
<1>2. CASE Account
  <2>1. UNCHANGED <<head, where>> /\ done \subseteq done'
    BY <1>2 DEF Account
  <2>2. CASE cp' = cp
    BY <2>1, <2>2 DEF StreamInv, PassedIsAccounted, Buried
  <2>3. CASE /\ cp' \in Nat /\ Buried(cp', head)
             /\ \A l \in Logs : where[l] \in StartBlock .. cp' => l \in done'
    BY <2>1, <2>3 DEF StreamInv, PassedIsAccounted, Buried
  <2>. QED
    BY <1>2, <2>2, <2>3 DEF Account
<1>3. CASE UNCHANGED vars
  BY <1>3 DEF vars, StreamInv, PassedIsAccounted, Buried
<1>. QED
  BY <1>1, <1>2, <1>3 DEF Next

\* What a step does to the blocks passed and to the checkpoint.
LEMMA StepOfStream ==
    ASSUME StreamParameters, StreamInv, [Next]_vars
    PROVE  /\ \A l \in Logs : where[l] \in StartBlock .. cp \/ where'[l] \in StartBlock .. cp
                  => where'[l] = where[l]
           /\ cp' >= cp
<1>1. cp \in Int
  BY DEF StreamInv, NoBlock
<1>2. CASE ChainMoves
  BY <1>1, <1>2, ChainLeavesPassed DEF ChainMoves
<1>3. CASE Account
  BY <1>1, <1>3 DEF Account
<1>4. CASE UNCHANGED vars
  BY <1>1, <1>4 DEF vars
<1>. QED
  BY <1>2, <1>3, <1>4 DEF Next

\* An indexing stream that only ever moves its checkpoint over buried blocks it has
\* accounted for leaves no gap behind, although it never looks back: what is missing
\* below the checkpoint in some state was missing when the checkpoint passed.
THEOREM NoGapBehindCheckpoint == StreamParameters => (Spec => []PassedIsAccounted)
<1> SUFFICES ASSUME StreamParameters PROVE Spec => []PassedIsAccounted
  OBVIOUS
<1>0. Init => StreamInv
  BY InitStream
<1>1. StreamInv /\ [Next]_vars => StreamInv'
  BY NextStream
<1>2. StreamInv => PassedIsAccounted
  BY DEF StreamInv
<1>. QED
  BY <1>0, <1>1, <1>2, PTL DEF Spec

\* Nor does the chain change below the checkpoint, nor the checkpoint go back.
THEOREM PassedForGood == StreamParameters => (Spec => PassedIsFinal /\ CheckpointOnlyGrows)
<1> SUFFICES ASSUME StreamParameters PROVE Spec => PassedIsFinal /\ CheckpointOnlyGrows
  OBVIOUS
<1>0. Init => StreamInv
  BY InitStream
<1>1. StreamInv /\ [Next]_vars => StreamInv'
  BY NextStream
<1>2. StreamInv /\ [Next]_vars =>
        [\A l \in Logs : where[l] \in StartBlock .. cp \/ where'[l] \in StartBlock .. cp
             => where'[l] = where[l]]_vars
  BY StepOfStream
<1>3. StreamInv /\ [Next]_vars => [cp' >= cp]_vars
  BY StepOfStream
<1>. QED
  BY <1>0, <1>1, <1>2, <1>3, PTL DEF Spec, PassedIsFinal, CheckpointOnlyGrows

=============================================================================
