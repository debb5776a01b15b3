---------------------------- MODULE ChainBlocks ----------------------------
(***************************************************************************)
(* Block arithmetic shared by every indexing stream: the confirmed head,   *)
(* the resume position and the next batch.  Blocks are naturals; -1 stands *)
(* for "no block" (no checkpoint row, a log that is on no block).          *)
(***************************************************************************)
EXTENDS Integers

NoBlock == -1

\* A target that underflows on a short chain, one that asks for a confirmation too many,
\* one that forgets one, and one that forgets them all.
UnclampedTarget(latest, depth) == latest - depth
LateTarget(latest, depth) == IF latest <= depth THEN 0 ELSE latest - depth - 1
HastyTarget(latest, depth) == IF latest < depth THEN 0 ELSE latest - depth + 1
UnconfirmedTarget(latest, depth) == latest

\* The block the live monitor may index up to when the node's head is latest.
CalculateSafeTarget(latest, depth) ==
    IF depth > 0 /\ latest < depth THEN 0 ELSE latest - depth

\* The target a one-shot backfill picks when neither a flag nor the
\* configuration names one: it keeps latest itself on a short chain.
BackfillTarget(latest, depth) ==
    IF depth > 0 /\ latest >= depth THEN latest - depth ELSE latest

\* A resume position that jumps over a block, one that takes the start block for
\* indexed already, and one that ignores progress.
ResumeTooFar(checkpoint, start) ==
    IF checkpoint = NoBlock \/ checkpoint + 1 < start THEN start ELSE checkpoint + 2
ResumePastStart(checkpoint, start) == IF checkpoint < start THEN start + 1 ELSE checkpoint + 1
ResumeFromStart(checkpoint, start) == start

\* Where a stream resumes from its checkpoint, never below its start block.
GetEffectiveStartBlock(checkpoint, start) ==
    IF checkpoint = NoBlock \/ checkpoint + 1 < start THEN start ELSE checkpoint + 1

\* A resume position that jumps over a block of a stream without clamp.
NextBlockTooFar(checkpoint, start) == IF checkpoint = NoBlock THEN start ELSE checkpoint + 2

\* Where the payroll stream resumes: its checkpoint is never compared with the
\* start block.
CalculateNextBlock(checkpoint, start) == IF checkpoint = NoBlock THEN start ELSE checkpoint + 1

\* The last block of the batch that begins at from.
BatchEnd(from, batch, target) ==
    IF from + batch - 1 > target THEN target ELSE from + batch - 1

=============================================================================
