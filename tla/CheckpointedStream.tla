------------------------ MODULE CheckpointedStream ------------------------
(***************************************************************************)
(* What an indexing stream promises, whatever its tables look like: it     *)
(* accounts for logs in any order and at any time, but its checkpoint only *)
(* moves forward, only over buried blocks, and only once every log of the  *)
(* blocks it passes is accounted for.  The chain may replace any block     *)
(* that is not buried.                                                     *)
(***************************************************************************)
EXTENDS ChainBlocks

CONSTANTS Logs, StartBlock, ConfirmationDepth

VARIABLES head, where, cp, done

vars == <<head, where, cp, done>>

Buried(b, h) == b = 0 \/ (b > 0 /\ b + ConfirmationDepth <= h)

Init ==
    /\ head = 0
    /\ where = [l \in Logs |-> NoBlock]
    /\ cp = NoBlock
    /\ done = {}

\* The head grows and logs move, between blocks that are not buried.
ChainMoves ==
    /\ head' \in Nat /\ head' >= head
    /\ \A l \in Logs : where'[l] # where[l] =>
           ~ Buried(where[l], head) /\ ~ Buried(where'[l], head)
    /\ UNCHANGED <<cp, done>>

\* Logs are accounted for, and the checkpoint may pass blocks that are.
Account ==
    /\ done \subseteq done'
    /\ \/ cp' = cp
       \/ /\ cp' \in Nat /\ cp' > cp
          /\ Buried(cp', head)
          /\ \A l \in Logs : where[l] \in StartBlock .. cp' => l \in done'
    /\ UNCHANGED <<head, where>>

Next == ChainMoves \/ Account

Spec == Init /\ [][Next]_vars

-----------------------------------------------------------------------------
(***************************************************************************)
(* What follows for a reader of the tables.                                *)
(***************************************************************************)

\* No log on a block the checkpoint has passed is missing, now or later: passing a
\* block once is enough.
PassedIsAccounted == \A l \in Logs : where[l] \in StartBlock .. cp => l \in done

\* Such a log stays where it is, and none joins it.
PassedIsFinal ==
    [][\A l \in Logs : where[l] \in StartBlock .. cp \/ where'[l] \in StartBlock .. cp
           => where'[l] = where[l]]_vars

\* The checkpoint never goes back.
CheckpointOnlyGrows == [][cp' >= cp]_vars

=============================================================================
