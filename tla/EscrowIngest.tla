---------------------------- MODULE EscrowIngest ----------------------------
(***************************************************************************)
(* The dual-path escrow ingestion: the webhook handlers of the API process *)
(* and the pollers, side by side over one chain, one Redis and one         *)
(* database, with no coordination beyond the tables' unique keys.          *)
(***************************************************************************)
EXTENDS EscrowWebhook, EscrowPoller

vars == <<worldVars, hookVars, pollVars>>

Init == WorldInit /\ HookInit /\ PollInit

Next ==
    \/ WorldNext /\ UNCHANGED <<hookVars, pollVars>>
    \/ HookNext /\ UNCHANGED pollVars
    \/ PollNext /\ UNCHANGED hookVars

Spec == Init /\ [][Next]_vars

(***************************************************************************)
(* The monitor's ticker fires for ever and a crashed monitor is restarted, *)
(* so its steps are weakly fair.  The chain, the push service, the         *)
(* handlers, the backfills and the faults owe nothing.                     *)
(***************************************************************************)
Fairness ==
    \A p \in Monitors : WF_vars(PollStep(p) /\ UNCHANGED hookVars)

FairSpec == Spec /\ Fairness

\* The steps of this module only take values of the declared shapes.
TypeOK == WorldTypeOK /\ HookTypeOK /\ PollTypeOK

-----------------------------------------------------------------------------
(***************************************************************************)
(* Safety.                                                                 *)
(***************************************************************************)

\* Every log on a block at or below the checkpoint has its row, or was skipped
\* by the batch that covered it.  The checkpoint is never read again for blocks
\* it has passed, so a log missed here is missed for good.  At stake: batch
\* bounds, resume position, atomic batch, retries, lost commit replies,
\* several pollers, and reorganisations racing GetLogs.
Covered(b) ==
    \A l \in Logs : where[l] \in StartBlock .. b => Stored(l) \/ l \in skipped

CheckpointCovers == Covered(cp)

\* What a poller broadcasts is stored and on a block that no reorganisation can
\* replace: a subscriber of wtf:chain:settled that acts on a poller's message
\* acts on a final fact.
PollerAnnouncesFinal ==
    \A l \in pollPub : Stored(l) /\ where[l] # NoBlock /\ Final(where[l])

\* A row is never invented: the block it names is one the log was really on,
\* and it is marked removed only if the log really left a block.
RowsComeFromChain ==
    \A l \in Logs : Stored(l) =>
        /\ \E n \in sent : n.log = l /\ n.blk = row[l].blk
        /\ row[l].removed => \E n \in sent : n.log = l /\ n.removed

\* While its Redis key lives a log is broadcast by at most one handler, however
\* often and in whatever order its notifications are delivered to concurrent
\* handlers; every key that expired allows one broadcast more.
HookAnnouncesOnce == \A l \in Logs : hookPub[l] <= 1 + expired

\* No step changes which logs the blocks at or below the checkpoint hold: the
\* checkpoint never runs ahead of finality.
CheckpointIsFinal ==
    [][\A l \in Logs :
           (where[l] \in 0 .. cp \/ where'[l] \in 0 .. cp) => where'[l] = where[l]]_vars

\* With a single poller the checkpoint never goes back, through retries,
\* crashes and restarts.
CheckpointMonotonic == [][cp' >= cp]_cp

\* The escrow tables are a checkpointed stream: every step of either path is a
\* step of the abstract stream or leaves it alone.
Stream == INSTANCE CheckpointedStream
              WITH done <- {l \in Logs : Stored(l) \/ l \in skipped}

ImplementsStream == Stream!Spec

(***************************************************************************)
(* Liveness.                                                               *)
(***************************************************************************)

\* A log that is final is eventually behind the checkpoint, whatever the
\* webhook path loses, drops or crashes on.
FinalLogIsCheckpointed ==
    \A l \in Logs :
        (where[l] >= StartBlock /\ Final(where[l])) ~> (cp >= where[l])

-----------------------------------------------------------------------------
(***************************************************************************)
(* The inductive invariant behind the safety properties: what each poller  *)
(* knows at each point of its loop.                                        *)
(***************************************************************************)

\* Reorganisations are no deeper than the confirmations the pollers wait for,
\* and no backfill takes a short chain's head for a safe target.
SafeDeployment ==
    /\ MaxReorgDepth <= ConfirmationDepth
    /\ Backfills = {} \/ ConfirmationDepth <= 1

InBatch(s) == s.pc \in {"getlogs", "decode", "save", "publish"}

\* The chain holds mined logs on mined blocks, and every place a log was ever
\* on was announced.
ChainInv ==
    \A l \in Logs : where[l] # NoBlock =>
        /\ where[l] \in 1 .. head
        /\ \E n \in sent : n.log = l /\ n.blk = where[l]

\* A poller's target is final; its batch lies below the target, resumes where
\* everything is covered, and holds a complete and current GetLogs answer until
\* the commit; what is left to broadcast is stored.
PollerInv(s) ==
    /\ s.pc # "idle" => Final(s.safe)
    /\ InBatch(s) => /\ StartBlock <= s.from /\ s.from <= s.to /\ s.to <= s.safe
                     /\ Covered(s.from - 1)
    /\ s.pc \in {"decode", "save", "publish"} =>
           \A l \in Logs :
               s.logs[l] = IF where[l] \in s.from .. s.to THEN where[l] ELSE NoBlock
    /\ s.pc \in {"save", "publish"} => s.kept \subseteq Returned(s)
    /\ s.pc = "publish" => Covered(s.to) /\ \A l \in s.kept : Stored(l)

PollersInv ==
    /\ ChainInv
    /\ cp # NoBlock => Final(cp)
    /\ CheckpointCovers
    /\ PollerAnnouncesFinal
    /\ \A p \in Pollers : PollerInv(poller[p])

-----------------------------------------------------------------------------
(***************************************************************************)
(* What the documents say and the code does not do.                        *)
(***************************************************************************)

\* A removal that a handler has answered for is in the table, unless the log
\* is on the chain again (README, "Reorg Safety & Removed Log Propagation").
\* The key of the log's first notification makes its removal a duplicate.
RemovalApplied ==
    \A h \in Handlers :
        LET l == hook[h].note.log IN
        hook[h].pc = "respond" /\ hook[h].note.removed /\ where[l] = NoBlock
            => ~ Stored(l) \/ row[l].removed

\* The checkpoint passes no log that was not saved (docs/01: "Never checkpoint
\* data that was not successfully saved").  A failed timestamp request makes
\* IndexRange skip a known log as if its topic were unknown.
CheckpointedIsSaved == \A l \in Logs : where[l] \in StartBlock .. cp => Stored(l)

=============================================================================
