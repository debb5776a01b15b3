--------------------------- MODULE EscrowWebhook ---------------------------
(***************************************************************************)
(* The push path: HandleAlchemyWebhook.  A handler is a goroutine that     *)
(* works through one notified log: claim the Redis key, store the row,     *)
(* broadcast, answer 200.  A delivery with several logs is several such    *)
(* passes, no error of one ends the others.  Deliveries may be duplicated, *)
(* reordered or lost: any notification emitted so far may arrive at any    *)
(* time, any number of times.                                              *)
(***************************************************************************)
EXTENDS EscrowChain

CONSTANT Handlers  \* concurrent HTTP handlers of the API process

VARIABLES
    apiRedis,  \* whether the API process reached Redis when it started
    hook,      \* hook[h]: where handler h is and the notification it holds
    hookPub    \* history: broadcasts made by handlers, by log

hookVars == <<apiRedis, hook, hookPub>>

Idle == [pc |-> "idle"]
HookTypeOK ==
    /\ apiRedis \in BOOLEAN
    /\ hook \in [Handlers -> {Idle} \cup
                             [pc : {"save", "publish", "respond"}, note : Note]]
    /\ hookPub \in [Logs -> Nat]

HookInit ==
    /\ apiRedis \in BOOLEAN
    /\ hook = [h \in Handlers |-> Idle]
    /\ hookPub = [l \in Logs |-> 0]

Goto(h, pc, n) == hook' = [hook EXCEPT ![h] = [pc |-> pc, note |-> n]]

-----------------------------------------------------------------------------
\* A handler that looks the key up instead of setting it in the same command.
LookUpKey(h, n) ==
    /\ hook[h].pc = "idle"
    /\ apiRedis => n.log \notin dedupe
    /\ dedupe' = dedupe
    /\ Goto(h, "save", n)
    /\ UNCHANGED <<chainVars, storeVars, faults, expired, apiRedis, hookPub>>

\* SETNX sets the key of a log not seen before; a handler without a Redis
\* client goes straight to the database.
ClaimKey(h, n) ==
    /\ hook[h].pc = "idle"
    /\ apiRedis => n.log \notin dedupe
    /\ dedupe' = IF apiRedis THEN dedupe \cup {n.log} ELSE dedupe
    /\ Goto(h, "save", n)
    /\ UNCHANGED <<chainVars, storeVars, faults, expired, apiRedis, hookPub>>

\* The key exists: the log is taken for a duplicate, whatever its removed flag.
SkipDuplicate(h, n) ==
    /\ hook[h].pc = "idle"
    /\ apiRedis
    /\ n.log \in dedupe
    /\ Goto(h, "respond", n)
    /\ UNCHANGED <<worldVars, apiRedis, hookPub>>

\* Redis answers with an error and the log is dropped (fail closed); when only
\* the reply was lost the key is set all the same.
DropUnverified(h, n) ==
    /\ hook[h].pc = "idle"
    /\ apiRedis
    /\ Fault
    /\ dedupe' \in {dedupe, dedupe \cup {n.log}}
    /\ Goto(h, "respond", n)
    /\ UNCHANGED <<chainVars, storeVars, expired, apiRedis, hookPub>>

\* SaveEscrowEvent: an error is logged and nothing else.
SaveEscrowEvent(h) ==
    LET n == hook[h].note IN
    /\ hook[h].pc = "save"
    /\ \/ /\ row' = [row EXCEPT ![n.log] = Upsert(@, n.blk, n.removed)]
          /\ UNCHANGED faults
       \/ /\ Fault
          /\ UNCHANGED row
    /\ Goto(h, IF apiRedis THEN "publish" ELSE "respond", n)
    /\ UNCHANGED <<chainVars, dedupe, cp, skipped, expired, apiRedis, hookPub>>

\* Broadcast on wtf:chain:events and wtf:chain:settled; errors are ignored.
PublishHook(h) ==
    LET n == hook[h].note IN
    /\ hook[h].pc = "publish"
    /\ \/ /\ hookPub' = [hookPub EXCEPT ![n.log] = @ + 1]
          /\ UNCHANGED faults
       \/ /\ Fault
          /\ UNCHANGED hookPub
    /\ Goto(h, "respond", n)
    /\ UNCHANGED <<chainVars, dedupe, storeVars, expired, apiRedis>>

\* 200 OK in every case.
Respond(h) ==
    /\ hook[h].pc = "respond"
    /\ hook' = [hook EXCEPT ![h] = Idle]
    /\ UNCHANGED <<worldVars, apiRedis, hookPub>>

\* The API process dies, all its handlers with it, and is started again; it
\* runs without Redis when Redis does not answer at that moment.
CrashApi ==
    /\ Fault
    /\ apiRedis' \in BOOLEAN
    /\ hook' = [h \in Handlers |-> Idle]
    /\ UNCHANGED <<chainVars, dedupe, storeVars, expired, hookPub>>

HookNext ==
    \/ \E h \in Handlers :
           \/ \E n \in sent :
                  \/ ClaimKey(h, n)
                  \/ SkipDuplicate(h, n)
                  \/ DropUnverified(h, n)
           \/ SaveEscrowEvent(h)
           \/ PublishHook(h)
           \/ Respond(h)
    \/ CrashApi

=============================================================================
