------------------------------ MODULE Handoff ------------------------------
(***************************************************************************)
(* Who answers a customer: the Agent or one human.  handoff_states holds   *)
(* the owner of one conversation; the web console, the mobile app, the     *)
(* collaboration requests, the Agent and the maintenance timer change it.  *)
(*                                                                         *)
(* Most of them take the conversation's ownership lock and are one atomic  *)
(* action here, enabled when nobody else holds the lock.  The two that     *)
(* write a message hold it over two actions, since the web transfer does   *)
(* not take it.  The timer reads its rows before it takes the lock.        *)
(*                                                                         *)
(* A request that carries an old revision, or whose clientRequestId was    *)
(* recorded, changes nothing: only those that carry the current revision   *)
(* and a new id appear.  Deadlines are left out: they may always have      *)
(* passed.                                                                 *)
(***************************************************************************)
EXTENDS Naturals

CONSTANTS Users,     \* active users
          Members,   \* those in the specialist queue, or tagged with its key
          NoUser,    \* no user
          Agent      \* the Agent's worker, as a holder of the lock

ASSUME HandoffAssumption ==
    /\ Members \subseteq Users
    /\ NoUser \notin Users /\ Agent \notin Users /\ Agent # NoUser

VARIABLES handoff,   \* handoff_states of the conversation
          cycle,     \* the handoff_cycles row it points to
          turn,      \* the conversation's agent turn: none, active
          outbox,    \* pending outbound messages of the Agent, by kind
          lock,      \* the holder of pg_advisory_xact_lock and the revision it read
          sweep,     \* the row the maintenance timer has read
          bound      \* no request is made once the revision reaches it

handoffVars == <<handoff, cycle, turn, outbox, lock, sweep, bound>>

Statuses == {"pending", "transfer_pending", "in_progress", "resolved"}
Queues == {"none", "expert", "general"}
Kinds == {"reply", "farewell", "scheduled", "nudge"}
Unlocked == [by |-> NoUser, rev |-> 0]
NoSweep == [kind |-> "none", rev |-> 0, queue |-> "none"]

\* A conversation without a row behaves like a resolved one.
HandoffInit ==
    /\ handoff = [st |-> "resolved", assignee |-> NoUser, queue |-> "none",
                  target |-> NoUser, fallback |-> "none", since |-> FALSE,
                  paused |-> FALSE, rev |-> 0]
    /\ cycle = [st |-> "resolved", assignee |-> NoUser, brief |-> FALSE]
    /\ turn = "none"
    /\ outbox = {}
    /\ lock = Unlocked
    /\ sweep = NoSweep

\* Mutant: nobody waits for the ownership lock.
LockFree_Ignored == TRUE

LockFree == lock.by = NoUser

\* A change under the lock, taken and given back in one transaction.
Locked == LockFree /\ handoff.rev < bound /\ UNCHANGED <<lock, sweep, bound>>

OwnedBy(u) == handoff.st = "in_progress" /\ handoff.assignee = u

(***************************************************************************)
(* A cycle begins: the Agent is paused, its turn suppressed and its        *)
(* pending messages cancelled; a farewell is written after that.           *)
(***************************************************************************)
\* Mutant: the pending messages of the Agent are left to be sent.
Silence_TurnOnly(farewell) == turn' = "none" /\ outbox' = outbox \cup farewell

Silence(farewell) == turn' = "none" /\ outbox' = farewell

Begin(st, u, q, brief, farewell) ==
    /\ ~handoff.paused
    /\ handoff' = [handoff EXCEPT !.st = st, !.assignee = u, !.queue = q,
                                  !.since = (st = "pending"), !.paused = TRUE,
                                  !.rev = @ + 1]
    /\ cycle' = [st |-> st, assignee |-> u, brief |-> brief]
    /\ Silence(farewell)

\* createHandoff: by a person over HTTP without a brief, by the system with
\* one; without a queue or a farewell.
Create(brief) == Locked /\ Begin("pending", NoUser, "none", brief, {})

\* The Agent hands off in an outcome command, by its answer or by a failure,
\* to a queue or to everybody, with or without a farewell.  The command does
\* not ask whether its turn still stands.
AgentHandsOff(q, farewell) ==
    /\ Locked
    /\ Begin("pending", NoUser, q, TRUE, farewell)

\* manual_taken_over: a person opens a cycle of its own, without a brief.
TakeOver(u) ==
    /\ Locked
    /\ handoff.queue = "none"
    /\ Begin("in_progress", u, "none", FALSE, {})

(***************************************************************************)
(* Requests of the users.                                                  *)
(***************************************************************************)
\* canClaim, shared by the web's accept and the mobile claim.
CanClaim(u) ==
    \/ handoff.st = "transfer_pending" /\ handoff.target = u
    \/ /\ handoff.st = "pending" /\ handoff.assignee = NoUser
       /\ handoff.queue = "expert" => u \in Members

Unchanged == UNCHANGED <<turn, outbox>>

Claimed(u) ==
    /\ handoff' = [handoff EXCEPT !.st = "in_progress", !.assignee = u, !.queue = "none",
                                  !.target = NoUser, !.fallback = "none",
                                  !.rev = @ + 1]
    /\ cycle' = [cycle EXCEPT !.st = "in_progress", !.assignee = u]

Claim(u) == Locked /\ CanClaim(u) /\ Claimed(u) /\ Unchanged

\* The web's accept takes no direct transfer: it updates a pending row only.
Accept(u) ==
    /\ Locked
    /\ handoff.st = "pending" /\ CanClaim(u)
    /\ Claimed(u) /\ Unchanged

\* The web's release leaves the revision and pendingSince as they are.
Release(u) ==
    /\ Locked
    /\ OwnedBy(u)
    /\ handoff' = [handoff EXCEPT !.st = "pending", !.assignee = NoUser, !.queue = "none"]
    /\ cycle' = [cycle EXCEPT !.st = "pending", !.assignee = NoUser]
    /\ Unchanged

\* The web's resolve: the Agent answers again; the row keeps its assignee.
Resolve(u) ==
    /\ Locked
    /\ OwnedBy(u)
    /\ handoff' = [handoff EXCEPT !.st = "resolved", !.queue = "none", !.paused = FALSE]
    /\ cycle' = [cycle EXCEPT !.st = "resolved"]
    /\ Unchanged

\* finishMobileHandoff
Finish(u) ==
    /\ Locked
    /\ OwnedBy(u)
    /\ handoff' = [handoff EXCEPT !.st = "resolved", !.paused = FALSE, !.rev = @ + 1]
    /\ cycle' = [cycle EXCEPT !.st = "finished"]
    /\ Unchanged

\* Mutant: the cycle's row keeps the former assignee.
Pass_StateOnly(u, v) ==
    /\ OwnedBy(u) /\ v # u
    /\ handoff' = [handoff EXCEPT !.assignee = v]
    /\ UNCHANGED <<cycle, lock, sweep, bound>> /\ Unchanged

\* transferHandoff of the web: one guarded update, outside the lock.
Pass(u, v) ==
    /\ OwnedBy(u) /\ v # u
    /\ handoff' = [handoff EXCEPT !.assignee = v]
    /\ cycle' = [cycle EXCEPT !.assignee = v]
    /\ UNCHANGED <<lock, sweep, bound>> /\ Unchanged

\* transferMobileHandoff ends the cycle and opens one with the same brief.
Transfer(u, st, target, q) ==
    /\ Locked
    /\ OwnedBy(u) /\ cycle.brief
    /\ handoff' = [handoff EXCEPT !.st = st, !.assignee = NoUser, !.queue = q,
                        !.target = target, !.since = TRUE, !.rev = @ + 1,
                        !.fallback = IF target \in Members THEN "expert"
                                     ELSE IF target \in Users THEN "general" ELSE "none"]
    /\ cycle' = [cycle EXCEPT !.st = st, !.assignee = NoUser]
    /\ Unchanged

TransferToUser(u, v) == Transfer(u, "transfer_pending", v, "none")

\* Mutant: the queue is stored where the target user belongs.
TransferToQueue_AsTarget(u) == Transfer(u, "pending", "expert", "expert")

TransferToQueue(u) == Transfer(u, "pending", NoUser, "expert")

\* Mutant: the time since when the row is pending is not refreshed.
Escalate_KeepsSince(u) ==
    /\ Locked
    /\ OwnedBy(u)
    /\ handoff' = [handoff EXCEPT !.st = "pending", !.assignee = NoUser,
                                  !.queue = "expert", !.rev = @ + 1]
    /\ cycle' = [cycle EXCEPT !.st = "pending", !.assignee = NoUser]
    /\ Unchanged

\* escalateHandoff, in the transaction of a collaboration request.
Escalate(u) ==
    /\ Locked
    /\ OwnedBy(u)
    /\ handoff' = [handoff EXCEPT !.st = "pending", !.assignee = NoUser,
                                  !.queue = "expert", !.since = TRUE, !.rev = @ + 1]
    /\ cycle' = [cycle EXCEPT !.st = "pending", !.assignee = NoUser]
    /\ Unchanged

\* moveDirectTransferToFallback: another cycle, in the target's queue.
Fallback ==
    /\ handoff' = [handoff EXCEPT !.st = "pending", !.assignee = NoUser, !.since = TRUE,
                        !.queue = IF handoff.fallback = "none" THEN "general" ELSE handoff.fallback,
                        !.target = NoUser, !.fallback = "none", !.rev = @ + 1]
    /\ cycle' = [cycle EXCEPT !.st = "pending", !.assignee = NoUser]
    /\ Unchanged

Reject(u) ==
    /\ Locked
    /\ handoff.st = "transfer_pending" /\ handoff.target = u /\ cycle.brief
    /\ Fallback

(***************************************************************************)
(* Maintenance: rows are read, then each is changed under the lock, if its *)
(* revision is the one read.                                               *)
(***************************************************************************)
\* reconcileExpiredTransfers reads a transfer whose time is over.
SweepExpired ==
    /\ sweep = NoSweep
    /\ handoff.st = "transfer_pending"
    /\ sweep' = [kind |-> "expired", rev |-> handoff.rev, queue |-> "none"]
    /\ UNCHANGED <<handoff, cycle, lock, bound>> /\ Unchanged

\* reconcileUnclaimedQueuedHandoffs reads a row that nobody of its queue took.
SweepQueued ==
    /\ sweep = NoSweep
    /\ handoff.st = "pending" /\ handoff.paused /\ handoff.since
    /\ handoff.queue \notin {"none", "general"}
    /\ sweep' = [kind |-> "queued", rev |-> handoff.rev, queue |-> handoff.queue]
    /\ UNCHANGED <<handoff, cycle, lock, bound>> /\ Unchanged

\* Mutant: the rows are changed whatever happened since they were read.
Unmoved_Unchecked == TRUE

\* The row is as the timer read it.
Unmoved ==
    /\ handoff.rev = sweep.rev
    /\ sweep.kind = "expired" => handoff.st = "transfer_pending" /\ cycle.brief
    /\ sweep.kind = "queued" => handoff.st = "pending" /\ handoff.queue = sweep.queue

Expire ==
    /\ sweep.kind = "expired" /\ LockFree /\ Unmoved
    /\ Fallback
    /\ sweep' = NoSweep
    /\ UNCHANGED <<lock, bound>>

\* escalateQueuedHandoffToGeneral: everybody may claim it from now on.
Widen ==
    /\ sweep.kind = "queued" /\ LockFree /\ Unmoved
    /\ handoff' = [handoff EXCEPT !.queue = "none", !.rev = @ + 1]
    /\ sweep' = NoSweep
    /\ UNCHANGED <<cycle, lock, bound>> /\ Unchanged

\* The row has moved: the compare-and-set changes nothing.
SweepDropped ==
    /\ sweep # NoSweep /\ ~Unmoved
    /\ sweep' = NoSweep
    /\ UNCHANGED <<handoff, cycle, lock, bound>> /\ Unchanged

(***************************************************************************)
(* Messages.  The writer holds the lock from its reading to its commit.    *)
(***************************************************************************)
Held(by) == [by |-> by, rev |-> handoff.rev]

\* A turn begins for a message that was admitted.
AgentStarts ==
    /\ turn = "none" /\ ~handoff.paused
    /\ turn' = "active"
    /\ UNCHANGED <<handoff, cycle, outbox, lock, sweep, bound>>

\* The Agent's outcome command: the turn still stands and nobody took over.
AgentChecks ==
    /\ turn = "active" /\ LockFree
    /\ IF handoff.paused
       THEN turn' = "none" /\ UNCHANGED lock
       ELSE lock' = Held(Agent) /\ UNCHANGED turn
    /\ UNCHANGED <<handoff, cycle, outbox, sweep, bound>>

AgentReplies ==
    /\ lock.by = Agent
    /\ outbox' = outbox \cup {"reply"} /\ turn' = "none"
    /\ lock' = Unlocked
    /\ UNCHANGED <<handoff, cycle, sweep, bound>>

\* createManualReply: the author must own the conversation.
ManualChecks(u) ==
    /\ LockFree /\ OwnedBy(u)
    /\ lock' = Held(u)
    /\ UNCHANGED <<handoff, cycle, sweep, bound>> /\ Unchanged

\* Its message is not the Agent's: no takeover cancels it.
ManualReplies(u) ==
    /\ lock.by = u
    /\ lock' = Unlocked
    /\ UNCHANGED <<handoff, cycle, sweep, bound>> /\ Unchanged

\* The transaction is rolled back and the lock given back with it.
Abort ==
    /\ lock # Unlocked
    /\ lock' = Unlocked
    /\ UNCHANGED <<handoff, cycle, sweep, bound>> /\ Unchanged

Write == AgentReplies \/ Abort \/ \E u \in Users : ManualReplies(u)

UserActs(u) ==
    \/ TakeOver(u) \/ Claim(u) \/ Accept(u) \/ Release(u) \/ Resolve(u)
    \/ Finish(u) \/ Escalate(u) \/ Reject(u) \/ TransferToQueue(u)
    \/ \E v \in Users : Pass(u, v) \/ TransferToUser(u, v)
    \/ ManualChecks(u)

Sweeps == SweepExpired \/ SweepQueued \/ Expire \/ Widen \/ SweepDropped

HandoffNext ==
    \/ \E b \in BOOLEAN : Create(b)
    \/ \E u \in Users : UserActs(u)
    \/ Sweeps
    \/ AgentStarts \/ AgentChecks \/ Write

(***************************************************************************)
(* Properties.                                                             *)
(***************************************************************************)
\* The rows of the conversation and of its cycle agree: the Agent is paused
\* exactly while a cycle is open, an owner is named exactly while a person
\* answers, a target exactly while a direct transfer waits for it, a queue
\* only while the row is pending, and a row of the specialist queue has the
\* time by which the maintenance finds it.
CycleMirrors ==
    /\ handoff.paused <=> handoff.st # "resolved"
    /\ IF handoff.paused THEN cycle.st = handoff.st /\ cycle.assignee = handoff.assignee
       ELSE cycle.st \in {"resolved", "finished"}
    /\ handoff.st = "in_progress" => handoff.assignee \in Users
    /\ handoff.st \in {"pending", "transfer_pending"} => handoff.assignee = NoUser
    /\ handoff.target # NoUser <=> handoff.st = "transfer_pending"
    /\ handoff.queue # "none" => handoff.st = "pending"
    /\ handoff.queue = "expert" => handoff.since
    /\ handoff.st = "transfer_pending" => cycle.brief

\* While a person is to answer, no reply of the Agent's turns waits to be
\* sent: outcome commands and takeovers exclude each other by the lock.
AgentYields == handoff.paused => "reply" \notin outbox

\* A person who answers a customer loses the conversation only by what this
\* person does, never to a colleague, the Agent or the maintenance timer.
OwnerDecides ==
    [][handoff.st = "in_progress" /\ <<handoff.st, handoff.assignee>>' # <<handoff.st, handoff.assignee>>
       => \E u \in Users : u = handoff.assignee /\ UserActs(u)]_handoffVars

\* A manual reply is committed in its author's tenure, or after nothing but a
\* transfer over the web, which alone does not wait for the lock.
ReplyInTenure ==
    [][\A u \in Users : ManualReplies(u) =>
         handoff.st = "in_progress" /\ handoff.rev = lock.rev]_handoffVars

\* A handoff that only one person or one queue may claim does not stay so: it
\* is claimed, or everybody may claim it.
OpenToAll == handoff.st = "pending" /\ handoff.queue \in {"none", "general"}
BecomesOpen ==
    handoff.paused ~> (OpenToAll \/ handoff.st \in {"in_progress", "resolved"})
=============================================================================
