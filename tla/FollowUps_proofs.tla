-------------------------- MODULE FollowUps_proofs --------------------------
(***************************************************************************)
(* Theorems about Handoff and FollowUps for any users, queue members and   *)
(* scenarios: the types, the agreement of the rows, the silence of the     *)
(* Agent behind a person, and what no step may do.                         *)
(*                                                                         *)
(* OwnerInv is about the ownership and its lock, PromiseInv about what the *)
(* dispatchers and the operator remember; the second leans on the first by *)
(* Onward: the Agent is paused only with a new revision.                   *)
(***************************************************************************)
EXTENDS FollowUps, TLAPS

-----------------------------------------------------------------------------
(* The invariants *)

HandoffRows == [st : Statuses, assignee : Users \cup {NoUser}, queue : Queues,
                target : Users \cup {NoUser}, fallback : Queues, since : BOOLEAN,
                paused : BOOLEAN, rev : Nat]
CycleRows == [st : Statuses \cup {"finished"}, assignee : Users \cup {NoUser},
              brief : BOOLEAN]

HandoffType ==
    /\ handoff \in HandoffRows
    /\ cycle \in CycleRows
    /\ turn \in {"none", "active"}
    /\ outbox \subseteq Kinds
    /\ lock \in [by : Users \cup {NoUser, Agent}, rev : Nat]
    /\ sweep \in [kind : {"none", "expired", "queued"}, rev : Nat, queue : Queues]
    /\ bound \in Nat

\* The rest of the types.
RestType ==
    /\ wake \in [st : {"none", "scheduled", "firing", "done", "cancelled"}, nudge : BOOLEAN]
    /\ {allowed, heard, crashed} \subseteq BOOLEAN
    /\ scenario \in Scenario

\* Who holds the lock knows the owner: the Agent that nobody has taken over,
\* an author that the row is still the one of their check.
LockInv ==
    /\ lock.by = Agent => ~handoff.paused
    /\ lock.by \in Users => handoff.st = "in_progress" /\ handoff.rev = lock.rev

OwnerInv == HandoffType /\ CycleMirrors /\ LockInv /\ AgentYields

\* No step turns the revision back, and the Agent is paused with a new one.
Onward ==
    /\ handoff.rev <= handoff'.rev
    /\ handoff'.paused => handoff.paused \/ handoff.rev < handoff'.rev

SendRows == [st : {"none", "pending", "frozen", "cancelled", "fired"},
             written : BOOLEAN, void : BOOLEAN]
Senders == [pc : {"idle", "due", "open", "frozen", "cancelled", "fire"}, rev : Nat]
OperatorsAt ==
    [pc : {"idle", "cancel", "reschedule", "fire_now", "firing", "fired"}, rev : Nat]
Wakers == [pc : {"idle", "claimed", "nudge", "remind", "turn", "done"}, rev : Nat]

\* p went through the gates before a person's cycle began, if one is open and
\* p is about to write.
GateHeld(p, late) ==
    /\ p.rev <= handoff.rev
    /\ handoff.paused /\ p.pc \in late => p.rev < handoff.rev

\* A voided row is not to be sent, or its message is there already; an
\* operator marks a row only when its message is there.
VoidInv ==
    /\ send.void => send.st \in {"cancelled", "frozen"} \/ send.written
    /\ operator.pc = "fired" => send.written

PromiseInv ==
    /\ send \in SendRows /\ sender \in Senders
    /\ operator \in OperatorsAt /\ waker \in Wakers
    /\ GateHeld(sender, {"open", "fire"})
    /\ GateHeld(operator, {"firing"})
    /\ GateHeld(waker, {"nudge", "remind", "turn"})
    /\ VoidInv

-----------------------------------------------------------------------------
(* The ownership *)

\* The conversation starts with nobody taken over.
LEMMA OwnerInit == Init => OwnerInv
  BY HandoffAssumption, FollowUpsAssumption
  DEF Init, HandoffInit, OwnerInv, HandoffType, HandoffRows, CycleRows, CycleMirrors,
      LockInv, AgentYields, Statuses, Queues, Kinds, Unlocked, NoSweep, Scenario

\* A cycle begins, for a person or for whoever claims it.
LEMMA BeginStep ==
  ASSUME OwnerInv, LockFree, UNCHANGED <<lock, sweep, bound>>,
         NEW st \in {"pending", "in_progress"}, NEW u \in Users \cup {NoUser},
         NEW q \in {"none", "expert"}, NEW brief \in BOOLEAN,
         NEW f \in {{}, {"farewell"}},
         st = "in_progress" <=> u # NoUser, st = "in_progress" => q = "none",
         Begin(st, u, q, brief, f)
  PROVE  OwnerInv' /\ Onward
  <1>1. handoff' = [st |-> st, assignee |-> u, queue |-> q,
                  target |-> handoff.target, fallback |-> handoff.fallback,
                  since |-> (st = "pending"), paused |-> TRUE, rev |-> handoff.rev + 1]
    BY DEF Begin, OwnerInv, HandoffType, HandoffRows
  <1>2. cycle' = [st |-> st, assignee |-> u, brief |-> brief]
    BY DEF Begin, OwnerInv, HandoffType, CycleRows
  <1>3. HandoffType'
    <2>1. handoff' \in HandoffRows
      <3> USE <1>1 DEF OwnerInv, HandoffType, HandoffRows, Statuses, Queues
      <3>1. CASE st = "pending"  BY <3>1
      <3>2. CASE st # "pending"  BY <3>2
      <3> QED  BY <3>1, <3>2
    <2>2. cycle' \in CycleRows
      BY <1>2 DEF OwnerInv, HandoffType, CycleRows, Statuses
    <2> QED  BY <2>1, <2>2 DEF OwnerInv, HandoffType, Begin, Silence, Kinds
  <1>4. CycleMirrors'
    <2>1. ~handoff.paused
      BY DEF Begin
    <2> USE <1>1, <1>2, <2>1, HandoffAssumption
        DEF OwnerInv, HandoffType, HandoffRows, CycleMirrors
    <2>2. CASE st = "pending"      BY <2>2
    <2>3. CASE st = "in_progress"  BY <2>3
    <2> QED  BY <2>2, <2>3
  <1>5. LockInv' /\ AgentYields'
    BY <1>1, HandoffAssumption
    DEF OwnerInv, LockInv, AgentYields, LockFree, Begin, Silence, Kinds
  <1>6. Onward
    BY <1>1 DEF Onward, OwnerInv, HandoffType, HandoffRows
  <1> QED  BY <1>3, <1>4, <1>5, <1>6 DEF OwnerInv

\* A waiting row is claimed.
LEMMA ClaimedStep ==
  ASSUME OwnerInv, LockFree, UNCHANGED <<lock, sweep, bound>>, NEW u \in Users,
         handoff.st \in {"pending", "transfer_pending"}, Claimed(u), Unchanged
  PROVE  OwnerInv' /\ Onward
  <1>1. handoff' = [st |-> "in_progress", assignee |-> u, queue |-> "none",
                  target |-> NoUser, fallback |-> "none", 
                  since |-> handoff.since, paused |-> handoff.paused, rev |-> handoff.rev + 1]
    BY DEF Claimed, OwnerInv, HandoffType, HandoffRows
  <1>2. cycle' = [st |-> "in_progress", assignee |-> u, brief |-> cycle.brief]
    BY DEF Claimed, OwnerInv, HandoffType, CycleRows
  <1>3. HandoffType'
    <2>1. handoff' \in HandoffRows
      BY <1>1 DEF OwnerInv, HandoffType, HandoffRows, Statuses, Queues
    <2>2. cycle' \in CycleRows
      BY <1>2 DEF OwnerInv, HandoffType, CycleRows, Statuses
    <2> QED  BY <2>1, <2>2 DEF OwnerInv, HandoffType, Unchanged
  <1>4. CycleMirrors'
    BY <1>1, <1>2, HandoffAssumption DEF OwnerInv, HandoffType, HandoffRows, CycleMirrors
  <1>5. LockInv' /\ AgentYields'
    BY <1>1, HandoffAssumption DEF OwnerInv, LockInv, AgentYields, LockFree, Unchanged
  <1>6. Onward
    BY <1>1 DEF Onward, OwnerInv, HandoffType, HandoffRows
  <1> QED  BY <1>3, <1>4, <1>5, <1>6 DEF OwnerInv

\* The mobile app's transfer, to a person or to the specialist queue.
LEMMA TransferStep ==
  ASSUME OwnerInv, NEW u \in Users, NEW st, NEW v \in Users \cup {NoUser}, NEW q,
         \/ st = "transfer_pending" /\ v \in Users /\ q = "none"
         \/ st = "pending" /\ v = NoUser /\ q = "expert",
         Transfer(u, st, v, q)
  PROVE  OwnerInv' /\ Onward
  <1>1. handoff' = [st |-> st, assignee |-> NoUser, queue |-> q,
                  target |-> v, fallback |-> (IF v \in Members THEN "expert"
                                 ELSE IF v \in Users THEN "general" ELSE "none"),
                  since |-> TRUE, paused |-> handoff.paused, rev |-> handoff.rev + 1]
    BY DEF Transfer, OwnerInv, HandoffType, HandoffRows
  <1>2. cycle' = [st |-> st, assignee |-> NoUser, brief |-> cycle.brief]
    BY DEF Transfer, OwnerInv, HandoffType, CycleRows
  <1>3. HandoffType'
    <2>1. handoff' \in HandoffRows
      BY <1>1 DEF OwnerInv, HandoffType, HandoffRows, Statuses, Queues
    <2>2. cycle' \in CycleRows
      BY <1>2 DEF OwnerInv, HandoffType, CycleRows, Statuses
    <2> QED  BY <2>1, <2>2 DEF OwnerInv, HandoffType, Transfer, Unchanged, Locked
  <1>4. CycleMirrors'
    BY <1>1, <1>2, HandoffAssumption
    DEF OwnerInv, HandoffType, HandoffRows, CycleMirrors, Transfer, OwnedBy
  <1>5. LockInv' /\ AgentYields'
    BY <1>1, HandoffAssumption
    DEF OwnerInv, LockInv, AgentYields, LockFree, Transfer, Unchanged, Locked
  <1>6. Onward
    BY <1>1 DEF Onward, OwnerInv, HandoffType, HandoffRows
  <1> QED  BY <1>3, <1>4, <1>5, <1>6 DEF OwnerInv

\* A direct transfer falls back to a queue of its target.
LEMMA FallbackStep ==
  ASSUME OwnerInv, LockFree, UNCHANGED <<lock, bound>>, sweep' \in {sweep, NoSweep},
         handoff.st = "transfer_pending", Fallback
  PROVE  OwnerInv' /\ Onward
  <1>1. handoff' = [st |-> "pending", assignee |-> NoUser,
                  queue |-> (IF handoff.fallback = "none" THEN "general"
                             ELSE handoff.fallback),
                  target |-> NoUser, fallback |-> "none", since |-> TRUE,
                  paused |-> handoff.paused, rev |-> handoff.rev + 1]
    BY DEF Fallback, OwnerInv, HandoffType, HandoffRows
  <1>2. cycle' = [st |-> "pending", assignee |-> NoUser, brief |-> cycle.brief]
    BY DEF Fallback, OwnerInv, HandoffType, CycleRows
  <1>3. HandoffType'
    <2>1. handoff' \in HandoffRows
      BY <1>1 DEF OwnerInv, HandoffType, HandoffRows, Statuses, Queues
    <2>2. cycle' \in CycleRows
      BY <1>2 DEF OwnerInv, HandoffType, CycleRows, Statuses
    <2> QED  BY <2>1, <2>2 DEF OwnerInv, HandoffType, Fallback, Unchanged, NoSweep, Queues
  <1>4. CycleMirrors'
    BY <1>1, <1>2, HandoffAssumption DEF OwnerInv, HandoffType, HandoffRows, CycleMirrors
  <1>5. LockInv' /\ AgentYields'
    BY <1>1, HandoffAssumption
    DEF OwnerInv, LockInv, AgentYields, LockFree, Fallback, Unchanged, NoSweep, Queues
  <1>6. Onward
    BY <1>1 DEF Onward, OwnerInv, HandoffType, HandoffRows
  <1> QED  BY <1>3, <1>4, <1>5, <1>6 DEF OwnerInv

\* The owner gives the row back, over the web,
LEMMA ReleaseStep ==
  ASSUME OwnerInv, NEW u \in Users, Release(u)
  PROVE  OwnerInv' /\ Onward
  <1>1. handoff' = [st |-> "pending", assignee |-> NoUser, queue |-> "none",
                  target |-> handoff.target, fallback |-> handoff.fallback,
                  since |-> handoff.since, paused |-> handoff.paused, rev |-> handoff.rev]
    BY DEF Release, OwnerInv, HandoffType, HandoffRows
  <1>2. cycle' = [st |-> "pending", assignee |-> NoUser, brief |-> cycle.brief]
    BY DEF Release, OwnerInv, HandoffType, CycleRows
  <1>3. HandoffType'
    <2>1. handoff' \in HandoffRows
      BY <1>1 DEF OwnerInv, HandoffType, HandoffRows, Statuses, Queues
    <2>2. cycle' \in CycleRows
      BY <1>2 DEF OwnerInv, HandoffType, CycleRows, Statuses
    <2> QED  BY <2>1, <2>2 DEF OwnerInv, HandoffType, Release, Unchanged, Locked
  <1>4. CycleMirrors'
    BY <1>1, <1>2, HandoffAssumption
    DEF OwnerInv, HandoffType, HandoffRows, CycleMirrors, Release, OwnedBy
  <1>5. LockInv' /\ AgentYields'
    BY <1>1, HandoffAssumption
    DEF OwnerInv, LockInv, AgentYields, LockFree, Release, Unchanged, Locked
  <1>6. Onward
    BY <1>1 DEF Onward, OwnerInv, HandoffType, HandoffRows
  <1> QED  BY <1>3, <1>4, <1>5, <1>6 DEF OwnerInv

\* or to the specialists, in a collaboration request,
LEMMA EscalateStep ==
  ASSUME OwnerInv, NEW u \in Users, Escalate(u)
  PROVE  OwnerInv' /\ Onward
  <1>1. handoff' = [st |-> "pending", assignee |-> NoUser, queue |-> "expert",
                  target |-> handoff.target, fallback |-> handoff.fallback, since |-> TRUE,
                  paused |-> handoff.paused, rev |-> handoff.rev + 1]
    BY DEF Escalate, OwnerInv, HandoffType, HandoffRows
  <1>2. cycle' = [st |-> "pending", assignee |-> NoUser, brief |-> cycle.brief]
    BY DEF Escalate, OwnerInv, HandoffType, CycleRows
  <1>3. HandoffType'
    <2>1. handoff' \in HandoffRows
      BY <1>1 DEF OwnerInv, HandoffType, HandoffRows, Statuses, Queues
    <2>2. cycle' \in CycleRows
      BY <1>2 DEF OwnerInv, HandoffType, CycleRows, Statuses
    <2> QED  BY <2>1, <2>2 DEF OwnerInv, HandoffType, Escalate, Unchanged, Locked
  <1>4. CycleMirrors'
    BY <1>1, <1>2, HandoffAssumption
    DEF OwnerInv, HandoffType, HandoffRows, CycleMirrors, Escalate, OwnedBy
  <1>5. LockInv' /\ AgentYields'
    BY <1>1, HandoffAssumption
    DEF OwnerInv, LockInv, AgentYields, LockFree, Escalate, Unchanged, Locked
  <1>6. Onward
    BY <1>1 DEF Onward, OwnerInv, HandoffType, HandoffRows
  <1> QED  BY <1>3, <1>4, <1>5, <1>6 DEF OwnerInv

\* or ends the cycle, over the web
LEMMA ResolveStep ==
  ASSUME OwnerInv, NEW u \in Users, Resolve(u)
  PROVE  OwnerInv' /\ Onward
  <1>1. handoff' = [st |-> "resolved", assignee |-> handoff.assignee, queue |-> "none",
                  target |-> handoff.target, fallback |-> handoff.fallback,
                  since |-> handoff.since, paused |-> FALSE, rev |-> handoff.rev]
    BY DEF Resolve, OwnerInv, HandoffType, HandoffRows
  <1>2. cycle' = [st |-> "resolved", assignee |-> cycle.assignee, brief |-> cycle.brief]
    BY DEF Resolve, OwnerInv, HandoffType, CycleRows
  <1>3. HandoffType'
    <2>1. handoff' \in HandoffRows
      BY <1>1 DEF OwnerInv, HandoffType, HandoffRows, Statuses, Queues
    <2>2. cycle' \in CycleRows
      BY <1>2 DEF OwnerInv, HandoffType, CycleRows, Statuses
    <2> QED  BY <2>1, <2>2 DEF OwnerInv, HandoffType, Resolve, Unchanged, Locked
  <1>4. CycleMirrors'
    BY <1>1, <1>2, HandoffAssumption
    DEF OwnerInv, HandoffType, HandoffRows, CycleMirrors, Resolve, OwnedBy
  <1>5. LockInv' /\ AgentYields'
    BY <1>1, HandoffAssumption
    DEF OwnerInv, LockInv, AgentYields, LockFree, Resolve, Unchanged, Locked
  <1>6. Onward
    BY <1>1 DEF Onward, OwnerInv, HandoffType, HandoffRows
  <1> QED  BY <1>3, <1>4, <1>5, <1>6 DEF OwnerInv

\* or in the mobile app.
LEMMA FinishStep ==
  ASSUME OwnerInv, NEW u \in Users, Finish(u)
  PROVE  OwnerInv' /\ Onward
  <1>1. handoff' = [st |-> "resolved", assignee |-> handoff.assignee, queue |-> handoff.queue,
                  target |-> handoff.target, fallback |-> handoff.fallback,
                  since |-> handoff.since, paused |-> FALSE, rev |-> handoff.rev + 1]
    BY DEF Finish, OwnerInv, HandoffType, HandoffRows
  <1>2. cycle' = [st |-> "finished", assignee |-> cycle.assignee, brief |-> cycle.brief]
    BY DEF Finish, OwnerInv, HandoffType, CycleRows
  <1>3. HandoffType'
    <2>1. handoff' \in HandoffRows
      BY <1>1 DEF OwnerInv, HandoffType, HandoffRows, Statuses, Queues
    <2>2. cycle' \in CycleRows
      BY <1>2 DEF OwnerInv, HandoffType, CycleRows, Statuses
    <2> QED  BY <2>1, <2>2 DEF OwnerInv, HandoffType, Finish, Unchanged, Locked
  <1>4. CycleMirrors'
    BY <1>1, <1>2, HandoffAssumption
    DEF OwnerInv, HandoffType, HandoffRows, CycleMirrors, Finish, OwnedBy
  <1>5. LockInv' /\ AgentYields'
    BY <1>1, HandoffAssumption
    DEF OwnerInv, LockInv, AgentYields, LockFree, Finish, Unchanged, Locked
  <1>6. Onward
    BY <1>1 DEF Onward, OwnerInv, HandoffType, HandoffRows
  <1> QED  BY <1>3, <1>4, <1>5, <1>6 DEF OwnerInv

\* The web's transfer, which may fall into a write of the owner or the Agent.
LEMMA PassStep ==
  ASSUME OwnerInv, NEW u \in Users, NEW v \in Users, Pass(u, v)
  PROVE  OwnerInv' /\ Onward
  <1>1. handoff' = [st |-> handoff.st, assignee |-> v, queue |-> handoff.queue,
                  target |-> handoff.target, fallback |-> handoff.fallback,
                  since |-> handoff.since, paused |-> handoff.paused, rev |-> handoff.rev]
    BY DEF Pass, OwnerInv, HandoffType, HandoffRows
  <1>2. cycle' = [st |-> cycle.st, assignee |-> v, brief |-> cycle.brief]
    BY DEF Pass, OwnerInv, HandoffType, CycleRows
  <1>3. HandoffType'
    <2>1. handoff' \in HandoffRows /\ cycle' \in CycleRows
      BY <1>1, <1>2 DEF OwnerInv, HandoffType, HandoffRows, CycleRows
    <2> QED  BY <2>1 DEF OwnerInv, HandoffType, Pass, Unchanged
  <1>4. CycleMirrors'
    BY <1>1, <1>2, HandoffAssumption DEF OwnerInv, HandoffType, CycleMirrors, Pass, OwnedBy
  <1>5. LockInv' /\ AgentYields'
    BY <1>1 DEF OwnerInv, LockInv, AgentYields, Pass, Unchanged
  <1>6. Onward
    BY <1>1 DEF Onward, OwnerInv, HandoffType, HandoffRows
  <1> QED  BY <1>3, <1>4, <1>5, <1>6 DEF OwnerInv

\* Everybody may claim the row from now on.
LEMMA WidenStep ==
  ASSUME OwnerInv, Widen
  PROVE  OwnerInv' /\ Onward
  <1>1. handoff' = [st |-> handoff.st, assignee |-> handoff.assignee, queue |-> "none",
                  target |-> handoff.target, fallback |-> handoff.fallback,
                  since |-> handoff.since, paused |-> handoff.paused, rev |-> handoff.rev + 1]
    BY DEF Widen, OwnerInv, HandoffType, HandoffRows
  <1>2. cycle' = [st |-> cycle.st, assignee |-> cycle.assignee, brief |-> cycle.brief]
    BY DEF Widen, OwnerInv, HandoffType, CycleRows
  <1>3. HandoffType'
    <2>1. handoff' \in HandoffRows
      BY <1>1 DEF OwnerInv, HandoffType, HandoffRows, Statuses, Queues
    <2>2. cycle' \in CycleRows
      BY <1>2 DEF OwnerInv, HandoffType, CycleRows, Statuses
    <2> QED  BY <2>1, <2>2 DEF OwnerInv, HandoffType, Widen, Unchanged, NoSweep, Queues
  <1>4. CycleMirrors'
    BY <1>1, <1>2, HandoffAssumption
    DEF OwnerInv, HandoffType, HandoffRows, CycleMirrors, Widen, Unmoved
  <1>5. LockInv' /\ AgentYields'
    BY <1>1, HandoffAssumption
    DEF OwnerInv, LockInv, AgentYields, LockFree, Widen, Unchanged, NoSweep, Queues
  <1>6. Onward
    BY <1>1 DEF Onward, OwnerInv, HandoffType, HandoffRows
  <1> QED  BY <1>3, <1>4, <1>5, <1>6 DEF OwnerInv

\* The writers of messages: the rows stay, the lock is taken or given back.
LEMMA WriterStep ==
  ASSUME OwnerInv,
         \/ AgentStarts \/ AgentChecks \/ AgentReplies \/ Abort
         \/ \E u \in Users : ManualChecks(u) \/ ManualReplies(u)
  PROVE  OwnerInv' /\ Onward
  <1> USE HandoffAssumption
      DEF OwnerInv, HandoffType, CycleMirrors, LockInv, AgentYields, Unlocked, Unchanged,
          Onward, HandoffRows
  <1>1. CASE AgentStarts   BY <1>1 DEF AgentStarts
  <1>2. CASE AgentChecks   BY <1>2 DEF AgentChecks, Held, LockFree
  <1>3. CASE AgentReplies  BY <1>3 DEF AgentReplies, Kinds
  <1>4. CASE Abort         BY <1>4 DEF Abort
  <1>5. ASSUME NEW u \in Users, ManualChecks(u) PROVE OwnerInv' /\ Onward
    BY <1>5 DEF ManualChecks, Held, LockFree, OwnedBy
  <1>6. ASSUME NEW u \in Users, ManualReplies(u) PROVE OwnerInv' /\ Onward
    BY <1>6 DEF ManualReplies
  <1> QED  BY <1>1, <1>2, <1>3, <1>4, <1>5, <1>6

\* The requests of a user.
LEMMA UserStep ==
  ASSUME OwnerInv, NEW u \in Users, UserActs(u)
  PROVE  OwnerInv' /\ Onward
  <1>1. CASE TakeOver(u)
    BY <1>1, BeginStep, HandoffAssumption DEF TakeOver, Locked
  <1>2. CASE Claim(u)
    BY <1>2, ClaimedStep DEF Claim, CanClaim, Locked
  <1>3. CASE Accept(u)
    BY <1>3, ClaimedStep DEF Accept, Locked
  <1>4. CASE Release(u) \/ Resolve(u) \/ Finish(u) \/ Escalate(u)
    BY <1>4, ReleaseStep, ResolveStep, FinishStep, EscalateStep
  <1>5. CASE Reject(u)
    BY <1>5, FallbackStep DEF Reject, Locked
  <1>6. CASE TransferToQueue(u)
    BY <1>6, TransferStep DEF TransferToQueue
  <1>7. ASSUME NEW v \in Users, Pass(u, v) \/ TransferToUser(u, v) PROVE OwnerInv' /\ Onward
    BY <1>7, PassStep, TransferStep DEF TransferToUser
  <1>8. CASE ManualChecks(u)
    BY <1>8, WriterStep
  <1> QED  BY <1>1, <1>2, <1>3, <1>4, <1>5, <1>6, <1>7, <1>8 DEF UserActs

\* The maintenance timer, which writes only a row that has not moved.
LEMMA SweepStep ==
  ASSUME OwnerInv, Sweeps
  PROVE  OwnerInv' /\ Onward
  <1>1. CASE SweepExpired \/ SweepQueued \/ SweepDropped
    <2>1. sweep' \in [kind : {"none", "expired", "queued"}, rev : Nat, queue : Queues]
      BY <1>1 DEF SweepExpired, SweepQueued, SweepDropped, NoSweep, OwnerInv, HandoffType,
                  HandoffRows, Queues
    <2>2. UNCHANGED <<handoff, cycle, turn, outbox, lock, bound>>
      BY <1>1 DEF SweepExpired, SweepQueued, SweepDropped, Unchanged
    <2> QED  BY <2>1, <2>2 DEF OwnerInv, HandoffType, CycleMirrors, LockInv, AgentYields,
             Onward, HandoffRows
  <1>2. CASE Expire
    BY <1>2, FallbackStep DEF Expire, Unmoved
  <1>3. CASE Widen
    BY <1>3, WidenStep
  <1> QED  BY <1>1, <1>2, <1>3 DEF Sweeps

\* Whatever happens to the ownership and to what the Agent has waiting.
LEMMA OwnerStep == OwnerInv /\ [Next]_vars => OwnerInv' /\ Onward
  <1> SUFFICES ASSUME OwnerInv, [Next]_vars PROVE OwnerInv' /\ Onward
    OBVIOUS
  <1>1. CASE UNCHANGED handoffVars
    BY <1>1 DEF OwnerInv, HandoffType, CycleMirrors, LockInv, AgentYields, handoffVars,
                Onward, HandoffRows
  <1>2. CASE HandoffNext
    <2>1. ASSUME NEW b \in BOOLEAN, Create(b) PROVE OwnerInv' /\ Onward
      BY <2>1, BeginStep DEF Create, Locked
    <2> QED  BY <1>2, <2>1, UserStep, SweepStep, WriterStep DEF HandoffNext, Write
  <1>3. CASE AgentHandsOver
    BY <1>3, BeginStep DEF AgentHandsOver, AgentHandsOff, Locked
  <1>4. ASSUME NEW kind \in {"scheduled", "nudge"}, Say(kind) PROVE OwnerInv' /\ Onward
    BY <1>4 DEF Say, OwnerInv, HandoffType, CycleMirrors, LockInv, AgentYields, Kinds,
                Onward, HandoffRows
  <1>5. CASE WakeTurn \/ SwitchOff
    BY <1>5 DEF WakeTurn, SwitchOff, OwnerInv, HandoffType, CycleMirrors, LockInv,
                AgentYields, Onward, HandoffRows
  <1>6. CASE Fire \/ OperatorFires \/ Nudge
    BY <1>1, <1>4, <1>6 DEF Fire, OperatorFires, Nudge
  <1>7. CASE Sends \/ FireFails \/ SenderStops \/ Operators
    BY <1>1, <1>6, <1>7
    DEF Sends, Operators, ReadDue, CheckGates, Blocked, ClaimSend, FireFails, SenderStops,
        Operate, OperatorCancels, OperatorReschedules, OperatorChecks, OperatorMarks
  <1>8. CASE Wakes \/ WakeFails \/ WakerStops \/ Inbound
    BY <1>1, <1>5, <1>6, <1>8
    DEF Wakes, ClaimWake, WakeGates, LooksBack, WakeDone, WakeFails, WakerStops, Inbound
  <1> QED  BY <1>1, <1>2, <1>3, <1>5, <1>7, <1>8 DEF Next, vars

-----------------------------------------------------------------------------
(* What the dispatchers and the operator remember *)

\* What each of them does to one another's records: nothing.
LEMMA OnlyTheirOwn ==
  ASSUME Next
  PROVE  /\ \/ UNCHANGED sender
            \/ ReadDue \/ CheckGates \/ Blocked \/ ClaimSend \/ Fire \/ FireFails \/ SenderStops
         /\ \/ UNCHANGED operator
            \/ Operators
         /\ \/ UNCHANGED waker
            \/ ClaimWake \/ WakeGates \/ LooksBack \/ Nudge \/ WakeTurn \/ WakeDone
            \/ WakeFails \/ WakerStops
         /\ \/ UNCHANGED send
            \/ Blocked \/ ClaimSend \/ Fire \/ FireFails
            \/ OperatorCancels \/ OperatorReschedules \/ OperatorFires \/ OperatorMarks
            \/ Inbound \/ AgentHandsOver
  <1>1. CASE HandoffNext /\ UNCHANGED followVars
    BY <1>1 DEF followVars
  <1>2. CASE Sends \/ FireFails \/ SenderStops
    BY <1>2 DEF Sends, ReadDue, CheckGates, Blocked, ClaimSend, Fire, FireFails, SenderStops,
                wakeVars
  <1>3. CASE Operators
    BY <1>3 DEF Operators, Operate, OperatorCancels, OperatorReschedules, OperatorChecks,
                OperatorFires, OperatorMarks, wakeVars
  <1>4. CASE Wakes \/ WakeFails \/ WakerStops
    BY <1>4 DEF Wakes, ClaimWake, WakeGates, LooksBack, Nudge, WakeTurn, WakeDone, WakeFails,
                WakerStops, sendVars
  <1>5. CASE Inbound \/ SwitchOff \/ AgentHandsOver
    BY <1>5 DEF Inbound, SwitchOff, AgentHandsOver, sendVars, wakeVars
  <1> QED  BY <1>1, <1>2, <1>3, <1>4, <1>5 DEF Next

\* The send dispatcher goes on with a row that the gates let through.
LEMMA SenderGate ==
  ASSUME OwnerInv, Onward, OwnerInv', Next, GateHeld(sender, {"open", "fire"}),
         sender \in Senders
  PROVE  GateHeld(sender, {"open", "fire"})' /\ sender' \in Senders
  <1> USE DEF GateHeld, Senders, Onward, OwnerInv, HandoffType, HandoffRows
  <1>1. CASE UNCHANGED sender      BY <1>1
  <1>2. CASE ReadDue               BY <1>2 DEF ReadDue
  <1>3. CASE CheckGates
    <2>1. UNCHANGED handoff
      BY <1>3 DEF CheckGates, handoffVars
    <2>2. CASE handoff.paused
      BY <1>3, <2>1, <2>2 DEF CheckGates
    <2>3. CASE ~handoff.paused
      BY <1>3, <2>1, <2>3 DEF CheckGates
    <2> QED  BY <2>2, <2>3
  <1>4. CASE Blocked \/ Fire \/ FireFails \/ SenderStops
    BY <1>4 DEF Blocked, Fire, FireFails, SenderStops, Idle
  <1>5. CASE ClaimSend             BY <1>5 DEF ClaimSend, Idle
  <1> QED  BY <1>1, <1>2, <1>3, <1>4, <1>5, OnlyTheirOwn

\* The operator fires a row when nobody was to answer at the check.
LEMMA OperatorGate ==
  ASSUME OwnerInv, Onward, OwnerInv', Next, GateHeld(operator, {"firing"}),
         operator \in OperatorsAt
  PROVE  GateHeld(operator, {"firing"})' /\ operator' \in OperatorsAt
  <1> USE DEF GateHeld, OperatorsAt, Onward, OwnerInv, HandoffType, HandoffRows
  <1>1. CASE UNCHANGED operator    BY <1>1
  <1>2. ASSUME NEW op \in {"cancel", "reschedule", "fire_now"}, Operate(op)
        PROVE  GateHeld(operator, {"firing"})' /\ operator' \in OperatorsAt
    BY <1>2 DEF Operate
  <1>3. CASE OperatorChecks
    BY <1>3 DEF OperatorChecks, Idle, handoffVars
  <1>4. CASE OperatorCancels \/ OperatorReschedules \/ OperatorMarks
    BY <1>4 DEF OperatorCancels, OperatorReschedules, OperatorMarks, Idle
  <1>5. CASE OperatorFires         BY <1>5 DEF OperatorFires
  <1> QED  BY <1>1, <1>2, <1>3, <1>4, <1>5, OnlyTheirOwn DEF Operators

\* The wake dispatcher goes on with a wake that the gates let through.
LEMMA WakerGate ==
  ASSUME OwnerInv, Onward, OwnerInv', Next, GateHeld(waker, {"nudge", "remind", "turn"}),
         waker \in Wakers
  PROVE  GateHeld(waker, {"nudge", "remind", "turn"})' /\ waker' \in Wakers
  <1> USE DEF GateHeld, Wakers, Onward, OwnerInv, HandoffType, HandoffRows
  <1>1. CASE UNCHANGED waker       BY <1>1
  <1>2. CASE ClaimWake             BY <1>2 DEF ClaimWake
  <1>3. CASE WakeGates
    BY <1>3 DEF WakeGates, Passes, Open, handoffVars
  <1>4. CASE LooksBack             BY <1>4 DEF LooksBack
  <1>5. CASE Nudge \/ WakeTurn \/ WakeFails
    BY <1>5 DEF Nudge, WakeTurn, WakeFails
  <1>6. CASE WakeDone \/ WakerStops
    BY <1>6 DEF WakeDone, WakerStops, Idle
  <1> QED  BY <1>1, <1>2, <1>3, <1>4, <1>5, <1>6, OnlyTheirOwn

\* The row of the scheduled send.
LEMMA SendStep ==
  ASSUME Next, send \in SendRows, sender \in Senders, VoidInv
  PROVE  send' \in SendRows /\ VoidInv'
  <1> USE DEF SendRows, VoidInv
  <1>1. CASE UNCHANGED send /\ UNCHANGED operator
    BY <1>1
  <1>2. ASSUME NEW op \in {"cancel", "reschedule", "fire_now"}, Operate(op)
        PROVE  send' \in SendRows /\ VoidInv'
    BY <1>2 DEF Operate
  <1>11. CASE OperatorChecks       BY <1>11 DEF OperatorChecks, Idle
  <1>3. CASE Blocked               BY <1>3 DEF Blocked
  <1>4. CASE ClaimSend             BY <1>4 DEF ClaimSend, TakeSend
  <1>5. CASE Fire                  BY <1>5 DEF Fire
  <1>6. CASE FireFails             BY <1>6 DEF FireFails
  <1>7. CASE OperatorCancels \/ OperatorReschedules \/ OperatorMarks
    <2>1. CASE OperatorCancels      BY <2>1 DEF OperatorCancels, Idle
    <2>2. CASE OperatorReschedules  BY <2>2 DEF OperatorReschedules, Idle
    <2>3. CASE OperatorMarks        BY <2>3 DEF OperatorMarks, Idle
    <2> QED  BY <1>7, <2>1, <2>2, <2>3
  <1>8. CASE OperatorFires         BY <1>8 DEF OperatorFires
  <1>9. CASE Inbound               BY <1>9 DEF Inbound, Voided
  <1>10. CASE AgentHandsOver
    <2>1. send' \in {send, Frozen} /\ UNCHANGED operator
      BY <1>10 DEF AgentHandsOver
    <2>2. CASE send' = send    BY <2>1, <2>2
    <2>3. CASE send' = Frozen  BY <2>1, <2>3 DEF Frozen
    <2> QED  BY <2>1, <2>2, <2>3
  <1> HIDE DEF SendRows, VoidInv
  <1>12. CASE Operators            BY <1>2, <1>7, <1>8, <1>11, <1>12 DEF Operators
  <1>13. CASE UNCHANGED operator
    BY <1>1, <1>3, <1>4, <1>5, <1>6, <1>7, <1>8, <1>9, <1>10, <1>13, OnlyTheirOwn
  <1> QED  BY <1>12, <1>13, OnlyTheirOwn

\* All of them, and the rest of the types.
PromiseSafe == OwnerInv /\ PromiseInv /\ RestType

\* The invariant holds at the start of every scenario: the Agent owns the
\* conversation and nobody is at work.
LEMMA PromiseInit == Init => PromiseSafe
  <1> SUFFICES ASSUME Init PROVE PromiseSafe
    OBVIOUS
  <1>1. OwnerInv
    BY OwnerInit
  <1>2. PICK s \in Scenarios, nudge \in BOOLEAN :
          /\ scenario = s
          /\ send = [st |-> s.send, written |-> FALSE, void |-> FALSE]
          /\ wake = [st |-> s.wake, nudge |-> nudge]
    BY DEF Init
  <1>3. s \in Scenario
    BY <1>2, FollowUpsAssumption
  <1>4. sender = Idle /\ operator = Idle /\ waker = Idle /\ ~handoff.paused /\ handoff.rev = 0
    BY DEF Init, HandoffInit
  <1>5. PromiseInv
    BY <1>2, <1>3, <1>4 DEF PromiseInv, SendRows, Senders, OperatorsAt, Wakers, GateHeld,
       VoidInv, Idle, Scenario
  <1>6. RestType
    BY <1>2, <1>3 DEF RestType, Scenario, Init
  <1> QED  BY <1>1, <1>5, <1>6 DEF PromiseSafe

\* A bound of the scenario is used up.
LEMMA UseStep ==
  ASSUME scenario \in Scenario,
         NEW what \in {"inbounds", "flips", "faults", "operations"}, Use(what)
  PROVE  scenario' \in Scenario
  BY DEF Use, Scenario

\* The wake, the switches and the bounds keep their types.
LEMMA RestStep ==
  ASSUME RestType, Next
  PROVE  RestType'
  <1>1. scenario' \in Scenario
    <2> USE UseStep DEF RestType, restVars
    <2>1. CASE HandoffNext /\ UNCHANGED followVars
      BY <2>1 DEF followVars
    <2>2. CASE Sends \/ FireFails \/ SenderStops
      BY <2>2 DEF Sends, ReadDue, CheckGates, Blocked, ClaimSend, Fire, FireFails, SenderStops
    <2>3. CASE Operators
      BY <2>3 DEF Operators, Operate, OperatorCancels, OperatorReschedules, OperatorChecks,
                  OperatorFires, OperatorMarks
    <2>4. CASE Wakes \/ WakeFails \/ WakerStops
      BY <2>4 DEF Wakes, ClaimWake, WakeGates, LooksBack, Nudge, WakeTurn, WakeDone,
                  WakeFails, WakerStops
    <2>5. CASE Inbound \/ SwitchOff \/ AgentHandsOver
      BY <2>5 DEF Inbound, SwitchOff, AgentHandsOver
    <2> QED  BY <2>1, <2>2, <2>3, <2>4, <2>5 DEF Next
  <1>2. {allowed, heard, crashed}' \subseteq BOOLEAN
    <2> USE DEF RestType, restVars
    <2>1. CASE HandoffNext /\ UNCHANGED followVars
      BY <2>1 DEF followVars
    <2>2. CASE Sends \/ FireFails \/ SenderStops
      BY <2>2 DEF Sends, ReadDue, CheckGates, Blocked, ClaimSend, Fire, FireFails, SenderStops
    <2>3. CASE Operators
      BY <2>3 DEF Operators, Operate, OperatorCancels, OperatorReschedules, OperatorChecks,
                  OperatorFires, OperatorMarks
    <2>4. CASE Wakes \/ WakeFails \/ WakerStops
      BY <2>4 DEF Wakes, ClaimWake, WakeGates, LooksBack, Nudge, WakeTurn, WakeDone,
                  WakeFails, WakerStops
    <2>5. CASE Inbound \/ SwitchOff \/ AgentHandsOver
      BY <2>5 DEF Inbound, SwitchOff, AgentHandsOver
    <2> QED  BY <2>1, <2>2, <2>3, <2>4, <2>5 DEF Next
  <1>3. wake' \in [st : {"none", "scheduled", "firing", "done", "cancelled"}, nudge : BOOLEAN]
    <2> USE DEF RestType, wakeVars
    <2>1. CASE HandoffNext /\ UNCHANGED followVars
      BY <2>1 DEF followVars
    <2>2. CASE Sends \/ FireFails \/ SenderStops
      BY <2>2 DEF Sends, ReadDue, CheckGates, Blocked, ClaimSend, Fire, FireFails, SenderStops
    <2>3. CASE Operators
      BY <2>3 DEF Operators, Operate, OperatorCancels, OperatorReschedules, OperatorChecks,
                  OperatorFires, OperatorMarks
    <2>4. CASE Wakes \/ WakeFails \/ WakerStops
      BY <2>4 DEF Wakes, ClaimWake, TakeWake, WakeGates, LooksBack, Nudge, WakeTurn, WakeDone,
                  WakeFails, WakerStops
    <2>5. CASE Inbound \/ SwitchOff \/ AgentHandsOver
      BY <2>5 DEF Inbound, SwitchOff, AgentHandsOver
    <2> QED  BY <2>1, <2>2, <2>3, <2>4, <2>5 DEF Next
  <1> QED  BY <1>1, <1>2, <1>3 DEF RestType

\* Every step keeps the invariant.
LEMMA PromiseStep == PromiseSafe /\ [Next]_vars => PromiseSafe'
  <1> SUFFICES ASSUME PromiseSafe, [Next]_vars PROVE PromiseSafe'
    OBVIOUS
  <1>1. OwnerInv' /\ Onward
    BY OwnerStep DEF PromiseSafe
  <1>2. CASE Next
    BY <1>1, <1>2, SenderGate, OperatorGate, WakerGate, SendStep, RestStep
    DEF PromiseSafe, PromiseInv
  <1>3. CASE UNCHANGED vars
    BY <1>1, <1>3
    DEF PromiseSafe, PromiseInv, RestType, vars, handoffVars, followVars, GateHeld, VoidInv
  <1> QED  BY <1>2, <1>3

-----------------------------------------------------------------------------
(* What a step may do *)

\* Under a person's ownership only this person moves the row.
LEMMA OnlyTheOwner ==
  ASSUME OwnerInv, Next, handoff.st = "in_progress",
         <<handoff.st, handoff.assignee>>' # <<handoff.st, handoff.assignee>>
  PROVE  \E u \in Users : u = handoff.assignee /\ UserActs(u)
  <1>1. handoff.paused /\ ~UNCHANGED handoff
    BY DEF OwnerInv, CycleMirrors
  <1>2. ~AgentHandsOver /\ \A b \in BOOLEAN : ~Create(b)
    BY <1>1 DEF AgentHandsOver, AgentHandsOff, Create, Begin
  <1>3. ~Sweeps
    BY <1>1 DEF Sweeps, SweepExpired, SweepQueued, SweepDropped, Expire, Widen, Unmoved,
                OwnerInv, HandoffType
  <1>4. ~(AgentStarts \/ AgentChecks \/ Write)
    BY <1>1 DEF AgentStarts, AgentChecks, Write, AgentReplies, Abort, ManualReplies
  <1>5. ~(Sends \/ FireFails \/ SenderStops \/ Operators)
    BY <1>1
    DEF Sends, ReadDue, CheckGates, Blocked, ClaimSend, Fire, FireFails, SenderStops,
        Operators, Operate, OperatorCancels, OperatorReschedules, OperatorChecks,
        OperatorFires, OperatorMarks, Say, handoffVars
  <1>6. ~(Wakes \/ WakeFails \/ WakerStops \/ Inbound \/ SwitchOff)
    BY <1>1
    DEF Wakes, ClaimWake, WakeGates, LooksBack, Nudge, WakeTurn, WakeDone, WakeFails,
        WakerStops, Inbound, SwitchOff, Say, handoffVars
  <1>7. PICK u \in Users : UserActs(u)
    BY <1>2, <1>3, <1>4, <1>5, <1>6 DEF Next, HandoffNext
  <1>8. u = handoff.assignee
    BY <1>1, <1>7
    DEF UserActs, TakeOver, Begin, Claim, Accept, CanClaim, Release, Resolve, Finish,
        Escalate, Reject, TransferToQueue, Pass, TransferToUser, Transfer, ManualChecks,
        OwnedBy
  <1> QED  BY <1>7, <1>8

\* A promised message is written by a dispatcher or an operator only.
LEMMA OnlyTheirWords ==
  ASSUME Next, handoff.paused
  PROVE  /\ "scheduled" \in outbox' \ outbox => Fire \/ OperatorFires
         /\ "nudge" \in outbox' \ outbox => Nudge
  <1>1. CASE HandoffNext
    <2>1. ASSUME NEW b \in BOOLEAN, Create(b) PROVE FALSE
      BY <2>1 DEF Create, Begin
    <2>2. ASSUME NEW u \in Users, UserActs(u) PROVE UNCHANGED outbox
      BY <2>2
      DEF UserActs, TakeOver, Begin, Claim, Accept, Release, Resolve, Finish, Escalate,
          Reject, Fallback, TransferToQueue, Pass, TransferToUser, Transfer, ManualChecks,
          Unchanged
    <2>3. Sweeps => UNCHANGED outbox
      BY
      DEF Sweeps, SweepExpired, SweepQueued, SweepDropped, Expire, Widen, Fallback,
          Unchanged
    <2>4. AgentStarts \/ AgentChecks \/ Write => outbox' \subseteq outbox \cup {"reply"}
      BY DEF AgentStarts, AgentChecks, Write, AgentReplies, Abort, ManualReplies, Unchanged
    <2> QED  BY <1>1, <2>1, <2>2, <2>3, <2>4 DEF HandoffNext
  <1>2. CASE Sends \/ FireFails \/ SenderStops
    BY <1>2
    DEF Sends, ReadDue, CheckGates, Blocked, ClaimSend, FireFails, SenderStops, Fire, Say,
        handoffVars
  <1>3. CASE Operators
    BY <1>3
    DEF Operators, Operate, OperatorCancels, OperatorReschedules, OperatorChecks,
        OperatorFires, OperatorMarks, Say, handoffVars
  <1>4. CASE Wakes \/ WakeFails \/ WakerStops
    BY <1>4
    DEF Wakes, ClaimWake, WakeGates, LooksBack, Nudge, WakeTurn, WakeDone, WakeFails,
        WakerStops, Say, handoffVars
  <1>5. CASE Inbound \/ SwitchOff
    BY <1>5 DEF Inbound, SwitchOff, handoffVars
  <1>6. ~AgentHandsOver
    BY DEF AgentHandsOver, AgentHandsOff, Begin
  <1> QED  BY <1>1, <1>2, <1>3, <1>4, <1>5, <1>6 DEF Next

-----------------------------------------------------------------------------
(* The theorems *)

\* Everything above holds in every state.
THEOREM PromisesKept == Spec => []PromiseSafe
  BY PromiseInit, PromiseStep, PTL DEF Spec

\* The rows of the conversation, its cycle, what is scheduled and what the
\* dispatchers remember have their types.
THEOREM TypeCorrect == Spec => []TypeOK
  <1>1. PromiseSafe => TypeOK
    BY DEF PromiseSafe, OwnerInv, HandoffType, HandoffRows, CycleRows, PromiseInv, SendRows,
           Senders, OperatorsAt, Wakers, RestType, TypeOK
  <1> QED  BY <1>1, PromisesKept, PTL

\* handoff_states and handoff_cycles agree, whoever changes them.
THEOREM RowsAgree == Spec => []CycleMirrors
  <1>1. PromiseSafe => CycleMirrors
    BY DEF PromiseSafe, OwnerInv
  <1> QED  BY <1>1, PromisesKept, PTL

\* No reply of an agent turn waits to be sent while a person is to answer.
THEOREM AgentSilent == Spec => []AgentYields
  <1>1. PromiseSafe => AgentYields
    BY DEF PromiseSafe, OwnerInv
  <1> QED  BY <1>1, PromisesKept, PTL

\* A person loses a conversation only by what this person does.
THEOREM OwnerKeeps == Spec => OwnerDecides
  <1>1. PromiseSafe /\ [Next]_vars =>
          [handoff.st = "in_progress"
             /\ <<handoff.st, handoff.assignee>>' # <<handoff.st, handoff.assignee>>
           => \E u \in Users : u = handoff.assignee /\ UserActs(u)]_handoffVars
    BY OnlyTheOwner DEF PromiseSafe, vars
  <1> QED  BY <1>1, PromisesKept, PTL DEF Spec, OwnerDecides

\* A manual reply is committed while the row is the one its author checked.
THEOREM TenureKept == Spec => ReplyInTenure
  <1>1. PromiseSafe /\ [Next]_vars =>
          [\A u \in Users : ManualReplies(u) =>
             handoff.st = "in_progress" /\ handoff.rev = lock.rev]_handoffVars
    BY DEF PromiseSafe, OwnerInv, LockInv, ManualReplies
  <1> QED  BY <1>1, PromisesKept, PTL DEF Spec, ReplyInTenure

\* A promised message is written in a person's cycle only by who went through
\* the gates before it began.
THEOREM LateByRace == Spec => LateOnlyByRace
  <1>1. PromiseSafe /\ [Next]_vars =>
          [/\ handoff.paused /\ "scheduled" \in outbox' \ outbox
              => \/ sender.pc = "fire" /\ sender.rev < handoff.rev
                 \/ operator.pc = "firing" /\ operator.rev < handoff.rev
           /\ handoff.paused /\ "nudge" \in outbox' \ outbox
              => waker.rev < handoff.rev]_vars
    BY OnlyTheirWords DEF PromiseSafe, PromiseInv, GateHeld, Fire, OperatorFires, Nudge
  <1> QED  BY <1>1, PromisesKept, PTL DEF Spec, LateOnlyByRace

\* The dispatcher does not write what a customer's message has voided.
THEOREM VoidedUnsent == Spec => VoidedStaysUnsent
  <1>1. PromiseSafe /\ [Next]_vars =>
          [Fire => ~send.void \/ send.written \/ send.st # "fired"]_vars
    BY DEF PromiseSafe, PromiseInv, VoidInv
  <1> QED  BY <1>1, PromisesKept, PTL DEF Spec, VoidedStaysUnsent
=============================================================================
