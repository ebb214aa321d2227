----------------------------- MODULE FollowUps -----------------------------
(***************************************************************************)
(* What the Agent has promised to say later, beside the ownership of the   *)
(* conversation: a scheduled send with its dispatcher and the operator who *)
(* may change it, and the wake of a waiting session with its dispatcher.   *)
(*                                                                         *)
(* Both dispatchers read the gates (handoff, contact), then write a        *)
(* message, and neither takes the ownership lock.  Every statement is one  *)
(* action; what was read before stays in the dispatcher's record.  A row   *)
(* may be due at any moment; quiet hours are left out.                     *)
(***************************************************************************)
EXTENDS Handoff

CONSTANT Scenarios   \* which of the rows exist, and what may happen to them

Scenario == [bound : Nat, send : {"none", "pending"}, wake : {"none", "scheduled"},
             inbounds : Nat, flips : Nat, faults : Nat, operations : Nat]

ASSUME FollowUpsAssumption == Scenarios \subseteq Scenario

VARIABLES send,      \* scheduled_sends row: status, whether its message was written
                     \* and (history) whether a customer's message voided it
          sender,    \* the row the send dispatcher works on
          operator,  \* the operation on the row a person is carrying out
          wake,      \* session_wakes row
          waker,     \* the row the wake dispatcher works on
          allowed,   \* contact_profiles.agentEnabled
          heard,     \* the customer wrote after the wake was made
          crashed,   \* history: a dispatcher's process ended at its work
          scenario   \* what is left of the scenario's bounds

followVars == <<send, sender, operator, wake, waker, allowed, heard, crashed, scenario>>
sendVars == <<send, sender, operator>>
wakeVars == <<wake, waker>>
restVars == <<allowed, heard, crashed, scenario>>
vars == <<handoffVars, followVars>>

Idle == [pc |-> "idle", rev |-> 0]

Init ==
    /\ HandoffInit
    /\ \E s \in Scenarios, nudge \in BOOLEAN :
         /\ scenario = s
         /\ bound = s.bound
         /\ send = [st |-> s.send, written |-> FALSE, void |-> FALSE]
         /\ wake = [st |-> s.wake, nudge |-> nudge]
    /\ sender = Idle /\ operator = Idle /\ waker = Idle
    /\ allowed = TRUE /\ heard = FALSE /\ crashed = FALSE

Use(what) == scenario[what] > 0 /\ scenario' = [scenario EXCEPT ![what] = @ - 1]

\* The gates of the dispatchers, read without the lock.
Open == ~handoff.paused /\ allowed

\* Writing a message: its id is that of the row, so it is written once.
Say(kind) ==
    /\ outbox' = outbox \cup {kind}
    /\ UNCHANGED <<handoff, cycle, turn, lock, sweep, bound>>

(***************************************************************************)
(* Scheduled sends.                                                        *)
(***************************************************************************)
\* Mutant: the row is taken whatever its status is by now.
TakeSend_Unguarded == TRUE

\* The compare-and-set from pending to fired.
TakeSend == send.st = "pending"

ReadDue ==
    /\ sender.pc = "idle" /\ send.st = "pending"
    /\ sender' = [sender EXCEPT !.pc = "due"]
    /\ UNCHANGED <<handoffVars, send, operator, wakeVars, restVars>>

\* checkGates: a handoff freezes the row, a disabled contact cancels it.
CheckGates ==
    /\ sender.pc = "due"
    /\ sender' = [pc |-> IF handoff.paused THEN "frozen" ELSE IF allowed THEN "open" ELSE "cancelled",
                  rev |-> handoff.rev]
    /\ UNCHANGED <<handoffVars, send, operator, wakeVars, restVars>>

\* The row is written by its id alone, whatever became of it meanwhile.
Blocked ==
    /\ sender.pc \in {"frozen", "cancelled"}
    /\ send' = [send EXCEPT !.st = sender.pc]
    /\ sender' = Idle
    /\ UNCHANGED <<handoffVars, operator, wakeVars, restVars>>

ClaimSend ==
    /\ sender.pc = "open"
    /\ IF TakeSend
       THEN send' = [send EXCEPT !.st = "fired"] /\ sender' = [sender EXCEPT !.pc = "fire"]
       ELSE sender' = Idle /\ UNCHANGED send
    /\ UNCHANGED <<handoffVars, operator, wakeVars, restVars>>

\* Its message may be there already, when an operator fired the row before.
Fire ==
    /\ sender.pc = "fire"
    /\ IF send.written THEN UNCHANGED handoffVars ELSE Say("scheduled")
    /\ send' = [send EXCEPT !.written = TRUE]
    /\ sender' = Idle
    /\ UNCHANGED <<operator, wakeVars, restVars>>

\* Mutant: a row whose message could not be written stays fired.
FireFails_StaysFired ==
    /\ sender.pc = "fire"
    /\ Use("faults")
    /\ sender' = Idle
    /\ UNCHANGED <<handoffVars, send, operator, wakeVars, allowed, heard, crashed>>

\* The message was not written: a row still fired is pending again.
FireFails ==
    /\ sender.pc = "fire"
    /\ Use("faults")
    /\ send' = [send EXCEPT !.st = IF @ = "fired" THEN "pending" ELSE @]
    /\ sender' = Idle
    /\ UNCHANGED <<handoffVars, operator, wakeVars, allowed, heard, crashed>>

SenderStops ==
    /\ sender.pc # "idle"
    /\ Use("faults")
    /\ sender' = Idle /\ crashed' = TRUE
    /\ UNCHANGED <<handoffVars, send, operator, wakeVars, allowed, heard>>

\* operateScheduledSend reads the row, then changes it by its id alone.
Operate(op) ==
    /\ operator.pc = "idle" /\ send.st \in {"pending", "frozen"}
    /\ Use("operations")
    /\ operator' = [operator EXCEPT !.pc = op]
    /\ UNCHANGED <<handoffVars, send, sender, wakeVars, allowed, heard, crashed>>

OperatorCancels ==
    /\ operator.pc = "cancel"
    /\ send' = [send EXCEPT !.st = "cancelled"]
    /\ operator' = Idle
    /\ UNCHANGED <<handoffVars, sender, wakeVars, restVars>>

\* A person wants the row sent later, whatever was said before.
OperatorReschedules ==
    /\ operator.pc = "reschedule"
    /\ send' = [send EXCEPT !.st = "pending", !.void = FALSE]
    /\ operator' = Idle
    /\ UNCHANGED <<handoffVars, sender, wakeVars, restVars>>

\* fire_now is refused while a person is to answer.
OperatorChecks ==
    /\ operator.pc = "fire_now"
    /\ operator' = IF handoff.paused THEN Idle ELSE [pc |-> "firing", rev |-> handoff.rev]
    /\ UNCHANGED <<handoffVars, send, sender, wakeVars, restVars>>

OperatorFires ==
    /\ operator.pc = "firing"
    /\ IF send.written THEN UNCHANGED handoffVars ELSE Say("scheduled")
    /\ send' = [send EXCEPT !.written = TRUE]
    /\ operator' = [operator EXCEPT !.pc = "fired"]
    /\ UNCHANGED <<sender, wakeVars, restVars>>

OperatorMarks ==
    /\ operator.pc = "fired"
    /\ send' = [send EXCEPT !.st = "fired"]
    /\ operator' = Idle
    /\ UNCHANGED <<handoffVars, sender, wakeVars, restVars>>

Sends ==
    \/ ReadDue \/ CheckGates \/ Blocked \/ ClaimSend \/ Fire

Operators ==
    \/ \E op \in {"cancel", "reschedule", "fire_now"} : Operate(op)
    \/ OperatorCancels \/ OperatorReschedules
    \/ OperatorChecks \/ OperatorFires \/ OperatorMarks

(***************************************************************************)
(* Session wakes.                                                          *)
(***************************************************************************)
\* Mutant: a wake is read, not claimed.
TakeWake_ReadsOnly == UNCHANGED wake

TakeWake == wake' = [wake EXCEPT !.st = "firing"]

ClaimWake ==
    /\ waker.pc = "idle" /\ wake.st = "scheduled"
    /\ TakeWake
    /\ waker' = [waker EXCEPT !.pc = "claimed"]
    /\ UNCHANGED <<handoffVars, sendVars, restVars>>

\* Mutant: a wake in hand is checked against the contact only.
Passes_ContactOnly == allowed

Passes == Open

WakeGates ==
    /\ waker.pc = "claimed"
    /\ waker' = [pc |-> IF ~Passes THEN "done" ELSE IF wake.nudge THEN "nudge" ELSE "turn",
                 rev |-> handoff.rev]
    /\ UNCHANGED <<handoffVars, sendVars, wake, restVars>>

\* A customer who wrote since the wake was made is not reminded.
LooksBack ==
    /\ waker.pc = "nudge"
    /\ waker' = [waker EXCEPT !.pc = IF heard THEN "done" ELSE "remind"]
    /\ UNCHANGED <<handoffVars, sendVars, wake, restVars>>

Nudge ==
    /\ waker.pc = "remind"
    /\ Say("nudge")
    /\ waker' = [waker EXCEPT !.pc = "done"]
    /\ UNCHANGED <<sendVars, wake, restVars>>

\* A turn for no message; after two of them the session is closed instead.
WakeTurn ==
    /\ waker.pc = "turn"
    /\ turn' \in {"active", turn}
    /\ waker' = [waker EXCEPT !.pc = "done"]
    /\ UNCHANGED <<handoff, cycle, outbox, lock, sweep, bound, sendVars, wake, restVars>>

\* The finally clause: also after an error.
WakeFails ==
    /\ waker.pc \in {"claimed", "nudge", "remind", "turn"}
    /\ Use("faults")
    /\ waker' = [waker EXCEPT !.pc = "done"]
    /\ UNCHANGED <<handoffVars, sendVars, wake, allowed, heard, crashed>>

\* markWakeDone writes only a row that is firing.
WakeDone ==
    /\ waker.pc = "done"
    /\ wake' = [wake EXCEPT !.st = IF @ = "firing" THEN "done" ELSE @]
    /\ waker' = Idle
    /\ UNCHANGED <<handoffVars, sendVars, restVars>>

WakerStops ==
    /\ waker.pc # "idle"
    /\ Use("faults")
    /\ waker' = Idle /\ crashed' = TRUE
    /\ UNCHANGED <<handoffVars, sendVars, wake, allowed, heard>>

Wakes == ClaimWake \/ WakeGates \/ LooksBack \/ Nudge \/ WakeTurn \/ WakeDone

(***************************************************************************)
(* What else changes the rows.                                             *)
(***************************************************************************)
\* cancelPendingScheduledSendsOnInbound
Voided ==
    send' = IF send.st = "pending" THEN [send EXCEPT !.st = "cancelled", !.void = TRUE] ELSE send

\* Ingestion stores a customer's message.
Inbound ==
    /\ Use("inbounds")
    /\ Voided
    /\ wake' = [wake EXCEPT !.st = IF @ = "scheduled" THEN "cancelled" ELSE @]
    /\ heard' = TRUE
    /\ UNCHANGED <<handoffVars, sender, operator, waker, allowed, crashed>>

\* The contact's automatic replies are switched off: the turn is suppressed
\* and the Agent's pending messages cancelled, without the lock.
SwitchOff ==
    /\ allowed /\ Use("flips")
    /\ allowed' = FALSE
    /\ turn' = "none" /\ outbox' = {}
    /\ UNCHANGED <<handoff, cycle, lock, sweep, bound, sendVars, wakeVars, heard, crashed>>

Frozen == [send EXCEPT !.st = IF @ = "pending" THEN "frozen" ELSE @]

\* The handoff the Agent answers with freezes what is scheduled; that of a
\* failure, and any other, does not.
AgentHandsOver ==
    /\ \E q \in {"none", "expert"}, f \in {{}, {"farewell"}} : AgentHandsOff(q, f)
    /\ send' \in {send, Frozen}
    /\ UNCHANGED <<sender, operator, wakeVars, restVars>>

Next ==
    \/ HandoffNext /\ UNCHANGED followVars
    \/ Sends \/ FireFails \/ SenderStops
    \/ Operators
    \/ Wakes \/ WakeFails \/ WakerStops
    \/ Inbound \/ SwitchOff \/ AgentHandsOver

Spec == Init /\ [][Next]_vars

\* The timers of the api process go on, and a transaction ends.
FairSpec ==
    /\ Spec
    /\ WF_vars(Sweeps /\ UNCHANGED followVars)
    /\ WF_vars(Write /\ UNCHANGED followVars)
    /\ WF_vars(Sends)
    /\ WF_vars(Wakes)

(***************************************************************************)
(* Properties.                                                             *)
(***************************************************************************)
TypeOK ==
    /\ handoff \in [st : Statuses, assignee : Users \cup {NoUser}, queue : Queues,
                    target : Users \cup {NoUser}, fallback : Queues, since : BOOLEAN,
                    paused : BOOLEAN, rev : Nat]
    /\ cycle \in [st : Statuses \cup {"finished"}, assignee : Users \cup {NoUser}, brief : BOOLEAN]
    /\ turn \in {"none", "active"}
    /\ outbox \subseteq Kinds
    /\ lock \in [by : Users \cup {NoUser, Agent}, rev : Nat]
    /\ sweep \in [kind : {"none", "expired", "queued"}, rev : Nat, queue : Queues]
    /\ bound \in Nat
    /\ send \in [st : {"none", "pending", "frozen", "cancelled", "fired"},
                 written : BOOLEAN, void : BOOLEAN]
    /\ sender \in [pc : {"idle", "due", "open", "frozen", "cancelled", "fire"}, rev : Nat]
    /\ operator \in [pc : {"idle", "cancel", "reschedule", "fire_now", "firing", "fired"},
                     rev : Nat]
    /\ wake \in [st : {"none", "scheduled", "firing", "done", "cancelled"}, nudge : BOOLEAN]
    /\ waker \in [pc : {"idle", "claimed", "nudge", "remind", "turn", "done"}, rev : Nat]
    /\ {allowed, heard, crashed} \subseteq BOOLEAN
    /\ scenario \in Scenario

\* A promised message that is written while a person is to answer was let
\* through by the gates before this person's cycle began.
LateOnlyByRace ==
    [][/\ handoff.paused /\ "scheduled" \in outbox' \ outbox
          => \/ sender.pc = "fire" /\ sender.rev < handoff.rev
             \/ operator.pc = "firing" /\ operator.rev < handoff.rev
       /\ handoff.paused /\ "nudge" \in outbox' \ outbox
          => waker.rev < handoff.rev]_vars

\* The dispatcher writes no send that a customer's message has voided: what
\* voids a row and what claims it exclude each other.  Only an operator, who
\* writes the row by its id alone, can reopen a claimed row to be voided; the
\* row then no longer reads fired when the message is written.
VoidedStaysUnsent ==
    [][Fire => ~send.void \/ send.written \/ send.st # "fired"]_vars

\* A wake that was claimed is worked off, unless its process ended.
WakeSettles ==
    wake.st \in {"scheduled", "firing"} ~> (wake.st \in {"done", "cancelled"} \/ crashed)

\* What is scheduled is sent, cancelled or left to a person.
SendSettles ==
    send.st = "pending" ~> (send.st \in {"frozen", "cancelled"} \/ send.written \/ crashed)
=============================================================================
