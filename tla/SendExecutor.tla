---------------------------- MODULE SendExecutor ----------------------------
(***************************************************************************)
(* The Channel Host's durable send executor: the operations table of the   *)
(* event store, the pass process_send_operations that the main loop runs   *)
(* every second, the single GUI thread it hands messages to, and the       *)
(* WeChat database it reads back for evidence.                             *)
(*                                                                         *)
(* One pass is cut where the code calls out: the high-water read, the      *)
(* lookup, the claim, the hand-over to the GUI thread, the bounded wait    *)
(* and the write of the outcome are steps of their own, so that messages   *)
(* the owner types, HTTP requests, lease expiries, a late GUI thread and   *)
(* a crash of the process fall between any two of them.                    *)
(*                                                                         *)
(* Rows of the WeChat database are numbered by sort_seq.  All              *)
(* conversations share the numbering here: TextOf stands for conversation  *)
(* and text together, so the per-conversation comparisons of the code      *)
(* select the same rows.  The scan limit of 200 rows is not modelled.      *)
(***************************************************************************)
EXTENDS Integers, FiniteSets

CONSTANTS Ops,         \* identifiers of send operations
          Humans,      \* messages the owner of the account types by hand
          TextOf,      \* conversation and text of every author's message
          None,        \* "no operation", "no row"
          TextOps,     \* operations of kind "text" (the reconcilable kind)
          LegacyOps,   \* stored with a kind this version no longer supports
          Limit,       \* operations one pass takes from each queue
          MaxFaults    \* bound on crashes of the Host process and database
                       \* exceptions that cost a retry, together

Authors == Ops \cup Humans

ASSUME ConstantsAssumption ==
  /\ None \notin Authors
  /\ IsFiniteSet(Ops)
  /\ Ops \cap Humans = {}
  /\ TextOps \subseteq Ops
  /\ LegacyOps \subseteq Ops
  /\ Limit \in Nat \ {0}
  /\ MaxFaults \in Nat

VARIABLES
  \* table channel_send_operations
  opState, rank, baseline, leased, chan,
  \* the process: the pass in progress
  up, pc, todo, cur, base, result,
  \* the GUI thread, and the WeChat database as the Host reads it
  guiOp, row, highWater, visible,
  \* history: hand-overs, and claims a crash cut off before the hand-over
  dispatched, interrupted,
  faults

store  == <<opState, rank, baseline, leased, chan>>
pass   == <<pc, todo, cur, base, result>>
wechat == <<row, highWater, visible>>
hist   == <<dispatched, interrupted>>
vars   == <<store, up, pass, guiOp, wechat, hist, faults>>

Terminal   == {"confirmed", "failed", "unknown"}
OpStates   == Terminal \cup {"absent", "pending", "executing"}
NoBaseline == -1

Init ==
  /\ opState = [o \in Ops |-> "absent"]
  /\ rank = [o \in Ops |-> 0]
  /\ baseline = [o \in Ops |-> NoBaseline]
  /\ leased = {}
  /\ chan = [o \in Ops |-> None]
  /\ up = TRUE
  /\ pc = "idle" /\ todo = {} /\ cur = None /\ base = 0 /\ result = "unknown"
  /\ guiOp = None
  /\ row = [a \in Authors |-> 0]
  /\ highWater = 0 /\ visible = 0
  /\ dispatched = [o \in Ops |-> 0]
  /\ interrupted = {}
  /\ faults = 0

-----------------------------------------------------------------------------
(* The store *)

\* One more than the number of stored operations: created_at order.
NextRank == 1 + Cardinality({o \in Ops : opState[o] # "absent"})

\* POST /api/v1/channel/send.  A repeated post returns the stored row and
\* changes nothing, so it is a stutter.
CreateSend(o) ==
  /\ up
  /\ opState[o] = "absent"
  /\ opState' = [opState EXCEPT ![o] = "pending"]
  /\ rank' = [rank EXCEPT ![o] = NextRank]
  /\ UNCHANGED <<baseline, leased, chan, up, pass, guiOp, wechat, hist, faults>>

Oldest(S) == {o \in S : Cardinality({p \in S : rank[p] < rank[o]}) < Limit}

\* Mutant: the lease is compared the wrong way round.
ForReconciliation_LeaseInverted ==
  Oldest({o \in Ops : opState[o] = "executing" /\ o \in leased})

ForReconciliation == Oldest({o \in Ops : opState[o] = "executing" /\ o \notin leased})
ForExecution      == Oldest({o \in Ops : opState[o] = "pending" /\ o \notin leased})

\* finish_send_operation: no guard on the state the row is in.
Finish(o, s, a) ==
  /\ opState' = [opState EXCEPT ![o] = s]
  /\ chan' = [chan EXCEPT ![o] = a]
  /\ leased' = leased \ {o}
  /\ UNCHANGED <<rank, baseline>>

LeaseExpires(o) ==
  /\ o \in leased
  /\ leased' = leased \ {o}
  /\ UNCHANGED <<opState, rank, baseline, chan, up, pass, guiOp, wechat, hist, faults>>

-----------------------------------------------------------------------------
(* Reading WeChat *)

\* Mutant: any row of ours will do.
Matches_AnyText(o, b) ==
  {a \in Authors : row[a] > b /\ row[a] <= visible}

\* find_self_text_after: rows of ours with the same text, above the baseline,
\* that the decrypted cache already shows; the newest one is returned.
Matches(o, b) ==
  {a \in Authors : TextOf[a] = TextOf[o] /\ row[a] > b /\ row[a] <= visible}

Newest(o, b, a) ==
  /\ a \in Matches(o, b)
  /\ \A c \in Matches(o, b) : row[c] <= row[a]

-----------------------------------------------------------------------------
(* The pass *)

StartPass ==
  /\ up
  /\ pc = "idle"
  /\ todo' = ForReconciliation \cup ForExecution
  /\ pc' = "next"
  /\ UNCHANGED <<store, up, cur, base, result, guiOp, wechat, hist, faults>>

EndPass ==
  /\ pc = "next"
  /\ todo = {}
  /\ pc' = "idle"
  /\ UNCHANGED <<store, up, todo, cur, base, result, guiOp, wechat, hist, faults>>

Before(p, o) ==
  \/ opState[p] = "executing" /\ opState[o] # "executing"
  \/ opState[p] = opState[o] /\ rank[p] < rank[o]

\* The next operation of the pass: claimed leftovers first, oldest first.
IsNext(o) ==
  /\ pc = "next"
  /\ o \in todo
  /\ \A p \in todo : ~Before(p, o)

\* The operation o is done with, or left as it is, for this pass.
Proceed(o) ==
  /\ pc' = "next"
  /\ todo' = todo \ {o}
  /\ cur' = None
  /\ UNCHANGED <<base, result>>

\* A kind the store still holds from an earlier version.
RejectLegacy(o) ==
  /\ IsNext(o)
  /\ o \in LegacyOps
  /\ Finish(o, "failed", None)
  /\ Proceed(o)
  /\ UNCHANGED <<up, guiOp, wechat, hist, faults>>

\* A claimed operation whose lease is gone: evidence only, never the GUI.
Reconcile(o) ==
  /\ IsNext(o)
  /\ o \notin LegacyOps
  /\ opState[o] = "executing"
  /\ IF baseline[o] # NoBaseline /\ o \in TextOps
     THEN \/ \E a \in Authors : Newest(o, baseline[o], a) /\ Finish(o, "confirmed", a)
          \/ Matches(o, baseline[o]) = {} /\ Finish(o, "unknown", None)
     ELSE Finish(o, "unknown", None)
  /\ Proceed(o)
  /\ UNCHANGED <<up, guiOp, wechat, hist, faults>>

\* The lookup of a claimed operation raises: the outcome is unknown for good.
ReconcileRaises(o) ==
  /\ IsNext(o)
  /\ o \in TextOps \ LegacyOps
  /\ opState[o] = "executing"
  /\ Finish(o, "unknown", None)
  /\ Proceed(o)
  /\ UNCHANGED <<up, guiOp, wechat, hist, faults>>

\* A2: the GUI thread still hangs on an earlier operation.
DeferBusy(o) ==
  /\ IsNext(o)
  /\ o \notin LegacyOps
  /\ opState[o] = "pending"
  /\ guiOp # None
  /\ Proceed(o)
  /\ UNCHANGED <<store, up, guiOp, wechat, hist, faults>>

\* Mutant: the busy check is missing before the claim, as it was before A2.
ReadHighWater_NoBusyCheck(o) ==
  /\ IsNext(o)
  /\ o \notin LegacyOps
  /\ opState[o] = "pending"
  /\ base' = visible
  /\ cur' = o
  /\ pc' = IF o \in TextOps THEN "lookup" ELSE "claim"
  /\ UNCHANGED <<store, up, todo, result, guiOp, wechat, hist, faults>>

\* Mutant: the watermark is taken one below the newest row.
ReadHighWater_OffByOne(o) ==
  /\ IsNext(o)
  /\ o \notin LegacyOps
  /\ opState[o] = "pending"
  /\ guiOp = None
  /\ base' = visible - 1
  /\ cur' = o
  /\ pc' = IF o \in TextOps THEN "lookup" ELSE "claim"
  /\ UNCHANGED <<store, up, todo, result, guiOp, wechat, hist, faults>>

ReadHighWater(o) ==
  /\ IsNext(o)
  /\ o \notin LegacyOps
  /\ opState[o] = "pending"
  /\ guiOp = None
  /\ base' = IF baseline[o] # NoBaseline THEN baseline[o] ELSE visible
  /\ cur' = o
  /\ pc' = IF o \in TextOps THEN "lookup" ELSE "claim"
  /\ UNCHANGED <<store, up, todo, result, guiOp, wechat, hist, faults>>

\* The text is already there: confirmed without touching the GUI.
LookupFinds ==
  /\ pc = "lookup"
  /\ \E a \in Authors : Newest(cur, base, a) /\ Finish(cur, "confirmed", a)
  /\ Proceed(cur)
  /\ UNCHANGED <<up, guiOp, wechat, hist, faults>>

LookupFindsNothing ==
  /\ pc = "lookup"
  /\ Matches(cur, base) = {}
  /\ pc' = "claim"
  /\ UNCHANGED <<store, up, todo, cur, base, result, guiOp, wechat, hist, faults>>

\* Mutant: the exception settles the operation, as it did before A2.
LookupRaises_Unknown ==
  /\ pc = "lookup"
  /\ Finish(cur, "unknown", None)
  /\ Proceed(cur)
  /\ UNCHANGED <<up, guiOp, wechat, hist, faults>>

\* A2: an exception before the claim keeps the operation pending.
LookupRaises ==
  /\ pc = "lookup"
  /\ faults < MaxFaults
  /\ faults' = faults + 1
  /\ Proceed(cur)
  /\ UNCHANGED <<store, up, guiOp, wechat, hist>>

\* Mutant: the claim does not store the watermark it was made at.
ClaimSend_NoBaseline ==
  /\ pc = "claim"
  /\ IF opState[cur] = "pending" /\ cur \notin leased
     THEN /\ opState' = [opState EXCEPT ![cur] = "executing"]
          /\ leased' = leased \cup {cur}
          /\ pc' = "dispatch"
          /\ UNCHANGED <<rank, baseline, chan, todo, cur, base, result>>
     ELSE Proceed(cur) /\ UNCHANGED store
  /\ UNCHANGED <<up, guiOp, wechat, hist, faults>>

\* claim_send_operation: one conditional UPDATE.
ClaimSend ==
  /\ pc = "claim"
  /\ IF opState[cur] = "pending" /\ cur \notin leased
     THEN /\ opState' = [opState EXCEPT ![cur] = "executing"]
          /\ baseline' = [baseline EXCEPT ![cur] =
                            IF @ # NoBaseline THEN @ ELSE base]
          /\ leased' = leased \cup {cur}
          /\ pc' = "dispatch"
          /\ UNCHANGED <<rank, chan, todo, cur, base, result>>
     ELSE Proceed(cur) /\ UNCHANGED store
  /\ UNCHANGED <<up, guiOp, wechat, hist, faults>>

\* _dispatch_send_bounded.  The busy check is the code's second line of
\* defence: DeferBusy already kept a busy thread from getting here.
Dispatch ==
  /\ pc = "dispatch"
  /\ IF guiOp # None
     THEN /\ result' = "unknown" /\ pc' = "settle"
          /\ UNCHANGED <<guiOp, dispatched>>
     ELSE /\ guiOp' = cur
          /\ dispatched' = [dispatched EXCEPT ![cur] = @ + 1]
          /\ pc' = "wait"
          /\ UNCHANGED result
  /\ UNCHANGED <<store, up, todo, cur, base, wechat, interrupted, faults>>

\* Mutant: giving up the wait is taken for a failed send.
Timeout_Failed ==
  /\ pc = "wait"
  /\ result' = "failed"
  /\ pc' = "settle"
  /\ UNCHANGED <<store, up, todo, cur, base, guiOp, wechat, hist, faults>>

\* The wall-clock limit of one send: the pass stops waiting, the thread and
\* the message it may yet deliver stay where they are.
Timeout ==
  /\ pc = "wait"
  /\ result' = "unknown"
  /\ pc' = "settle"
  /\ UNCHANGED <<store, up, todo, cur, base, guiOp, wechat, hist, faults>>

\* The id published with a verified send: the lookup may find nothing yet,
\* or raise, and then the operation is confirmed without an id.
SettleConfirmed ==
  /\ pc = "settle"
  /\ result = "confirmed"
  /\ \/ cur \in TextOps /\ \E a \in Authors :
          Newest(cur, baseline[cur], a) /\ Finish(cur, "confirmed", a)
     \/ Finish(cur, "confirmed", None)
  /\ Proceed(cur)
  /\ UNCHANGED <<up, guiOp, wechat, hist, faults>>

\* _reconcile_ambiguous_send: 30 s of polling for the text of an ambiguous send.
SettleAmbiguousFound ==
  /\ pc = "settle"
  /\ result = "unknown"
  /\ cur \in TextOps
  /\ \E a \in Authors : Newest(cur, baseline[cur], a) /\ Finish(cur, "confirmed", a)
  /\ Proceed(cur)
  /\ UNCHANGED <<up, guiOp, wechat, hist, faults>>

\* No evidence within the window, lookups that only raise, or no text kind.
SettleUnknown ==
  /\ pc = "settle"
  /\ result = "unknown"
  /\ Finish(cur, "unknown", None)
  /\ Proceed(cur)
  /\ UNCHANGED <<up, guiOp, wechat, hist, faults>>

SettleFailed ==
  /\ pc = "settle"
  /\ result = "failed"
  /\ Finish(cur, "failed", None)
  /\ Proceed(cur)
  /\ UNCHANGED <<up, guiOp, wechat, hist, faults>>

\* A database exception leaves process_send_operations and ends the main
\* loop's cycle: reading the operation or the high-water mark, claiming, or
\* writing the outcome, which then leaves the operation claimed.
AbortPass ==
  /\ pc \in {"next", "claim", "settle"}
  /\ faults < MaxFaults
  /\ faults' = faults + 1
  /\ pc' = "idle"
  /\ todo' = {}
  /\ cur' = None
  /\ UNCHANGED <<store, up, base, result, guiOp, wechat, hist>>

-----------------------------------------------------------------------------
(* The GUI thread and the rest of WeChat *)

NewRow(a) ==
  /\ row[a] = 0
  /\ row' = [row EXCEPT ![a] = highWater + 1]
  /\ highWater' = highWater + 1
  /\ UNCHANGED visible

GuiDelivers(o) ==
  /\ guiOp = o
  /\ NewRow(o)
  /\ UNCHANGED <<store, up, pass, guiOp, hist, faults>>

\* Mutant: only a pass that still waits for the thread clears the busy flag.
GuiReturns_BusyForEver(o, r) ==
  /\ guiOp = o
  /\ r = "confirmed" => row[o] # 0
  /\ r = "failed" => row[o] = 0
  /\ pc = "wait" /\ cur = o
  /\ guiOp' = None
  /\ pc' = "settle" /\ result' = r
  /\ UNCHANGED <<store, up, todo, cur, base, wechat, hist, faults>>

\* What the driver answers.  Its contract: success was verified in WeChat,
\* failure means nothing was sent, anything else says nothing.
GuiReturns(o, r) ==
  /\ guiOp = o
  /\ r = "confirmed" => row[o] # 0
  /\ r = "failed" => row[o] = 0
  /\ guiOp' = None
  /\ IF pc = "wait" /\ cur = o
     THEN pc' = "settle" /\ result' = r
     ELSE UNCHANGED <<pc, result>>
  /\ UNCHANGED <<store, up, todo, cur, base, wechat, hist, faults>>

HumanTypes(h) ==
  /\ NewRow(h)
  /\ UNCHANGED <<store, up, pass, guiOp, hist, faults>>

\* WeChat flushes its database and the Host's decrypted copy catches up.
Flush(v) ==
  /\ visible < v /\ v <= highWater
  /\ visible' = v
  /\ UNCHANGED <<store, up, pass, guiOp, row, highWater, hist, faults>>

-----------------------------------------------------------------------------
(* The process *)

Crash ==
  /\ up
  /\ faults < MaxFaults
  /\ faults' = faults + 1
  /\ up' = FALSE
  /\ pc' = "idle" /\ todo' = {} /\ cur' = None
  /\ guiOp' = None
  /\ interrupted' = IF pc = "dispatch" THEN interrupted \cup {cur} ELSE interrupted
  /\ UNCHANGED <<store, base, result, wechat, dispatched>>

\* Mutant: the restart puts claimed operations back into the queue.
Restart_Requeue ==
  /\ ~up
  /\ up' = TRUE
  /\ leased' = {}
  /\ opState' = [o \in Ops |-> IF opState[o] = "executing" THEN "pending" ELSE opState[o]]
  /\ UNCHANGED <<rank, baseline, chan, pass, guiOp, wechat, hist, faults>>

\* main: recover_send_operation_leases before the server and the loop start.
Restart ==
  /\ ~up
  /\ up' = TRUE
  /\ leased' = leased \ {o \in Ops : opState[o] \in {"pending", "executing"}}
  /\ UNCHANGED <<opState, rank, baseline, chan, pass, guiOp, wechat, hist, faults>>

-----------------------------------------------------------------------------

HandleOne(o) ==
  \/ RejectLegacy(o) \/ Reconcile(o) \/ ReconcileRaises(o)
  \/ DeferBusy(o) \/ ReadHighWater(o)

HandleCurrent ==
  \/ LookupFinds \/ LookupFindsNothing \/ LookupRaises \/ ClaimSend
  \/ Dispatch \/ Timeout
  \/ SettleConfirmed \/ SettleAmbiguousFound \/ SettleUnknown \/ SettleFailed

Process ==
  \/ StartPass \/ EndPass \/ HandleCurrent \/ AbortPass
  \/ \E o \in Ops : HandleOne(o)

Gui == \E o \in Ops : GuiDelivers(o) \/ \E r \in Terminal : GuiReturns(o, r)

Environment ==
  \/ \E o \in Ops : CreateSend(o) \/ LeaseExpires(o)
  \/ \E h \in Humans : HumanTypes(h)
  \/ \E v \in 1..highWater : Flush(v)
  \/ Crash \/ Restart

Next == Process \/ Gui \/ Environment

Spec == Init /\ [][Next]_vars

\* The main loop keeps passing, a lease ends, a dead Host is started again.
Fairness ==
  /\ WF_vars(Process)
  /\ WF_vars(Restart)
  /\ \A o \in Ops : WF_vars(LeaseExpires(o))

FairSpec == Spec /\ Fairness

\* The automation comes back at last, with whatever answer.  The code cannot
\* enforce it (a call blocked in Windows is not interruptible), so it is no
\* part of FairSpec; PendingIsSettled states where it is needed.
GuiComesBack == WF_vars(\E o \in Ops, r \in Terminal : GuiReturns(o, r))

-----------------------------------------------------------------------------
(* Properties *)

\* Every variable keeps its shape (the columns of channel_send_operations
\* and the locals of process_send_operations).
TypeOK ==
  /\ opState \in [Ops -> OpStates]
  /\ rank \in [Ops -> Nat]
  /\ baseline \in [Ops -> Nat \cup {NoBaseline}]
  /\ leased \subseteq Ops
  /\ chan \in [Ops -> Authors \cup {None}]
  /\ up \in BOOLEAN
  /\ pc \in {"idle", "next", "lookup", "claim", "dispatch", "wait", "settle"}
  /\ todo \subseteq Ops
  /\ cur \in IF pc \in {"idle", "next"} THEN {None} ELSE Ops
  /\ base \in Nat
  /\ result \in Terminal
  /\ guiOp \in Ops \cup {None}
  /\ row \in [Authors -> Nat]
  /\ highWater \in Nat
  /\ visible \in Nat
  /\ dispatched \in [Ops -> Nat]
  /\ interrupted \subseteq Ops
  /\ faults \in Nat

\* The executor never hands one operation to the GUI twice, whatever the
\* crashes, lease expiries, timeouts and retries in between (the docstring
\* of process_send_operations).
AtMostOnceGui == \A o \in Ops : dispatched[o] <= 1

\* A2: "unknown" means "it may have been sent".  An operation that never got
\* to the GUI ends as unknown only if the process died between its claim and
\* its hand-over; a busy GUI, a failing lookup and an aborted pass must not
\* lose a message in silence.
SilentLossOnlyByCrash ==
  \A o \in Ops : opState[o] = "unknown" /\ dispatched[o] = 0 => o \in interrupted

\* The Core treats "failed" as undelivered and lets the agent say it again:
\* no message of a failed operation is in WeChat, not even later by a GUI
\* thread nobody waits for any more.
FailedNeverDelivered ==
  \A o \in Ops : opState[o] = "failed" => row[o] = 0

\* "confirmed" always rests on a message of ours with that very text, and the
\* id published with it is the id of such a message.
ConfirmedHasEvidence ==
  \A o \in Ops : opState[o] = "confirmed" =>
    /\ \E a \in Authors : TextOf[a] = TextOf[o] /\ row[a] # 0
    /\ chan[o] # None => TextOf[chan[o]] = TextOf[o] /\ row[chan[o]] # 0

\* The executor keeps the promise of SendContract.
Contract == INSTANCE SendContract WITH
              gui <- guiOp, sent <- {a \in Authors : row[a] # 0}
ImplementsContract == Contract!Spec

\* A claimed operation is settled although the GUI thread may hang for ever:
\* the wait is bounded and a leftover claim is reconciled.
ClaimedIsSettled ==
  \A o \in Ops : opState[o] = "executing" ~> opState[o] \in Terminal

\* A stored operation is settled at last, provided that the GUI thread always
\* comes back: a thread that hangs for ever defers everything behind it (A2).
PendingIsSettled ==
  GuiComesBack => \A o \in Ops : opState[o] = "pending" ~> opState[o] \in Terminal

-----------------------------------------------------------------------------
(* The inductive invariant behind the safety properties *)

\* Where the pass is, and what the operation in its hands looks like there.
PassInv ==
  /\ ~up => pc = "idle" /\ guiOp = None
  /\ cur \notin LegacyOps
  /\ pc = "lookup" => cur \in TextOps
  /\ pc \in {"lookup", "claim"} => opState[cur] = "pending"
  /\ pc \in {"dispatch", "wait", "settle"} => opState[cur] = "executing"
  /\ pc \in {"lookup", "claim", "dispatch"} => guiOp = None
  /\ pc = "dispatch" => dispatched[cur] = 0
  /\ pc \in {"wait", "settle"} => dispatched[cur] = 1
  /\ pc = "settle" /\ result = "confirmed" => row[cur] # 0
  /\ pc = "settle" /\ result = "failed" => row[cur] = 0 /\ guiOp # cur
  /\ \A o \in todo : opState[o] \in {"pending", "executing"}

\* Only a claim leads to the GUI, and only the GUI leads to a message.
DispatchInv ==
  /\ guiOp # None => dispatched[guiOp] = 1
  /\ \A o \in Ops :
       /\ dispatched[o] <= 1
       /\ opState[o] \in {"absent", "pending"} => dispatched[o] = 0
       /\ row[o] # 0 => dispatched[o] = 1
       /\ opState[o] = "executing" => o \notin LegacyOps /\ baseline[o] # NoBaseline
       /\ o \in LegacyOps => dispatched[o] = 0
       /\ opState[o] = "executing" /\ dispatched[o] = 0 =>
            o \in interrupted \/ (pc = "dispatch" /\ cur = o)
       /\ opState[o] = "failed" => row[o] = 0 /\ guiOp # o

OutcomeInv == SilentLossOnlyByCrash /\ ConfirmedHasEvidence

\* PassInv, DispatchInv and OutcomeInv hold together, and no step breaks them
\* (the control flow of process_send_operations and _dispatch_send_bounded).
IndInv == TypeOK /\ PassInv /\ DispatchInv /\ OutcomeInv
=============================================================================
