-------------------------- MODULE OutboundDelivery --------------------------
(***************************************************************************)
(* How an outbound message gets from the Core's messages table into        *)
(* WeChat: the polling pass processOutboundMessages, everything that       *)
(* writes to the rows it works on (reply commits, the cancellation at a    *)
(* handoff, the echo of our own messages that event ingestion brings       *)
(* back), the two switches it asks before it sends, and the Channel Host,  *)
(* here by its contract.                                                   *)
(*                                                                         *)
(* The pass reads its rows once and then works through them with one       *)
(* statement or HTTP call after the other; nothing holds a lock or a       *)
(* transaction across two of them.  Each UPDATE and each HTTP call is a    *)
(* step here; the queries that decide about one row are one step, Examine. *)
(* The identifier of a send operation is a function of the message, so     *)
(* that messages and operations are one set.  All messages belong to one   *)
(* conversation, and the interjection gate is switched on.                 *)
(***************************************************************************)
EXTENDS Integers, FiniteSets

CONSTANTS
  Messages,     \* outbound rows, which name their operations too
  Humans,       \* messages the owner types on the phone
  None,
  TextOf,       \* the text of every author's message
  Batches, BatchOf, SeqOf,  \* reply batch and sequence of a message
  AgentMsgs,    \* actor_type agent; the rest is written by a colleague
  MediaMsgs,    \* image or file rows a colleague sends
  HumanMedia,   \* images the owner sends from the phone
  Rejected,     \* payloads the Host answers with 400, 409, 413 or 422
  Moving,       \* media rows whose file may have another path when a later
                \* pass looks (fileStorageRoot was changed)
  ToolResults,  \* batches of the tool_result variant
  ChatType,     \* "private" or "group"
  Actors,       \* who writes to us
  TriggerActor, \* who asked for the batch, None for a wake-up turn
  Limit,        \* rows one pass takes
  Window,       \* ticks until an unknown row drops out of the scan
  TimePasses,   \* whether an instance lets ticks go by
  MaxToggles, MaxAborts, MaxCancels, MaxLosses  \* bounds of the model

Authors == Messages \cup Humans

ASSUME ConstantsAssumption ==
  /\ None \notin Authors \cup Actors
  /\ IsFiniteSet(Messages)
  /\ Messages \cap Humans = {}
  /\ BatchOf \in [Messages -> Batches]
  /\ SeqOf \in [Messages -> Nat \ {0}]
  /\ AgentMsgs \subseteq Messages
  /\ \A m, p \in Messages : BatchOf[m] = BatchOf[p] => m = p \/ {m, p} \subseteq AgentMsgs
  /\ MediaMsgs \subseteq Messages \ AgentMsgs
  /\ HumanMedia \subseteq Humans
  /\ Rejected \subseteq Messages
  /\ Moving \subseteq MediaMsgs
  /\ ToolResults \subseteq Batches
  /\ ChatType \in {"private", "group"}
  /\ TriggerActor \in [Batches -> Actors \cup {None}]
  /\ Limit \in Nat \ {0}
  /\ Window \in Nat \ {0}
  /\ TimePasses \in BOOLEAN

VARIABLES
  \* the messages table
  sendState, born, stamp, bound, echoes,
  \* runtime settings, and inbound messages since a batch was committed
  autoSend, interjections,
  \* the pass in progress
  pc, todo, snap, cur, resp, memo,
  \* the Channel Host and WeChat (SendContract), and the age of an operation
  opState, chan, gui, dispatched, sent, opStamp,
  \* what event ingestion has taken in; media rows that existed at a send
  ingested, sentWith,
  \* history: the agent message in the pass's hands when the switch went off
  inHand,
  toggles, aborts, cancels, losses

rows     == <<sendState, born, stamp, bound, echoes>>
switches == <<autoSend, interjections, inHand>>
pass     == <<pc, todo, snap, cur, resp, memo>>
host     == <<opState, chan, gui, dispatched, sent>>
events   == <<ingested, sentWith>>
bounds   == <<toggles, aborts, cancels, losses>>
vars     == <<rows, switches, pass, host, opStamp, events, bounds>>

Host == INSTANCE SendContract WITH Ops <- Messages, TextOps <- Messages \ MediaMsgs

\* The vocabulary of send-states.ts.
SendStates == {"pending", "submitting", "observed", "confirmed",
               "failed", "unknown", "held", "cancelled"}
Loop      == {"pending", "submitting", "unknown"}  \* OUTBOUND_LOOP_SEND_STATES
InFlight  == {"pending", "submitting"}             \* IN_FLIGHT_SEND_STATES
Delivered == {"confirmed", "observed"}             \* DELIVERED_SEND_STATES

\* Age of a timestamp: Window when it is of now, 0 when the reconciliation
\* window of seven days has passed.
Now == Window

NoAnswer == [state |-> "absent", id |-> None, age |-> 0]
NoMemo   == [b \in Batches |-> None]

Init ==
  /\ sendState = [m \in Messages |-> "absent"]
  /\ born = [m \in Messages |-> 0]
  /\ stamp = [m \in Messages |-> 0]
  /\ bound = [m \in Messages |-> None]
  /\ echoes = {}
  /\ autoSend = TRUE
  /\ interjections = [b \in Batches |-> {}]
  /\ inHand = None
  /\ pc = "idle" /\ todo = {} /\ cur = None
  /\ snap = [m \in Messages |-> "absent"]
  /\ resp = NoAnswer
  /\ memo = NoMemo
  /\ Host!Init
  /\ opStamp = [m \in Messages |-> 0]
  /\ ingested = {}
  /\ sentWith = [a \in Authors |-> {}]
  /\ toggles = 0 /\ aborts = 0 /\ cancels = 0 /\ losses = 0

-----------------------------------------------------------------------------
(* Other writers of the messages table and of the settings *)

Members(b)   == {m \in Messages : BatchOf[m] = b}
Committed(b) == \A m \in Members(b) : sendState[m] # "absent"

\* A reply is committed: all its segments in one transaction, with one
\* created_at.  A colleague's message is a batch of its own.
CommitBatch(b) ==
  /\ Members(b) # {}
  /\ \A m \in Members(b) : sendState[m] = "absent"
  /\ sendState' = [m \in Messages |-> IF m \in Members(b) THEN "pending" ELSE sendState[m]]
  /\ born' = [m \in Messages |-> IF m \in Members(b)
                THEN 1 + Cardinality({p \in Messages : sendState[p] # "absent"})
                ELSE born[m]]
  /\ UNCHANGED <<stamp, bound, echoes, switches, pass, host, opStamp, events, bounds>>

\* An inbound message: an interjection for every batch committed before it.
Inbound(x) ==
  /\ \E b \in Batches : Members(b) # {} /\ Committed(b) /\ x \notin interjections[b]
  /\ interjections' = [b \in Batches |->
        IF Members(b) # {} /\ Committed(b) THEN interjections[b] \cup {x} ELSE interjections[b]]
  /\ UNCHANGED <<rows, autoSend, inHand, pass, host, opStamp, events, bounds>>

\* The AI kill switch of the runtime settings is turned.
ToggleAutoSend ==
  /\ toggles < MaxToggles
  /\ toggles' = toggles + 1
  /\ autoSend' = ~autoSend
  /\ inHand' = IF pc \in {"assign", "get", "create"} /\ cur \in AgentMsgs THEN cur ELSE None
  /\ UNCHANGED <<rows, interjections, pass, host, opStamp, events, aborts, cancels, losses>>

\* cancelPendingAgentOutbound, when a handoff starts or a contact is disabled.
CancelPending ==
  /\ cancels < MaxCancels
  /\ cancels' = cancels + 1
  /\ LET hit == {m \in AgentMsgs : sendState[m] = "pending"}
     IN /\ hit # {}
        /\ sendState' = [m \in Messages |-> IF m \in hit THEN "cancelled" ELSE sendState[m]]
        /\ stamp' = [m \in Messages |-> IF m \in hit THEN Now ELSE stamp[m]]
  /\ UNCHANGED <<born, bound, echoes, switches, pass, host, opStamp, events,
                 toggles, aborts, losses>>

IsMedia(a) == a \in MediaMsgs \cup HumanMedia

\* fuseOutboundSelfEcho: rows of a colleague's media that existed when the
\* echoed message was sent and have no channel id yet; the oldest is taken.
Fusable(a) ==
  {m \in sentWith[a] : sendState[m] \in Loop \cup {"confirmed"} /\ bound[m] = None}

\* Ingestion of the echo of one of our own messages.  Media echoes are fused
\* into a waiting row; any other echo becomes a row of its own, unless a row
\* carries its channel id already (unique constraint).
IngestEcho(a) ==
  /\ a \in sent \ ingested
  /\ ingested' = ingested \cup {a}
  /\ IF IsMedia(a) /\ Fusable(a) # {}
     THEN \E m \in Fusable(a) :
            /\ \A p \in Fusable(a) : born[m] <= born[p]
            /\ bound' = [bound EXCEPT ![m] = a]
            /\ sendState' = [sendState EXCEPT ![m] = "confirmed"]
            /\ stamp' = [stamp EXCEPT ![m] = Now]
            /\ UNCHANGED echoes
     ELSE /\ echoes' = IF \E m \in Messages : bound[m] = a THEN echoes ELSE echoes \cup {a}
          /\ UNCHANGED <<sendState, bound, stamp>>
  /\ UNCHANGED <<born, switches, pass, host, opStamp, sentWith, bounds>>

-----------------------------------------------------------------------------
(* The pass: choosing and examining rows *)

\* Mutant: an unknown row never leaves the scan, as before the window.
Eligible_NoWindow == {m \in Messages : sendState[m] \in Loop}

\* Rows in the loop's states, unknown ones for seven days.
Eligible ==
  {m \in Messages : /\ sendState[m] \in Loop
                    /\ sendState[m] = "unknown" => stamp[m] > 0}

\* The oldest Limit rows; rows of one batch tie, and ties are in any order.
StartPass ==
  /\ pc = "idle"
  /\ \E S \in SUBSET Eligible :
       /\ Cardinality(S) <= Limit
       /\ S # Eligible => Cardinality(S) = Limit
       /\ \A m \in S, p \in Eligible \ S : born[m] <= born[p]
       /\ todo' = S
       /\ snap' = [m \in Messages |-> IF m \in S THEN sendState[m] ELSE "absent"]
  /\ pc' = "next"
  /\ UNCHANGED <<rows, switches, cur, resp, memo, host, opStamp, events, bounds>>

EndPass ==
  /\ pc = "next"
  /\ todo = {}
  /\ pc' = "idle"
  /\ memo' = NoMemo
  /\ UNCHANGED <<rows, switches, todo, snap, cur, resp, host, opStamp, events, bounds>>

IsNext(m) ==
  /\ pc = "next"
  /\ m \in todo
  /\ \A p \in todo : born[m] <= born[p]

\* The loop goes on with the next row.
Continue(m) ==
  /\ pc' = "next"
  /\ todo' = todo \ {m}
  /\ snap' = [snap EXCEPT ![m] = "absent"]
  /\ cur' = None
  /\ resp' = NoAnswer

\* Mutant: only segments the loop has not touched yet hold up the next one.
WaitingPriors_PendingOnly(m) ==
  {p \in Members(BatchOf[m]) : SeqOf[p] < SeqOf[m] /\ sendState[p] = "pending"}

\* Earlier segments of the batch that are still in flight.
WaitingPriors(m) ==
  {p \in Members(BatchOf[m]) : SeqOf[p] < SeqOf[m] /\ sendState[p] \in InFlight}

\* A row of ours with the same text that the channel has seen: of any age,
\* of any batch, typed by hand or not.
DeliveredCopy(p) ==
  \/ \E a \in echoes : TextOf[a] = TextOf[p]
  \/ \E q \in Messages : sendState[q] \in Delivered /\ TextOf[q] = TextOf[p]

\* priorSegmentGate with the one earlier segment that the query (LIMIT 1,
\* no order) returns.
Blocked(m)   == \E p \in WaitingPriors(m) : ~DeliveredCopy(p)
Unblocked(m) == WaitingPriors(m) = {} \/ \E p \in WaitingPriors(m) : DeliveredCopy(p)

\* Typing pace: the previous segment was written to only just now.  A tick is
\* longer than the delay, so that the delay may be over within it: such a row
\* waits or is examined.
Pacing(m) ==
  \E p \in Members(BatchOf[m]) : SeqOf[p] = SeqOf[m] - 1 /\ stamp[p] = Now

Wait(m) ==
  /\ IsNext(m)
  /\ Blocked(m) \/ Pacing(m)
  /\ Continue(m)
  /\ UNCHANGED <<rows, switches, memo, host, opStamp, events, bounds>>

\* loadBatchInterjections, once per batch and pass.
Seen(b) == IF memo[b] # None THEN memo[b] ELSE interjections[b]

\* Mutant: a reply that has begun to go out is not interrupted any more.
Interrupted_NotOnceBegun(b, seen) ==
  /\ b \notin ToolResults
  /\ seen # {}
  /\ \A p \in Members(b) : sendState[p] = "pending"
  /\ ChatType = "private" \/ TriggerActor[b] \in seen

\* interjectionGate.
Interrupted(b, seen) ==
  /\ b \notin ToolResults
  /\ seen # {}
  /\ ChatType = "private" \/ TriggerActor[b] \in seen

\* Mutant: a row that has its operation id already is not gated again.
Examine_PendingOnly(m) ==
  /\ IsNext(m)
  /\ Unblocked(m)
  /\ cur' = m
  /\ LET gated == m \in AgentMsgs /\ snap[m] = "pending"
         seen  == Seen(BatchOf[m])
         go    == IF snap[m] = "pending" THEN "assign" ELSE "get"
     IN IF gated /\ autoSend
        THEN /\ memo' = [memo EXCEPT ![BatchOf[m]] = seen]
             /\ pc' = IF Interrupted(BatchOf[m], seen) THEN "hold" ELSE go
        ELSE /\ pc' = IF gated THEN "hold" ELSE go
             /\ UNCHANGED memo
  /\ UNCHANGED <<rows, switches, todo, snap, resp, host, opStamp, events, bounds>>

\* The gates in front of the send: an agent message is held when the switch
\* is off or somebody interjected.  A row that was unknown when the pass read
\* it is only reconciled, and a colleague's message always goes.
Examine(m) ==
  /\ IsNext(m)
  /\ Unblocked(m)
  /\ cur' = m
  /\ LET gated == m \in AgentMsgs /\ snap[m] # "unknown"
         seen  == Seen(BatchOf[m])
         go    == IF snap[m] = "pending" THEN "assign" ELSE "get"
     IN IF gated /\ autoSend
        THEN /\ memo' = [memo EXCEPT ![BatchOf[m]] = seen]
             /\ pc' = IF Interrupted(BatchOf[m], seen) THEN "hold" ELSE go
        ELSE /\ pc' = IF gated THEN "hold" ELSE go
             /\ UNCHANGED memo
  /\ UNCHANGED <<rows, switches, todo, snap, resp, host, opStamp, events, bounds>>

\* An UPDATE by primary key, whatever the row has become since it was read.
Write(m, s, age) ==
  /\ sendState' = [sendState EXCEPT ![m] = s]
  /\ stamp' = [stamp EXCEPT ![m] = age]
  /\ UNCHANGED <<born, echoes>>

Hold ==
  /\ pc = "hold"
  /\ Write(cur, "held", Now)
  /\ Continue(cur)
  /\ UNCHANGED <<bound, switches, memo, host, opStamp, events, bounds>>

\* The row gets its operation id.
Assign ==
  /\ pc = "assign"
  /\ Write(cur, "submitting", Now)
  /\ pc' = "get"
  /\ UNCHANGED <<bound, switches, todo, snap, cur, resp, memo, host, opStamp, events, bounds>>

-----------------------------------------------------------------------------
(* The pass: the Channel Host's answer *)

\* Staging a media file for the Host fails: tried again, or given up once it
\* has been failing for long.  The age is that of the row the pass has read,
\* and of a row without a timestamp the age of its creation, which is any.
StagingFails ==
  /\ pc = "get"
  /\ cur \in MediaMsgs
  /\ \/ /\ stamp[cur] < Now \/ snap[cur] = "pending"
        /\ Write(cur, "failed", Now)
     \/ /\ stamp[cur] = Now
        /\ UNCHANGED <<sendState, stamp, born, echoes>>
  /\ Continue(cur)
  /\ UNCHANGED <<bound, switches, memo, host, opStamp, events, bounds>>

Answer(o) == [state |-> opState[o], id |-> chan[o], age |-> opStamp[o]]

GetFindsOperation ==
  /\ pc = "get"
  /\ opState[cur] # "absent"
  /\ resp' = Answer(cur)
  /\ pc' = "apply"
  /\ UNCHANGED <<rows, switches, todo, snap, cur, memo, host, opStamp, events, bounds>>

\* The operation found is not the one this row would post now: an identity
\* conflict.  The row is unknown from then on, and each look at it makes its
\* timestamp new.
GetConflicts ==
  /\ pc = "get"
  /\ opState[cur] # "absent"
  /\ cur \in Moving
  /\ Write(cur, "unknown", Now)
  /\ Continue(cur)
  /\ UNCHANGED <<bound, switches, memo, host, opStamp, events, bounds>>

\* Mutant: a row the Host does not know is posted, unknown or not.
GetFindsNothing_Repost ==
  /\ pc = "get"
  /\ opState[cur] = "absent"
  /\ pc' = "create"
  /\ UNCHANGED <<rows, switches, todo, snap, cur, resp, memo, host, opStamp, events, bounds>>

\* 404.  An unknown row is never posted again: it stays unknown, and the
\* write makes its timestamp new.
GetFindsNothing ==
  /\ pc = "get"
  /\ opState[cur] = "absent"
  /\ IF snap[cur] = "unknown"
     THEN Write(cur, "unknown", Now) /\ Continue(cur)
     ELSE /\ pc' = "create"
          /\ UNCHANGED <<sendState, stamp, born, echoes, todo, snap, cur, resp>>
  /\ UNCHANGED <<bound, switches, memo, host, opStamp, events, bounds>>

\* The operation is stored by the Host.
Post ==
  /\ cur \notin Rejected
  /\ Host!Create(cur)
  /\ opStamp' = [opStamp EXCEPT ![cur] = Now]

Create ==
  /\ pc = "create"
  /\ Post
  /\ resp' = [state |-> "pending", id |-> None, age |-> Now]
  /\ pc' = "apply"
  /\ UNCHANGED <<rows, switches, todo, snap, cur, memo, events, bounds>>

CreateRejected ==
  /\ pc = "create"
  /\ cur \in Rejected
  /\ Write(cur, "failed", Now)
  /\ Continue(cur)
  /\ UNCHANGED <<bound, switches, memo, host, opStamp, events, bounds>>

\* Mutants: the Host's states are stored as they come; an unknown outcome
\* counts as a failure.
FromHost_NoMapping(s)     == s
FromHost_UnknownFailed(s) ==
  IF s \in {"pending", "executing"} THEN "submitting"
  ELSE IF s = "unknown" THEN "failed" ELSE s

\* sendStateFromHost.
FromHost(s) == IF s \in {"pending", "executing"} THEN "submitting" ELSE s

\* Another row carries the channel id of the answer.
Collision ==
  /\ resp.id # None
  /\ resp.id \in echoes \/ \E p \in Messages \ {cur} : bound[p] = resp.id

\* Mutant: the answer's id is written even when there is none.
Apply_ClearsId ==
  /\ pc = "apply"
  /\ IF Collision
     THEN Write(cur, "unknown", Now) /\ UNCHANGED bound
     ELSE /\ Write(cur, FromHost(resp.state), resp.age)
          /\ bound' = [bound EXCEPT ![cur] = resp.id]
  /\ Continue(cur)
  /\ UNCHANGED <<switches, memo, host, opStamp, events, bounds>>

\* applySendOperation.
Apply ==
  /\ pc = "apply"
  /\ IF Collision
     THEN Write(cur, "unknown", Now) /\ UNCHANGED bound
     ELSE /\ Write(cur, FromHost(resp.state), resp.age)
          /\ bound' = IF resp.id # None THEN [bound EXCEPT ![cur] = resp.id] ELSE bound
  /\ Continue(cur)
  /\ UNCHANGED <<switches, memo, host, opStamp, events, bounds>>

\* The pass ends where it is: the Core dies or restarts, the database or the
\* HTTP call fails, or an UPDATE hits the unique constraint.
Abandon ==
  /\ aborts < MaxAborts
  /\ aborts' = aborts + 1
  /\ pc' = "idle" /\ todo' = {} /\ cur' = None
  /\ snap' = [m \in Messages |-> "absent"]
  /\ resp' = NoAnswer /\ memo' = NoMemo
  /\ UNCHANGED <<rows, switches, events, toggles, cancels, losses>>

AbortPass ==
  /\ pc # "idle"
  /\ Abandon
  /\ UNCHANGED <<host, opStamp>>

\* The Host stored the operation and the answer is lost.
CreateAnswerLost ==
  /\ pc = "create"
  /\ Post
  /\ Abandon

-----------------------------------------------------------------------------
(* The Channel Host, by its contract, and WeChat *)

Core == <<rows, switches, pass, bounds>>

HostClaims(o) ==
  /\ Host!Claim(o)
  /\ opStamp' = [opStamp EXCEPT ![o] = Now]
  /\ UNCHANGED <<Core, events>>

HostHandsOver(o) ==
  /\ Host!HandOver(o)
  /\ UNCHANGED <<Core, opStamp, events>>

\* Media rows in the table when a message was sent: later ones cannot be it.
Appears(a) ==
  /\ sentWith' = IF IsMedia(a)
                 THEN [sentWith EXCEPT ![a] = {m \in MediaMsgs : sendState[m] # "absent"}]
                 ELSE sentWith
  /\ UNCHANGED <<Core, opStamp, ingested>>

HostDelivers(o) == Host!Deliver(o) /\ Appears(o)

OwnerTypes(h) == Host!HumanTypes(h) /\ Appears(h)

HostReleases ==
  /\ Host!Release
  /\ UNCHANGED <<Core, opStamp, events>>

HostSettles(o, s, a) ==
  /\ Host!Settle(o, s, a)
  /\ opStamp' = [opStamp EXCEPT ![o] = Now]
  /\ UNCHANGED <<Core, events>>

\* The Host comes back with an empty store (a new epoch).
HostLosesStore ==
  /\ losses < MaxLosses
  /\ \E o \in Messages : opState[o] # "absent"
  /\ losses' = losses + 1
  /\ opState' = [o \in Messages |-> "absent"]
  /\ chan' = [o \in Messages |-> None]
  /\ gui' = None
  /\ dispatched' = [o \in Messages |-> 0]
  /\ opStamp' = [o \in Messages |-> 0]
  /\ UNCHANGED <<sent, rows, switches, pass, events, toggles, aborts, cancels>>

Older(age) == IF age = 0 THEN 0 ELSE age - 1

\* A part of the seven days goes by.
Tick ==
  /\ TimePasses
  /\ \E m \in Messages : stamp[m] > 0 \/ opStamp[m] > 0
  /\ stamp' = [m \in Messages |-> Older(stamp[m])]
  /\ opStamp' = [m \in Messages |-> Older(opStamp[m])]
  /\ resp' = [resp EXCEPT !.age = Older(@)]
  /\ UNCHANGED <<sendState, born, bound, echoes, switches, pc, todo, snap, cur, memo,
                 host, events, bounds>>

-----------------------------------------------------------------------------

HandleCurrent ==
  \/ Hold \/ Assign \/ GetFindsOperation \/ GetConflicts \/ GetFindsNothing
  \/ Create \/ CreateRejected \/ Apply

\* One pass after the other, each to its end (ChannelOutboundPoller).
Poll ==
  \/ StartPass \/ EndPass \/ HandleCurrent
  \/ \E m \in Messages : Wait(m) \/ Examine(m)

Fault == StagingFails \/ AbortPass \/ CreateAnswerLost \/ HostLosesStore

Others ==
  \/ \E b \in Batches : CommitBatch(b)
  \/ \E x \in Actors : Inbound(x)
  \/ ToggleAutoSend \/ CancelPending
  \/ \E a \in Authors : IngestEcho(a)
  \/ \E h \in Humans : OwnerTypes(h)
  \/ Tick

HostStep ==
  \/ HostReleases
  \/ \E o \in Messages :
       \/ HostClaims(o) \/ HostHandsOver(o) \/ HostDelivers(o)
       \/ \E s \in Host!Terminal, a \in Authors \cup {None} : HostSettles(o, s, a)

Next == Poll \/ Fault \/ Others \/ HostStep

Spec == Init /\ [][Next]_vars

\* The poller starts a pass a second after the last one ended, every stored
\* operation is settled at last (PendingIsSettled of SendExecutor), and time
\* goes by.
Fairness ==
  /\ WF_vars(Poll)
  /\ \A o \in Messages :
       WF_vars(\E s \in Host!Terminal, a \in Authors \cup {None} : HostSettles(o, s, a))
  /\ WF_vars(Tick)

FairSpec == Spec /\ Fairness

-----------------------------------------------------------------------------
(* Properties *)

\* Every variable keeps its shape; a row never holds a state of the Host's
\* protocol (the vocabulary and the mapping of send-states.ts).
TypeOK ==
  /\ sendState \in [Messages -> SendStates \cup {"absent"}]
  /\ born \in [Messages -> Nat]
  /\ stamp \in [Messages -> 0..Window]
  /\ bound \in [Messages -> Authors \cup {None}]
  /\ echoes \subseteq Authors
  /\ autoSend \in BOOLEAN
  /\ interjections \in [Batches -> SUBSET Actors]
  /\ inHand \in AgentMsgs \cup {None}
  /\ pc \in {"idle", "next", "hold", "assign", "get", "create", "apply"}
  /\ todo \subseteq Messages
  /\ snap \in [Messages -> Loop \cup {"absent"}]
  /\ cur \in IF pc \in {"idle", "next"} THEN {None} ELSE Messages
  /\ resp.state \in Host!Terminal \cup {"absent", "pending", "executing"}
  /\ resp.id \in Authors \cup {None}
  /\ resp.age \in 0..Window
  /\ \A b \in Batches : memo[b] = None \/ memo[b] \subseteq Actors
  /\ opState \in [Messages -> Host!Terminal \cup {"absent", "pending", "executing"}]
  /\ opStamp \in [Messages -> 0..Window]
  /\ ingested \subseteq Authors

Posted(m)  == opState[m] = "absent" /\ opState'[m] = "pending"

\* Segments of one reply reach WeChat in their order (the promise in the
\* docstring of processOutboundMessages).
BatchOrder ==
  [][\A m, p \in Messages :
       BatchOf[m] = BatchOf[p] /\ SeqOf[p] > SeqOf[m] /\ p \in sent =>
         ~(m \notin sent /\ m \in sent')]_vars

\* A row that is unknown is never posted again, even when the Host has lost
\* the operation: it may have been delivered.
UnknownNeverPosted ==
  [][\A m \in Messages : Posted(m) => sendState[m] # "unknown"]_vars

\* Once an interjection has held a segment, the rest of its reply is not
\* posted any more: a reply is cut off at one place and has no holes.  (A
\* switch turned off and on again does leave a hole, so that the promise is
\* about replies during which nobody touches it.)
NothingAfterHeld ==
  [][\A m, p \in Messages :
       /\ BatchOf[m] = BatchOf[p] /\ SeqOf[p] < SeqOf[m]
       /\ sendState[p] = "held" /\ toggles = 0
       => ~Posted(m)]_vars

\* At most one agent message gets past the switch: the one that was between
\* its check and its post when the switch went off.
SwitchStopsAgent ==
  [][\A m \in AgentMsgs : Posted(m) /\ ~autoSend => m = inHand]_vars

\* A text the Core reports as failed is not in WeChat and will not get there,
\* unless the Host lost its record of a first attempt.
FailedTextUndelivered ==
  losses = 0 =>
    \A m \in Messages \ MediaMsgs : sendState[m] = "failed" => m \notin sent

\* A channel id, once known for a row, is not lost again: it is what keeps
\* the echo of the message from becoming a second row.
BoundIdKept ==
  [][\A m \in Messages : bound[m] # None => bound'[m] # None]_vars

\* A row the loop has to send is taken out of its hands at last, unless
\* unknown rows whose timestamp every pass renews stay in front of it for
\* ever: as many as a pass takes, none of them younger, or the segment before
\* it in its reply.  An identity conflict, a channel id of another row and an
\* operation the Host has lost make such rows, and the seven days never end
\* for them; an unknown row of any other kind leaves the scan in time.
Lingers(p) == sendState[p] = "unknown" /\ (stamp[p] > 0 \/ p \in todo)
BehindUnknown(m) ==
  \/ Cardinality({p \in Messages : Lingers(p) /\ born[p] <= born[m]}) >= Limit
  \/ \E p \in Members(BatchOf[m]) : SeqOf[p] = SeqOf[m] - 1 /\ Lingers(p)

WaitingEnds ==
  \A m \in Messages : []<>(sendState[m] \notin InFlight) \/ <>[]BehindUnknown(m)

\* Refuted: a held message is one that certainly was not delivered, which is
\* what the duplicate guard and the prompt tell the model (duplicate-reply.ts,
\* agent-context.ts).
HeldNeverDelivered ==
  \A m \in Messages : sendState[m] = "held" => m \notin sent

\* Refuted: cancelled is final (the vocabulary in send-states.ts): a message
\* taken back at a handoff is not sent after all.
CancelledIsFinal ==
  [][\A m \in Messages : sendState[m] = "cancelled" => sendState'[m] = "cancelled"]_vars

\* Refuted: unknown rows cannot starve what waits behind them, because they
\* leave the scan after seven days (the comments at
\* UNKNOWN_RECONCILE_WINDOW_MS and at the scan of processOutboundMessages).
UnknownDoesNotStarve ==
  \A m \in Messages : sendState[m] = "pending" ~> sendState[m] \notin InFlight

\* Refuted: a colleague's media message that is confirmed was sent (the
\* comment at the fusion of echoes in ingest-channel-events.ts).
ConfirmedMediaWasSent ==
  \A m \in MediaMsgs : sendState[m] = "confirmed" => m \in sent
=============================================================================
