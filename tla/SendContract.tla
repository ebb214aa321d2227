---------------------------- MODULE SendContract ----------------------------
(***************************************************************************)
(* What the Channel Host promises the Core about send operations, with    *)
(* nothing of how the send executor keeps the promise: an operation is     *)
(* handed to the WeChat window at most once, "failed" means nobody will    *)
(* ever see the message, "confirmed" rests on a message of ours that is    *)
(* in WeChat, and an operation that was never claimed cannot end as        *)
(* "unknown".  SendExecutor implements this module, and OutboundDelivery   *)
(* builds the Core's loop on it.                                           *)
(***************************************************************************)
EXTENDS Naturals

CONSTANTS Ops,      \* identifiers of send operations
          Humans,   \* messages the owner of the account types by hand
          TextOf,   \* the conversation and text of every author's message
          TextOps,  \* operations of kind text, which the Host can search for
          None      \* "no operation"

Authors == Ops \cup Humans

VARIABLES opState,     \* state of each operation in the Host's store
          chan,        \* the message whose channel id it is published with
          gui,         \* the operation the GUI thread is working on
          dispatched,  \* how often an operation was handed to the GUI
          sent         \* authors whose message is in the WeChat database

vars == <<opState, chan, gui, dispatched, sent>>

Terminal == {"confirmed", "failed", "unknown"}

Init ==
  /\ opState = [o \in Ops |-> "absent"]
  /\ chan = [o \in Ops |-> None]
  /\ gui = None
  /\ dispatched = [o \in Ops |-> 0]
  /\ sent = {}

\* The Core posts the operation; posting it again returns the stored row.
Create(o) ==
  /\ opState[o] = "absent"
  /\ opState' = [opState EXCEPT ![o] = "pending"]
  /\ UNCHANGED <<chan, gui, dispatched, sent>>

Claim(o) ==
  /\ opState[o] = "pending"
  /\ opState' = [opState EXCEPT ![o] = "executing"]
  /\ UNCHANGED <<chan, gui, dispatched, sent>>

\* The only way into the GUI: claimed, never handed over before, GUI free.
HandOver(o) ==
  /\ opState[o] = "executing"
  /\ dispatched[o] = 0
  /\ gui = None
  /\ gui' = o
  /\ dispatched' = [dispatched EXCEPT ![o] = 1]
  /\ UNCHANGED <<opState, chan, sent>>

Deliver(o) ==
  /\ gui = o
  /\ o \notin sent
  /\ sent' = sent \cup {o}
  /\ UNCHANGED <<opState, chan, gui, dispatched>>

\* The automation returns, or dies with the process.
Release ==
  /\ gui # None
  /\ gui' = None
  /\ UNCHANGED <<opState, chan, dispatched, sent>>

HumanTypes(h) ==
  /\ h \notin sent
  /\ sent' = sent \cup {h}
  /\ UNCHANGED <<opState, chan, gui, dispatched>>

Evidence(o) == {a \in sent : TextOf[a] = TextOf[o]}

\* The outcome s, published with the id of the message a or without one.
Settle(o, s, a) ==
  /\ opState[o] = "executing" \/ (opState[o] = "pending" /\ s # "unknown")
  /\ s = "confirmed" => Evidence(o) # {}
  /\ s = "failed" => o \notin sent /\ gui # o
  /\ a # None => s = "confirmed" /\ o \in TextOps /\ a \in Evidence(o)
  /\ opState' = [opState EXCEPT ![o] = s]
  /\ chan' = [chan EXCEPT ![o] = a]
  /\ UNCHANGED <<gui, dispatched, sent>>

Next ==
  \/ Release
  \/ \E o \in Ops : \/ Create(o) \/ Claim(o) \/ HandOver(o) \/ Deliver(o)
                    \/ \E s \in Terminal, a \in Authors \cup {None} : Settle(o, s, a)
  \/ \E h \in Humans : HumanTypes(h)

Spec == Init /\ [][Next]_vars
=============================================================================
