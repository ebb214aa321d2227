------------------------------ MODULE Inbound ------------------------------
(***************************************************************************)
(* How a customer's message becomes an agent turn: the Core's poller pulls *)
(* pages of the Host's ledger, ingestion stores each event in a            *)
(* transaction of its own and admits the message, the merge window gathers *)
(* admitted messages in one row per conversation, and the dispatchers turn *)
(* a window that is due into a turn.                                       *)
(*                                                                         *)
(* One action is one transaction or statement; what a poller or dispatcher *)
(* has read stays in its record until it is used.  The messages are text   *)
(* of one private conversation.  Times are left out: a scheduled window    *)
(* may be due at any moment.                                               *)
(***************************************************************************)
EXTENDS EventLedger

CONSTANTS Dispatchers,    \* instances of processTurnAdmissions
          NoMessage,      \* no message
          MaxAttempts,    \* MAX_ATTEMPTS of a window (3)
          MaxExtensions,  \* extensions of a half sentence (2), which count as attempts
          Scenarios       \* pairs of a Host's and a Core's scenario

\* Whether the merge window is on, and how many faults, switch flips and half
\* sentences there may be.
CoreScenario == [merge : BOOLEAN, faults : Nat, flips : Nat, halves : Nat]

ASSUME InboundAssumption ==
    /\ Dispatchers \subseteq Nat
    /\ NoMessage \notin Nat
    /\ MaxAttempts \in Nat /\ MaxExtensions \in 0..MaxAttempts - 1
    /\ Scenarios \subseteq LedgerScenario \X CoreScenario

VARIABLES cursor,      \* channel_cursors.cursor
          stored,      \* how ingestion treated each message, "no" until then
          poller,      \* the page in hand and the global-pause handoff to make
          row,         \* turn_admission_states of the conversation
          turns,       \* messages that trigger a turn
          dispatcher,  \* the claim each dispatcher works on
          ai,          \* runtime_settings.agentEnabled
          allowed,     \* contact enabled, not blocked, profile available
          paused,      \* handoff_states.agentPaused
          requested,   \* messages whose global-pause handoff was made
          closed,      \* history: last messages of windows that ended without a
                       \* turn: declined, failed or abandoned
          silenced,    \* history: of these, the windows declined for the kill switch
          given,       \* history: messages whose event or handoff was given up
          core         \* the scenario: what is left of its bounds

gates == <<ai, allowed, paused>>
history == <<closed, silenced, given>>
ingestVars == <<cursor, stored, poller, requested>>
coreVars == <<ingestVars, row, turns, dispatcher, gates, history, core>>
vars == <<ledgerVars, coreVars>>

NoRow == [st |-> "none", rev |-> 0, last |-> NoMessage, attempt |-> 0]
Free == [pc |-> "idle", claim |-> NoRow, reason |-> "none"]
NoPage == [pc |-> "idle", events |-> <<>>, next |-> 0, more |-> FALSE,
           handoff |-> NoMessage]

Init ==
    /\ \E s \in Scenarios : host = s[1] /\ core = s[2]
    /\ LedgerInit
    /\ cursor = 0
    /\ stored = [m \in Messages |-> "no"]
    /\ poller = NoPage
    /\ row = NoRow
    /\ turns = {}
    /\ dispatcher = [d \in Dispatchers |-> Free]
    /\ ai = TRUE /\ allowed = TRUE /\ paused = FALSE
    /\ requested = {} /\ closed = {} /\ silenced = {} /\ given = {}

CanFault == core.faults > 0
UseFault == core' = [core EXCEPT !.faults = @ - 1]

(***************************************************************************)
(* The poller.                                                             *)
(***************************************************************************)
Events(after) == [k \in 1 .. PageEnd(after) - after |->
                    [cursor |-> after + k, msg |-> ledger[after + k].msg,
                     historical |-> ledger[after + k].historical]]

TakePage(after) ==
    poller' = [NoPage EXCEPT !.pc = "page", !.events = Events(after),
                             !.next = PageEnd(after), !.more = PageEnd(after) < Len(ledger)]

\* Mutant: the cursor is stored when the page is pulled.
FirstPull_CursorFirst ==
    LET from == IF Len(ledger) < cursor THEN 0 ELSE cursor
    IN  /\ poller.pc = "idle"
        /\ from # cursor \/ Len(ledger) > cursor
        /\ TakePage(from)
        /\ cursor' = PageEnd(from)
        /\ UNCHANGED <<ledgerVars, stored, requested, row, turns, dispatcher,
                       gates, history, core>>

\* A Host whose cursors are below ours has a new store: replay it from 0.
\* A pull that finds nothing new is a stuttering step.
FirstPull ==
    LET from == IF Len(ledger) < cursor THEN 0 ELSE cursor
    IN  /\ poller.pc = "idle"
        /\ from # cursor \/ Len(ledger) > cursor
        /\ TakePage(from)
        /\ UNCHANGED <<ledgerVars, cursor, stored, requested, row, turns, dispatcher,
                       gates, history, core>>

\* The page is ingested: the cursor takes the page's, and the next page
\* follows without another look at the Host's highest cursor.
PageDone ==
    /\ poller.pc = "page" /\ poller.events = <<>>
    /\ cursor' = poller.next
    /\ IF poller.more THEN TakePage(poller.next) ELSE poller' = NoPage
    /\ UNCHANGED <<ledgerVars, stored, requested, row, turns, dispatcher, gates,
                   history, core>>

\* Mutant: a historical event is treated like a live one.
Treatment_IgnoresHistory(e) ==
    IF paused THEN "held"
    ELSE IF ~ai THEN "deferred"
    ELSE IF ~allowed THEN "refused"
    ELSE "admitted"

(***************************************************************************)
(* Ingestion of one event, and the admission of its message.               *)
(***************************************************************************)
\* What ingestion makes of a new message: only a live one, while nobody has
\* taken over and every switch is on, is admitted; with the kill switch off
\* it is left to a handoff.
Treatment(e) ==
    IF e.historical THEN "history"
    ELSE IF paused THEN "held"
    ELSE IF ~ai THEN "deferred"
    ELSE IF ~allowed THEN "refused"
    ELSE "admitted"

\* Mutant: a new message does not put a dispatching row back to scheduled.
Schedule_KeepsStatus(m) ==
    row' = [st |-> IF row.st = "dispatching" THEN row.st ELSE "scheduled",
            rev |-> row.rev + 1, last |-> m, attempt |-> 0]

\* scheduleTurnAdmission: the message opens the window or starts it again.
Schedule(m) ==
    row' = [st |-> "scheduled", rev |-> row.rev + 1, last |-> m, attempt |-> 0]

Admit(m) ==
    IF core.merge
    THEN Schedule(m) /\ UNCHANGED turns
    ELSE turns' = turns \cup {m} /\ UNCHANGED row

\* Mutant: a message that was stored before is admitted again.
Ingest_NotFresh ==
    LET e == Head(poller.events)
        as == Treatment(e)
    IN  /\ poller.pc = "page" /\ poller.events # <<>>
        /\ cursor' = e.cursor
        /\ stored' = [stored EXCEPT ![e.msg] = IF @ = "no" THEN as ELSE @]
        /\ IF as = "admitted" THEN Admit(e.msg) ELSE UNCHANGED <<row, turns>>
        /\ poller' = [poller EXCEPT !.events = Tail(@)]
        /\ UNCHANGED <<ledgerVars, requested, dispatcher, gates, history, core>>

Ingest ==
    LET e == Head(poller.events)
        fresh == stored[e.msg] = "no"
        as == Treatment(e)
    IN  /\ poller.pc = "page" /\ poller.events # <<>>
        /\ cursor' = e.cursor
        /\ stored' = IF fresh THEN [stored EXCEPT ![e.msg] = as] ELSE stored
        /\ IF fresh /\ as = "admitted" THEN Admit(e.msg) ELSE UNCHANGED <<row, turns>>
        /\ poller' = [poller EXCEPT !.events = Tail(@),
                        !.pc = IF fresh /\ as = "deferred" THEN "handoff" ELSE @,
                        !.handoff = IF fresh /\ as = "deferred" THEN e.msg ELSE @]
        /\ UNCHANGED <<ledgerVars, requested, dispatcher, gates, history, core>>

\* An event whose transaction fails is logged and skipped.  When it fails
\* behind the point where the handoff was asked for, that is made all the same.
IngestFails ==
    LET e == Head(poller.events)
        fresh == stored[e.msg] = "no"
    IN  /\ poller.pc = "page" /\ poller.events # <<>> /\ CanFault
        /\ \E asked \in {FALSE, fresh /\ Treatment(e) = "deferred"} :
             poller' = [poller EXCEPT !.events = Tail(@),
                          !.pc = IF asked THEN "handoff" ELSE @,
                          !.handoff = IF asked THEN e.msg ELSE @]
        /\ given' = IF fresh THEN given \cup {e.msg} ELSE given
        /\ UseFault
        /\ UNCHANGED <<ledgerVars, cursor, stored, requested, row, turns, dispatcher, gates,
                       closed, silenced>>

\* createHandoff for the global pause, after the commit.  It does nothing for
\* a message it was made for, in a conversation no transaction has stored,
\* and where somebody has taken over since: then the message is with them.
GlobalPause ==
    LET m == poller.handoff
        made == ~paused /\ m \notin requested /\ \E x \in Messages : stored[x] # "no"
    IN  /\ poller.pc = "handoff"
        /\ paused' = (paused \/ made)
        /\ requested' = IF made THEN requested \cup {m} ELSE requested
        /\ stored' = [stored EXCEPT ![m] = IF paused /\ @ = "deferred" THEN "held" ELSE @]
        /\ poller' = [poller EXCEPT !.pc = "page", !.handoff = NoMessage]
        /\ UNCHANGED <<ledgerVars, cursor, row, turns, dispatcher, ai, allowed, history, core>>

\* The poll cycle throws, or its process restarts: the next one starts from
\* the stored cursor, and a handoff not yet made is not made again.
PollFails ==
    /\ poller.pc # "idle" /\ CanFault
    /\ poller' = NoPage
    /\ given' = given \cup ({poller.handoff} \ {NoMessage})
    /\ UseFault
    /\ UNCHANGED <<ledgerVars, cursor, stored, requested, row, turns, dispatcher, gates,
                   closed, silenced>>

(***************************************************************************)
(* The dispatchers of the merge window.                                    *)
(***************************************************************************)
Reading == <<ledgerVars, ingestVars, gates>>

\* claimDueTurnAdmission: a compare-and-set on the revision and the status.
\* Dispatchers are alike, so the first idle one claims.
Claim(d) ==
    /\ dispatcher[d].pc = "idle" /\ row.st = "scheduled"
    /\ \A e \in Dispatchers : e < d => dispatcher[e].pc # "idle"
    /\ row' = [row EXCEPT !.st = "dispatching"]
    /\ dispatcher' = [dispatcher EXCEPT ![d] = [Free EXCEPT !.pc = "check", !.claim = row']]
    /\ UNCHANGED <<Reading, turns, history, core>>

\* Why a window is declined: somebody has taken over, the contact or the
\* profile is off, or the kill switch is.
Declines ==
    IF paused THEN {"handoff_active"}
    ELSE (IF allowed THEN {} ELSE {"refused"}) \cup (IF ai THEN {} ELSE {"switched_off"})

\* Every gate is read again before the turn is made.
Recheck(d) ==
    /\ dispatcher[d].pc = "check"
    /\ \/ \E r \in Declines :
            dispatcher' = [dispatcher EXCEPT ![d].pc = "done", ![d].reason = r]
       \/ /\ Declines = {}
          /\ dispatcher' = [dispatcher EXCEPT ![d].pc = "judge"]
    /\ UNCHANGED <<Reading, row, turns, history, core>>

\* Mutant: the guard looks at the status only.
StillClaimed_StatusOnly(d) == row.st = "dispatching"

\* The row is still the one the dispatcher claimed.
StillClaimed(d) == row.rev = dispatcher[d].claim.rev /\ row.st = "dispatching"
Extensible(d) == dispatcher[d].claim.attempt < MaxExtensions

\* The decision model finds the sentence unfinished: the window waits on.
Extend(d) ==
    /\ dispatcher[d].pc = "judge" /\ Extensible(d)
    /\ core.halves > 0
    /\ row' = IF StillClaimed(d)
              THEN [row EXCEPT !.st = "scheduled", !.attempt = dispatcher[d].claim.attempt + 1]
              ELSE row
    /\ dispatcher' = [dispatcher EXCEPT ![d] = Free]
    /\ core' = [core EXCEPT !.halves = @ - 1]
    /\ UNCHANGED <<Reading, turns, history>>

InsertTurn(d) ==
    /\ dispatcher[d].pc = "judge"
    /\ turns' = turns \cup {dispatcher[d].claim.last}
    /\ dispatcher' = [dispatcher EXCEPT ![d].pc = "done"]
    /\ UNCHANGED <<Reading, row, history, core>>

\* markDone: only the window that was claimed is closed.
MarkDone(d) ==
    /\ dispatcher[d].pc = "done"
    /\ row' = IF StillClaimed(d) THEN [row EXCEPT !.st = "done"] ELSE row
    /\ closed' = IF StillClaimed(d) /\ dispatcher[d].reason # "none"
                 THEN closed \cup {dispatcher[d].claim.last} ELSE closed
    /\ silenced' = IF StillClaimed(d) /\ dispatcher[d].reason = "switched_off"
                   THEN silenced \cup {dispatcher[d].claim.last} ELSE silenced
    /\ dispatcher' = [dispatcher EXCEPT ![d] = Free]
    /\ UNCHANGED <<Reading, turns, given, core>>

\* A step of dispatchClaimedAdmission throws.
DispatchFails(d) ==
    /\ dispatcher[d].pc \in {"check", "judge", "done"} /\ CanFault
    /\ dispatcher' = [dispatcher EXCEPT ![d].pc = "requeue"]
    /\ UseFault
    /\ UNCHANGED <<Reading, row, turns, history>>

\* Mutant: one attempt too many.
Requeue_OneMore(d) ==
    LET tries == dispatcher[d].claim.attempt + 1
        final == tries > MaxAttempts
    IN  /\ dispatcher[d].pc = "requeue"
        /\ row' = IF StillClaimed(d)
                  THEN [row EXCEPT !.st = IF final THEN "failed" ELSE "scheduled",
                                   !.attempt = tries]
                  ELSE row
        /\ closed' = IF StillClaimed(d) /\ final
                     THEN closed \cup {dispatcher[d].claim.last} ELSE closed
        /\ dispatcher' = [dispatcher EXCEPT ![d] = Free]
        /\ UNCHANGED <<Reading, turns, silenced, given, core>>

\* requeueOrFailed.
Requeue(d) ==
    LET tries == dispatcher[d].claim.attempt + 1
        final == tries >= MaxAttempts
    IN  /\ dispatcher[d].pc = "requeue"
        /\ row' = IF StillClaimed(d)
                  THEN [row EXCEPT !.st = IF final THEN "failed" ELSE "scheduled",
                                   !.attempt = tries]
                  ELSE row
        /\ closed' = IF StillClaimed(d) /\ final
                     THEN closed \cup {dispatcher[d].claim.last} ELSE closed
        /\ dispatcher' = [dispatcher EXCEPT ![d] = Free]
        /\ UNCHANGED <<Reading, turns, silenced, given, core>>

\* The process stops, or the requeue itself fails: the row stays dispatching,
\* and only a new message moves it again.
DispatcherStops(d) ==
    /\ dispatcher[d].pc # "idle" /\ CanFault
    /\ dispatcher' = [dispatcher EXCEPT ![d] = Free]
    /\ closed' = IF StillClaimed(d) THEN closed \cup {dispatcher[d].claim.last} ELSE closed
    /\ UseFault
    /\ UNCHANGED <<Reading, row, turns, silenced, given>>

(***************************************************************************)
(* Operators flip the switches, take over and release.                     *)
(***************************************************************************)
Flip ==
    /\ core.flips > 0
    /\ core' = [core EXCEPT !.flips = @ - 1]
    /\ \/ ai' = ~ai /\ UNCHANGED <<allowed, paused>>
       \/ allowed' = ~allowed /\ UNCHANGED <<ai, paused>>
       \/ paused' = ~paused /\ UNCHANGED <<ai, allowed>>
    /\ UNCHANGED <<ledgerVars, ingestVars, row, turns, dispatcher, history>>

PollStep == FirstPull \/ Ingest \/ GlobalPause \/ PageDone

Dispatch(d) == Recheck(d) \/ Extend(d) \/ InsertTurn(d) \/ MarkDone(d) \/ Requeue(d)

Next ==
    \/ LedgerNext /\ UNCHANGED coreVars
    \/ PollStep \/ IngestFails \/ PollFails
    \/ \E d \in Dispatchers :
          Claim(d) \/ Dispatch(d) \/ DispatchFails(d) \/ DispatcherStops(d)
    \/ Flip

Spec == Init /\ [][Next]_vars

\* Host and Core loops run for ever; a process comes back after a crash.
Fairness ==
    /\ WF_vars(ReadBatch /\ UNCHANGED coreVars)
    /\ WF_vars(Capture /\ UNCHANGED coreVars)
    /\ WF_vars((ClaimCheckpoint \/ ReadCaptured \/ Fill) /\ UNCHANGED coreVars)
    /\ WF_vars(PollStep)
    /\ WF_vars(\E d \in Dispatchers : Claim(d))
    /\ \A d \in Dispatchers : WF_vars(Dispatch(d))

FairSpec == Spec /\ Fairness

(***************************************************************************)
(* Properties.                                                             *)
(***************************************************************************)
PageEvent == [cursor : Nat, msg : Messages, historical : BOOLEAN]

Reasons == {"none", "handoff_active", "refused", "switched_off"}

RowRecord == [st : {"none", "scheduled", "dispatching", "done", "failed"},
              rev : Nat, last : Messages \cup {NoMessage}, attempt : 0..MaxAttempts]

\* Every record is one the code can hold; a handoff is pending exactly while
\* the poller is about to make it, and a claim is of a scheduled window.
TypeOK ==
    /\ LedgerTypeOK
    /\ cursor \in Nat
    /\ stored \in [Messages -> {"no", "history", "held", "deferred", "refused", "admitted"}]
    /\ poller \in [pc : {"idle", "page", "handoff"}, events : Seq(PageEvent), next : Nat,
                   more : BOOLEAN, handoff : Messages \cup {NoMessage}]
    /\ poller.pc = "handoff" <=> poller.handoff # NoMessage
    /\ row \in RowRecord
    /\ row.st # "none" => row.last \in Messages
    /\ dispatcher \in [Dispatchers -> [pc : {"idle", "check", "judge", "done", "requeue"},
                                       claim : RowRecord, reason : Reasons]]
    /\ \A d \in Dispatchers : dispatcher[d].pc # "idle" => dispatcher[d].claim.last \in Messages
    /\ {ai, allowed, paused} \subseteq BOOLEAN
    /\ turns \subseteq Messages /\ requested \subseteq Messages
    /\ silenced \subseteq closed /\ closed \subseteq Messages /\ given \subseteq Messages
    /\ core \in CoreScenario

\* The Core's cursor never runs past an event it has neither stored nor given
\* up with an error, through failed transactions, pages cut short and two
\* loops that write the ledger: as long as the Host keeps its store.
CursorCovers ==
    epoch = 0 => \A c \in 1..cursor :
        /\ c \in DOMAIN ledger
        /\ stored[ledger[c].msg] # "no" \/ ledger[c].msg \in given

\* A window is open and will be looked at, or a dispatcher is at work on it.
Open == row.st \in {"scheduled", "dispatching"}

\* Whatever dispatchers and new messages do to the row between them, an
\* admitted message is in the open window, or before the message of a turn,
\* or in a window closed for a reason (markDone: 「绝不能把它抹成 done」).
WindowCovers ==
    \A m \in Messages : stored[m] = "admitted" =>
        \/ Open /\ row.last >= m
        \/ \E t \in turns \cup closed : t >= m

\* What a backfill brings is shown and never answered, however it interleaves
\* with the observer and the poller: a message that triggers a turn came after
\* the Host's first start, and the observer captured it.
HistoryIsNotAnswered ==
    \A t \in turns :
        /\ t > Old
        /\ epoch = 0 => \E c \in DOMAIN ledger : ledger[c] = Event(t, FALSE)

\* Events that come again, from a replay or under a second event id, admit
\* nothing: a window opens only for a message that is stored with it.
ReplayAdmitsNothing ==
    [][row'.rev # row.rev => stored[row'.last] = "no" /\ stored'[row'.last] = "admitted"]_vars

\* Events of the present store at or below the cursor that were never ingested.
PassedOver == IF Len(ledger) < cursor THEN {}
              ELSE {m \in Captured(SubSeq(ledger, 1, cursor)) : stored[m] = "no"}

\* A turn will read the message, or what became of it is one of these.
Attended(m) ==
    \/ \E t \in turns \cup (closed \ silenced) : t >= m
    \/ stored[m] \in {"history", "held", "refused"}
    \/ m \in requested \cup given
    \/ stored[m] = "no" /\ m \in (Behind \ Batch) \cup PassedOver

\* The window of the message was closed because the kill switch went off
\* between its admission and its dispatch; nobody is told.
LeftBySwitch(m) == \E t \in silenced : t >= m

\* No message a customer sends is left without an answer to come, a human, a
\* recorded refusal or one of the named faults, but for a window the kill
\* switch closes while it is open.
EveryMessageAttended ==
    \A m \in Messages :
        m > Old /\ m <= source /\ Supported(m) ~> Attended(m) \/ LeftBySwitch(m)

\* Refuted: with the Agent switched off no customer message goes unattended
\* (the comment at the end of ingestNormalizedEvent, and the header of
\* process-turn-admissions.ts).
SwitchLeavesNobody ==
    \A m \in Messages : m > Old /\ m <= source /\ Supported(m) ~> Attended(m)
=============================================================================
