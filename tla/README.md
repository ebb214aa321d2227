# Weflow Core: TLA+ models

Weflow Core is a customer-service platform that answers WeChat conversations
with an AI agent and hands them to humans. A Core process (TypeScript,
PostgreSQL, Redis) takes in messages, runs agent turns and keeps outbound
messages; a Channel Host (Python, SQLite, on a Windows machine) reads the local
WeChat database and sends through UI automation. The two meet over HTTP. WeChat
has no API: whether a message was sent can only be inferred, and most of the
hard behaviour follows from that.

The modules here follow a conversation round: a customer's message from the
WeChat database through the Host's ledger into the Core and its merge window
(`EventLedger`, `Inbound`), the agent turn that answers it (`AgentTurn`), who may
answer at all and what was promised for later (`Handoff`, `FollowUps`), and the
way of an outbound message back to WeChat (`OutboundDelivery`, `SendExecutor`).
What is left out is listed at the end. Paths are relative to the repository; `C/` stands for
`src/core/modules/`, `H/` for `src/runtimes/channel-host-wechat/channel_host/`.

## Inventory

| Component | State | Operations, and whom it talks to | What makes it correct | Hard behaviour |
|---|---|---|---|---|
| Send executor (`H/outbound.py`) | one GUI thread and the future it works on | a pass per main-loop cycle: reconcile claimed operations, then execute pending ones; reads and drives WeChat | an operation is handed over at most once; failed means not sent; confirmed rests on evidence; nothing is lost in silence | crash between claim and outcome, bounded wait with a thread that goes on, busy thread, raising lookups, late visibility |
| Operations store (`H/event_store.py`) | table `channel_send_operations` with state, watermark, lease | create (idempotent), two queues, claim, finish, recover leases | a claim is a compare-and-set, its watermark survives | lease expiry, restart |
| Event ledger (`H/event_store.py`) | `channel_events`, checkpoints, epoch | capture, backfill, pull after a cursor | no event lost, history not answered, the consumer's cursor covers what it passed | backfill racing capture, a thread cut short, lost store |
| Outbound loop (`C/conversations/.../process-outbound-messages.ts`) | columns of `messages`: send state, operation id, timestamp, channel id | a pass every second: scan, gates, assign, create or look up at the Host, apply | order within a reply, no re-posting of unknown, switch and interjections respected, nobody starves | no lock between read and write; lost answers; echoes in any order; kill switch; handoff |
| Event ingestion (`C/.../ingest-channel-events.ts`) | `messages`, cursor | one transaction per event; echo fusion; admission and scheduled-send side effects | an event once, an echo never a second bubble | echo before or after the loop's own write |
| Turn admission (`turn-admission.ts`, `process-turn-admissions.ts`) | `turn_admission_states`: revision, scheduled, dispatching, done, failed | inbound message reschedules; due rows dispatched to the turn queue | every inbound message is considered by a turn; one turn per window | message during dispatch, retry, crash after dispatch |
| Agent turns (`C/agent/application/`) | `agent_turns`: queued, running, tool_planned, terminal states, startedAt; `tool_executions` with claim and lease; queue jobs | claim, decide (model call), outcome command under the ownership lock, absorb newer turns, tools, stale recovery, dispatcher | no reply after a handoff; outcome committed once; somebody answers; every turn ends | facts read before the model call, a worker that outlived its lock, stalled and retained jobs, crash in the middle |
| Handoff (`C/handoff/`) | `handoff_states` and its `handoff_cycles` row, revision | create, claim, take over, transfer (web and mobile), escalate, release, resolve, maintenance timer; cancels outbound rows, suppresses turns | one owner, who decides; both rows agree; nothing stays with a queue nobody serves | a transfer without the lock, sweeps on rows read earlier, two humans and the agent at once |
| Scheduled sends, session wakes | `scheduled_sends`, `session_wakes` | fire, freeze, void, operate; claim, nudge, turn | what is promised is sent, cancelled or left to a person, and not into a handoff | customer, operator and timer at one row, writes by id alone, crash after the claim |
| Memory, media, notifications | job rows with leases | capture, describe, transcribe, push | each job once | worker death, retry limits |
| Identity, settings, model gateway, knowledge, assets, contacts | rows, counters, breakers | request handlers, external calls | | mostly data |
| Front ends, weflowctl, plugins, GUI driver | | | | not modelled |

PostgreSQL is the truth; Redis jobs are hints that can be rebuilt. The
"ownership" advisory lock serialises handoffs and turn outcomes of one
conversation; the outbound loop does not take it.

## Modules

### SendContract

What the Host promises: five state variables and the steps an operation may
take (`Create`, `Claim`, `HandOver`, `Deliver`, `Release`, `Settle`). It is the
abstract specification of `SendExecutor` and, instantiated, the environment of
`OutboundDelivery`.

### SendExecutor

`process_send_operations` cut at every call that leaves the function. `pc` is
where the pass stands: `next` (top of the loop), `lookup` (evidence search
before the claim), `claim`, `dispatch` (claimed, not yet submitted), `wait`
(bounded wait for the GUI thread), `settle` (writing the outcome). `todo` holds
the operations of the pass, `cur` the one in hand, `base` the watermark.
The table is `opState`, `rank` (created_at), `baseline`, `leased`, `chan`. The
GUI thread is `guiOp`; it delivers (`GuiDelivers`) and answers (`GuiReturns`)
whenever it likes, also after the pass has given up waiting. WeChat is `row`,
`highWater` and `visible`: rows become readable for the Host only when `Flush`
has moved `visible`. `Crash` loses the pass and the thread, `Restart` is lease
recovery. `AbortPass` is an exception that leaves the function.

GUI driver: its answer "confirmed" was verified in WeChat and "failed" means that
nothing was sent; any other answer says nothing. This is how
`_gui_result_to_attempt` reads it, and the driver is not part of the model.

`dispatched` and `interrupted` are history: hand-overs, and claims that a crash
cut off before the hand-over.

### OutboundDelivery

`processOutboundMessages` with one step per UPDATE and HTTP call, and everything
that writes to its rows. `Examine` is the read side of one row: the earlier-segment
gate, the switch, the interjection gate. `Hold`, `Assign`, `GetFinds...`,
`Create...` and `Apply` are the writes and calls that follow. `snap` is the row
as the pass read it, which the code goes on using; `memo` are the interjections
remembered for the pass. `stamp` is `send_updated_at` as an age: `Now` just
written, 0 beyond the seven days after which an unknown row leaves the scan;
`Tick` lets time go by. `echoes` are rows that event ingestion stored for
messages of ours, `bound` the channel ids written to our rows. The Host is
`Host == INSTANCE SendContract`, so the Core is checked against what the
executor was proved to promise; `opStamp` is the age of the operation it
reports. `HostLosesStore` is a Host that comes back empty (a new epoch).

Three things renew the timestamp of an unknown row in every pass that reads it:
a channel id that belongs to another row (`Collision`), an operation of the right
id whose content is another (`GetConflicts`, for the media rows in `Moving`,
whose file may have another path by then), and an operation the Host has lost
(`GetFindsNothing`). A file that cannot be staged is tried again or given up
(`StagingFails`); how often is not bounded.

Simplifications: one conversation; the interjection gate is switched on; the
`recall` directive and the payload builder are data; a payload the Host refuses
(400, 409, 413, 422) is a message in `Rejected`.

### TurnContract and AgentTurn

`TurnContract` is what a reader of the conversation may count on: a turn is
admitted, speaks a number of times while no human holds the conversation, and
then is answered or closed once. `AgentTurn` implements it
(`ImplementsTurnContract`): `stage` is read off the row's status and its final
reply, `spoken` off steps and the tool note, `parted` off `farewells`.

Farewells are a case of their own. A handoff may carry messages of the Agent that
are written with it: the model's farewell (`CommitHandoff`), or the apology every
failure handoff passes (`CommitFailure`). The code asks neither whether the turn
still stands nor whether the contact is switched on, and the outbound loop has no
gate for the contact: a turn that was superseded or has ended may still say
good-bye, and so may one of a contact that is switched off. What it does ask, in
the transition and under the ownership lock, is whether a human has the
conversation already and whether this turn has asked for one before (`Creates`;
the same request with another content is a `Conflict` that rolls back). The
contract says just this: `HandOver` takes a turn that was admitted, open or not, from
a conversation nobody holds to one a human holds, and leaves at most one farewell.

`AgentTurn` has one action per transaction or statement. `turn` is the row with
its tool executions and what was said, `job` the queue's record of its name,
`worker` what each process is doing and has read. The path of a turn: `Admit`,
the dispatcher's `Scan` (stale recovery, job removal, selection) and `Enqueue`
(coalescing, `queue.add`), `Take` (load, claim, triage), `Ask`/`AskBlocked`
(policy, lease renewal), `Decide` (the model answers; newer turns are read),
`Absorb`, `Begin` (ownership lock, the contact's switch is read), one
`Commit...`, `Loop`; with a tool, `CommitCheckpoint`, `Tool` (claim with a lease)
and `ToolReturns` (fenced completion) come in between. `Throw`, `JobFails`,
`Reconcile` are the error paths, `Crash`, `LoseLock`, `Stalled`, `LeaseRunsOut`
and `GrowsStale` the faults and clocks. `stalled` and `chained` are history: a
process outlived its lock (or a dispatcher cycle a model call), and a turn that
had been absorbed went on to absorb another.

Simplifications. The first idle worker takes a job (processes are alike). When
nothing is to absorb, `Decide` also opens the commit's transaction. A dispatcher
cycle stopped by an agent reply that still goes out is no cycle. A job is only
evicted while its turn can still run. A lock is lost at a model or tool call,
where processes wait. The decision step budget, the 24-step cap and the rewriting
of a decision are left out; one process handles one turn of a conversation at a
time, as `conversationTurns.run` ensures.

### EventLedger and Inbound

`EventLedger` is one conversation at the Host: the observer (`ReadBatch`, one
`Capture` transaction per row), the backfill thread (`ClaimCheckpoint`,
`ReadCaptured`, `Fill`), restarts and a replaced store. A message is its sequence
number, an event's cursor its index. Discovery keys, the limit in days and the
enrichment of media are left out, and the boot baseline is the checkpoint.

`Inbound` EXTENDS it with the Core's side. The poller (`FirstPull`, `Ingest`,
`PageDone`, `GlobalPause` after the commit) stores each event in a transaction of
its own, with its cursor; `Treatment` is what ingestion makes of a new message and
`Schedule` the merge window. A dispatcher claims the window (`Claim`), reads the
gates again (`Recheck`), extends it for half a sentence (`Extend`), makes the turn
(`InsertTurn`) and closes it (`MarkDone`), every write but the turn guarded by
revision and status. Text messages of a private conversation, one poller; a
scheduled window may be due at any time; the four reads of the recheck are one
(`Declines`: its possible reasons). `closed`, `silenced` and `given` are history:
windows that ended without a turn, those among them that the kill switch closed,
and events or handoffs given up with an error. A transaction that fails may have
asked for the global-pause handoff before (`IngestFails`): the request is a list
outside the transaction. `GlobalPause` then does what `createHandoff` does: nothing
when the request was recorded, a human has the conversation, or its row was
never stored.

### Handoff and FollowUps

`Handoff` is the ownership of one conversation: `handoff` is its
`handoff_states` row, `cycle` the `handoff_cycles` row, `outbox` what the Agent has
waiting. Each request of a user is one action, since it holds the ownership lock
from read to commit. Two writers take two actions with the lock between them, the
Agent's commit (`AgentChecks`, `AgentReplies`) and a manual reply
(`ManualChecks`, `ManualReplies`), because the web's transfer (`Pass`) does not
take it. The timer reads (`SweepExpired`, `SweepQueued`) and later writes under the
lock (`Expire`, `Widen`) if the row has not moved (`Unmoved`). Requests that carry
an old revision or a recorded id change nothing and do not appear. A person's
takeover has no brief, so the mobile transfer refuses it; the web's release,
resolve and transfer leave the revision alone; a resolved row keeps its assignee.

`FollowUps` EXTENDS it with a scheduled send, its dispatcher and operator, and a
session wake with its dispatcher, statement by statement: gates are read, rows
claimed, and messages written without the ownership lock; the blocked branch and
the operators write by id alone. The Agent hands off by its answer or by a failure,
whether or not its turn still stands; only the former freezes scheduled sends. Quiet
hours and the creation of the rows are left out.

### MC modules

`MCSendExecutor` and `MCOutboundDelivery` define the assignments (texts, batches,
sequence numbers) of the instances. `MCAgentTurn`, `MCInbound` and `MCFollowUps`
define scenarios: each initial state draws one, with its own bounds on faults,
switch flips and requests, so that a run makes several kinds of history rich
without multiplying them. The `.cfg` files name the sets and bounds.

## Runs

| Run | Checks | Bounds |
|---|---|---|
| `executor` | `TypeOK`, `AtMostOnceGui`, `SilentLossOnlyByCrash`, `FailedNeverDelivered`, `ConfirmedHasEvidence`, `IndInv`, `ImplementsContract`, `ClaimedIsSettled`, `PendingIsSettled` | a text, an image-like kind, a leftover kind, and the same text typed by hand; one crash or one database fault; batch size 1, so that an operation may wait for a later pass; 147,073 states |
| `outbound_reply` | `TypeOK`, `FailedTextUndelivered`, `BatchOrder`, `UnknownNeverPosted`, `NothingAfterHeld`, `SwitchStopsAgent` | a reply of two segments, one switch change, one interjecting member, one aborted pass or lost answer, one loss of the Host's store |
| `outbound_mixed` | `BoundIdKept`, `WaitingEnds` | a rejected text, a colleague's image that may move, an image from the phone; one row per pass, time passes, staging fails any number of times, one cancellation, one loss of the Host's store; 258,658 states |
| `agent_turns` | `TypeOK`, `SomeTurnSurvives`, `ImplementsTurnContract`, `DisabledContactGetsNoReply`, `ResultOfItsClaimer`, `TurnEnds` | two turns, two workers, two attempts per job, one reply step, one tool step; six scenarios with up to two faults, a flip and a takeover; 301,778 states |
| `inbound` | `TypeOK`, `CursorCovers`, `WindowCovers`, `HistoryIsNotAnswered`, `NothingFallsBehind`, `ReplayAdmitsNothing`, `EveryMessageAttended` | one old and two new messages, pages of two, two dispatchers, two attempts, one extension; five scenarios with up to three faults, two flips, a new store, or a sync with two faults of the Host; 134,163 states |
| `handoff` | `TypeOK`, `CycleMirrors`, `AgentYields`, `OwnerDecides`, `ReplyInTenure`, `BecomesOpen`, `LateOnlyByRace`, `VoidedStaysUnsent`, `WakeSettles`, `SendSettles` | two users, one of them in the specialist queue; ownership through four revisions; a send or a wake through two, with a customer's message, a fault and an operation or a flip; 183,762 states |

Bounds and why they are enough:

- Crashes and faults: `MaxFaults` of `SendExecutor` counts both, and each may
  fall between any two steps. Recovery clears leases and nothing else, and a
  fault leaves a state the next pass finds as it is, so that a second one meets
  the same states again. The theorems below need no bound.
- `Limit` is the batch size, 20 in both programs. 1 is the hard value for
  starvation, 2 for the order of two segments in one pass.
- `Window` counts ticks; one suffices to tell "now" from "out of the scan". The
  run `finding_starved` uses two, so that a row that is refreshed is told from one
  that stays young.
- `WaitingEnds` excepts rows in front of which as many renewed unknown rows stand
  as a pass takes, or whose preceding segment is one (`BehindUnknown`): these may
  wait for ever, see `finding_starved`. For all others the window of seven days does
  what its comment says: `outbound_mixed` has a moved image and a lost store, so
  that both ways of renewal happen beside unknown rows that grow old.
- `MaxCancels` is 0 in `outbound_reply`: with a cancellation the race of
  `finding_cancelled` also breaks `BatchOrder`. `outbound_mixed` has one.
- `BatchOrder` is checked for two segments with texts of their own. With three,
  or with a text that was delivered before, the delivered-copy rule (any row of
  ours with that text) and the unordered `LIMIT 1` can let a segment overtake; so
  can a switch turned off and on again, hence one change (`MaxToggles`).
- `FailedTextUndelivered` leaves out a Host that lost its store and media
  rows, whose staging may be given up after the operation was posted.
- `NothingAfterHeld` is about replies during which nobody touches the switch:
  off and on again holds one segment and sends the next.

- `agent_turns`: a second turn is what absorption and coalescing need, a second
  worker what a lost lock needs. Two attempts tell a retry from the last one. The
  code allows three, and 24 steps; more of either repeats the loop.
- `SomeTurnSurvives` and `DisabledContactGetsNoReply` are about histories
  without `stalled`: a worker that outlived its lock, or a dispatcher cycle as
  long as a model call, breaks both, which the code does not claim to survive.
  `DisabledContactGetsNoReply` is about replies: the farewell of a handoff may come
  after the switch, but only in the step that calls the human.
  `SomeTurnSurvives` is also about histories without `chained` (see Findings). Two
  turns cannot reach that case; the theorem is about any number of them.
- `TurnEnds` excepts a turn that is queued while the queue retains a finished job
  of its name (`Kept`): the dispatcher's `queue.add` then does nothing, and only
  the traffic of other turns evicts the job.
- `inbound`: with two new messages one can arrive while the other is dispatched,
  ingested or backfilled; a page of two is shorter than the ledger. `CursorCovers`
  is about the first store: cursors of a new one may by chance be above ours.
- `EveryMessageAttended` names its exceptions: events whose transaction failed
  (logged and skipped by the code), a global-pause handoff cut off by a crash
  (`given`), a window that failed or whose process died (`closed`), a window the
  kill switch closed after the message had been admitted (`LeftBySwitch`, which is
  what `finding_switch` refutes the promise with), messages behind
  the Host's checkpoint that no running backfill will fetch any more
  (`Behind \ Batch`: the backfill that had them was cut short), and events a
  rebuilt ledger puts below our cursor (`PassedOver`). They are losses the code
  accepts or does not see. A window that is closed because the contact is switched
  off or blocked, or a human has the conversation, counts as attended: the code
  says that such a message is stored and answered by nobody, also at ingestion.
- `handoff`: revision 4 is enough for takeover, transfer, fallback and finish in
  one history; `bound` stops new requests, never a write already begun.
- `CHECK_DEADLOCK FALSE` where every budget of an instance ends and the system
  rests.

Fairness. `SendExecutor` has weak fairness of the pass (the main loop in
`H/main.py` runs a cycle after the other and catches what it raises), of the
restart, and of a lease's end (60 seconds of wall clock). The GUI thread has
none: it may hang for ever, which the code says itself (A2). `ClaimedIsSettled` holds all the same;
`PendingIsSettled` assumes `GuiComesBack`, because a thread that hangs defers
everything behind it. `OutboundDelivery` has weak fairness of the poller
(`channel-outbound-poller.ts` sleeps a second and goes on after any error), of
the settlement of a stored operation (what `PendingIsSettled` gives) and of time.
`AgentTurn`: workers and the dispatcher loop for ever, leases and `startedAt` age,
the queue's stalled check runs; `Enqueue(TRUE)` is strongly fair, because a cycle
may find a turn not yet quiet any number of times, but not always. `Inbound`: the
Host's loops, the poller and the dispatchers go on after errors; the backfill
thread ends if it is not cut short. `FollowUps`: the timers of the api process go
on and a transaction ends; people, faults and customers have no fairness anywhere.

## Findings

Runs that refute what the repository says of itself:

- `finding_held` (`HeldNeverDelivered`): a segment the Host has accepted already
  is set to held by the switch or an interjection, and delivered afterwards; the
  duplicate guard and the agent's prompt count held as certainly undelivered.
- `finding_starved` (`UnknownDoesNotStarve`): when the echo of a text is ingested
  before the Host's answer is applied, the row becomes unknown and gets a new
  timestamp in every pass, so that the seven days after which unknown rows leave
  the scan never pass; as many such rows as a scan takes, and nothing else is sent
  any more. The same timestamp feeds the typing pace of the next segment, which
  waits for a delay that starts anew each second, although the comment at the gate
  says that unknown no longer blocks it.
- `finding_cancelled` (`CancelledIsFinal`): a cancellation at a handoff between
  the scan and the UPDATE by primary key is overwritten and the message sent.
- `finding_fused` (`ConfirmedMediaWasSent`): an image from the owner's phone
  confirms a colleague's image that was not posted yet; it is never sent.

- `finding_switch` (`SwitchLeavesNobody`): no customer message may be left to
  nobody while the Agent is off. The handoff for it is made at ingestion only: a
  message admitted before waits in its merge window, and if the kill switch goes off
  in that time, the dispatcher closes the window and tells nobody.
- `agent_kill_switch` (`KillSwitchStopsReplies`): the comment at the final commit
  says that a turn in flight is stopped as well when the kill switch is turned off;
  a reply step and a tool note do not read the switch and are written.

Each of these needs no more than the instance of its run, and none is a property
of a passing run.

Met while proving, without a run of its own: the comment at
`findNewerActiveTurnIds` (`turn-utils.ts:58`) says that counting only executing
turns keeps two turns of a conversation from superseding each other. With three
turns all of them may end superseded, because `absorbQueuedInterjections`
(`decision-disposition.ts:609`) never looks at the status of its own turn. Turn 1
is requeued and taken again between the dispatcher's selection and its
`queue.add` of turn 2, so that both run. Turn 1 absorbs turn 2 while 2's model is
asked; 1's commit fails and 1 is requeued; turn 3 is admitted, and the dispatcher
coalesces 1 into 3; turn 2's model answers, and 2, superseded itself, absorbs 3.
`SomeTurnSurvives` is stated for the histories without such a step (`chained`), and
without it TLC finds no other way for three turns and two faults.

## Proofs

`SendExecutor_proofs` proves, for every set of operations and hand-typed
messages, every text assignment, batch size and bound, under
`ConstantsAssumption` (disjoint names, finitely many operations):

- `TypeCorrect`: `Spec => []TypeOK`.
- `Inductive`: `Spec => []IndInv`.
- `GuiAtMostOnce`, `LossOnlyByCrash`, `FailedIsUndelivered`,
  `ConfirmedOnEvidence`: the safety properties of the run `executor`.
- `ExecutorImplementsContract`: `Spec => Contract!Spec`, with the GUI thread as
  `gui` and the authors with a row in WeChat as `sent`.

The argument. None of the safety properties is inductive. Whether a timed-out
operation may still deliver depends on which operation the GUI thread holds and
whether it was handed over; whether an outcome is honest depends on where the
pass stands when it writes it. `IndInv` ties them together in three parts:
`PassInv` says what the operation in hand looks like at each `pc` (pending and a
free GUI before the claim; claimed and not handed over at `dispatch`; handed over
once at `wait` and `settle`; a "failed" answer only if there is no row and the
thread is done with it), `DispatchInv` says that only claimed operations reach
the GUI, only handed-over ones reach WeChat, and a claimed operation that was
not handed over is either in hand or cut off by a crash, and `OutcomeInv` are
the two properties about outcomes. The busy check before the claim
(`DeferBusy`) is what makes `pc \in {"lookup", "claim", "dispatch"} => guiOp = None`
inductive: only the pass itself occupies the GUI thread, so that the thread cannot
become busy between the check and the hand-over. Each action has a step of its own in `StepType`,
`StepInv` and `StepImplements`.

`FollowUps_proofs` proves, for every set of users and queue members, every
scenario and every bound of the revision, under `HandoffAssumption` (no user is
`NoUser` or the Agent) and `FollowUpsAssumption` (the scenarios are numbers):

- `TypeCorrect`, `RowsAgree`, `AgentSilent`: `TypeOK`, `CycleMirrors` and
  `AgentYields` in every state.
- `OwnerKeeps`, `TenureKept`, `LateByRace`, `VoidedUnsent`: the action properties
  `OwnerDecides`, `ReplyInTenure`, `LateOnlyByRace` and `VoidedStaysUnsent`.

The argument. Neither `AgentYields` nor `ReplyInTenure` is inductive: the check of
a writer and its commit are two steps. `LockInv` carries the check over: while the
Agent holds the lock nobody has taken over, and while an author holds it the row
is in progress at the revision of the check. Every operation that could break it
waits for the lock, except the web's transfer, which keeps status and revision
(`PassStep`). `OwnerInv` adds the types and `CycleMirrors`, and `OwnerStep` shows it
inductive, with a lemma for each kind of change of the row; the same lemmas
show `Onward`: a step that pauses the Agent raises the revision. From `Onward`
follows what the dispatchers remember, since they take no lock: who went through
the gates before a person's cycle holds an older revision (`GateHeld`, once for
the send dispatcher, the operator and the wake dispatcher). `VoidInv` says that a
voided row is cancelled, frozen or already written, also after an operator
marked it fired. `PromiseSafe` is their conjunction.

`Inbound_proofs` proves, for any messages and their texts, any number of
dispatchers, page size, attempt and extension limits and scenarios, under
`LedgerAssumption` and `InboundAssumption`:

- `InboundTypes`, `CursorIsCovered`, `WindowKeepsMessages`, `HistoryStaysUnanswered`:
  `TypeOK`, `CursorCovers`, `WindowCovers` and `HistoryIsNotAnswered`.
- `LedgerLeavesNoGap`, `ReplayIsHarmless`: the action properties
  `NothingFallsBehind` and `ReplayAdmitsNothing`.

The argument. `LedgerInv` is about the Host alone: live events stand in the order of
their messages, newer than the first start and not beyond what the observer has
captured, and what a backfill leaves out is in the ledger already. What the Core sees of a step of the Host is `Grown`: the ledger is
prolonged, or replaced under a new epoch. `PollInv` says where in the ledger the
page in hand lies, and that nothing admitted comes again, because the cursor moves
in the transaction that stores the event. `WindowInv` ties each dispatcher's claim
to the revision of the row: a claim is good while the revision is the one it
read, so that `MarkDone` closes only what the turn has covered. The proof of
`TypeOK` needs `MaxExtensions < MaxAttempts`, which the constants of the code
satisfy: an extension gives an attempt back that was counted. The attempt at
`NothingFallsBehind` showed that its first form said too little, which is where
`Behind` comes from.

`AgentTurn_proofs` proves, for any number of turns, workers, attempts, reply and
tool steps and any scenarios:

- `AgentTypes`, `SomeTurnStands`: `TypeOK` and `SomeTurnSurvives`.
- `ResultFromItsClaimer`, `DisabledGetsNoReply`: the action properties
  `ResultOfItsClaimer` and `DisabledContactGetsNoReply`.
- `TurnContractImplemented`: `Spec => Contract!Spec`.

The argument has three layers. `RowInv` holds always: what a turn's row, its job and
a worker look like, whatever happens. `LiveInv`
holds while no process has outlived its lock: a worker at work holds the job of
its turn, and every tool but the last is finished. `SurvivorInv` holds while, in
addition, no absorbed turn has absorbed another: the newest turn that was admitted
is not superseded, or stands in nobody's list. Each action is described once, by
what it does to the rows (`Ends`, `Quiet`, `NoNews`, `Grows`, `Spares`), to the
workers (`WorkShape`) and to the rest (`Outside`); the invariants, the action
properties and the refinement all follow from these descriptions: a quiet step is
`Close` or a stutter of `TurnContract`, a step that leaves a farewell is `HandOver`,
the others are `Admit`, `Answer` and `Speak`. That the agent says nothing under a human is not an invariant of the
workers but of the lock: a takeover waits for the open transaction and ends the
turns it would have committed.

`OutboundDelivery_proofs` proves, for any messages, batches of any length, texts,
authors, page size and bounds, under `ConstantsAssumption` (disjoint names,
finitely many messages, a colleague's message is a batch of its own):

- `TypesHold`, `FailedIsNowhere`: `TypeOK` and `FailedTextUndelivered`.
- `UnknownStaysUnposted`, `SwitchHoldsBack`, `NoHoles`, `IdsAreKept`: the action
  properties `UnknownNeverPosted`, `SwitchStopsAgent`, `NothingAfterHeld` and
  `BoundIdKept`.
- `RepliesInOrder`: `Undisturbed => (Spec => BatchOrder)`. `Undisturbed` says that
  a reply has two segments at most, that texts differ, that nobody cancels and that
  the switch is turned once at most. Failures, aborted passes, lost answers,
  interjections and losses of the Host's store stay without a bound.

The argument. A post rests on what the pass has read and checked steps before, with
every other writer in between. `Reading` says that a row still to be dealt with is
unknown only if it was so when it was read (only the pass makes a row unknown, and
then leaves it), `Switched` that past the gates with the switch off there is only
the row it went off under. `Interjected` says that a held segment has its whole
batch halted for good: what was said is not taken back, and the memo of the pass
is either empty or has the interjection already, since it was loaded when the
segment was held or later. `Honest` carries the Host's "failed" from its store over
the answer in hand to the row. `Elsewhere` describes once what everybody but the
pass does to it.

The order of a reply needs `OrderInv` besides. `Word`: what the Host says of an
operation is true of WeChat, and an operation that is over stays so until it is
lost. `Kept`: the agent's rows in the hands of the pass are still as it read them.
`Truthful`: what a row says of its operation. From these follows `Orderly`: no segment
begins to go out before the one in front of it is in WeChat or will not be handed
over any more, and once it is in WeChat, the GUI thread does not hold the other.
The reserves are those of the code: a cancellation breaks `Kept`; equal texts and a
third segment break the step from the delivered copy to the segment in front; the
switch, off and on again, holds a segment whose operation the Host has already, and
lets the next one overtake it.

Model-checked only: the liveness properties (`ClaimedIsSettled`,
`PendingIsSettled`, `WaitingEnds`, `TurnEnds`, `EveryMessageAttended`,
`BecomesOpen`, `WakeSettles`, `SendSettles`), since fairness is outside the
prover's reach. Every other property of a passing run is a theorem, `BatchOrder`
with the reserve above. There are no recursive operators, so that every module stays open to proof.

## Plan

Done: `SendContract`, `SendExecutor` and its proofs; `OutboundDelivery` with the
contract as its environment, and its proofs; `TurnContract`, `AgentTurn` and its
proofs; `EventLedger`, `Inbound` and their proofs; `Handoff`, `FollowUps` and their
proofs.

To come: an abstract specification of the merge window, of which `Inbound` is an
implementation; lemmas on `Enqueue` that make `SurvivorInv` shorter.

## Not modelled

- Memory capture, media processing, the notification outbox: job rows with leases
  beside the conversation. They touch it by admitting a turn or writing a
  description; each would be a small module of the same shape as the tool leases.
- Identity and the login throttle, runtime settings beyond the two switches,
  model gateway, knowledge, knora bridge, assets, configuration: data access and
  calls of external services with little state of their own.
- The choice of automation calls in the GUI driver, prompts, context building,
  decision repair and the validation of tool plans: data, which enters as the
  outcome of a call.
- Groups, mentions and media in ingestion; handoff reminders and resolution
  summaries; quiet hours.
- The front ends (a third of the repository), `weflowctl` and the plugins:
  presentation and installation. With them left out, what the modules cover is a
  small share of all lines, and the greater part of the files that hold the
  message path's control.
