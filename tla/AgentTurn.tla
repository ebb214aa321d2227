----------------------------- MODULE AgentTurn -----------------------------
(***************************************************************************)
(* The agent turns of one private conversation, from their rows to their   *)
(* ends: the dispatcher that coalesces and enqueues them and recovers      *)
(* stale ones, the job queue that hands them to worker processes, the      *)
(* worker's step loop (policy, model, absorption of newer turns, commit,   *)
(* tools), and the operators who take the conversation over or flip its    *)
(* switches meanwhile.                                                     *)
(*                                                                         *)
(* One action is one database transaction or statement of the code; what a *)
(* worker read before an await stays in its record until it is used.  A    *)
(* turn is the number of its trigger message, so a greater turn is newer.  *)
(* The model's answer is a member of Decisions; texts, prompts, profiles   *)
(* and events are left out.                                                *)
(***************************************************************************)
EXTENDS Naturals, Sequences

CONSTANTS Turns,          \* the turns, ordered by their trigger message
          Workers,        \* agent worker processes
          Nobody,         \* no worker
          NoTurn,         \* no turn
          JobAttempts,    \* attempts of a queue job (3 in the code)
          ReplySteps,     \* replyStepBudget
          ToolSteps,      \* toolStepBudget
          Scenarios       \* what the model may answer, and how many faults,
                          \* switch flips and takeovers there may be

\* A reply ends the turn (wait_ms); go_on is one without wait_ms.
Decisions == {"reply", "go_on", "silent", "tool", "handoff", "farewell", "close",
              "bad_reply", "bad_tool", "repeat"}

Scenario(T) == [answers : [T -> SUBSET Decisions],
                faults : Nat, flips : Nat, takeovers : Nat]

ASSUME AgentTurnAssumption ==
    /\ Turns \subseteq Nat
    /\ Workers \subseteq Nat
    /\ NoTurn \notin Turns /\ Nobody \notin Workers
    /\ JobAttempts \in Nat \ {0}
    /\ ReplySteps \in Nat /\ ToolSteps \in Nat
    /\ Scenarios \subseteq Scenario(Turns)

VARIABLES turn,       \* agent.turns with its tool executions and messages
          job,        \* the job queue's record of each turn
          worker,     \* what each worker process is doing and has read
          seen,       \* queued turns the dispatcher has just read
          paused,     \* handoff_states.agentPaused: a human holds
          requested,  \* turns whose handoff request exists (clientRequestId)
          farewells,  \* turns whose handoff left a farewell or an apology among
                      \* the messages to send
          contact,    \* contact_profiles.agentEnabled
          ai,         \* runtime_settings.agentEnabled, the kill switch
          send,       \* runtime_settings.autoSendEnabled
          stalled,    \* history: a worker outlived its lock, or a dispatcher
                      \* cycle lasted as long as a model call
          chained,    \* history: a turn that had been absorbed absorbed another
          scenario    \* answers, per turn, its model may give (none: the turn
                      \* never comes), and what is left of the bounds

desk == <<paused, requested, farewells>>
switches == <<contact, ai, send>>
history == <<stalled, chained>>
vars == <<turn, job, worker, seen, desk, switches, history, scenario>>

Executable == {"queued", "running", "tool_planned"}
Owned == {"running", "tool_planned"}
Terminal == {"completed", "failed", "superseded", "suppressed_policy",
             "suppressed_handoff"}

(***************************************************************************)
(* Decisions, and what is committed for them.                              *)
(***************************************************************************)
Lifecycle == {"reply", "go_on", "silent", "bad_reply", "repeat"}

\* absorbVerdictFor: a stale answer is discarded, but one that carries a
\* tool's conclusion is said as a step before the turn goes on.
AbsorbVerdict(path, d) ==
    IF d \notin Lifecycle THEN d
    ELSE IF path = "recovery" /\ d \in {"reply", "go_on", "repeat"} THEN "step"
    ELSE IF path = "recovery" /\ d = "bad_reply" THEN d
    ELSE "discard"

\* shouldContinueReplyStep: a reply that goes on is a step within the budget.
\* commitDispositionTail: the kind of commit each answer leads to.
Disposition(d, steps) ==
    CASE d = "go_on" /\ steps < ReplySteps -> "step"
      [] d \in {"reply", "go_on", "farewell"} -> "final"
      [] d = "close" -> "silent"
      [] d \in {"bad_reply", "tool_limit"} -> "failure"
      [] OTHER -> d

(***************************************************************************)
(* State.                                                                  *)
(***************************************************************************)
NewTurn == [status |-> "absent", stale |-> FALSE, exec |-> <<>>,
            steps |-> 0, note |-> FALSE, final |-> FALSE]

NewJob == [st |-> "none", by |-> Nobody, tries |-> 0, stalls |-> 0]

Idle == [pc |-> "idle", turn |-> NoTurn, path |-> "fresh", dec |-> "none",
         newer |-> {}, claim |-> <<0, 0>>, ok |-> TRUE, cont |-> FALSE]

Init ==
    /\ turn = [t \in Turns |-> NewTurn]
    /\ job = [t \in Turns |-> NewJob]
    /\ worker = [w \in Workers |-> Idle]
    /\ seen = {}
    /\ paused = FALSE /\ requested = {} /\ farewells = {}
    /\ contact = TRUE /\ ai = TRUE /\ send = TRUE
    /\ stalled = FALSE /\ chained = FALSE
    /\ scenario \in Scenarios

Status(t) == turn[t].status
Latest(t) == turn[t].exec[Len(turn[t].exec)]

\* The worker that still holds the turn's job, if it is working on the turn.
Healthy(t) == \E w \in Workers : job[t].by = w /\ worker[w].turn = t

\* Some worker is inside a transaction that holds the ownership lock.
OwnershipLocked == \E w \in Workers : worker[w].pc = "tx"

CanFault == scenario.faults > 0
UseFault == scenario' = [scenario EXCEPT !.faults = @ - 1]

\* AgentTurnService.transition on a function of turns.
Transition(ts, t, from, to) ==
    IF ts[t].status \in from THEN [ts EXCEPT ![t].status = to] ELSE ts

\* AgentTurnService.transitionMany.
TransitionMany(ts, S, from, to) ==
    [t \in Turns |-> IF t \in S /\ ts[t].status \in from
                     THEN [ts[t] EXCEPT !.status = to] ELSE ts[t]]

(***************************************************************************)
(* The job queue.                                                          *)
(***************************************************************************)
Holds(w) == job[worker[w].turn].by = w

\* The job's attempt returns; a worker that lost the lock changes nothing.
JobDone(w) ==
    /\ job' = IF Holds(w)
              THEN [job EXCEPT ![worker[w].turn] = [NewJob EXCEPT !.st = "done"]]
              ELSE job
    /\ worker' = [worker EXCEPT ![w] = Idle]

\* The attempt throws: it is retried, or the last one is reconciled.
JobFails(w) ==
    LET t == worker[w].turn
        last == job[t].tries + 1 >= JobAttempts
    IN  /\ job' = IF Holds(w)
                  THEN [job EXCEPT ![t] =
                          IF last THEN [NewJob EXCEPT !.st = "failed"]
                          ELSE [job[t] EXCEPT !.st = "waiting", !.by = Nobody,
                                              !.tries = job[t].tries + 1]]
                  ELSE job
        /\ worker' = [worker EXCEPT ![w] =
              IF Holds(w) /\ last
              THEN [Idle EXCEPT !.pc = "reconcile", !.turn = t] ELSE Idle]

\* recordTurnErrorAndRequeue, then the error leaves the executor.
Requeued(t) == Transition(turn, t, {"running"}, "queued")
Throw(w) ==
    /\ turn' = IF worker[w].path = "triage" THEN turn ELSE Requeued(worker[w].turn)
    /\ JobFails(w)

\* A retained job is evicted by later ones (removeOnComplete, removeOnFail);
\* that of an ended turn is never looked at again.
Evict(t) ==
    /\ job[t].st \in {"done", "failed"} /\ Status(t) \in Executable
    /\ job' = [job EXCEPT ![t] = NewJob]
    /\ UNCHANGED <<turn, worker, seen, desk, switches, history, scenario>>

\* The stalled check finds an active job whose lock expired.
Stalled(t) ==
    /\ job[t].st = "active" /\ job[t].by = Nobody
    /\ job' = [job EXCEPT ![t] =
          IF job[t].stalls = 0 THEN [@ EXCEPT !.st = "waiting", !.stalls = 1]
          ELSE [NewJob EXCEPT !.st = "failed"]]
    /\ UNCHANGED <<turn, worker, seen, desk, switches, history, scenario>>

(***************************************************************************)
(* The executor: taking a job, asking the model, running tools.            *)
(***************************************************************************)
\* Enter(w, t, pc, path): the worker record at the start of a step.
Enter(t, pc, path) == [Idle EXCEPT !.pc = pc, !.turn = t, !.path = path]

\* The worker record once a step of the turn is over.
After(t, cont) == [Enter(t, "loop", "fresh") EXCEPT !.cont = cont]

\* claim: queued or tool_planned becomes running, with a fresh startedAt.
Claimed(t) == [turn EXCEPT ![t].status = "running", ![t].stale = FALSE]

\* execute up to the first step.  A turn that ended or is running, and a
\* queued one whose tool is leased, is left as it is and the job is done.
\* Processes are alike: the first idle one takes the job.
Take(w, t) ==
    /\ worker[w].pc = "idle" /\ job[t].st = "waiting"
    /\ \A v \in Workers : v < w => worker[v].pc # "idle"
    /\ LET planned == turn[t].exec # <<>>
           leased == Status(t) = "queued" /\ planned /\ Latest(t).st = "running"
       IN  \/ /\ Status(t) \notin {"queued", "tool_planned"} \/ leased
              /\ job' = [job EXCEPT ![t] = [NewJob EXCEPT !.st = "done"]]
              /\ UNCHANGED <<turn, worker>>
           \/ /\ Status(t) \in {"queued", "tool_planned"} /\ ~leased
              /\ job' = [job EXCEPT ![t].st = "active", ![t].by = w]
              /\ turn' = Claimed(t)
              /\ \/ /\ planned
                    /\ worker' = [worker EXCEPT ![w] = Enter(t, "tool", "recovery")]
                 \/ /\ ~planned
                    /\ worker' = [worker EXCEPT ![w] = Enter(t, "ask", "fresh")]
                 \/ /\ ~planned   \* triage: hand over, or nothing to answer
                    /\ \E d \in {"handoff", "silent"} \cap scenario.answers[t] :
                          worker' = [worker EXCEPT ![w] =
                              [Enter(t, "commit", "triage") EXCEPT !.dec = d]]
    /\ UNCHANGED <<seen, desk, switches, history, scenario>>

Goto(w, pc) == worker' = [worker EXCEPT ![w].pc = pc]

\* A suppression that finds the turn ended otherwise is a conflict.
Suppress(w, to) ==
    LET t == worker[w].turn IN
    \/ /\ Status(t) \in Executable \cup {to}
       /\ turn' = Transition(turn, t, Executable, to)
       /\ worker' = [worker EXCEPT ![w] = After(t, FALSE)]
       /\ UNCHANGED job
    \/ Status(t) \notin Executable \cup {to} /\ Throw(w)

\* evaluateReplyPolicy, only on the fresh path; its commit is outside the
\* try block, so a conflict does not requeue the turn.
AskBlocked(w) ==
    LET t == worker[w].turn
        to == IF paused THEN "suppressed_handoff" ELSE "suppressed_policy"
    IN  /\ worker[w].pc = "ask" /\ worker[w].path = "fresh"
        /\ Status(t) \notin {"completed", "superseded"}
        /\ ~contact \/ paused
        /\ ~OwnershipLocked
        /\ \/ Status(t) \in Executable \cup {to} /\ Suppress(w, to)
           \/ Status(t) \notin Executable \cup {to} /\ JobFails(w) /\ UNCHANGED turn
        /\ UNCHANGED <<seen, desk, switches, history, scenario>>

\* acquireDecision: the lease is renewed before the model is asked.
Ask(w) ==
    LET t == worker[w].turn
        ended == worker[w].path = "fresh" /\ Status(t) \in {"completed", "superseded"}
    IN  /\ worker[w].pc = "ask"
        /\ worker[w].path = "fresh" => ended \/ (contact /\ ~paused)
        /\ \/ /\ ended
              /\ worker' = [worker EXCEPT ![w] = After(t, FALSE)]
              /\ UNCHANGED <<turn, job>>
           \/ /\ ~ended /\ Status(t) \in Owned
              /\ turn' = [turn EXCEPT ![t].stale = FALSE]
              /\ Goto(w, "model")
              /\ UNCHANGED job
           \/ ~ended /\ Status(t) \notin Owned /\ Throw(w)
        /\ UNCHANGED <<seen, desk, switches, history, scenario>>

\* Reading the policy or building the context fails outside the try block:
\* the attempt fails and the turn stays running.
AskFails(w) ==
    /\ worker[w].pc = "ask" /\ worker[w].path = "fresh" /\ CanFault
    /\ JobFails(w) /\ UseFault
    /\ UNCHANGED <<turn, seen, desk, switches, history>>

\* Mutant: a turn counts among the ones it absorbs.
NewerActive_AndItself(t) == {u \in Turns : u >= t /\ Status(u) \in Executable}

\* findNewerActiveTurnIds.
NewerActive(t) == {u \in Turns : u > t /\ Status(u) \in Executable}

\* The tool steps counted against the budget: all but a running one.
ToolStepsUsed(t) ==
    Len(SelectSeq(turn[t].exec, LAMBDA e : e.st \in {"planned", "succeeded", "failed"}))

\* BEGIN of the commit: the ownership lock, the contact's switch is read.
Beginning(w, d) ==
    [worker EXCEPT ![w].dec = d, ![w].ok = contact, ![w].pc = "tx"]

\* The model answers d.  Handing over and the tool limit come before the
\* read of the newer turns; with none to absorb, the commit begins.
Decide(w, d) ==
    LET t == worker[w].turn
        limit == worker[w].path = "recovery" /\ d \in {"tool", "bad_tool"}
                    /\ ToolStepsUsed(t) >= ToolSteps
        gated == IF limit THEN "tool_limit" ELSE d
        newer == IF d = "handoff" \/ limit THEN {} ELSE NewerActive(t)
    IN  /\ worker[w].pc = "model" /\ d \in scenario.answers[t]
        /\ \/ /\ newer = {} /\ ~OwnershipLocked
              /\ worker' = Beginning(w, Disposition(gated, turn[t].steps))
           \/ /\ newer # {}
              /\ worker' = [worker EXCEPT ![w].newer = newer, ![w].pc = "absorb",
                    ![w].dec = Disposition(AbsorbVerdict(worker[w].path, gated),
                                           turn[t].steps)]
        /\ stalled' = (stalled \/ seen # {})
        /\ UNCHANGED <<turn, job, seen, desk, switches, chained, scenario>>

\* commitAgentTurnSuperseded for each newer turn, whatever has become of the
\* turn itself; a discarded answer then makes it go on.
Absorb(w, u) ==
    LET rest == worker[w].newer \ {u}
        discard == rest = {} /\ worker[w].dec = "discard"
    IN  /\ worker[w].pc = "absorb" /\ u \in worker[w].newer
        /\ ~OwnershipLocked
        /\ turn' = Transition(turn, u, Executable, "superseded")
        /\ worker' = [worker EXCEPT ![w] =
              IF discard THEN After(@.turn, TRUE)
              ELSE [@ EXCEPT !.newer = rest,
                             !.pc = IF rest = {} THEN "commit" ELSE "absorb"]]
        /\ chained' = (chained \/ Status(worker[w].turn) = "superseded")
        /\ UNCHANGED <<job, seen, desk, switches, stalled, scenario>>

\* processPlannedToolTurn up to the tool: the latest execution is claimed,
\* reused when it succeeded, reported when it failed, and left to its owner
\* while its lease runs.
Tool(w) ==
    LET t == worker[w].turn
        k == Len(turn[t].exec)
        e == turn[t].exec[k]
    IN  /\ worker[w].pc = "tool"
        /\ \/ /\ e.st \in {"planned", "expired"}
              /\ turn' = [turn EXCEPT ![t].exec[k] =
                                [st |-> "running", attempt |-> @.attempt + 1]]
              /\ worker' = [worker EXCEPT ![w].claim = <<k, e.attempt + 1>>,
                                          ![w].pc = "run"]
           \/ /\ e.st \in {"succeeded", "failed"}
              /\ Goto(w, "ask") /\ UNCHANGED turn
           \/ /\ e.st = "running"
              /\ worker' = [worker EXCEPT ![w] = After(t, FALSE)]
              /\ UNCHANGED turn
        /\ UNCHANGED <<job, seen, desk, switches, history, scenario>>

\* Mutant: the result is stored for whichever claim is running.
Fenced_ByStatus(e, attempt) == e.st \in {"running", "expired"}

\* The fence of complete and fail: still running, under my claim.
Fenced(e, attempt) == e.st \in {"running", "expired"} /\ e.attempt = attempt

\* The tool returns or fails and the claimer stores it; a late worker finds
\* the lease gone, a stored result, or a plan it may not touch.
ToolReturns(w, result) ==
    LET t == worker[w].turn
        k == worker[w].claim[1]
        e == turn[t].exec[k]
        mine == Fenced(e, worker[w].claim[2])
    IN  /\ worker[w].pc = "run"
        /\ turn' = IF mine THEN [turn EXCEPT ![t].exec[k].st = result] ELSE turn
        /\ worker' = [worker EXCEPT ![w] =
              IF ~mine /\ e.st \in {"running", "expired"} THEN After(t, FALSE)
              ELSE Enter(t, "ask", "recovery")]
        /\ UNCHANGED <<job, seen, desk, switches, history, scenario>>

\* The model, a commit or the storing of a tool's result fails.
Fails(w) ==
    /\ worker[w].pc \in {"model", "run", "tx"} /\ CanFault
    /\ Throw(w) /\ UseFault
    /\ UNCHANGED <<seen, desk, switches, history>>

\* runStepLoop.
Loop(w) ==
    LET t == worker[w].turn IN
    /\ worker[w].pc = "loop"
    /\ \/ /\ Status(t) = "tool_planned"
          /\ turn' = Claimed(t)
          /\ worker' = [worker EXCEPT ![w] = Enter(t, "tool", "recovery")]
          /\ UNCHANGED job
       \/ /\ Status(t) = "running" /\ worker[w].cont
          /\ worker' = [worker EXCEPT ![w] = Enter(t, "ask", "fresh")]
          /\ UNCHANGED <<turn, job>>
       \/ /\ Status(t) # "tool_planned" /\ ~(Status(t) = "running" /\ worker[w].cont)
          /\ JobDone(w) /\ UNCHANGED turn
    /\ UNCHANGED <<seen, desk, switches, history, scenario>>

(***************************************************************************)
(* The commits: a transaction that has read the contact's switch writes,   *)
(* and the row's status decides whether the writes are kept.               *)
(***************************************************************************)
\* The commit after an absorption or a triage.
Begin(w) ==
    /\ worker[w].pc = "commit" /\ ~OwnershipLocked
    /\ worker' = Beginning(w, worker[w].dec)
    /\ UNCHANGED <<turn, job, seen, desk, switches, history, scenario>>

InTx(w, kinds) == worker[w].pc = "tx" /\ worker[w].dec \in kinds

\* Commit, with ts the new rows, or roll back if the row's status forbids it.
Settle(w, applied, ts, cont) ==
    \/ /\ applied
       /\ turn' = ts
       /\ worker' = [worker EXCEPT ![w] = After(worker[w].turn, cont)]
       /\ UNCHANGED job
    \/ ~applied /\ Throw(w)

\* A human holds: every commit but a handover or a failure is a suppression.
CommitPaused(w) ==
    /\ InTx(w, {"step", "final", "silent", "tool", "repeat"})
    /\ paused
    /\ Suppress(w, "suppressed_handoff")
    /\ UNCHANGED <<seen, desk, switches, history, scenario>>

\* The contact's switch was off when the transaction read it; a turn that
\* had nothing to say ends the same way.
CommitDisabled(w) ==
    /\ InTx(w, {"step", "final", "silent", "tool"})
    /\ ~paused
    /\ ~worker[w].ok \/ worker[w].dec = "silent"
    /\ Suppress(w, "suppressed_policy")
    /\ UNCHANGED <<seen, desk, switches, history, scenario>>

\* commitAgentTurnOutcome with the kill switch off, or a duplicate reply.
CommitRefused(w) ==
    /\ InTx(w, {"final"}) /\ ~paused /\ worker[w].ok
    /\ \/ ~ai
       \/ ai   \* isDuplicateOfLastReply
    /\ Suppress(w, "suppressed_policy")
    /\ UNCHANGED <<seen, desk, switches, history, scenario>>

\* transitionInTransaction for a turn's handoff: a replay or an already
\* paused conversation changes nothing; otherwise the conversation is
\* paused, its other turns end, and the farewell that came with the request
\* is left among the messages to send, whatever the turn has become.  The
\* contact's switch is not read.
Creates(t) == ~paused /\ t \notin requested
HandOff(t, farewell) ==
    IF Creates(t)
    THEN /\ paused' = TRUE /\ requested' = requested \cup {t}
         /\ farewells' = IF farewell THEN farewells \cup {t} ELSE farewells
    ELSE UNCHANGED desk

\* A request repeated with another reason is an idempotency conflict.
Conflict(w) == worker[w].turn \in requested /\ Throw(w) /\ UNCHANGED desk

Others(t) ==
    IF Creates(t)
    THEN TransitionMany(turn, Turns \ {t}, Executable, "suppressed_handoff")
    ELSE turn

\* autoSend off: the reply is kept in the row and a human is called.
CommitHeld(w) ==
    LET t == worker[w].turn
        applied == Status(t) \in Owned IN
    /\ InTx(w, {"final"}) /\ ~paused /\ worker[w].ok /\ ai /\ ~send
    /\ Settle(w, applied, Transition(Others(t), t, Owned, "completed"), FALSE)
    /\ IF applied THEN HandOff(t, FALSE) ELSE UNCHANGED desk
    /\ UNCHANGED <<seen, switches, history, scenario>>

\* The final reply and the end of the turn, or neither.
CommitFinal(w) ==
    LET t == worker[w].turn
        applied == Status(t) \in Owned IN
    /\ InTx(w, {"final"}) /\ ~paused /\ worker[w].ok /\ ai /\ send
    /\ Settle(w, applied, [turn EXCEPT ![t].status = "completed",
                                       ![t].final = TRUE], FALSE)
    /\ UNCHANGED <<seen, desk, switches, history, scenario>>

\* Mutant: a step is kept although its lease refresh found no row.
CommitStep_Unleased(w) ==
    /\ InTx(w, {"step"}) /\ ~paused /\ worker[w].ok
    /\ LET t == worker[w].turn IN
       Settle(w, TRUE, [turn EXCEPT ![t].steps = @ + 1, ![t].stale = FALSE], TRUE)
    /\ UNCHANGED <<seen, desk, switches, history, scenario>>

\* commitAgentTurnReplyStep: said, and the turn goes on.
CommitStep(w) ==
    LET t == worker[w].turn
        applied == Status(t) \in Owned IN
    /\ InTx(w, {"step"}) /\ ~paused /\ worker[w].ok
    /\ Settle(w, applied, [turn EXCEPT ![t].steps = @ + 1, ![t].stale = FALSE], TRUE)
    /\ UNCHANGED <<seen, desk, switches, history, scenario>>

\* persistAgentToolCheckpoint, with or without a note (at most one a turn).
CommitCheckpoint(w) ==
    LET t == worker[w].turn
        applied == Status(t) \in Owned IN
    /\ InTx(w, {"tool"}) /\ ~paused /\ worker[w].ok
    /\ \E note \in {turn[t].note, TRUE} :
          Settle(w, applied,
                 [turn EXCEPT ![t].status = "tool_planned", ![t].note = note,
                              ![t].exec = Append(@, [st |-> "planned", attempt |-> 0])],
                 FALSE)
    /\ UNCHANGED <<seen, desk, switches, history, scenario>>

\* completeAgentTurnAfterSteps: nothing new to say.
CommitRepeat(w) ==
    LET t == worker[w].turn IN
    /\ InTx(w, {"repeat"}) /\ ~paused
    /\ Settle(w, Status(t) \in Owned, Transition(turn, t, Owned, "completed"), FALSE)
    /\ UNCHANGED <<seen, desk, switches, history, scenario>>

\* commitAgentTurnHandoff: a model that asks for a human may say good-bye; a
\* triage says nothing.
CommitHandoff(w) ==
    LET t == worker[w].turn IN
    /\ InTx(w, {"handoff"})
    /\ \/ /\ Creates(t)
          /\ \E farewell \in {FALSE, worker[w].path # "triage"} : HandOff(t, farewell)
          /\ Settle(w, TRUE, Transition(Others(t), t, Executable, "suppressed_handoff"),
                    FALSE)
       \/ /\ ~Creates(t)
          /\ Suppress(w, "suppressed_handoff")
          /\ UNCHANGED desk
       \/ Conflict(w)
    /\ UNCHANGED <<seen, switches, history, scenario>>

\* commitAgentTurnFailure: with a handover and its apology, except for an
\* invalid tool plan.
FailTurn(t, handover) ==
    IF handover
    THEN HandOff(t, TRUE) /\ turn' = Transition(Others(t), t, Executable, "failed")
    ELSE UNCHANGED desk /\ turn' = Transition(turn, t, Executable, "failed")

CommitFailure(w) ==
    /\ InTx(w, {"failure", "bad_tool"})
    /\ \/ /\ FailTurn(worker[w].turn, worker[w].dec # "bad_tool")
          /\ worker' = [worker EXCEPT ![w] = After(worker[w].turn, FALSE)]
          /\ UNCHANGED job
       \/ worker[w].dec # "bad_tool" /\ Conflict(w)
    /\ UNCHANGED <<seen, switches, history, scenario>>

\* reconcileAgentTurnQueueFailure, whatever the turn has become meanwhile.
Reconcile(w) ==
    /\ worker[w].pc = "reconcile" /\ ~OwnershipLocked
    /\ FailTurn(worker[w].turn, TRUE)
    /\ worker' = [worker EXCEPT ![w] = Idle]
    /\ UNCHANGED <<job, seen, switches, history, scenario>>

\* Its database error is only logged.
ReconcileFails(w) ==
    /\ worker[w].pc = "reconcile" /\ CanFault
    /\ worker' = [worker EXCEPT ![w] = Idle]
    /\ UseFault
    /\ UNCHANGED <<turn, job, seen, desk, switches, history>>

(***************************************************************************)
(* Faults and time.                                                        *)
(***************************************************************************)
Crash(w) ==
    /\ worker[w].pc # "idle" /\ CanFault
    /\ job' = IF Holds(w) THEN [job EXCEPT ![worker[w].turn].by = Nobody] ELSE job
    /\ worker' = [worker EXCEPT ![w] = Idle]
    /\ UseFault
    /\ UNCHANGED <<turn, seen, desk, switches, history>>

\* A process suspended during a model or a tool call loses its job and goes on.
LoseLock(w) ==
    /\ worker[w].pc \in {"model", "run"} /\ Holds(w) /\ CanFault
    /\ job' = [job EXCEPT ![worker[w].turn].by = Nobody]
    /\ stalled' = TRUE
    /\ UseFault
    /\ UNCHANGED <<turn, worker, seen, desk, switches, chained>>

\* A tool lease runs out (5 minutes) when no healthy worker is on the turn.
LeaseRunsOut(t) ==
    /\ turn[t].exec # <<>> /\ Latest(t).st = "running" /\ ~Healthy(t)
    /\ turn' = [turn EXCEPT ![t].exec[Len(turn[t].exec)].st = "expired"]
    /\ UNCHANGED <<job, worker, seen, desk, switches, history, scenario>>

\* startedAt falls behind the threshold, later than any tool lease.
GrowsStale(t) ==
    /\ Status(t) \in Owned /\ ~turn[t].stale /\ ~Healthy(t)
    /\ \A k \in DOMAIN turn[t].exec : turn[t].exec[k].st # "running"
    /\ turn' = [turn EXCEPT ![t].stale = TRUE]
    /\ UNCHANGED <<job, worker, seen, desk, switches, history, scenario>>

(***************************************************************************)
(* The dispatcher.                                                         *)
(***************************************************************************)
\* recoverStalePlannedTurns: the turns whose tool phase is resumed.
Resumable(t) ==
    /\ Status(t) \in Owned
    /\ \/ turn[t].stale
       \/ \E k \in DOMAIN turn[t].exec : turn[t].exec[k].st = "expired"
    /\ \E k \in DOMAIN turn[t].exec :
          turn[t].exec[k].st \in {"planned", "expired", "succeeded"}

\* Mutant: only a turn that never reached a tool is reset.
StaleRunning_NoTools(t) ==
    Status(t) = "running" /\ turn[t].stale /\ turn[t].exec = <<>>

\* resetStaleRunningTurns.
StaleRunning(t) == Status(t) = "running" /\ turn[t].stale

\* Mutant: the execution gets a status of the turn's vocabulary.
Reclaimed_AsQueued(exec) ==
    [k \in DOMAIN exec |-> IF exec[k].st = "expired"
                           THEN [exec[k] EXCEPT !.st = "queued"] ELSE exec[k]]

Reclaimed(exec) ==
    [k \in DOMAIN exec |-> IF exec[k].st = "expired"
                           THEN [exec[k] EXCEPT !.st = "planned"] ELSE exec[k]]

Recovered == {t \in Turns : Resumable(t) \/ StaleRunning(t)}
Recovery ==
    [t \in Turns |->
        [turn[t] EXCEPT !.exec = Reclaimed(@),
                        !.status = IF t \in Recovered THEN "queued" ELSE @,
                        !.stale = IF t \in Recovered THEN FALSE ELSE @]]

\* One cycle reads: recover stale turns, drop their jobs, then select the
\* queued turns, none while a turn runs.  A cycle that finds an agent reply
\* still going out selects nothing either, as if it had not run.
Scan ==
    /\ seen = {}
    /\ turn' = Recovery
    /\ job' = [t \in Turns |-> IF t \in Recovered /\ job[t].by = Nobody
                                THEN NewJob ELSE job[t]]
    /\ seen' = IF \E t \in Turns : turn'[t].status = "running" THEN {}
               ELSE {t \in Turns : turn'[t].status = "queued"}
    /\ UNCHANGED <<worker, desk, switches, history, scenario>>

\* coalesceQueuedAgentTurns and queue.add: older turns are superseded if
\* they are still queued; the newest is added once it is quiet, unless a
\* job of its name exists.
Enqueue(quiet) ==
    /\ seen # {}
    /\ LET newest == CHOOSE t \in seen : \A u \in seen : u <= t IN
          /\ turn' = TransitionMany(turn, seen \ {newest}, {"queued"}, "superseded")
          /\ job' = IF quiet /\ job[newest].st = "none"
                    THEN [job EXCEPT ![newest].st = "waiting"] ELSE job
    /\ seen' = {}
    /\ UNCHANGED <<worker, desk, switches, history, scenario>>

(***************************************************************************)
(* The surroundings: admission, the outbound loop, people.                 *)
(***************************************************************************)
\* The admission inserts the row, on what it read before.
Admit(t) ==
    /\ Status(t) = "absent" /\ scenario.answers[t] # {}
    /\ turn' = [turn EXCEPT ![t].status = "queued"]
    /\ UNCHANGED <<job, worker, seen, desk, switches, history, scenario>>

\* manual_taken_over: all turns end.
TakeOver ==
    /\ ~paused /\ ~OwnershipLocked /\ scenario.takeovers > 0
    /\ paused' = TRUE
    /\ turn' = TransitionMany(turn, Turns, Executable, "suppressed_handoff")
    /\ scenario' = [scenario EXCEPT !.takeovers = @ - 1]
    /\ UNCHANGED <<job, worker, seen, requested, farewells, switches, history>>

\* resolved: the agent may speak again.
Resolve ==
    /\ paused /\ ~OwnershipLocked
    /\ paused' = FALSE
    /\ UNCHANGED <<turn, job, worker, seen, requested, farewells, switches, history,
                   scenario>>

\* Mutant: the switch leaves the turns to the checks of their commits.
SetContact_KeepsTurns(on) ==
    /\ contact # on /\ scenario.flips > 0
    /\ contact' = on
    /\ scenario' = [scenario EXCEPT !.flips = @ - 1]
    /\ UNCHANGED <<turn, job, worker, seen, desk, ai, send, history>>

\* updateContactProfile: switching the agent off ends queued and running
\* turns, without the ownership lock; tool_planned ones are left as they are.
SetContact(on) ==
    /\ contact # on /\ scenario.flips > 0
    /\ contact' = on
    /\ turn' = IF on THEN turn
               ELSE TransitionMany(turn, Turns, {"queued", "running"},
                                   "suppressed_policy")
    /\ scenario' = [scenario EXCEPT !.flips = @ - 1]
    /\ UNCHANGED <<job, worker, seen, desk, ai, send, history>>

SetRuntime ==
    /\ scenario.flips > 0
    /\ \/ ai' = ~ai /\ send' = send
       \/ send' = ~send /\ ai' = ai
    /\ scenario' = [scenario EXCEPT !.flips = @ - 1]
    /\ UNCHANGED <<turn, job, worker, seen, desk, contact, history>>

Commit(w) ==
    \/ CommitPaused(w) \/ CommitDisabled(w) \/ CommitRefused(w)
    \/ CommitHeld(w) \/ CommitFinal(w) \/ CommitStep(w) \/ CommitCheckpoint(w)
    \/ CommitRepeat(w) \/ CommitHandoff(w) \/ CommitFailure(w)

\* The steps a worker takes by itself.
Work(w) ==
    \/ \E t \in Turns : Take(w, t)
    \/ \E u \in Turns : Absorb(w, u)
    \/ AskBlocked(w) \/ Ask(w)
    \/ \E d \in Decisions : Decide(w, d)
    \/ Tool(w) \/ \E r \in {"succeeded", "failed"} : ToolReturns(w, r)
    \/ Begin(w) \/ Commit(w) \/ Loop(w) \/ Reconcile(w)

Fault(w) == AskFails(w) \/ Fails(w) \/ ReconcileFails(w) \/ Crash(w) \/ LoseLock(w)

Next ==
    \/ \E w \in Workers : Work(w) \/ Fault(w)
    \/ \E t \in Turns : Evict(t) \/ Stalled(t) \/ LeaseRunsOut(t) \/ GrowsStale(t)
                          \/ Admit(t)
    \/ Scan \/ \E quiet \in BOOLEAN : Enqueue(quiet)
    \/ TakeOver \/ Resolve
    \/ \E on \in BOOLEAN : SetContact(on)
    \/ SetRuntime

Spec == Init /\ [][Next]_vars

\* Workers and the dispatcher loop for ever, leases and startedAt age with
\* the clock, the stalled check runs, the reply window passes.  The
\* dispatcher enqueues once a turn has been quiet for long enough, which a
\* cycle in between may find too early.
Fairness ==
    /\ \A w \in Workers : WF_vars(Work(w))
    /\ \A t \in Turns : /\ WF_vars(Stalled(t))
                        /\ WF_vars(LeaseRunsOut(t))
                        /\ WF_vars(GrowsStale(t))
    /\ WF_vars(Scan) /\ SF_vars(Enqueue(TRUE))

FairSpec == Spec /\ Fairness

(***************************************************************************)
(* Properties.                                                             *)
(***************************************************************************)
Execution == [st : {"planned", "running", "expired", "succeeded", "failed"},
              attempt : Nat]

TurnRecord == [status : {"absent"} \cup Executable \cup Terminal, stale : BOOLEAN,
               exec : Seq(Execution), steps : Nat, note : BOOLEAN, final : BOOLEAN]

JobRecord == [st : {"none", "waiting", "active", "done", "failed"},
              by : Workers \cup {Nobody}, tries : Nat, stalls : Nat]

Dispositions == Decisions \cup {"none", "step", "final", "failure", "discard"}

WorkerRecord ==
    [pc : {"idle", "ask", "model", "absorb", "commit", "tx", "tool", "run", "loop",
           "reconcile"},
     turn : Turns \cup {NoTurn}, path : {"fresh", "recovery", "triage"},
     dec : Dispositions, newer : SUBSET Turns, claim : Nat \X Nat,
     ok : BOOLEAN, cont : BOOLEAN]

\* Every row, job and worker is one the code can store; only an idle worker
\* has no turn, and only a request leaves a farewell.
TypeOK ==
    /\ turn \in [Turns -> TurnRecord]
    /\ job \in [Turns -> JobRecord]
    /\ worker \in [Workers -> WorkerRecord]
    /\ \A w \in Workers : worker[w].pc # "idle" => worker[w].turn \in Turns
    /\ seen \subseteq Turns /\ requested \subseteq Turns /\ farewells \subseteq requested
    /\ {paused, contact, ai, send, stalled, chained} \subseteq BOOLEAN
    /\ scenario \in Scenario(Turns)

\* The turn as a reader of the conversation knows it.
Stage(t) ==
    IF Status(t) = "absent" THEN "absent"
    ELSE IF turn[t].final THEN "answered"
    ELSE IF Status(t) \in Terminal THEN "closed"
    ELSE "open"

\* What it has said on the way to its outcome.
Replies(t) == turn[t].steps + (IF turn[t].note THEN 1 ELSE 0)

Contract == INSTANCE TurnContract WITH
    human <- paused,
    stage <- [t \in Turns |-> Stage(t)],
    spoken <- [t \in Turns |-> Replies(t)],
    parted <- farewells

\* Whatever the queue, the recovery and a late worker do, a turn ends once,
\* has at most one final reply, written with its end, and replies only while
\* it is open and no human holds the conversation: the status
\* compare-and-set of AgentTurnService under the ownership lock.  A farewell
\* or an apology is written only by the transaction that hands the
\* conversation over and at most once for a turn, which may have ended
\* before: no result of the turn's own transition is looked at there.
ImplementsTurnContract == Contract!Spec

\* Absorption and the quiet window never supersede every turn of the
\* conversation: someone is left to answer (findNewerActiveTurnIds counts
\* only turns still executing).  Two histories break it, and the promise is
\* for the others: a process outlived its lease, or a turn that had itself
\* been absorbed while its model was asked went on to absorb newer ones,
\* because absorbQueuedInterjections does not look at the turn's own status.
SomeTurnSurvives ==
    ~stalled /\ ~chained =>
        \/ \A t \in Turns : Status(t) # "superseded"
        \/ \E t \in Turns : Status(t) \notin {"absent", "superseded"}

\* Switching the contact's agent off takes no ownership lock, yet a reply
\* whose transaction read the switch before is not kept: the switch ends the
\* running turn, and the commit then finds the row's status changed.  Only
\* the good-bye of a handover is still written: neither commitAgentTurnHandoff
\* nor commitAgentTurnFailure reads the switch, so a turn caught by it in the
\* middle of handing over or of its last attempt still speaks once, in the
\* step that calls the human.
DisabledContactGetsNoReply ==
    [][~stalled /\ ~contact =>
          /\ \A t \in Turns : turn'[t].final = turn[t].final /\ Replies(t)' = Replies(t)
          /\ farewells' # farewells => ~paused /\ paused']_vars

\* A tool's result is stored only by the worker that holds the current claim
\* of that execution, which goes on to use it; a late one leaves it alone
\* (the claimedAt fence of ToolExecutionService).
ResultOfItsClaimer ==
    [][\A t \in Turns : \A k \in DOMAIN turn[t].exec :
          turn[t].exec[k].st \in {"running", "expired"}
            /\ turn'[t].exec[k].st = "succeeded"
          => \E w \in Workers :
                /\ worker[w].pc = "run" /\ worker'[w].pc = "ask"
                /\ worker[w].turn = t
                /\ worker[w].claim = <<k, turn[t].exec[k].attempt>>]_vars

\* Every admitted turn ends, through crashes, stalls, errors and takeovers,
\* unless it is queued while the queue still retains a finished job of its
\* name, which makes the dispatcher's queue.add a no-op.
Kept(t) == Status(t) = "queued" /\ job[t].st \in {"done", "failed"}
TurnEnds ==
    \A t \in Turns : Status(t) \in Executable ~> Status(t) \in Terminal \/ Kept(t)

\* The comment at commitAgentTurnOutcome: with the kill switch off, no reply
\* of a turn in flight is written.
KillSwitchStopsReplies ==
    [][~ai => \A t \in Turns :
                 turn'[t].final = turn[t].final /\ Replies(t)' = Replies(t)]_vars
=============================================================================
