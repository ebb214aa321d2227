---------------------- MODULE AgentTurn_proofs ----------------------
(***************************************************************************)
(* Theorems about AgentTurn for any number of turns and workers, any       *)
(* number of attempts and budgets, and any scenarios.                      *)
(*                                                                         *)
(* RowInv holds whatever happens.  LiveInv holds until a process outlives  *)
(* its lock: a worker at work holds the job of its turn, so no two work on *)
(* one turn, its earlier tools are finished, and the turn it holds can     *)
(* only be ended by others.  SurvivorInv, the last part of LiveInv, holds  *)
(* until an absorbed turn absorbs another.                                 *)
(*                                                                         *)
(* A step is described once by what it does to the turns (Ends, Quiet,     *)
(* NoNews, Grows, Spares) and to the rest (WorkShape, Outside); the        *)
(* invariant, the action properties and the refinement all follow from     *)
(* that description.                                                       *)
(***************************************************************************)
EXTENDS AgentTurn, SequenceTheorems, WellFoundedInduction, TLAPS

Statuses == {"absent"} \cup Executable \cup Terminal
Fates == Terminal \ {"superseded"}
Deciding == {"model", "absorb", "commit", "tx"}

Finished(e) == e.st \in {"succeeded", "failed"}
Settled(t) == \A k \in 1..Len(turn[t].exec) : Finished(turn[t].exec[k])
AtWork(w) == worker[w].pc \notin {"idle", "reconcile"}

-----------------------------------------------------------------------------
(* The invariant *)

\* A turn and its job, whatever happens.
TurnRow(t) ==
    /\ turn[t].final => Status(t) = "completed"
    /\ Status(t) = "tool_planned" => Len(turn[t].exec) > 0
    /\ job[t].by # Nobody => job[t].st = "active"

\* A worker and its turn, whatever happens.
WorkerRow(w) ==
    LET t == worker[w].turn IN
    /\ worker[w].pc # "idle" => Status(t) # "absent"
    /\ worker[w].pc = "tool" => Len(turn[t].exec) > 0
    /\ worker[w].pc = "run" => worker[w].claim[1] \in 1..Len(turn[t].exec)
    /\ worker[w].pc = "absorb" => \A u \in worker[w].newer : t < u

\* The turns so far have a greatest one.
Bounded == \E n \in Nat : \A t \in Turns : Status(t) # "absent" => t <= n

RowInv ==
    /\ \A t \in Turns : TurnRow(t)
    /\ \A w \in Workers : WorkerRow(w)
    /\ \A t \in seen : Status(t) # "absent"
    /\ Bounded

\* While no process has outlived its lock: a tool is left to finish before
\* the next one is planned,
TurnInv(t) ==
    \A k \in 1..Len(turn[t].exec) :
       k < Len(turn[t].exec) => Finished(turn[t].exec[k])

\* and a worker at work holds the job of its turn, so that nobody but people
\* and older turns, who end it, touches the turn.
WorkerInv(w) ==
    LET t == worker[w].turn IN
    AtWork(w) =>
        /\ job[t].by = w /\ ~turn[t].stale
        /\ worker[w].pc \in Deciding \cup {"ask"} => Settled(t)
        /\ worker[w].pc = "loop" /\ worker[w].cont => Settled(t)
        /\ worker[w].pc \in {"ask", "tool", "run"} => Status(t) # "tool_planned"
        /\ worker[w].pc \in Deciding => Status(t) \in {"running"} \cup Terminal
        /\ worker[w].pc = "run" =>
              /\ worker[w].claim[1] = Len(turn[t].exec)
              /\ turn[t].exec[worker[w].claim[1]].st = "running"
              /\ turn[t].exec[worker[w].claim[1]].attempt = worker[w].claim[2]
        /\ worker[w].pc = "tx" /\ worker[w].ok /\ ~contact => Status(t) \in Terminal
        /\ worker[w].pc = "absorb" /\ seen # {} => Status(t) \in Terminal

\* While no absorbed turn has absorbed another: the newest of the turns the
\* dispatcher has read is not superseded before the dispatcher spares it.
Newest == CHOOSE t \in seen : \A u \in seen : u <= t
Given == \E t \in Turns : Status(t) \in Fates
SurvivorInv ==
    ~chained =>
        /\ \/ \A t \in Turns : Status(t) # "superseded"
           \/ \E t \in Turns : Status(t) \notin {"absent", "superseded"}
        /\ seen # {} => Given \/ Status(Newest) # "superseded"

LiveInv ==
    /\ \A t \in Turns : TurnInv(t)
    /\ \A w \in Workers : WorkerInv(w)
    /\ SurvivorInv

AgentInv == TypeOK /\ RowInv /\ (~stalled => LiveInv)

-----------------------------------------------------------------------------
(* What a step does to the turns *)

SameButStatus(a, b) ==
    /\ a.stale = b.stale /\ a.exec = b.exec /\ a.steps = b.steps
    /\ a.note = b.note /\ a.final = b.final

\* Some turns end, with a status of S.
Ends(ts, us, S) ==
    /\ us \in [Turns -> TurnRecord]
    /\ \A u \in Turns :
          \/ us[u] = ts[u]
          \/ ts[u].status \in Executable /\ us[u].status \in S /\ SameButStatus(us[u], ts[u])

\* Nothing is said, and no turn begins or comes back.
Quiet ==
    \A u \in Turns :
        /\ turn'[u].final = turn[u].final
        /\ turn'[u].steps = turn[u].steps /\ turn'[u].note = turn[u].note
        /\ \/ turn'[u].status = turn[u].status
           \/ turn[u].status \in Executable /\ turn'[u].status \in Executable \cup Terminal

\* No tool's result is stored.
NoNews ==
    \A u \in Turns : \A k \in 1..Len(turn[u].exec) :
        turn'[u].exec[k].st = "succeeded" => turn[u].exec[k].st = "succeeded"

\* Turns and executions stay.
Grows ==
    \A u \in Turns :
        /\ turn'[u].status = "absent" => turn[u].status = "absent"
        /\ Len(turn[u].exec) <= Len(turn'[u].exec)

\* Who stands goes on standing, and who ended stays as it is.
Spares ==
    \A u \in Turns :
        /\ turn'[u].status = "superseded" => turn[u].status = "superseded"
        /\ turn'[u].status = "absent" => turn[u].status = "absent"
        /\ turn[u].status \in Fates => turn'[u].status \in Fates

-----------------------------------------------------------------------------
(* What a step of a worker leaves to the others *)

Ended(u) ==
    \/ turn'[u] = turn[u]
    \/ /\ turn[u].status \in Executable /\ turn'[u].status \in Terminal
       /\ SameButStatus(turn'[u], turn[u])

\* Of the rest, a worker changes the desk, at most.
Surroundings ==
    /\ seen' = seen /\ contact' = contact
    /\ {paused', ai', send', stalled', chained'} \subseteq BOOLEAN
    /\ requested' \subseteq Turns /\ farewells' \subseteq requested'
    /\ scenario' \in Scenario(Turns)
    /\ (stalled => stalled') /\ (chained => chained')

WorkShape(w, t) ==
    /\ turn' \in [Turns -> TurnRecord] /\ job' \in [Turns -> JobRecord]
    /\ worker' \in [Workers -> WorkerRecord]
    /\ \A v \in Workers \ {w} : worker'[v] = worker[v]
    /\ worker'[w].pc # "idle" => worker'[w].turn = t
    /\ \A u \in Turns \ {t} : Ended(u) /\ job'[u] = job[u]
    /\ Surroundings

\* The step touches the turn as its worker, or nobody else is on the turn, or
\* the turn only ends.
Mine(w, t) ==
    \/ AtWork(w) /\ worker[w].turn = t
    \/ job[t].by \in {w, Nobody}
    \/ Ended(t) /\ job'[t] = job[t]

\* The worker is through with the turn's job.
Leaves(w, t) ==
    /\ job' \in [Turns -> JobRecord] /\ worker' \in [Workers -> WorkerRecord]
    /\ \A u \in Turns \ {t} : job'[u] = job[u]
    /\ job'[t].by # Nobody => job'[t].st = "active"
    /\ \A v \in Workers \ {w} : worker'[v] = worker[v]
    /\ worker'[w].pc \in {"idle", "reconcile"}
    /\ worker'[w].pc # "idle" => worker'[w].turn = t

\* What a tool's return does to the execution e, the k-th of its turn.
Returned(w, t, k, e) ==
    /\ k = worker[w].claim[1] /\ e = turn[t].exec[k]
    /\ \/ /\ Fenced(e, worker[w].claim[2])
          /\ turn' \in [Turns -> TurnRecord] /\ Quiet /\ Grows /\ Spares
          /\ \A u \in Turns \ {t} : turn'[u] = turn[u] /\ Ended(u)
          /\ turn'[t].status = turn[t].status /\ turn'[t].stale = turn[t].stale
          /\ turn'[t].final = turn[t].final
          /\ Len(turn'[t].exec) = Len(turn[t].exec)
          /\ Finished(turn'[t].exec[k])
          /\ \A j \in 1..Len(turn[t].exec) :
                j # k => turn'[t].exec[j] = turn[t].exec[j]
          /\ worker' = [worker EXCEPT ![w] = Enter(t, "ask", "recovery")]
       \/ /\ ~Fenced(e, worker[w].claim[2]) /\ turn' = turn
          /\ \/ worker' = [worker EXCEPT ![w] = After(t, FALSE)]
             \/ worker' = [worker EXCEPT ![w] = Enter(t, "ask", "recovery")]

\* The final reply of a turn, and a reply on the way.
Answers(t) ==
    /\ ~paused /\ paused' = paused /\ turn[t].status \in Owned
    /\ turn'[t].final /\ turn'[t].status = "completed"
    /\ turn'[t].steps = turn[t].steps /\ turn'[t].note = turn[t].note
    /\ \A u \in Turns \ {t} : turn'[u] = turn[u]

Speaks(t) ==
    /\ ~paused /\ paused' = paused /\ turn[t].status \in Owned
    /\ turn'[t].final = turn[t].final /\ turn'[t].status \in Owned
    /\ \/ turn'[t].steps = turn[t].steps + 1 /\ turn'[t].note = turn[t].note
       \/ turn'[t].steps = turn[t].steps /\ ~turn[t].note /\ turn'[t].note
    /\ \A u \in Turns \ {t} : turn'[u] = turn[u]

\* A request for the turn, with or without a farewell.
HandsOff(t) == \E farewell \in BOOLEAN : HandOff(t, farewell)

\* What the surroundings may change, whatever the turns become.
Outside ==
    /\ worker' = worker /\ stalled' = stalled /\ chained' = chained
    /\ {paused', contact', ai', send'} \subseteq BOOLEAN
    /\ requested' \subseteq Turns /\ farewells' \subseteq requested'
    /\ scenario' \in Scenario(Turns)

-----------------------------------------------------------------------------
(* Records and transitions *)

\* The vocabularies of statuses.
LEMMA StatusSets ==
  /\ Executable \subseteq Statuses /\ Terminal \subseteq Statuses /\ Fates \subseteq Terminal
  /\ Executable \cap Terminal = {} /\ Owned \subseteq Executable
  /\ "absent" \notin Executable \cup Terminal
  BY DEF Statuses, Fates, Executable, Terminal, Owned

\* A row, field by field.
LEMMA TurnFields ==
  ASSUME NEW r \in TurnRecord
  PROVE  /\ r.status \in Statuses /\ r.stale \in BOOLEAN /\ r.exec \in Seq(Execution)
         /\ r.steps \in Nat /\ r.note \in BOOLEAN /\ r.final \in BOOLEAN
         /\ r = [status |-> r.status, stale |-> r.stale, exec |-> r.exec,
                 steps |-> r.steps, note |-> r.note, final |-> r.final]
  BY DEF TurnRecord, Statuses

\* A list of executions, entry by entry.
LEMMA ExecFields ==
  ASSUME NEW s \in Seq(Execution)
  PROVE  /\ Len(s) \in Nat /\ DOMAIN s = 1..Len(s)
         /\ \A k \in 1..Len(s) : s[k] \in Execution
         /\ s = <<>> <=> Len(s) = 0
  BY LenProperties, ElementOfSeq, EmptySeq

\* What a status change does to a row.
LEMMA Restatus ==
  ASSUME NEW r \in TurnRecord, NEW s \in Statuses
  PROVE  /\ [r EXCEPT !.status = s] \in TurnRecord
         /\ [r EXCEPT !.status = s].status = s
         /\ SameButStatus([r EXCEPT !.status = s], r)
  BY DEF TurnRecord, SameButStatus, Statuses

\* A transition to a terminal status ends its turn, if it is in from.
LEMMA TransitionEnds ==
  ASSUME NEW ts \in [Turns -> TurnRecord], NEW t \in Turns,
         NEW from \in SUBSET Executable, NEW to \in Terminal
  PROVE  /\ Ends(ts, Transition(ts, t, from, to), {to})
         /\ \A u \in Turns \ {t} : Transition(ts, t, from, to)[u] = ts[u]
         /\ ts[t].status \in from => Transition(ts, t, from, to)[t].status = to
         /\ ts[t].status \notin from => Transition(ts, t, from, to) = ts
  <1>1. to \in Statuses
    BY StatusSets
  <1>2. CASE ts[t].status \in from
    <2>1. PICK us : us = [ts EXCEPT ![t].status = to]
      OBVIOUS
    <2>2. us = [ts EXCEPT ![t] = [ts[t] EXCEPT !.status = to]]
      BY <2>1
    <2>3. Transition(ts, t, from, to) = us
      BY <1>2, <2>1 DEF Transition
    <2>4. us \in [Turns -> TurnRecord] /\ us[t] = [ts[t] EXCEPT !.status = to]
      BY <1>1, <2>2, Restatus
    <2>5. us[t].status = to /\ SameButStatus(us[t], ts[t])
      BY <1>1, <2>4, Restatus
    <2> QED  BY <1>2, <2>2, <2>3, <2>4, <2>5 DEF Ends
  <1>3. CASE ts[t].status \notin from
    BY <1>3 DEF Transition, Ends
  <1> QED  BY <1>2, <1>3

\* The same for a set of turns.
LEMMA TransitionManyEnds ==
  ASSUME NEW ts \in [Turns -> TurnRecord], NEW S \in SUBSET Turns,
         NEW from \in SUBSET Executable, NEW to \in Terminal
  PROVE  /\ Ends(ts, TransitionMany(ts, S, from, to), {to})
         /\ \A u \in Turns :
               TransitionMany(ts, S, from, to)[u].status
                  = IF u \in S /\ ts[u].status \in from THEN to ELSE ts[u].status
  <1>1. to \in Statuses
    BY StatusSets
  <1>2. PICK us : us = TransitionMany(ts, S, from, to)
    OBVIOUS
  <1>3. us = [u \in Turns |-> IF u \in S /\ ts[u].status \in from
                              THEN [ts[u] EXCEPT !.status = to] ELSE ts[u]]
    BY <1>2 DEF TransitionMany
  <1>4. ASSUME NEW u \in Turns
        PROVE  /\ us[u] \in TurnRecord
               /\ \/ us[u] = ts[u]
                  \/ ts[u].status \in Executable /\ us[u].status = to /\ SameButStatus(us[u], ts[u])
               /\ us[u].status = IF u \in S /\ ts[u].status \in from THEN to ELSE ts[u].status
    <2>1. CASE u \in S /\ ts[u].status \in from
      <3>1. us[u] = [ts[u] EXCEPT !.status = to] /\ ts[u] \in TurnRecord
        BY <1>3, <2>1
      <3> QED  BY <1>1, <2>1, <3>1, Restatus
    <2>2. CASE ~(u \in S /\ ts[u].status \in from)
      BY <1>3, <2>2
    <2> QED  BY <2>1, <2>2
  <1> QED  BY <1>2, <1>3, <1>4 DEF Ends

\* Two steps that end turns are one.
LEMMA EndsCompose ==
  ASSUME NEW a, NEW b, NEW c, NEW S, NEW T, S \subseteq T, T \subseteq Terminal,
         Ends(a, b, S), Ends(b, c, T)
  PROVE  Ends(a, c, T)
  BY StatusSets DEF Ends, SameButStatus

\* Turns that are left alone.
LEMMA EndsStay ==
  ASSUME NEW a \in [Turns -> TurnRecord], NEW S
  PROVE  Ends(a, a, S)
  BY DEF Ends

\* A wider set of last statuses.
LEMMA EndsWiden ==
  ASSUME NEW a, NEW b, NEW S, NEW T, S \subseteq T, Ends(a, b, S)
  PROVE  Ends(a, b, T)
  BY DEF Ends

\* Turns that end say nothing.
LEMMA EndsQuiet ==
  ASSUME TypeOK, Ends(turn, turn', Terminal)
  PROVE  Quiet /\ NoNews /\ Grows
  <1>1. \A u \in Turns : turn[u] \in TurnRecord
    BY DEF TypeOK
  <1>2. \A u \in Turns : Len(turn[u].exec) \in Nat /\ Len(turn[u].exec) <= Len(turn[u].exec)
    BY <1>1, TurnFields, ExecFields
  <1>3. \A u \in Turns : turn'[u].exec = turn[u].exec
    BY DEF Ends, SameButStatus
  <1>4. Quiet
    BY DEF Quiet, Ends, SameButStatus
  <1>5. NoNews
    BY <1>3 DEF NoNews
  <1>6. \A u \in Turns : turn'[u].status = "absent" => turn[u].status = "absent"
    BY StatusSets DEF Ends
  <1> QED  BY <1>2, <1>3, <1>4, <1>5, <1>6 DEF Grows

\* Turns that end otherwise than by absorption spare the survivors.
LEMMA EndsSpares ==
  ASSUME Ends(turn, turn', Fates)
  PROVE  Spares
  BY StatusSets DEF Ends, Spares, Fates

\* What the invariant says of every variable's type.
LEMMA Types ==
  ASSUME AgentInv
  PROVE  /\ turn \in [Turns -> TurnRecord] /\ job \in [Turns -> JobRecord]
         /\ worker \in [Workers -> WorkerRecord]
         /\ seen \subseteq Turns /\ requested \subseteq Turns /\ farewells \subseteq requested
         /\ {paused, contact, ai, send, stalled, chained} \subseteq BOOLEAN
         /\ scenario \in Scenario(Turns)
         /\ \A w \in Workers : worker[w].pc # "idle" => worker[w].turn \in Turns
         /\ Turns \subseteq Nat /\ Workers \subseteq Nat /\ Nobody \notin Workers
  BY AgentTurnAssumption DEF AgentInv, TypeOK

\* One turn that comes has a number.
LEMMA StillBounded ==
  ASSUME AgentInv, NEW t \in Turns,
         \A u \in Turns \ {t} : turn[u].status = "absent" => turn'[u].status = "absent"
  PROVE  Bounded'
  <1>1. PICK n \in Nat : \A u \in Turns : turn[u].status # "absent" => u <= n
    BY DEF AgentInv, RowInv, Bounded, Status
  <1>2. PICK m \in Nat : n <= m /\ t <= m
    <2>1. t \in Nat
      BY Types
    <2>2. n <= n + t /\ t <= n + t /\ n + t \in Nat
      BY <2>1
    <2> QED  BY <2>2
  <1>3. \A u \in Turns : turn'[u].status # "absent" => u <= m
    BY <1>1, <1>2, Types
  <1> QED  BY <1>3 DEF Bounded, Status

\* The lengths of the executions are numbers, now and after a step.
LEMMA Lengths ==
  ASSUME NEW ts \in [Turns -> TurnRecord]
  PROVE  \A u \in Turns : /\ ts[u] \in TurnRecord /\ ts[u].exec \in Seq(Execution)
                          /\ Len(ts[u].exec) \in Nat
                          /\ DOMAIN ts[u].exec = 1..Len(ts[u].exec)
                          /\ ts[u].exec = <<>> <=> Len(ts[u].exec) = 0
  BY TurnFields, ExecFields

\* A worker that did nothing keeps what holds of it whatever happens.
LEMMA RowKept ==
  ASSUME AgentInv, Grows, turn' \in [Turns -> TurnRecord],
         NEW v \in Workers, worker'[v] = worker[v]
  PROVE  WorkerRow(v)'
  <1> PICK x : x = worker[v]
    OBVIOUS
  <1>1. x \in WorkerRecord /\ worker'[v] = x /\ (x.pc # "idle" => x.turn \in Turns)
    BY Types
  <1>2. WorkerRow(v)
    BY DEF AgentInv, RowInv
  <1>3. CASE x.pc = "idle"
    BY <1>1, <1>3 DEF WorkerRow
  <1>4. CASE x.pc # "idle"
    <2>1. /\ turn[x.turn].status # "absent" => turn'[x.turn].status # "absent"
          /\ Len(turn[x.turn].exec) <= Len(turn'[x.turn].exec)
          /\ Len(turn[x.turn].exec) \in Nat /\ Len(turn'[x.turn].exec) \in Nat
      BY <1>1, <1>4, Types, Lengths DEF Grows
    <2>2. Status(x.turn)' # "absent"
      BY <1>2, <1>4, <2>1 DEF WorkerRow, Status
    <2>3. x.pc = "tool" => Len(turn'[x.turn].exec) > 0
      BY <1>2, <2>1 DEF WorkerRow
    <2>4. x.pc = "run" => x.claim[1] \in 1..Len(turn'[x.turn].exec)
      <3>1. x.pc = "run" => x.claim[1] \in 1..Len(turn[x.turn].exec)
        BY <1>2 DEF WorkerRow
      <3>2. PICK m, n \in Nat : m = Len(turn[x.turn].exec) /\ n = Len(turn'[x.turn].exec)
        BY <2>1
      <3>3. m <= n
        BY <2>1, <3>2
      <3> QED  BY <3>1, <3>2, <3>3
    <2>5. x.pc = "absorb" => \A u \in x.newer : x.turn < u
      BY <1>2 DEF WorkerRow
    <2> QED  BY <1>1, <2>2, <2>3, <2>4, <2>5 DEF WorkerRow, Status
  <1> QED  BY <1>3, <1>4

\* An ended or untouched turn whose job is left alone.
LEMMA EndedRow ==
  ASSUME AgentInv, NEW u \in Turns, Ended(u), job'[u] = job[u]
  PROVE  TurnRow(u)' /\ (~stalled => TurnInv(u)')
  <1>1. TurnRow(u) /\ (~stalled => TurnInv(u))
    BY DEF AgentInv, RowInv, LiveInv
  <1>2. turn'[u].exec = turn[u].exec /\ turn'[u].final = turn[u].final
    BY DEF Ended, SameButStatus
  <1>3. TurnRow(u)'
    BY <1>1, <1>2 DEF TurnRow, Ended, Status, Executable, Terminal
  <1> QED  BY <1>1, <1>2, <1>3 DEF TurnInv

\* The steps of w do not disturb another worker, whose turn is another one.
LEMMA OthersKept ==
  ASSUME AgentInv, NEW w \in Workers, NEW t \in Turns, WorkShape(w, t), Mine(w, t),
         ~stalled, NEW v \in Workers \ {w}
  PROVE  WorkerInv(v)'
  <1> PICK x : x = worker[v]
    OBVIOUS
  <1>1. x \in WorkerRecord /\ worker'[v] = x /\ (x.pc # "idle" => x.turn \in Turns)
    BY Types DEF WorkShape, Surroundings
  <1>2. WorkerInv(v) /\ WorkerInv(w)
    BY DEF AgentInv, LiveInv
  <1>3. CASE x.pc \in {"idle", "reconcile"}
    BY <1>1, <1>3 DEF WorkerInv, AtWork
  <1>4. CASE x.pc \notin {"idle", "reconcile"}
    <2>1. job[x.turn].by = v /\ x.turn \in Turns
      BY <1>1, <1>2, <1>4 DEF WorkerInv, AtWork
    <2>2. Ended(x.turn) /\ job'[x.turn] = job[x.turn]
      <3>1. CASE x.turn = t
        <4>1. ~(AtWork(w) /\ worker[w].turn = t)
          BY <1>2, <2>1, <3>1 DEF WorkerInv
        <4>2. job[t].by \notin {w, Nobody}
          BY <2>1, <3>1, Types
        <4> QED  BY <3>1, <4>1, <4>2 DEF Mine
      <3>2. CASE x.turn # t
        BY <2>1, <3>2 DEF WorkShape, Surroundings
      <3> QED  BY <3>1, <3>2
    <2>3. /\ turn'[x.turn].exec = turn[x.turn].exec /\ turn'[x.turn].stale = turn[x.turn].stale
          /\ turn[x.turn].status # "tool_planned" => turn'[x.turn].status # "tool_planned"
          /\ turn[x.turn].status \in {"running"} \cup Terminal
                => turn'[x.turn].status \in {"running"} \cup Terminal
          /\ turn[x.turn].status \in Terminal => turn'[x.turn].status \in Terminal
      BY <2>2 DEF Ended, SameButStatus, Executable, Terminal
    <2>4. seen' = seen /\ contact' = contact
      BY DEF WorkShape, Surroundings
    <2>5. AtWork(v) /\ AtWork(v)' /\ (Settled(x.turn) => Settled(x.turn)')
      BY <1>1, <1>4, <2>3 DEF AtWork, Settled
    <2> QED  BY <1>1, <1>2, <2>1, <2>2, <2>3, <2>4, <2>5 DEF WorkerInv, Status
  <1> QED  BY <1>3, <1>4

\* The step of a worker w about the turn t keeps the invariant, if it does
\* for t and for w.
LEMMA WorkStep ==
  ASSUME AgentInv, NEW w \in Workers, NEW t \in Turns, WorkShape(w, t), Grows,
         TurnRow(t)', WorkerRow(w)', ~stalled => Mine(w, t),
         ~stalled' => TurnInv(t)' /\ WorkerInv(w)' /\ SurvivorInv'
  PROVE  AgentInv'
  <1>1. TypeOK'
    <2>1. \A v \in Workers : worker'[v].pc # "idle" => worker'[v].turn \in Turns
      BY Types DEF WorkShape, Surroundings
    <2>2. seen' \subseteq Turns /\ {paused', contact', ai', send', stalled', chained'} \subseteq BOOLEAN
      BY Types DEF WorkShape, Surroundings
    <2> QED  BY <2>1, <2>2 DEF TypeOK, WorkShape, Surroundings
  <1>2. \A u \in Turns : TurnRow(u)'
    <2>1. ASSUME NEW u \in Turns PROVE TurnRow(u)'
      <3>1. CASE u = t
        BY <3>1
      <3>2. CASE u # t
        BY <3>2, EndedRow DEF WorkShape, Surroundings
      <3> QED  BY <3>1, <3>2
    <2> QED  BY <2>1
  <1>3. \A v \in Workers : WorkerRow(v)'
    <2>1. ASSUME NEW v \in Workers PROVE WorkerRow(v)'
      <3>1. CASE v = w
        BY <3>1
      <3>2. CASE v # w
        BY <3>2, RowKept DEF WorkShape, Surroundings
      <3> QED  BY <3>1, <3>2
    <2> QED  BY <2>1
  <1>4. RowInv'
    <2>1. (\A u \in seen : Status(u) # "absent") /\ Bounded
      BY DEF AgentInv, RowInv
    <2>2. \A u \in Turns : Status(u)' = "absent" => Status(u) = "absent"
      BY DEF Grows, Status
    <2>3. (\A u \in seen : Status(u) # "absent")'
      BY <2>1, <2>2, Types DEF WorkShape, Surroundings
    <2>4. \A u \in Turns \ {t} : turn[u].status = "absent" => turn'[u].status = "absent"
      BY StatusSets DEF WorkShape, Ended
    <2>5. Bounded'
      BY <2>4, StillBounded
    <2> QED  BY <1>2, <1>3, <2>3, <2>5 DEF RowInv
  <1>5. ASSUME ~stalled' PROVE LiveInv'
    <2>1. ~stalled
      BY <1>5 DEF WorkShape, Surroundings
    <2>2. ASSUME NEW u \in Turns PROVE TurnInv(u)'
      <3>1. CASE u = t
        BY <1>5, <3>1
      <3>2. CASE u # t
        BY <2>1, <3>2, EndedRow DEF WorkShape, Surroundings
      <3> QED  BY <3>1, <3>2
    <2>3. ASSUME NEW v \in Workers PROVE WorkerInv(v)'
      <3>1. CASE v = w
        BY <1>5, <3>1
      <3>2. CASE v # w
        BY <2>1, <3>2, OthersKept
      <3> QED  BY <3>1, <3>2
    <2> QED  BY <1>5, <2>2, <2>3 DEF LiveInv
  <1> QED  BY <1>1, <1>4, <1>5 DEF AgentInv

-----------------------------------------------------------------------------
(* The newest of the turns the dispatcher has read *)

\* A bounded set of numbers has a greatest member, which is the one chosen.
LEMMA GreatestIs ==
  ASSUME NEW S \in SUBSET Nat, S # {}, NEW n \in Nat, \A u \in S : u <= n
  PROVE  \E m \in S : /\ m = (CHOOSE t \in S : \A u \in S : u <= t)
                      /\ \A u \in S : u <= m
  <1> DEFINE T == {k \in Nat : \A u \in S : u <= k}
  <1>1. n \in T /\ T \subseteq Nat
    OBVIOUS
  <1>2. PICK m \in T : \A y \in T : ~ (<<y, m>> \in OpToRel(<, Nat))
    <2> HIDE DEF T
    <2> QED  BY <1>1, NatLessThanWellFounded, WFMin
  <1>3. m \in Nat /\ (\A u \in S : u <= m) /\ \A y \in T : ~(y < m)
    BY <1>1, <1>2 DEF OpToRel
  <1>4. m \in S
    <2> SUFFICES ASSUME m \notin S PROVE FALSE
      OBVIOUS
    <2>1. \A u \in S : u \in Nat /\ u <= m /\ u # m
      BY <1>3
    <2>2. PICK v \in S : v \in Nat
      OBVIOUS
    <2>3. m - 1 \in Nat /\ m - 1 < m
      BY <1>3, <2>1, <2>2
    <2>4. \A u \in S : u <= m - 1
      BY <1>3, <2>1
    <2> QED  BY <1>3, <2>3, <2>4
  <1>5. \A t \in S : (\A u \in S : u <= t) => t = m
    BY <1>3, <1>4
  <1> HIDE DEF T
  <1> QED  BY <1>3, <1>4, <1>5

\* The dispatcher's newest turn is one it has read.
LEMMA NewestIs ==
  ASSUME AgentInv, seen # {}
  PROVE  Newest \in seen /\ \A u \in seen : u <= Newest
  <1>1. seen \in SUBSET Nat
    BY Types
  <1>2. PICK n \in Nat : \A u \in seen : u <= n
    BY Types DEF AgentInv, RowInv, Bounded
  <1> QED  BY <1>1, <1>2, GreatestIs DEF Newest

\* Who is not superseded goes on to stand.
LEMMA SparedSurvivor ==
  ASSUME AgentInv, ~stalled, Spares, seen' = seen, chained => chained'
  PROVE  SurvivorInv'
  <1> SUFFICES ASSUME ~chained
      PROVE  /\ \/ \A t \in Turns : Status(t)' # "superseded"
                \/ \E t \in Turns : Status(t)' \notin {"absent", "superseded"}
             /\ seen # {} => Given' \/ Status(Newest)' # "superseded"
    BY DEF SurvivorInv
  <1>1. SurvivorInv
    BY DEF AgentInv, LiveInv
  <1>2. /\ \A t \in Turns : Status(t)' = "superseded" => Status(t) = "superseded"
        /\ \A t \in Turns : Status(t)' = "absent" => Status(t) = "absent"
        /\ \A t \in Turns : Status(t) \in Fates => Status(t)' \in Fates
    BY DEF Spares, Status
  <1>3. \/ \A t \in Turns : Status(t)' # "superseded"
        \/ \E t \in Turns : Status(t)' \notin {"absent", "superseded"}
    BY <1>1, <1>2 DEF SurvivorInv
  <1>4. ASSUME seen # {} PROVE Given' \/ Status(Newest)' # "superseded"
    <2>1. PICK n \in Turns : n = Newest
      BY <1>4, NewestIs, Types
    <2>2. Newest' = n
      BY <2>1 DEF Newest
    <2>3. Given \/ Status(n) # "superseded"
      BY <1>1, <1>4, <2>1 DEF SurvivorInv
    <2>4. Given' \/ Status(n)' # "superseded"
      BY <1>2, <2>3 DEF Given
    <2> QED  BY <2>2, <2>4 DEF Status
  <1> QED  BY <1>3, <1>4

-----------------------------------------------------------------------------
(* The records the code writes *)

\* The records a job, a worker and a turn start with.
LEMMA NewRecords ==
  /\ NewJob \in JobRecord /\ Idle \in WorkerRecord /\ NewTurn \in TurnRecord
  /\ Idle.pc = "idle" /\ NewJob.st = "none" /\ NewJob.by = Nobody
  BY EmptySeq DEF NewJob, JobRecord, Idle, WorkerRecord, Dispositions, NewTurn, TurnRecord

\* The worker's record at the start of a step, field by field.
LEMMA EnterFields ==
  ASSUME NEW t \in Turns, NEW pc \in {"ask", "tool", "commit", "loop"},
         NEW path \in {"fresh", "recovery", "triage"}
  PROVE  /\ Enter(t, pc, path) \in WorkerRecord
         /\ Enter(t, pc, path).pc = pc /\ Enter(t, pc, path).turn = t
         /\ Enter(t, pc, path).path = path
         /\ Enter(t, pc, path) =
              [pc |-> pc, turn |-> t, path |-> path, dec |-> "none",
               newer |-> {}, claim |-> <<0, 0>>, ok |-> TRUE, cont |-> FALSE]
  <1>1. PICK e : e = [Idle EXCEPT !.pc = pc, !.turn = t, !.path = path]
    OBVIOUS
  <1>2. e = [pc |-> pc, turn |-> t, path |-> path, dec |-> "none",
             newer |-> {}, claim |-> <<0, 0>>, ok |-> TRUE, cont |-> FALSE]
    BY <1>1 DEF Idle
  <1>3. Enter(t, pc, path) = e
    BY <1>1 DEF Enter
  <1>4. e \in WorkerRecord
    BY <1>2 DEF WorkerRecord, Dispositions
  <1> QED  BY <1>2, <1>3, <1>4

\* The worker's record after a step, field by field.
LEMMA AfterFields ==
  ASSUME NEW t \in Turns, NEW c \in BOOLEAN
  PROVE  /\ After(t, c) \in WorkerRecord
         /\ After(t, c).pc = "loop" /\ After(t, c).turn = t /\ After(t, c).cont = c
  <1>1. PICK e : e = Enter(t, "loop", "fresh")
    OBVIOUS
  <1>2. e = [pc |-> "loop", turn |-> t, path |-> "fresh", dec |-> "none",
             newer |-> {}, claim |-> <<0, 0>>, ok |-> TRUE, cont |-> FALSE]
    BY <1>1, EnterFields
  <1>3. PICK a : a = [e EXCEPT !.cont = c]
    OBVIOUS
  <1>4. a = [pc |-> "loop", turn |-> t, path |-> "fresh", dec |-> "none",
             newer |-> {}, claim |-> <<0, 0>>, ok |-> TRUE, cont |-> c]
    BY <1>2, <1>3
  <1>5. After(t, c) = a
    BY <1>1, <1>3 DEF After
  <1>6. a \in WorkerRecord
    BY <1>4 DEF WorkerRecord, Dispositions
  <1> QED  BY <1>4, <1>5, <1>6

\* The record of one worker is replaced.
LEMMA WorkerSet ==
  ASSUME worker \in [Workers -> WorkerRecord], NEW w \in Workers, NEW r \in WorkerRecord,
         worker' = [worker EXCEPT ![w] = r]
  PROVE  /\ worker' \in [Workers -> WorkerRecord] /\ worker'[w] = r
         /\ \A v \in Workers \ {w} : worker'[v] = worker[v]
  OBVIOUS

\* A finished job leaves its worker idle.
LEMMA DoneLeaves ==
  ASSUME AgentInv, NEW w \in Workers, NEW t \in Turns, t = worker[w].turn, JobDone(w)
  PROVE  Leaves(w, t)
  <1>1. worker' \in [Workers -> WorkerRecord] /\ worker'[w] = Idle
        /\ \A v \in Workers \ {w} : worker'[v] = worker[v]
    BY NewRecords, WorkerSet, Types DEF JobDone
  <1>2. PICK r : r = [NewJob EXCEPT !.st = "done"]
    OBVIOUS
  <1>3. r \in JobRecord /\ r.by = Nobody
    BY <1>2, NewRecords DEF JobRecord, NewJob
  <1>4. job' = [job EXCEPT ![t] = r] \/ job' = job
    BY <1>2 DEF JobDone
  <1>5. job[t].by # Nobody => job[t].st = "active"
    BY DEF AgentInv, RowInv, TurnRow
  <1> QED  BY <1>1, <1>3, <1>4, <1>5, NewRecords, Types DEF Leaves

\* A failed attempt leaves its worker idle, or to reconcile the turn.
LEMMA FailsLeaves ==
  ASSUME AgentInv, NEW w \in Workers, NEW t \in Turns, t = worker[w].turn, JobFails(w)
  PROVE  Leaves(w, t)
  <1>1. PICK a : a = [Idle EXCEPT !.pc = "reconcile", !.turn = t]
    OBVIOUS
  <1>2. a \in WorkerRecord /\ a.pc = "reconcile" /\ a.turn = t
    <2>1. a = [pc |-> "reconcile", turn |-> t, path |-> "fresh", dec |-> "none",
               newer |-> {}, claim |-> <<0, 0>>, ok |-> TRUE, cont |-> FALSE]
      BY <1>1 DEF Idle
    <2> QED  BY <2>1 DEF WorkerRecord, Dispositions
  <1>3. worker' = [worker EXCEPT ![w] = a] \/ worker' = [worker EXCEPT ![w] = Idle]
    BY <1>1 DEF JobFails
  <1>4. /\ worker' \in [Workers -> WorkerRecord]
        /\ worker'[w] = a \/ worker'[w] = Idle
        /\ \A v \in Workers \ {w} : worker'[v] = worker[v]
    BY <1>2, <1>3, NewRecords, Types
  <1>5. PICK r : r = [NewJob EXCEPT !.st = "failed"]
    OBVIOUS
  <1>6. r \in JobRecord /\ r.by = Nobody
    BY <1>5, NewRecords DEF JobRecord, NewJob
  <1>7. PICK j : j = job[t]
    OBVIOUS
  <1>8. j \in JobRecord
    BY <1>7, Types
  <1>9. PICK q : q = [j EXCEPT !.st = "waiting", !.by = Nobody, !.tries = j.tries + 1]
    OBVIOUS
  <1>10. q \in JobRecord /\ q.by = Nobody
    <2>1. q = [st |-> "waiting", by |-> Nobody, tries |-> j.tries + 1, stalls |-> j.stalls]
      BY <1>8, <1>9 DEF JobRecord
    <2> QED  BY <1>8, <2>1 DEF JobRecord
  <1>11. \/ job' = [job EXCEPT ![t] = r]
         \/ job' = [job EXCEPT ![t] = q]
         \/ job' = job
    <2>1. CASE ~Holds(w)
      BY <2>1 DEF JobFails
    <2>2. CASE Holds(w) /\ j.tries + 1 >= JobAttempts
      BY <1>5, <1>7, <2>2 DEF JobFails
    <2>3. CASE Holds(w) /\ ~(j.tries + 1 >= JobAttempts)
      BY <1>7, <1>9, <2>3 DEF JobFails
    <2> QED  BY <2>1, <2>2, <2>3
  <1>12. job[t].by # Nobody => job[t].st = "active"
    BY DEF AgentInv, RowInv, TurnRow
  <1>13. /\ job' \in [Turns -> JobRecord]
         /\ \A u \in Turns \ {t} : job'[u] = job[u]
         /\ job'[t].by # Nobody => job'[t].st = "active"
    BY <1>6, <1>10, <1>11, <1>12, Types
  <1> QED  BY <1>2, <1>4, <1>13, NewRecords DEF Leaves

\* An error puts a running turn back.
LEMMA RequeuedRow ==
  ASSUME AgentInv, NEW t \in Turns, turn' = turn \/ turn' = Requeued(t)
  PROVE  /\ turn' \in [Turns -> TurnRecord] /\ Quiet /\ NoNews /\ Grows /\ Spares
         /\ \A u \in Turns \ {t} : turn'[u] = turn[u]
         /\ turn'[t].exec = turn[t].exec /\ turn'[t].final = turn[t].final
         /\ turn'[t].status \in {turn[t].status, "queued"}
         /\ turn'[t].status # turn[t].status => turn[t].status = "running"
  <1>1. turn \in [Turns -> TurnRecord]
    BY Types
  <1>2. CASE turn' = turn
    <2>1. Ends(turn, turn', Terminal) /\ Ends(turn, turn', Fates)
      BY <1>1, <1>2, EndsStay
    <2> QED  BY <1>1, <1>2, <2>1, EndsQuiet, EndsSpares DEF AgentInv
  <1>3. CASE turn' = Requeued(t) /\ turn' # turn
    <2>1. turn[t].status = "running" /\ turn' = [turn EXCEPT ![t].status = "queued"]
      BY <1>3 DEF Requeued, Transition
    <2>2. turn' = [turn EXCEPT ![t] = [turn[t] EXCEPT !.status = "queued"]]
      BY <2>1
    <2>3. "queued" \in Statuses /\ turn[t] \in TurnRecord
      BY <1>1 DEF Statuses, Executable
    <2>4. PICK r : r = [turn[t] EXCEPT !.status = "queued"]
      OBVIOUS
    <2>5. r \in TurnRecord /\ r.status = "queued" /\ SameButStatus(r, turn[t])
      BY <2>3, <2>4, Restatus
    <2>6. turn' = [turn EXCEPT ![t] = r]
      BY <2>2, <2>4
    <2>7. turn'[t] = r /\ \A u \in Turns \ {t} : turn'[u] = turn[u]
      BY <1>1, <2>6
    <2>8. /\ r.status = "queued" /\ r.exec = turn[t].exec /\ r.final = turn[t].final
          /\ r.steps = turn[t].steps /\ r.note = turn[t].note
      BY <2>5 DEF SameButStatus
    <2>9. Quiet /\ NoNews /\ Spares
      BY <2>1, <2>7, <2>8 DEF Quiet, NoNews, Spares, Executable, Terminal, Fates
    <2>10. Grows
      <3>1. \A u \in Turns : turn'[u].exec = turn[u].exec
        BY <2>7, <2>8
      <3>2. \A u \in Turns : turn'[u].status = "absent" => turn[u].status = "absent"
        BY <2>1, <2>7, <2>8
      <3>3. \A u \in Turns : Len(turn[u].exec) \in Nat
        BY <1>1, Lengths
      <3> QED  BY <3>1, <3>2, <3>3 DEF Grows
    <2> QED  BY <1>1, <2>1, <2>5, <2>6, <2>7, <2>8, <2>9, <2>10
  <1> QED  BY <1>2, <1>3

\* A fault used up leaves a scenario.
LEMMA FaultUsed ==
  ASSUME AgentInv, CanFault, UseFault
  PROVE  scenario' \in Scenario(Turns)
  <1> PICK s : s = scenario
    OBVIOUS
  <1>1. s \in Scenario(Turns) /\ s.faults > 0
    BY Types DEF CanFault
  <1>2. scenario' = [answers |-> s.answers, faults |-> s.faults - 1,
                     flips |-> s.flips, takeovers |-> s.takeovers]
    BY <1>1 DEF UseFault, Scenario
  <1> QED  BY <1>1, <1>2 DEF Scenario

-----------------------------------------------------------------------------
(* How a step of a worker ends *)

\* What is known of a worker at work.
LEMMA Now ==
  ASSUME AgentInv, NEW w \in Workers, worker[w].pc # "idle"
  PROVE  /\ worker[w] \in WorkerRecord /\ worker[w].turn \in Turns
         /\ turn[worker[w].turn] \in TurnRecord
         /\ TurnRow(worker[w].turn) /\ WorkerRow(w)
         /\ ~stalled => TurnInv(worker[w].turn) /\ WorkerInv(w)
  BY Types DEF AgentInv, RowInv, LiveInv

\* The worker leaves the job.
LEMMA LeaveStep ==
  ASSUME AgentInv, NEW w \in Workers, NEW t \in Turns, t = worker[w].turn, AtWork(w),
         Leaves(w, t), Surroundings, turn' \in [Turns -> TurnRecord], Grows,
         \A u \in Turns \ {t} : Ended(u),
         turn'[t].exec = turn[t].exec, turn'[t].final = turn[t].final,
         turn'[t].status \in {turn[t].status, "queued"},
         turn'[t].status # turn[t].status => turn[t].status = "running",
         ~stalled => SurvivorInv'
  PROVE  AgentInv'
  <1>1. worker[w].pc # "idle"
    BY DEF AtWork
  <1>2. TurnRow(t) /\ WorkerRow(w) /\ (~stalled => TurnInv(t))
    BY <1>1, Now
  <1>3. WorkShape(w, t)
    BY DEF WorkShape, Leaves
  <1>4. TurnRow(t)'
    BY <1>2 DEF TurnRow, Status, Leaves
  <1>5. WorkerRow(w)'
    <2>1. turn'[t].status # "absent"
      BY <1>1, <1>2 DEF WorkerRow, Status, Grows
    <2> QED  BY <2>1 DEF WorkerRow, Status, Leaves
  <1>6. WorkerInv(w)'
    BY DEF WorkerInv, AtWork, Leaves
  <1>7. ~stalled' => TurnInv(t)' /\ SurvivorInv'
    BY <1>2 DEF TurnInv, Surroundings
  <1>8. Mine(w, t)
    BY DEF Mine
  <1> QED  BY <1>3, <1>4, <1>5, <1>6, <1>7, <1>8, WorkStep

\* The step of the turn is over.
LEMMA LoopStep ==
  ASSUME AgentInv, NEW w \in Workers, NEW t \in Turns, t = worker[w].turn, AtWork(w),
         NEW c \in BOOLEAN, worker' = [worker EXCEPT ![w] = After(t, c)], job' = job,
         Surroundings, turn' \in [Turns -> TurnRecord], Grows,
         \A u \in Turns \ {t} : Ended(u),
         turn'[t].final => turn'[t].status = "completed",
         turn'[t].status = "tool_planned" => Len(turn'[t].exec) > 0,
         ~stalled => /\ ~turn'[t].stale /\ (c => Settled(t)')
                     /\ TurnInv(t)' /\ SurvivorInv'
  PROVE  AgentInv'
  <1>1. worker[w].pc # "idle"
    BY DEF AtWork
  <1>2. TurnRow(t) /\ WorkerRow(w) /\ (~stalled => WorkerInv(w))
    BY <1>1, Now
  <1>3. PICK r : r = After(t, c)
    OBVIOUS
  <1>4. r \in WorkerRecord /\ r.pc = "loop" /\ r.turn = t /\ r.cont = c
    BY <1>3, AfterFields
  <1>5. /\ worker' \in [Workers -> WorkerRecord] /\ worker'[w] = r
        /\ \A v \in Workers \ {w} : worker'[v] = worker[v]
    BY <1>3, <1>4, WorkerSet, Types
  <1>6. WorkShape(w, t)
    BY <1>4, <1>5, Types DEF WorkShape
  <1>7. TurnRow(t)'
    BY <1>2 DEF TurnRow, Status
  <1>8. WorkerRow(w)'
    <2>1. turn'[t].status # "absent"
      BY <1>1, <1>2 DEF WorkerRow, Status, Grows
    <2> QED  BY <1>4, <1>5, <2>1 DEF WorkerRow, Status
  <1>9. ~stalled' => TurnInv(t)' /\ SurvivorInv'
    BY DEF Surroundings
  <1>10. ASSUME ~stalled' PROVE WorkerInv(w)'
    <2>1. job[t].by = w /\ ~stalled
      BY <1>2, <1>10 DEF WorkerInv, Surroundings
    <2>2. ~turn'[t].stale /\ (c => Settled(t)') /\ job'[t].by = w
      BY <2>1
    <2>3. worker'[w].pc = "loop" /\ worker'[w].turn = t /\ worker'[w].cont = c
      BY <1>4, <1>5
    <2> QED  BY <2>2, <2>3 DEF WorkerInv, Deciding
  <1>11. Mine(w, t)
    BY DEF Mine
  <1> QED  BY <1>6, <1>7, <1>8, <1>9, <1>10, <1>11, WorkStep

\* The worker goes on with the turn, at another place.
LEMMA StayStep ==
  ASSUME AgentInv, NEW w \in Workers, NEW t \in Turns, t = worker[w].turn, AtWork(w),
         NEW r \in WorkerRecord, worker' = [worker EXCEPT ![w] = r], r.turn = t, job' = job,
         Surroundings, turn' \in [Turns -> TurnRecord], Grows,
         \A u \in Turns \ {t} : Ended(u),
         turn'[t].final => turn'[t].status = "completed",
         turn'[t].status = "tool_planned" => Len(turn'[t].exec) > 0,
         WorkerRow(w)',
         ~stalled' => WorkerInv(w)' /\ TurnInv(t)' /\ SurvivorInv'
  PROVE  AgentInv'
  <1>1. worker[w].pc # "idle"
    BY DEF AtWork
  <1>2. TurnRow(t)
    BY <1>1, Now
  <1>3. /\ worker' \in [Workers -> WorkerRecord] /\ worker'[w] = r
        /\ \A v \in Workers \ {w} : worker'[v] = worker[v]
    BY WorkerSet, Types
  <1>4. WorkShape(w, t)
    BY <1>3, Types DEF WorkShape
  <1>5. TurnRow(t)'
    BY <1>2 DEF TurnRow, Status
  <1>6. Mine(w, t)
    BY DEF Mine
  <1> QED  BY <1>4, <1>5, <1>6, WorkStep

\* Turns end, one of Fates each, and the worker's own step is over.
LEMMA EndsStep ==
  ASSUME AgentInv, NEW w \in Workers, NEW t \in Turns, t = worker[w].turn, AtWork(w),
         worker' = [worker EXCEPT ![w] = After(t, FALSE)], job' = job,
         Surroundings, Ends(turn, turn', Fates)
  PROVE  AgentInv' /\ Quiet /\ NoNews
  <1>1. Ends(turn, turn', Terminal)
    BY EndsWiden, StatusSets
  <1>2. Quiet /\ NoNews /\ Grows /\ Spares
    BY <1>1, EndsQuiet, EndsSpares DEF AgentInv
  <1>3. turn' \in [Turns -> TurnRecord] /\ \A u \in Turns : Ended(u)
    BY <1>1 DEF Ends, Ended
  <1>4. worker[w].pc # "idle"
    BY DEF AtWork
  <1>5. TurnRow(t)' /\ (~stalled => TurnInv(t)')
    BY <1>3, EndedRow
  <1>6. ~stalled => ~turn'[t].stale
    <2>1. ~stalled => ~turn[t].stale
      BY <1>4, Now DEF WorkerInv
    <2> QED  BY <1>3, <2>1 DEF Ended, SameButStatus
  <1>7. ~stalled => SurvivorInv'
    BY <1>2, SparedSurvivor DEF Surroundings
  <1>8. /\ turn'[t].final => turn'[t].status = "completed"
        /\ turn'[t].status = "tool_planned" => Len(turn'[t].exec) > 0
    BY <1>5 DEF TurnRow, Status
  <1>9. AgentInv'
    BY <1>2, <1>3, <1>5, <1>6, <1>7, <1>8, LoopStep
  <1> QED  BY <1>2, <1>9

\* The attempt fails; a turn it was running is put back, or left.
LEMMA FailStep ==
  ASSUME AgentInv, NEW w \in Workers, NEW t \in Turns, t = worker[w].turn, AtWork(w),
         JobFails(w), turn' = turn \/ turn' = Requeued(t), Surroundings
  PROVE  AgentInv' /\ Quiet /\ NoNews
  <1>1. Leaves(w, t)
    BY FailsLeaves
  <1>2. /\ turn' \in [Turns -> TurnRecord] /\ Quiet /\ NoNews /\ Grows /\ Spares
        /\ \A u \in Turns \ {t} : Ended(u)
        /\ turn'[t].exec = turn[t].exec /\ turn'[t].final = turn[t].final
        /\ turn'[t].status \in {turn[t].status, "queued"}
        /\ turn'[t].status # turn[t].status => turn[t].status = "running"
    BY RequeuedRow DEF Ended
  <1>3. ~stalled => SurvivorInv'
    BY <1>2, SparedSurvivor DEF Surroundings
  <1>4. AgentInv'
    BY <1>1, <1>2, <1>3, LeaveStep
  <1> QED  BY <1>2, <1>4

\* The attempt throws, with or without the turn requeued.
LEMMA ThrowStep ==
  ASSUME AgentInv, NEW w \in Workers, AtWork(w), Throw(w), Surroundings
  PROVE  AgentInv' /\ Quiet /\ NoNews
  <1>1. PICK t \in Turns : t = worker[w].turn
    BY Types DEF AtWork
  <1>2. JobFails(w) /\ (turn' = turn \/ turn' = Requeued(t))
    BY <1>1 DEF Throw
  <1> QED  BY <1>1, <1>2, FailStep

\* A suppression ends the turn, or throws.
LEMMA SuppressStep ==
  ASSUME AgentInv, NEW w \in Workers, AtWork(w), NEW to \in Fates, Suppress(w, to),
         Surroundings
  PROVE  AgentInv' /\ Quiet /\ NoNews
  <1>1. PICK t \in Turns : t = worker[w].turn
    BY Types DEF AtWork
  <1>2. CASE Throw(w)
    BY <1>2, ThrowStep
  <1>3. CASE /\ turn' = Transition(turn, t, Executable, to)
             /\ worker' = [worker EXCEPT ![w] = After(t, FALSE)]
             /\ job' = job
    <2>1. Ends(turn, turn', {to})
      BY <1>3, TransitionEnds, StatusSets, Types
    <2>2. Ends(turn, turn', Fates)
      BY <2>1, EndsWiden
    <2> QED  BY <1>1, <1>3, <2>2, EndsStep
  <1> QED  BY <1>1, <1>2, <1>3 DEF Suppress

-----------------------------------------------------------------------------
(* The rows the worker's steps write *)

\* A step that leaves all but rows, jobs and workers alone.
LEMMA SameSurroundings ==
  ASSUME AgentInv, UNCHANGED <<seen, desk, switches, history, scenario>>
  PROVE  Surroundings
  BY Types DEF Surroundings, desk, switches, history

\* The same with a fault used up.
LEMMA FaultSurroundings ==
  ASSUME AgentInv, CanFault, UseFault, UNCHANGED <<seen, desk, switches, history>>
  PROVE  Surroundings
  BY FaultUsed, Types DEF Surroundings, desk, switches, history

\* The same with a handover.
LEMMA HandSurroundings ==
  ASSUME AgentInv, NEW t \in Turns, HandsOff(t) \/ UNCHANGED desk,
         UNCHANGED <<seen, switches, history, scenario>>
  PROVE  Surroundings
  BY Types DEF Surroundings, HandsOff, HandOff, desk, switches, history

\* The row of one turn is replaced.
LEMMA RowSet ==
  ASSUME AgentInv, NEW t \in Turns, NEW r \in TurnRecord, turn' = [turn EXCEPT ![t] = r],
         Len(turn[t].exec) <= Len(r.exec), r.status = "absent" => turn[t].status = "absent"
  PROVE  /\ turn' \in [Turns -> TurnRecord] /\ turn'[t] = r
         /\ \A u \in Turns \ {t} : turn'[u] = turn[u] /\ Ended(u)
         /\ Grows
         /\ /\ r.status # "superseded" /\ turn[t].status \notin Fates
            => Spares
         /\ /\ r.final = turn[t].final /\ r.steps = turn[t].steps /\ r.note = turn[t].note
            /\ \/ r.status = turn[t].status
               \/ turn[t].status \in Executable /\ r.status \in Executable \cup Terminal
            => Quiet
         /\ (\A k \in 1..Len(turn[t].exec) :
                r.exec[k].st = "succeeded" => turn[t].exec[k].st = "succeeded")
            => NoNews
  <1>1. turn \in [Turns -> TurnRecord]
    BY Types
  <1>2. /\ turn' \in [Turns -> TurnRecord] /\ turn'[t] = r
        /\ \A u \in Turns \ {t} : turn'[u] = turn[u] /\ Ended(u)
    BY <1>1 DEF Ended
  <1>3. \A u \in Turns : Len(turn[u].exec) \in Nat
    BY <1>1, Lengths
  <1>4. Grows
    BY <1>2, <1>3 DEF Grows
  <1>5. r.status # "superseded" /\ turn[t].status \notin Fates => Spares
    BY <1>2 DEF Spares
  <1>6. /\ r.final = turn[t].final /\ r.steps = turn[t].steps /\ r.note = turn[t].note
        /\ \/ r.status = turn[t].status
           \/ turn[t].status \in Executable /\ r.status \in Executable \cup Terminal
        => Quiet
    BY <1>2 DEF Quiet
  <1>7. (\A k \in 1..Len(turn[t].exec) :
            r.exec[k].st = "succeeded" => turn[t].exec[k].st = "succeeded")
        => NoNews
    BY <1>2 DEF NoNews
  <1> QED  BY <1>2, <1>4, <1>5, <1>6, <1>7

\* The rows stay.
LEMMA RowsStay ==
  ASSUME AgentInv, turn' = turn
  PROVE  /\ turn' \in [Turns -> TurnRecord] /\ \A u \in Turns : Ended(u)
         /\ Quiet /\ NoNews /\ Grows /\ Spares
         /\ \A u \in Turns : TurnRow(u) => (/\ turn'[u].final => turn'[u].status = "completed"
                                            /\ turn'[u].status = "tool_planned"
                                                  => Len(turn'[u].exec) > 0)
  <1>1. Ends(turn, turn', Terminal) /\ Ends(turn, turn', Fates)
    BY EndsStay, Types
  <1> QED  BY <1>1, EndsQuiet, EndsSpares, Types DEF AgentInv, Ended, TurnRow, Status

\* claim, and the renewal of the lease.
LEMMA ClaimedRow ==
  ASSUME AgentInv, NEW t \in Turns, turn[t].status \in {"queued", "tool_planned"},
         turn' = Claimed(t)
  PROVE  /\ turn' \in [Turns -> TurnRecord] /\ Quiet /\ NoNews /\ Grows /\ Spares
         /\ \A u \in Turns \ {t} : turn'[u] = turn[u] /\ Ended(u)
         /\ turn'[t].status = "running" /\ turn'[t].stale = FALSE
         /\ turn'[t].exec = turn[t].exec /\ turn'[t].final = turn[t].final
  <1> PICK x : x = turn[t]
    OBVIOUS
  <1>1. x \in TurnRecord /\ Len(x.exec) \in Nat
    BY Lengths, Types
  <1>2. PICK r : r = [status |-> "running", stale |-> FALSE, exec |-> x.exec,
                      steps |-> x.steps, note |-> x.note, final |-> x.final]
    OBVIOUS
  <1>3. r \in TurnRecord
    BY <1>1, <1>2, TurnFields DEF TurnRecord, Executable
  <1>4. PICK us : us = [turn EXCEPT ![t].status = "running"]
    OBVIOUS
  <1>5. us \in [Turns -> TurnRecord] /\ us = [turn EXCEPT ![t] = [x EXCEPT !.status = "running"]]
    <2>1. us = [turn EXCEPT ![t] = [x EXCEPT !.status = "running"]]
      BY <1>4
    <2>2. "running" \in Statuses
      BY DEF Statuses, Executable
    <2> QED  BY <1>1, <2>1, <2>2, Restatus, Types
  <1>6. PICK y : y = [x EXCEPT !.status = "running"]
    OBVIOUS
  <1>7. us[t] = y /\ us = [turn EXCEPT ![t] = y]
    BY <1>5, <1>6, Types
  <1>8. y = [status |-> "running", stale |-> x.stale, exec |-> x.exec,
             steps |-> x.steps, note |-> x.note, final |-> x.final]
    BY <1>1, <1>6 DEF TurnRecord
  <1>9. turn' = [us EXCEPT ![t].stale = FALSE]
    BY <1>4 DEF Claimed
  <1>10. turn' = [us EXCEPT ![t] = [y EXCEPT !.stale = FALSE]]
    BY <1>7, <1>9
  <1>11. PICK z : z = [y EXCEPT !.stale = FALSE]
    OBVIOUS
  <1>12. z = r
    <2>1. x.stale \in BOOLEAN
      BY <1>1, TurnFields
    <2>2. z = [status |-> "running", stale |-> FALSE, exec |-> x.exec,
               steps |-> x.steps, note |-> x.note, final |-> x.final]
      BY <1>8, <1>11, <2>1
    <2> QED  BY <1>2, <2>2
  <1>13. turn' = [turn EXCEPT ![t] = r]
    BY <1>7, <1>10, <1>11, <1>12, Types
  <1>14. turn[t].status \notin Fates /\ turn[t].status \in Executable
    BY DEF Fates, Terminal, Executable
  <1>15. r.status = "running" /\ r.stale = FALSE /\ r.exec = x.exec /\ r.final = x.final
         /\ r.steps = x.steps /\ r.note = x.note
    BY <1>2
  <1>16. Len(turn[t].exec) <= Len(r.exec)
    BY <1>1, <1>15
  <1>17. /\ turn' \in [Turns -> TurnRecord] /\ turn'[t] = r /\ Grows /\ Spares
         /\ \A u \in Turns \ {t} : turn'[u] = turn[u] /\ Ended(u)
    BY <1>3, <1>13, <1>14, <1>15, <1>16, RowSet
  <1>18. Quiet
    <2>1. r.status \in Executable
      BY <1>15 DEF Executable
    <2>2. r.final = turn[t].final /\ r.steps = turn[t].steps /\ r.note = turn[t].note
      BY <1>15
    <2>3. turn'[t] = r /\ \A u \in Turns \ {t} : turn'[u] = turn[u]
      BY <1>17
    <2> QED  BY <1>14, <2>1, <2>2, <2>3 DEF Quiet
  <1>19. NoNews
    <2>1. \A u \in Turns : turn'[u].exec = turn[u].exec
      BY <1>15, <1>17
    <2> QED  BY <2>1 DEF NoNews
  <1> QED  BY <1>15, <1>17, <1>18, <1>19

-----------------------------------------------------------------------------
(* The executor's steps *)

\* A worker takes a job: it holds it from there on.
LEMMA TakeStep ==
  ASSUME AgentInv, NEW w \in Workers, NEW t \in Turns, Take(w, t)
  PROVE  AgentInv' /\ Quiet /\ NoNews
  <1>1. /\ worker[w].pc = "idle" /\ job[t].st = "waiting" /\ Surroundings
        /\ worker[w] \in WorkerRecord
    BY SameSurroundings, Types DEF Take
  <1>2. TurnRow(t) /\ job[t].by = Nobody /\ (~stalled => TurnInv(t))
    BY <1>1 DEF AgentInv, RowInv, TurnRow, LiveInv
  <1>3. Mine(w, t)
    BY <1>2 DEF Mine
  <1>4. PICK j : j = job[t]
    OBVIOUS
  <1>5. j \in JobRecord
    BY <1>4, Types
  <1>6. CASE job' = [job EXCEPT ![t] = [NewJob EXCEPT !.st = "done"]] /\ turn' = turn
             /\ worker' = worker
    <2>1. PICK d : d = [NewJob EXCEPT !.st = "done"]
      OBVIOUS
    <2>2. d = [st |-> "done", by |-> Nobody, tries |-> 0, stalls |-> 0]
      BY <2>1 DEF NewJob
    <2>3. job' = [job EXCEPT ![t] = d] /\ d \in JobRecord
      <3>1. job' = [job EXCEPT ![t] = d]
        BY <1>6, <2>1
      <3> QED  BY <2>2, <3>1 DEF JobRecord
    <2>4. turn' \in [Turns -> TurnRecord] /\ (\A u \in Turns : Ended(u))
          /\ Quiet /\ NoNews /\ Grows /\ Spares
      BY <1>6, RowsStay
    <2>5. WorkShape(w, t)
      BY <1>1, <1>6, <2>3, <2>4, Types DEF WorkShape
    <2>6. TurnRow(t)' /\ (~stalled' => TurnInv(t)')
      BY <1>1, <1>2, <1>6, <2>2, <2>3, Types DEF TurnRow, TurnInv, Status, Surroundings
    <2>7. WorkerRow(w)' /\ WorkerInv(w)'
      BY <1>1, <1>6 DEF WorkerRow, WorkerInv, AtWork
    <2>8. ~stalled' => SurvivorInv'
      BY <1>1, <2>4, SparedSurvivor DEF Surroundings
    <2> QED  BY <1>3, <2>4, <2>5, <2>6, <2>7, <2>8, WorkStep
  <1>7. ASSUME Status(t) \in {"queued", "tool_planned"}, turn' = Claimed(t),
               job' = [job EXCEPT ![t].st = "active", ![t].by = w],
               NEW r \in WorkerRecord, worker' = [worker EXCEPT ![w] = r], r.turn = t,
               \/ r.pc = "tool" /\ turn[t].exec # <<>>
               \/ r.pc \in {"ask", "commit"} /\ turn[t].exec = <<>>
        PROVE  AgentInv' /\ Quiet /\ NoNews
    <2>1. /\ turn' \in [Turns -> TurnRecord] /\ Quiet /\ NoNews /\ Grows /\ Spares
          /\ \A u \in Turns \ {t} : turn'[u] = turn[u] /\ Ended(u)
          /\ turn'[t].status = "running" /\ turn'[t].stale = FALSE
          /\ turn'[t].exec = turn[t].exec /\ turn'[t].final = turn[t].final
      BY <1>7, ClaimedRow DEF Status
    <2>2. PICK k : k = [j EXCEPT !.st = "active", !.by = w]
      OBVIOUS
    <2>3. k = [st |-> "active", by |-> w, tries |-> j.tries, stalls |-> j.stalls]
      BY <1>5, <2>2 DEF JobRecord
    <2>4. job' = [job EXCEPT ![t] = k]
      <3>1. PICK us : us = [job EXCEPT ![t].st = "active"]
        OBVIOUS
      <3>2. us = [job EXCEPT ![t] = [j EXCEPT !.st = "active"]]
        BY <1>4, <3>1
      <3>3. us[t] = [j EXCEPT !.st = "active"]
        BY <3>2, Types
      <3>4. job' = [us EXCEPT ![t].by = w]
        BY <1>7, <3>1
      <3>5. job' = [us EXCEPT ![t] = [us[t] EXCEPT !.by = w]]
        BY <3>4
      <3>6. job' = [us EXCEPT ![t] = k]
        BY <2>2, <3>3, <3>5
      <3> QED  BY <3>2, <3>6
    <2>5. k \in JobRecord /\ k.by = w /\ k.st = "active"
      BY <1>5, <2>3 DEF JobRecord
    <2>6. /\ worker' \in [Workers -> WorkerRecord] /\ worker'[w] = r
          /\ \A v \in Workers \ {w} : worker'[v] = worker[v]
      BY <1>7, WorkerSet, Types
    <2>7. /\ job' \in [Turns -> JobRecord] /\ job'[t] = k
          /\ \A u \in Turns \ {t} : job'[u] = job[u]
      BY <2>4, <2>5, Types
    <2>8. WorkShape(w, t)
      BY <1>1, <1>7, <2>1, <2>6, <2>7 DEF WorkShape
    <2>9. TurnRow(t)'
      BY <1>2, <1>7, <2>1, <2>5, <2>7 DEF TurnRow, Status
    <2>10. Len(turn[t].exec) \in Nat /\ (turn[t].exec = <<>> <=> Len(turn[t].exec) = 0)
      BY Lengths, Types
    <2>11. WorkerRow(w)'
      BY <1>7, <2>1, <2>6, <2>10 DEF WorkerRow, Status
    <2>12. ASSUME ~stalled' PROVE TurnInv(t)' /\ WorkerInv(w)' /\ SurvivorInv'
      <3>1. ~stalled
        BY <1>1, <2>12 DEF Surroundings
      <3>2. TurnInv(t)'
        BY <1>2, <2>1, <3>1 DEF TurnInv
      <3>3. SurvivorInv'
        BY <1>1, <2>1, <3>1, SparedSurvivor DEF Surroundings
      <3>4. r.pc \in {"ask", "commit"} => Settled(t)'
        BY <1>7, <2>1, <2>10 DEF Settled
      <3>5. WorkerInv(w)'
        BY <1>7, <2>1, <2>5, <2>6, <2>7, <3>4 DEF WorkerInv, Deciding, Status
      <3> QED  BY <3>2, <3>3, <3>5
    <2> QED  BY <1>3, <2>1, <2>8, <2>9, <2>11, <2>12, WorkStep
  <1>8. CASE /\ Status(t) \in {"queued", "tool_planned"}
             /\ job' = [job EXCEPT ![t].st = "active", ![t].by = w]
             /\ turn' = Claimed(t)
             /\ \/ /\ turn[t].exec # <<>>
                   /\ worker' = [worker EXCEPT ![w] = Enter(t, "tool", "recovery")]
                \/ /\ turn[t].exec = <<>>
                   /\ worker' = [worker EXCEPT ![w] = Enter(t, "ask", "fresh")]
                \/ /\ turn[t].exec = <<>>
                   /\ \E d \in {"handoff", "silent"} \cap scenario.answers[t] :
                         worker' = [worker EXCEPT ![w] =
                             [Enter(t, "commit", "triage") EXCEPT !.dec = d]]
    <2>1. CASE /\ turn[t].exec # <<>>
               /\ worker' = [worker EXCEPT ![w] = Enter(t, "tool", "recovery")]
      <3>1. PICK r : r = Enter(t, "tool", "recovery")
        OBVIOUS
      <3>2. r \in WorkerRecord /\ r.pc = "tool" /\ r.turn = t
        BY <3>1, EnterFields
      <3> QED  BY <1>7, <1>8, <2>1, <3>1, <3>2
    <2>2. CASE /\ turn[t].exec = <<>>
               /\ worker' = [worker EXCEPT ![w] = Enter(t, "ask", "fresh")]
      <3>1. PICK r : r = Enter(t, "ask", "fresh")
        OBVIOUS
      <3>2. r \in WorkerRecord /\ r.pc = "ask" /\ r.turn = t
        BY <3>1, EnterFields
      <3> QED  BY <1>7, <1>8, <2>2, <3>1, <3>2
    <2>3. ASSUME turn[t].exec = <<>>, NEW d \in {"handoff", "silent"},
                 worker' = [worker EXCEPT ![w] =
                             [Enter(t, "commit", "triage") EXCEPT !.dec = d]]
          PROVE  AgentInv' /\ Quiet /\ NoNews
      <3>1. PICK e : e = Enter(t, "commit", "triage")
        OBVIOUS
      <3>2. PICK r : r = [e EXCEPT !.dec = d]
        OBVIOUS
      <3>3. r = [pc |-> "commit", turn |-> t, path |-> "triage", dec |-> d,
                 newer |-> {}, claim |-> <<0, 0>>, ok |-> TRUE, cont |-> FALSE]
        <4>1. e = [pc |-> "commit", turn |-> t, path |-> "triage", dec |-> "none",
                   newer |-> {}, claim |-> <<0, 0>>, ok |-> TRUE, cont |-> FALSE]
          BY <3>1, EnterFields
        <4> QED  BY <3>2, <4>1
      <3>4. r \in WorkerRecord /\ r.pc = "commit" /\ r.turn = t
        BY <3>3 DEF WorkerRecord, Dispositions, Decisions
      <3>5. worker' = [worker EXCEPT ![w] = r]
        BY <2>3, <3>1, <3>2
      <3> QED  BY <1>7, <1>8, <2>3, <3>4, <3>5
    <2> QED  BY <1>8, <2>1, <2>2, <2>3
  <1> QED  BY <1>6, <1>8 DEF Take

\* The policy blocks the turn.
LEMMA AskBlockedStep ==
  ASSUME AgentInv, NEW w \in Workers, AskBlocked(w)
  PROVE  AgentInv' /\ Quiet /\ NoNews
  <1>1. Surroundings /\ AtWork(w)
    BY SameSurroundings DEF AskBlocked, AtWork
  <1>2. PICK to \in Fates : \/ Suppress(w, to)
                            \/ JobFails(w) /\ turn' = turn
    BY DEF AskBlocked, Fates, Terminal
  <1>3. CASE Suppress(w, to)
    BY <1>1, <1>3, SuppressStep
  <1>4. CASE JobFails(w) /\ turn' = turn
    <2>1. PICK t \in Turns : t = worker[w].turn
      BY <1>1, Types DEF AtWork
    <2> QED  BY <1>1, <1>4, <2>1, FailStep
  <1> QED  BY <1>2, <1>3, <1>4

\* The model, a commit, a tool's result or the policy's reading fails.
LEMMA FailsStep ==
  ASSUME AgentInv, NEW w \in Workers, Fails(w) \/ AskFails(w)
  PROVE  AgentInv' /\ Quiet /\ NoNews
  <1>1. Surroundings /\ AtWork(w)
    BY FaultSurroundings DEF Fails, AskFails, AtWork
  <1>2. CASE Fails(w)
    BY <1>1, <1>2, ThrowStep DEF Fails
  <1>3. CASE AskFails(w)
    <2>1. PICK t \in Turns : t = worker[w].turn
      BY <1>1, Types DEF AtWork
    <2>2. JobFails(w) /\ turn' = turn
      BY <1>3 DEF AskFails
    <2> QED  BY <1>1, <2>1, <2>2, FailStep
  <1> QED  BY <1>2, <1>3

\* A worker goes on to ask, or to wait for the model.
LEMMA GotoFields ==
  ASSUME AgentInv, NEW w \in Workers, NEW pc \in {"ask", "model"}, Goto(w, pc)
  PROVE  \E r \in WorkerRecord : worker' = [worker EXCEPT ![w] = r] /\ r.pc = pc
                                 /\ r.turn = worker[w].turn
  <1> PICK x : x = worker[w]
    OBVIOUS
  <1>1. x \in WorkerRecord
    BY Types
  <1>2. PICK r : r = [x EXCEPT !.pc = pc]
    OBVIOUS
  <1>3. worker' = [worker EXCEPT ![w].pc = pc]
    BY DEF Goto
  <1>4. worker' = [worker EXCEPT ![w] = [x EXCEPT !.pc = pc]]
    BY <1>3
  <1>5. worker' = [worker EXCEPT ![w] = r]
    BY <1>2, <1>4
  <1>6. r \in WorkerRecord /\ r.pc = pc /\ r.turn = x.turn
    BY <1>1, <1>2 DEF WorkerRecord
  <1> QED  BY <1>5, <1>6

\* The renewal of the lease.
LEMMA RefreshedRow ==
  ASSUME AgentInv, NEW t \in Turns, turn[t].status \in Owned,
         turn' = [turn EXCEPT ![t].stale = FALSE]
  PROVE  /\ turn' \in [Turns -> TurnRecord] /\ Quiet /\ NoNews /\ Grows /\ Spares
         /\ \A u \in Turns \ {t} : turn'[u] = turn[u] /\ Ended(u)
         /\ turn'[t].status = turn[t].status /\ turn'[t].stale = FALSE
         /\ turn'[t].exec = turn[t].exec /\ turn'[t].final = turn[t].final
  <1> PICK x : x = turn[t]
    OBVIOUS
  <1>1. x \in TurnRecord /\ Len(x.exec) \in Nat
    BY Lengths, Types
  <1>2. PICK r : r = [x EXCEPT !.stale = FALSE]
    OBVIOUS
  <1>3. turn' = [turn EXCEPT ![t] = [x EXCEPT !.stale = FALSE]]
    OBVIOUS
  <1>4. turn' = [turn EXCEPT ![t] = r]
    BY <1>2, <1>3
  <1>5. /\ r \in TurnRecord /\ r.status = x.status /\ r.stale = FALSE /\ r.exec = x.exec
        /\ r.final = x.final /\ r.steps = x.steps /\ r.note = x.note
    BY <1>1, <1>2 DEF TurnRecord
  <1>6. r.status # "superseded" /\ r.status # "absent" /\ x.status \notin Fates
    BY <1>5 DEF Owned, Fates, Terminal
  <1>7. Len(turn[t].exec) <= Len(r.exec)
    BY <1>1, <1>5
  <1>8. /\ turn' \in [Turns -> TurnRecord] /\ turn'[t] = r /\ Grows /\ Spares
        /\ \A u \in Turns \ {t} : turn'[u] = turn[u] /\ Ended(u)
    BY <1>4, <1>5, <1>6, <1>7, RowSet
  <1>9. NoNews
    <2>1. \A u \in Turns : turn'[u].exec = turn[u].exec
      BY <1>5, <1>8
    <2> QED  BY <2>1 DEF NoNews
  <1>10. Quiet
    <2>1. /\ r.final = turn[t].final /\ r.steps = turn[t].steps /\ r.note = turn[t].note
          /\ r.status = turn[t].status
      BY <1>5
    <2> QED  BY <1>8, <2>1 DEF Quiet
  <1> QED  BY <1>5, <1>8, <1>9, <1>10

\* The lease is renewed, or the attempt is over.
LEMMA AskStep ==
  ASSUME AgentInv, NEW w \in Workers, Ask(w)
  PROVE  AgentInv' /\ Quiet /\ NoNews
  <1>1. Surroundings /\ AtWork(w) /\ worker[w].pc = "ask" /\ worker[w].pc # "idle"
    BY SameSurroundings DEF Ask, AtWork
  <1>2. PICK t \in Turns : t = worker[w].turn
    BY <1>1, Types
  <1>3. TurnRow(t) /\ WorkerRow(w) /\ (~stalled => TurnInv(t) /\ WorkerInv(w))
    BY <1>1, <1>2, Now
  <1>4. CASE turn' = turn /\ job' = job /\ worker' = [worker EXCEPT ![w] = After(t, FALSE)]
    <2>1. Ends(turn, turn', Fates)
      BY <1>4, EndsStay, Types
    <2> QED  BY <1>1, <1>2, <1>4, <2>1, EndsStep
  <1>5. CASE Throw(w)
    BY <1>1, <1>5, ThrowStep
  <1>6. CASE /\ Status(t) \in Owned /\ turn' = [turn EXCEPT ![t].stale = FALSE]
             /\ Goto(w, "model") /\ job' = job
    <2>1. /\ turn' \in [Turns -> TurnRecord] /\ Quiet /\ NoNews /\ Grows /\ Spares
          /\ \A u \in Turns \ {t} : Ended(u)
          /\ turn'[t].status = turn[t].status /\ turn'[t].stale = FALSE
          /\ turn'[t].exec = turn[t].exec /\ turn'[t].final = turn[t].final
      BY <1>6, RefreshedRow DEF Status
    <2>2. PICK r \in WorkerRecord : worker' = [worker EXCEPT ![w] = r] /\ r.pc = "model"
                                    /\ r.turn = worker[w].turn
      BY <1>6, GotoFields
    <2>3. worker'[w] = r
      BY <2>2, Types
    <2>4. /\ turn'[t].final => turn'[t].status = "completed"
          /\ turn'[t].status = "tool_planned" => Len(turn'[t].exec) > 0
      BY <1>3, <2>1 DEF TurnRow, Status
    <2>5. WorkerRow(w)'
      BY <1>2, <1>6, <2>1, <2>2, <2>3 DEF WorkerRow, Status, Owned
    <2>6. ASSUME ~stalled' PROVE WorkerInv(w)' /\ TurnInv(t)' /\ SurvivorInv'
      <3>1. ~stalled
        BY <1>1, <2>6 DEF Surroundings
      <3>2. TurnInv(t)' /\ SurvivorInv'
        BY <1>1, <1>3, <2>1, <3>1, SparedSurvivor DEF TurnInv, Surroundings
      <3>3. Settled(t)' /\ job[t].by = w /\ turn[t].status = "running"
        <4>1. Settled(t) /\ job[t].by = w /\ turn[t].status # "tool_planned"
          BY <1>1, <1>2, <1>3, <3>1 DEF WorkerInv, Status
        <4> QED  BY <1>6, <2>1, <4>1 DEF Settled, Owned, Status
      <3>4. WorkerInv(w)'
        BY <1>2, <1>6, <2>1, <2>2, <2>3, <3>3 DEF WorkerInv, Status
      <3> QED  BY <3>2, <3>4
    <2>7. AgentInv'
      BY <1>1, <1>2, <1>6, <2>1, <2>2, <2>4, <2>5, <2>6, StayStep
    <2> QED  BY <2>1, <2>7
  <1> QED  BY <1>2, <1>4, <1>5, <1>6 DEF Ask

\* What is committed has a disposition.
LEMMA DispositionTyped ==
  ASSUME NEW d \in Decisions \cup {"tool_limit", "step", "discard"}, NEW n
  PROVE  Disposition(d, n) \in Dispositions
  BY DEF Disposition, Dispositions, Decisions

\* The verdict is one of the kinds of answer.
LEMMA VerdictTyped ==
  ASSUME NEW d \in Decisions \cup {"tool_limit"}, NEW p
  PROVE  AbsorbVerdict(p, d) \in Decisions \cup {"tool_limit", "step", "discard"}
  BY DEF AbsorbVerdict, Decisions

\* The worker's record inside a transaction.
LEMMA BeginFields ==
  ASSUME AgentInv, NEW w \in Workers, NEW d \in Dispositions, worker' = Beginning(w, d)
  PROVE  \E r \in WorkerRecord : worker' = [worker EXCEPT ![w] = r] /\ r.pc = "tx"
                                 /\ r.turn = worker[w].turn /\ r.ok = contact
  <1> PICK x : x = worker[w]
    OBVIOUS
  <1> PICK c \in BOOLEAN : c = contact
    BY Types
  <1>1. x \in WorkerRecord
    BY Types
  <1>2. PICK r : r = [pc |-> "tx", turn |-> x.turn, path |-> x.path, dec |-> d,
                      newer |-> x.newer, claim |-> x.claim, ok |-> c, cont |-> x.cont]
    OBVIOUS
  <1>3. PICK a : a = [x EXCEPT !.dec = d]
    OBVIOUS
  <1>4. a = [pc |-> x.pc, turn |-> x.turn, path |-> x.path, dec |-> d,
             newer |-> x.newer, claim |-> x.claim, ok |-> x.ok, cont |-> x.cont]
    BY <1>1, <1>3 DEF WorkerRecord
  <1>5. PICK us : us = [worker EXCEPT ![w].dec = d]
    OBVIOUS
  <1>6. us = [worker EXCEPT ![w] = [x EXCEPT !.dec = d]]
    BY <1>5
  <1>7. us = [worker EXCEPT ![w] = a] /\ us[w] = a
    BY <1>3, <1>6, Types
  <1>8. PICK b : b = [a EXCEPT !.ok = c]
    OBVIOUS
  <1>9. b = [pc |-> x.pc, turn |-> x.turn, path |-> x.path, dec |-> d,
             newer |-> x.newer, claim |-> x.claim, ok |-> c, cont |-> x.cont]
    BY <1>4, <1>8
  <1>10. PICK vs : vs = [us EXCEPT ![w].ok = c]
    OBVIOUS
  <1>11. vs = [us EXCEPT ![w] = [a EXCEPT !.ok = c]]
    BY <1>7, <1>10
  <1>12. vs = [us EXCEPT ![w] = b]
    BY <1>8, <1>11
  <1>13. vs = [worker EXCEPT ![w] = b] /\ vs[w] = b
    BY <1>7, <1>12, Types
  <1>14. worker' = [vs EXCEPT ![w].pc = "tx"]
    BY <1>5, <1>10 DEF Beginning
  <1>15. worker' = [vs EXCEPT ![w] = [b EXCEPT !.pc = "tx"]]
    BY <1>13, <1>14
  <1>16. PICK e : e = [b EXCEPT !.pc = "tx"]
    OBVIOUS
  <1>17. e = r
    <2>1. e = [pc |-> "tx", turn |-> x.turn, path |-> x.path, dec |-> d,
               newer |-> x.newer, claim |-> x.claim, ok |-> c, cont |-> x.cont]
      BY <1>9, <1>16
    <2> QED  BY <1>2, <2>1
  <1>18. worker' = [vs EXCEPT ![w] = r]
    BY <1>15, <1>16, <1>17
  <1>19. worker' = [worker EXCEPT ![w] = r]
    BY <1>13, <1>18
  <1>20. r \in WorkerRecord /\ r.pc = "tx" /\ r.turn = x.turn /\ r.ok = c
    BY <1>1, <1>2 DEF WorkerRecord
  <1> QED  BY <1>19, <1>20

\* The transaction of the commit begins.
LEMMA BeginsStep ==
  ASSUME AgentInv, NEW w \in Workers, worker[w].pc \in {"model", "commit"},
         NEW d \in Dispositions, worker' = Beginning(w, d), job' = job, turn' = turn,
         Surroundings
  PROVE  AgentInv' /\ Quiet /\ NoNews
  <1>1. AtWork(w) /\ worker[w].pc # "idle"
    BY DEF AtWork
  <1>2. PICK t \in Turns : t = worker[w].turn
    BY <1>1, Types
  <1>3. TurnRow(t) /\ WorkerRow(w) /\ (~stalled => TurnInv(t) /\ WorkerInv(w))
    BY <1>1, <1>2, Now
  <1>4. PICK r \in WorkerRecord : worker' = [worker EXCEPT ![w] = r] /\ r.pc = "tx"
                                  /\ r.turn = t /\ r.ok = contact
    BY <1>2, BeginFields
  <1>5. worker'[w] = r
    BY <1>4, Types
  <1>6. /\ turn' \in [Turns -> TurnRecord] /\ \A u \in Turns : Ended(u)
        /\ Quiet /\ NoNews /\ Grows /\ Spares
        /\ turn'[t].final => turn'[t].status = "completed"
        /\ turn'[t].status = "tool_planned" => Len(turn'[t].exec) > 0
    BY <1>3, RowsStay
  <1>7. WorkerRow(w)'
    BY <1>1, <1>2, <1>3, <1>4, <1>5 DEF WorkerRow, Status
  <1>8. ASSUME ~stalled' PROVE WorkerInv(w)' /\ TurnInv(t)' /\ SurvivorInv'
    <2>1. ~stalled /\ contact' = contact
      BY <1>8 DEF Surroundings
    <2>2. TurnInv(t)' /\ SurvivorInv'
      BY <1>3, <1>6, <2>1, SparedSurvivor DEF TurnInv, Surroundings
    <2>3. WorkerInv(w)'
      <3>1. /\ job[t].by = w /\ ~turn[t].stale /\ Settled(t)
            /\ Status(t) \in {"running"} \cup Terminal
        BY <1>1, <1>2, <1>3, <2>1 DEF WorkerInv, Deciding
      <3> QED  BY <1>4, <1>5, <2>1, <3>1 DEF WorkerInv, Settled, Status
    <2> QED  BY <2>2, <2>3
  <1>9. AgentInv'
    BY <1>1, <1>2, <1>4, <1>6, <1>7, <1>8, StayStep
  <1> QED  BY <1>6, <1>9

\* The commit after an absorption or a triage begins.
LEMMA BeginStep ==
  ASSUME AgentInv, NEW w \in Workers, Begin(w)
  PROVE  AgentInv' /\ Quiet /\ NoNews
  <1>1. worker[w].dec \in Dispositions
    BY Types DEF WorkerRecord
  <1>2. Surroundings
    BY SameSurroundings DEF Begin
  <1> QED  BY <1>1, <1>2, BeginsStep DEF Begin

\* The model answers: newer turns are there to absorb, or the commit begins.
LEMMA DecideStep ==
  ASSUME AgentInv, NEW w \in Workers, NEW d \in Decisions, Decide(w, d)
  PROVE  AgentInv' /\ Quiet /\ NoNews
  <1>1. worker[w].pc = "model" /\ AtWork(w) /\ worker[w].pc # "idle"
    BY DEF Decide, AtWork
  <1>2. PICK t \in Turns : t = worker[w].turn
    BY <1>1, Types
  <1>3. turn' = turn /\ job' = job /\ (stalled' <=> stalled \/ seen # {})
    BY Types DEF Decide
  <1>4. Surroundings
    BY <1>3, Types DEF Decide, Surroundings, desk, switches
  <1>5. PICK g \in Decisions \cup {"tool_limit"} :
           \/ worker' = Beginning(w, Disposition(g, turn[t].steps))
           \/ \E s \in SUBSET NewerActive(t) :
                 worker' = [worker EXCEPT ![w].newer = s, ![w].pc = "absorb",
                       ![w].dec = Disposition(AbsorbVerdict(worker[w].path, g),
                                              turn[t].steps)]
    BY <1>2 DEF Decide
  <1>6. CASE worker' = Beginning(w, Disposition(g, turn[t].steps))
    <2>1. Disposition(g, turn[t].steps) \in Dispositions
      BY DispositionTyped
    <2> QED  BY <1>1, <1>3, <1>4, <1>6, <2>1, BeginsStep
  <1>7. ASSUME NEW s \in SUBSET NewerActive(t),
               worker' = [worker EXCEPT ![w].newer = s, ![w].pc = "absorb",
                     ![w].dec = Disposition(AbsorbVerdict(worker[w].path, g),
                                            turn[t].steps)]
        PROVE  AgentInv'
    <2> PICK x : x = worker[w]
      OBVIOUS
    <2>1. x \in WorkerRecord /\ x.turn = t
      BY <1>2, Types
    <2>2. PICK e : e = Disposition(AbsorbVerdict(x.path, g), turn[t].steps)
      OBVIOUS
    <2>3. e \in Dispositions
      BY <2>2, VerdictTyped, DispositionTyped
    <2>4. PICK r : r = [pc |-> "absorb", turn |-> x.turn, path |-> x.path, dec |-> e,
                        newer |-> s, claim |-> x.claim, ok |-> x.ok, cont |-> x.cont]
      OBVIOUS
    <2>5. s \subseteq Turns /\ \A u \in s : t < u
      BY Types DEF NewerActive
    <2>6. r \in WorkerRecord /\ r.pc = "absorb" /\ r.turn = t /\ r.newer = s
      BY <2>1, <2>3, <2>4, <2>5 DEF WorkerRecord
    <2>7. worker' = [worker EXCEPT ![w] = r]
      <3>1. PICK a : a = [x EXCEPT !.newer = s]
        OBVIOUS
      <3>2. a = [pc |-> x.pc, turn |-> x.turn, path |-> x.path, dec |-> x.dec,
                 newer |-> s, claim |-> x.claim, ok |-> x.ok, cont |-> x.cont]
        BY <2>1, <3>1 DEF WorkerRecord
      <3>3. PICK us : us = [worker EXCEPT ![w].newer = s]
        OBVIOUS
      <3>4. us = [worker EXCEPT ![w] = [x EXCEPT !.newer = s]]
        BY <3>3
      <3>5. us = [worker EXCEPT ![w] = a] /\ us[w] = a
        BY <3>1, <3>4, Types
      <3>6. PICK b : b = [a EXCEPT !.pc = "absorb"]
        OBVIOUS
      <3>7. b = [pc |-> "absorb", turn |-> x.turn, path |-> x.path, dec |-> x.dec,
                 newer |-> s, claim |-> x.claim, ok |-> x.ok, cont |-> x.cont]
        BY <3>2, <3>6
      <3>8. PICK vs : vs = [us EXCEPT ![w].pc = "absorb"]
        OBVIOUS
      <3>9. vs = [us EXCEPT ![w] = [a EXCEPT !.pc = "absorb"]]
        BY <3>5, <3>8
      <3>10. vs = [us EXCEPT ![w] = b]
        BY <3>6, <3>9
      <3>11. vs = [worker EXCEPT ![w] = b] /\ vs[w] = b
        BY <3>5, <3>10, Types
      <3>12. worker' = [vs EXCEPT ![w].dec = e]
        BY <1>7, <2>2, <3>3, <3>8
      <3>13. worker' = [vs EXCEPT ![w] = [b EXCEPT !.dec = e]]
        BY <3>11, <3>12
      <3>14. PICK c : c = [b EXCEPT !.dec = e]
        OBVIOUS
      <3>15. c = r
        <4>1. c = [pc |-> "absorb", turn |-> x.turn, path |-> x.path, dec |-> e,
                   newer |-> s, claim |-> x.claim, ok |-> x.ok, cont |-> x.cont]
          BY <3>7, <3>14
        <4> QED  BY <2>4, <4>1
      <3>16. worker' = [vs EXCEPT ![w] = r]
        BY <3>13, <3>14, <3>15
      <3> QED  BY <3>11, <3>16
    <2>8. worker'[w] = r
      BY <2>7, Types
    <2>9. TurnRow(t) /\ WorkerRow(w) /\ (~stalled => TurnInv(t) /\ WorkerInv(w))
      BY <1>1, <1>2, Now
    <2>10. /\ turn' \in [Turns -> TurnRecord] /\ \A u \in Turns : Ended(u)
           /\ Grows /\ Spares
           /\ turn'[t].final => turn'[t].status = "completed"
           /\ turn'[t].status = "tool_planned" => Len(turn'[t].exec) > 0
      BY <1>3, <2>9, RowsStay
    <2>11. WorkerRow(w)'
      BY <1>1, <1>2, <1>3, <2>5, <2>6, <2>8, <2>9 DEF WorkerRow, Status
    <2>12. ASSUME ~stalled' PROVE WorkerInv(w)' /\ TurnInv(t)' /\ SurvivorInv'
      <3>1. ~stalled /\ seen' = {}
        BY <1>3, <1>4, <2>12 DEF Surroundings
      <3>2. TurnInv(t)' /\ SurvivorInv'
        BY <1>3, <1>4, <2>9, <2>10, <3>1, SparedSurvivor DEF TurnInv, Surroundings
      <3>3. /\ job[t].by = w /\ ~turn[t].stale /\ Settled(t)
            /\ Status(t) \in {"running"} \cup Terminal
        BY <1>1, <1>2, <2>9, <3>1 DEF WorkerInv, Deciding, AtWork
      <3>4. WorkerInv(w)'
        BY <1>3, <2>6, <2>8, <3>1, <3>3 DEF WorkerInv, Settled, Status
      <3> QED  BY <3>2, <3>4
    <2> QED  BY <1>1, <1>2, <1>3, <1>4, <2>6, <2>7, <2>10, <2>11, <2>12, StayStep
  <1>8. Quiet /\ NoNews
    BY <1>3, RowsStay
  <1> QED  BY <1>5, <1>6, <1>7, <1>8

\* A worker absorbs a newer turn; its own, if it was not absorbed itself, is
\* left to answer.
LEMMA AbsorbStep ==
  ASSUME AgentInv, NEW w \in Workers, NEW u \in Turns, Absorb(w, u)
  PROVE  AgentInv' /\ Quiet /\ NoNews
  <1> PICK x : x = worker[w]
    OBVIOUS
  <1>1. x.pc = "absorb" /\ AtWork(w) /\ x.pc # "idle" /\ x \in WorkerRecord
    BY Types DEF Absorb, AtWork
  <1>2. PICK t \in Turns : t = x.turn
    BY <1>1, Types
  <1>3. TurnRow(t) /\ WorkerRow(w) /\ (~stalled => TurnInv(t) /\ WorkerInv(w))
    BY <1>1, <1>2, Now
  <1>4. u \in x.newer /\ t < u /\ t # u
    BY <1>1, <1>2, <1>3, Types DEF Absorb, WorkerRow
  <1>5. Surroundings /\ job' = job /\ seen' = seen /\ contact' = contact
    BY Types DEF Absorb, Surroundings, desk, switches
  <1>6. /\ Ends(turn, turn', {"superseded"})
        /\ \A v \in Turns \ {u} : turn'[v] = turn[v]
    BY StatusSets, TransitionEnds, Types DEF Absorb, Terminal
  <1>7. turn' \in [Turns -> TurnRecord] /\ (\A v \in Turns : Ended(v)) /\ Quiet /\ NoNews
        /\ Grows
    <2>1. Ends(turn, turn', Terminal)
      BY <1>6, EndsWiden DEF Terminal
    <2> QED  BY <2>1, EndsQuiet DEF AgentInv, Ends, Ended
  <1>8. turn'[t] = turn[t]
    BY <1>2, <1>4, <1>6
  <1>9. Status(t) # "absent"
    BY <1>1, <1>2, <1>3 DEF WorkerRow
  <1>10. ASSUME ~stalled PROVE SurvivorInv'
    <2> SUFFICES ASSUME ~chained'
        PROVE  /\ \E v \in Turns : Status(v)' \notin {"absent", "superseded"}
               /\ seen' # {} => Given'
      BY DEF SurvivorInv
    <2>1. Status(t) # "superseded"
      BY <1>2, Types DEF Absorb
    <2>2. Status(t)' \notin {"absent", "superseded"}
      BY <1>8, <1>9, <2>1 DEF Status
    <2>3. seen # {} => Status(t) \in Terminal
      BY <1>1, <1>2, <1>3, <1>10 DEF WorkerInv
    <2>4. seen' # {} => Status(t)' \in Fates
      BY <1>5, <1>8, <2>1, <2>3 DEF Fates, Status
    <2> QED  BY <2>2, <2>4 DEF Given
  <1>11. /\ turn'[t].final => turn'[t].status = "completed"
         /\ turn'[t].status = "tool_planned" => Len(turn'[t].exec) > 0
    BY <1>3, <1>8 DEF TurnRow, Status
  <1>12. CASE worker' = [worker EXCEPT ![w] = After(t, TRUE)]
    <2>1. ~stalled => /\ ~turn'[t].stale /\ Settled(t)' /\ TurnInv(t)'
      BY <1>1, <1>2, <1>3, <1>8 DEF WorkerInv, AtWork, Deciding, Settled, TurnInv
    <2>2. AgentInv'
      BY <1>1, <1>2, <1>5, <1>7, <1>10, <1>11, <1>12, <2>1, LoopStep
    <2> QED  BY <1>7, <2>2
  <1>13. ASSUME NEW pc \in {"absorb", "commit"},
                worker' = [worker EXCEPT ![w] = [x EXCEPT !.newer = @ \ {u}, !.pc = pc]]
         PROVE  AgentInv'
    <2>1. PICK r : r = [x EXCEPT !.newer = @ \ {u}, !.pc = pc]
      OBVIOUS
    <2>2. r = [pc |-> pc, turn |-> x.turn, path |-> x.path, dec |-> x.dec,
               newer |-> x.newer \ {u}, claim |-> x.claim, ok |-> x.ok, cont |-> x.cont]
      BY <1>1, <2>1 DEF WorkerRecord
    <2>3. r \in WorkerRecord /\ r.pc = pc /\ r.turn = t /\ r.newer \subseteq x.newer
      BY <1>1, <1>2, <2>2 DEF WorkerRecord
    <2>4. worker' = [worker EXCEPT ![w] = r] /\ worker'[w] = r
      BY <1>13, <2>1, Types
    <2>5. WorkerRow(w)'
      BY <1>1, <1>2, <1>3, <1>8, <1>9, <2>3, <2>4 DEF WorkerRow, Status
    <2>6. ASSUME ~stalled' PROVE WorkerInv(w)' /\ TurnInv(t)' /\ SurvivorInv'
      <3>1. ~stalled
        BY <1>5, <2>6 DEF Surroundings
      <3>2. TurnInv(t)' /\ SurvivorInv'
        BY <1>3, <1>8, <1>10, <3>1 DEF TurnInv
      <3>3. /\ job[t].by = w /\ ~turn[t].stale /\ Settled(t)
            /\ Status(t) \in {"running"} \cup Terminal
            /\ seen # {} => Status(t) \in Terminal
        BY <1>1, <1>2, <1>3, <3>1 DEF WorkerInv, AtWork, Deciding
      <3>4. WorkerInv(w)'
        BY <1>5, <1>8, <2>3, <2>4, <3>3 DEF WorkerInv, Settled, Status
      <3> QED  BY <3>2, <3>4
    <2> QED  BY <1>1, <1>2, <1>5, <1>7, <1>11, <2>3, <2>4, <2>5, <2>6, StayStep
  <1>14. \/ worker' = [worker EXCEPT ![w] = After(t, TRUE)]
         \/ \E pc \in {"absorb", "commit"} :
               worker' = [worker EXCEPT ![w] = [x EXCEPT !.newer = @ \ {u}, !.pc = pc]]
    <2>1. worker' = [worker EXCEPT ![w] =
              IF x.newer \ {u} = {} /\ x.dec = "discard" THEN After(x.turn, TRUE)
              ELSE [x EXCEPT !.newer = x.newer \ {u},
                             !.pc = IF x.newer \ {u} = {} THEN "commit" ELSE "absorb"]]
      BY DEF Absorb
    <2> QED  BY <1>2, <2>1
  <1> QED  BY <1>7, <1>12, <1>13, <1>14

-----------------------------------------------------------------------------
(* Tools *)

\* One execution of a turn is replaced.
Rewritten(t, k, e) ==
    /\ turn' \in [Turns -> TurnRecord] /\ Quiet /\ Grows /\ Spares
    /\ e.st # "succeeded" => NoNews
    /\ \A u \in Turns \ {t} : turn'[u] = turn[u] /\ Ended(u)
    /\ turn'[t].status = turn[t].status /\ turn'[t].stale = turn[t].stale
    /\ turn'[t].final = turn[t].final /\ Len(turn'[t].exec) = Len(turn[t].exec)
    /\ \A j \in 1..Len(turn[t].exec) :
          turn'[t].exec[j] = IF j = k THEN e ELSE turn[t].exec[j]

\* A new entry in the list of executions.
LEMMA ExecRow ==
  ASSUME AgentInv, NEW t \in Turns, NEW k \in 1..Len(turn[t].exec), NEW e \in Execution,
         turn' = [turn EXCEPT ![t].exec[k] = e]
  PROVE  Rewritten(t, k, e)
  <1> PICK x : x = turn[t]
    OBVIOUS
  <1>1. x \in TurnRecord /\ Len(x.exec) \in Nat /\ x.exec \in Seq(Execution)
    BY Lengths, Types
  <1>2. PICK q : q = [x.exec EXCEPT ![k] = e]
    OBVIOUS
  <1>3. /\ q \in Seq(Execution) /\ Len(q) = Len(x.exec)
        /\ \A j \in 1..Len(x.exec) : q[j] = IF j = k THEN e ELSE x.exec[j]
    BY <1>1, <1>2, ExceptSeq
  <1>4. PICK r : r = [x EXCEPT !.exec = q]
    OBVIOUS
  <1>5. turn' = [turn EXCEPT ![t] = r]
    <2>1. turn' = [turn EXCEPT ![t] = [x EXCEPT !.exec = [x.exec EXCEPT ![k] = e]]]
      OBVIOUS
    <2>2. turn' = [turn EXCEPT ![t] = [x EXCEPT !.exec = q]]
      BY <1>2, <2>1
    <2> QED  BY <1>4, <2>2
  <1>6. /\ r \in TurnRecord /\ r.exec = q /\ r.status = x.status /\ r.stale = x.stale
        /\ r.steps = x.steps /\ r.note = x.note /\ r.final = x.final
    BY <1>1, <1>3, <1>4 DEF TurnRecord
  <1>7. Len(turn[t].exec) <= Len(r.exec)
    BY <1>1, <1>3, <1>6
  <1>8. /\ turn' \in [Turns -> TurnRecord] /\ turn'[t] = r /\ Grows
        /\ \A u \in Turns \ {t} : turn'[u] = turn[u] /\ Ended(u)
    BY <1>5, <1>6, <1>7, RowSet
  <1>9. \A u \in Turns : /\ turn'[u].status = turn[u].status /\ turn'[u].final = turn[u].final
                         /\ turn'[u].steps = turn[u].steps /\ turn'[u].note = turn[u].note
    BY <1>6, <1>8
  <1>10. Spares /\ Quiet
    BY <1>9 DEF Spares, Quiet
  <1>11. ASSUME e.st # "succeeded" PROVE NoNews
    <2>1. ASSUME NEW u \in Turns, NEW j \in 1..Len(turn[u].exec),
                 turn'[u].exec[j].st = "succeeded"
          PROVE  turn[u].exec[j].st = "succeeded"
      <3>1. CASE u = t
        BY <1>3, <1>6, <1>8, <1>11, <2>1, <3>1
      <3>2. CASE u # t
        BY <1>8, <2>1, <3>2
      <3> QED  BY <3>1, <3>2
    <2> QED  BY <2>1 DEF NoNews
  <1> QED  BY <1>3, <1>6, <1>8, <1>10, <1>11 DEF Rewritten

\* A new status of an execution.
LEMMA StatusRow ==
  ASSUME AgentInv, NEW t \in Turns, NEW k \in 1..Len(turn[t].exec),
         NEW st \in {"expired", "succeeded", "failed"},
         turn' = [turn EXCEPT ![t].exec[k].st = st]
  PROVE  \E f \in Execution : f.st = st /\ Rewritten(t, k, f)
  <1>1. turn[t].exec \in Seq(Execution)
    BY Lengths, Types
  <1>2. PICK e \in Execution : e = turn[t].exec[k]
    BY <1>1, ElementOfSeq
  <1>3. PICK f : f = [e EXCEPT !.st = st]
    OBVIOUS
  <1>4. f \in Execution /\ f.st = st
    BY <1>3 DEF Execution
  <1>5. turn' = [turn EXCEPT ![t].exec[k] = f]
    <2>1. turn' = [turn EXCEPT ![t].exec[k] = [turn[t].exec[k] EXCEPT !.st = st]]
      OBVIOUS
    <2> QED  BY <1>2, <1>3, <2>1
  <1> QED  BY <1>4, <1>5, ExecRow

\* The claim of a tool, its reuse, or its owner's lease.
LEMMA ToolStep ==
  ASSUME AgentInv, NEW w \in Workers, Tool(w)
  PROVE  AgentInv' /\ Quiet /\ NoNews
  <1> PICK x : x = worker[w]
    OBVIOUS
  <1>1. x.pc = "tool" /\ AtWork(w) /\ x.pc # "idle" /\ x \in WorkerRecord /\ Surroundings
        /\ job' = job
    BY SameSurroundings, Types DEF Tool, AtWork
  <1>2. PICK t \in Turns : t = x.turn
    BY <1>1, Types
  <1>3. TurnRow(t) /\ WorkerRow(w) /\ (~stalled => TurnInv(t) /\ WorkerInv(w))
    BY <1>1, <1>2, Now
  <1>4. PICK k \in Nat : k = Len(turn[t].exec)
    BY Lengths, Types
  <1>5. k > 0 /\ k \in 1..Len(turn[t].exec)
    BY <1>1, <1>2, <1>3, <1>4 DEF WorkerRow
  <1>6. PICK e \in Execution : e = turn[t].exec[k]
    <2>1. turn[t].exec \in Seq(Execution)
      BY Lengths, Types
    <2> QED  BY <1>5, <2>1, ElementOfSeq
  <1>7. e.attempt + 1 \in Nat
    BY DEF Execution
  <1>8. CASE e.st = "running" /\ worker' = [worker EXCEPT ![w] = After(t, FALSE)] /\ turn' = turn
    <2>1. Ends(turn, turn', Fates)
      BY <1>8, EndsStay, Types
    <2> QED  BY <1>1, <1>2, <1>8, <2>1, EndsStep
  <1>9. CASE Finished(e) /\ Goto(w, "ask") /\ turn' = turn
    <2>1. PICK r \in WorkerRecord : worker' = [worker EXCEPT ![w] = r] /\ r.pc = "ask"
                                    /\ r.turn = t
      BY <1>2, <1>9, GotoFields
    <2>2. worker'[w] = r
      BY <2>1, Types
    <2>3. /\ turn' \in [Turns -> TurnRecord] /\ \A u \in Turns : Ended(u)
          /\ Quiet /\ NoNews /\ Grows /\ Spares
          /\ turn'[t].final => turn'[t].status = "completed"
          /\ turn'[t].status = "tool_planned" => Len(turn'[t].exec) > 0
      BY <1>3, <1>9, RowsStay
    <2>4. WorkerRow(w)'
      BY <1>1, <1>2, <1>3, <1>9, <2>1, <2>2 DEF WorkerRow, Status
    <2>5. ASSUME ~stalled' PROVE WorkerInv(w)' /\ TurnInv(t)' /\ SurvivorInv'
      <3>1. ~stalled
        BY <1>1, <2>5 DEF Surroundings
      <3>2. TurnInv(t)' /\ SurvivorInv'
        BY <1>1, <1>3, <1>9, <2>3, <3>1, SparedSurvivor DEF TurnInv, Surroundings
      <3>3. Settled(t)
        <4>1. \A j \in 1..k : j < k => Finished(turn[t].exec[j])
          BY <1>3, <1>4, <3>1 DEF TurnInv
        <4>2. Finished(turn[t].exec[k])
          BY <1>6, <1>9
        <4>3. \A j \in 1..k : j < k \/ j = k
          OBVIOUS
        <4>4. \A j \in 1..k : Finished(turn[t].exec[j])
          BY <4>1, <4>2, <4>3
        <4> QED  BY <1>4, <4>4 DEF Settled
      <3>4. job[t].by = w /\ ~turn[t].stale /\ Status(t) # "tool_planned"
        BY <1>1, <1>2, <1>3, <3>1 DEF WorkerInv, AtWork
      <3>5. WorkerInv(w)'
        BY <1>1, <1>9, <2>1, <2>2, <3>3, <3>4 DEF WorkerInv, Deciding, Settled, Status
      <3> QED  BY <3>2, <3>5
    <2>6. AgentInv'
      BY <1>1, <1>2, <1>9, <2>1, <2>3, <2>4, <2>5, StayStep
    <2> QED  BY <2>3, <2>6
  <1>10. CASE /\ turn' = [turn EXCEPT ![t].exec[k] = [st |-> "running", attempt |-> e.attempt + 1]]
              /\ worker' = [worker EXCEPT ![w].claim = <<k, e.attempt + 1>>, ![w].pc = "run"]
    <2>1. PICK f : f = [st |-> "running", attempt |-> e.attempt + 1]
      OBVIOUS
    <2>2. f \in Execution /\ f.st = "running" /\ f.attempt = e.attempt + 1
      BY <1>7, <2>1 DEF Execution
    <2>3. Rewritten(t, k, f) /\ f.st # "succeeded"
      <3>1. turn' = [turn EXCEPT ![t].exec[k] = f]
        BY <1>10, <2>1
      <3>2. k \in 1..Len(turn[t].exec)
        BY <1>4, <1>5
      <3> QED  BY <2>2, <3>1, <3>2, ExecRow
    <2>4. /\ turn' \in [Turns -> TurnRecord] /\ Quiet /\ Grows /\ Spares /\ NoNews
          /\ \A u \in Turns \ {t} : turn'[u] = turn[u] /\ Ended(u)
          /\ turn'[t].status = turn[t].status /\ turn'[t].stale = turn[t].stale
          /\ turn'[t].final = turn[t].final /\ Len(turn'[t].exec) = k
          /\ turn'[t].exec[k] = f
          /\ \A j \in 1..Len(turn[t].exec) : j # k => turn'[t].exec[j] = turn[t].exec[j]
      <3>1. k \in 1..Len(turn[t].exec) /\ Len(turn[t].exec) = k
        BY <1>4, <1>5
      <3> QED  BY <2>3, <3>1 DEF Rewritten
    <2>5. PICK c : c = <<k, e.attempt + 1>>
      OBVIOUS
    <2>6. c \in Nat \X Nat /\ c[1] = k /\ c[2] = e.attempt + 1
      BY <1>7, <2>5
    <2>7. PICK r : r = [pc |-> "run", turn |-> x.turn, path |-> x.path, dec |-> x.dec,
                        newer |-> x.newer, claim |-> c, ok |-> x.ok, cont |-> x.cont]
      OBVIOUS
    <2>8. r \in WorkerRecord /\ r.pc = "run" /\ r.turn = t /\ r.claim = c
      BY <1>1, <1>2, <2>6, <2>7 DEF WorkerRecord
    <2>9. worker' = [worker EXCEPT ![w] = r]
      <3>1. PICK a : a = [x EXCEPT !.claim = c]
        OBVIOUS
      <3>2. a = [pc |-> x.pc, turn |-> x.turn, path |-> x.path, dec |-> x.dec,
                 newer |-> x.newer, claim |-> c, ok |-> x.ok, cont |-> x.cont]
        BY <1>1, <3>1 DEF WorkerRecord
      <3>3. PICK us : us = [worker EXCEPT ![w].claim = c]
        OBVIOUS
      <3>4. us = [worker EXCEPT ![w] = [x EXCEPT !.claim = c]]
        BY <3>3
      <3>5. us = [worker EXCEPT ![w] = a] /\ us[w] = a
        BY <3>1, <3>4, Types
      <3>6. worker' = [us EXCEPT ![w].pc = "run"]
        BY <1>10, <2>5, <3>3
      <3>7. worker' = [us EXCEPT ![w] = [a EXCEPT !.pc = "run"]]
        BY <3>5, <3>6
      <3>8. PICK b : b = [a EXCEPT !.pc = "run"]
        OBVIOUS
      <3>9. b = r
        <4>1. b = [pc |-> "run", turn |-> x.turn, path |-> x.path, dec |-> x.dec,
                   newer |-> x.newer, claim |-> c, ok |-> x.ok, cont |-> x.cont]
          BY <3>2, <3>8
        <4> QED  BY <2>7, <4>1
      <3>10. worker' = [us EXCEPT ![w] = r]
        BY <3>7, <3>8, <3>9
      <3> QED  BY <3>5, <3>10
    <2>10. worker'[w] = r
      BY <2>9, Types
    <2>11. /\ turn'[t].final => turn'[t].status = "completed"
           /\ turn'[t].status = "tool_planned" => Len(turn'[t].exec) > 0
      BY <1>3, <1>5, <2>4 DEF TurnRow, Status
    <2>12. WorkerRow(w)'
      <3>1. Status(t) # "absent"
        BY <1>1, <1>2, <1>3 DEF WorkerRow
      <3>2. k \in 1..k
        BY <1>5
      <3> QED  BY <2>4, <2>6, <2>8, <2>10, <3>1, <3>2 DEF WorkerRow, Status
    <2>13. ASSUME ~stalled' PROVE WorkerInv(w)' /\ TurnInv(t)' /\ SurvivorInv'
      <3>1. ~stalled
        BY <1>1, <2>13 DEF Surroundings
      <3>2. SurvivorInv'
        BY <1>1, <2>4, <3>1, SparedSurvivor DEF Surroundings
      <3>3. TurnInv(t)'
        <4>1. \A j \in 1..k : j < k => Finished(turn[t].exec[j]) /\ j # k
          BY <1>3, <1>4, <3>1 DEF TurnInv
        <4>2. \A j \in 1..k : j < k => turn'[t].exec[j] = turn[t].exec[j]
          BY <1>4, <2>4
        <4> QED  BY <2>4, <4>1, <4>2 DEF TurnInv, Finished
      <3>4. job[t].by = w /\ ~turn[t].stale /\ Status(t) # "tool_planned"
        BY <1>1, <1>2, <1>3, <3>1 DEF WorkerInv, AtWork
      <3>5. WorkerInv(w)'
        BY <1>1, <2>2, <2>4, <2>6, <2>8, <2>10, <3>4 DEF WorkerInv, Deciding, Status
      <3> QED  BY <3>2, <3>3, <3>5
    <2>14. AgentInv'
      BY <1>1, <1>2, <2>4, <2>8, <2>9, <2>11, <2>12, <2>13, StayStep
    <2> QED  BY <2>4, <2>14
  <1>11. \/ /\ turn' = [turn EXCEPT ![t].exec[k] = [st |-> "running", attempt |-> e.attempt + 1]]
            /\ worker' = [worker EXCEPT ![w].claim = <<k, e.attempt + 1>>, ![w].pc = "run"]
         \/ Finished(e) /\ Goto(w, "ask") /\ turn' = turn
         \/ e.st = "running" /\ worker' = [worker EXCEPT ![w] = After(t, FALSE)] /\ turn' = turn
    BY <1>2, <1>4, <1>6 DEF Tool, Finished
  <1> QED  BY <1>8, <1>9, <1>10, <1>11

\* The result is stored under the claim, or the worker finds it is too late.
LEMMA ReturnShape ==
  ASSUME AgentInv, NEW w \in Workers, NEW t \in Turns, t = worker[w].turn,
         NEW result \in {"succeeded", "failed"}, ToolReturns(w, result)
  PROVE  \E k \in 1..Len(turn[t].exec), e \in Execution : Returned(w, t, k, e)
  <1>1. worker[w].pc = "run" /\ worker[w].pc # "idle"
    BY DEF ToolReturns
  <1>2. PICK k \in 1..Len(turn[t].exec) : k = worker[w].claim[1]
    BY <1>1, Now DEF WorkerRow
  <1>3. PICK e \in Execution : e = turn[t].exec[k]
    <2>1. turn[t].exec \in Seq(Execution)
      BY Lengths, Types
    <2> QED  BY <2>1, ElementOfSeq
  <1>4. CASE Fenced(e, worker[w].claim[2])
    <2>1. turn' = [turn EXCEPT ![t].exec[k].st = result]
      BY <1>2, <1>3, <1>4 DEF ToolReturns
    <2>2. PICK f \in Execution : f.st = result /\ Rewritten(t, k, f)
      <3>1. CASE result = "succeeded"
        <4>1. turn' = [turn EXCEPT ![t].exec[k].st = "succeeded"]
          BY <2>1, <3>1
        <4> QED  BY <3>1, <4>1, StatusRow
      <3>2. CASE result = "failed"
        <4>1. turn' = [turn EXCEPT ![t].exec[k].st = "failed"]
          BY <2>1, <3>2
        <4> QED  BY <3>2, <4>1, StatusRow
      <3> QED  BY <3>1, <3>2
    <2>3. Finished(turn'[t].exec[k])
      BY <2>2 DEF Rewritten, Finished
    <2>4. worker' = [worker EXCEPT ![w] = Enter(t, "ask", "recovery")]
      BY <1>2, <1>3, <1>4 DEF ToolReturns
    <2>5. \A j \in 1..Len(turn[t].exec) : j # k => turn'[t].exec[j] = turn[t].exec[j]
      BY <2>2 DEF Rewritten
    <2> QED  BY <1>2, <1>3, <1>4, <2>2, <2>3, <2>4, <2>5 DEF Returned, Rewritten
  <1>5. CASE ~Fenced(e, worker[w].claim[2])
    <2>1. turn' = turn
      BY <1>2, <1>3, <1>5 DEF ToolReturns
    <2>2. \/ worker' = [worker EXCEPT ![w] = After(t, FALSE)]
          \/ worker' = [worker EXCEPT ![w] = Enter(t, "ask", "recovery")]
      BY DEF ToolReturns
    <2> QED  BY <1>2, <1>3, <1>5, <2>1, <2>2 DEF Returned
  <1> QED  BY <1>4, <1>5

\* The worker asks the model after a tool.
LEMMA AskAgainStep ==
  ASSUME AgentInv, NEW w \in Workers, NEW t \in Turns, t = worker[w].turn, AtWork(w),
         NEW path \in {"fresh", "recovery"}, NEW pc \in {"ask", "tool"},
         worker' = [worker EXCEPT ![w] = Enter(t, pc, path)],
         job' = job, Surroundings, turn' \in [Turns -> TurnRecord], Grows, Spares,
         \A u \in Turns \ {t} : Ended(u),
         turn'[t].final => turn'[t].status = "completed",
         turn'[t].status = "tool_planned" => Len(turn'[t].exec) > 0,
         pc = "tool" => Len(turn'[t].exec) > 0,
         ~stalled => /\ TurnInv(t)' /\ ~turn'[t].stale /\ turn'[t].status # "tool_planned"
                     /\ pc = "ask" => Settled(t)'
  PROVE  AgentInv'
  <1>1. worker[w].pc # "idle"
    BY DEF AtWork
  <1>2. WorkerRow(w) /\ (~stalled => WorkerInv(w))
    BY <1>1, Now
  <1>3. PICK r : r = Enter(t, pc, path)
    OBVIOUS
  <1>4. r \in WorkerRecord /\ r.pc = pc /\ r.turn = t
    BY <1>3, EnterFields
  <1>5. worker' = [worker EXCEPT ![w] = r] /\ worker'[w] = r
    BY <1>3, Types
  <1>6. WorkerRow(w)'
    <2>1. turn'[t].status # "absent"
      BY <1>1, <1>2 DEF WorkerRow, Status, Grows
    <2> QED  BY <1>4, <1>5, <2>1 DEF WorkerRow, Status
  <1>7. ASSUME ~stalled' PROVE WorkerInv(w)' /\ TurnInv(t)' /\ SurvivorInv'
    <2>1. ~stalled
      BY <1>7 DEF Surroundings
    <2>2. SurvivorInv'
      BY <2>1, SparedSurvivor DEF Surroundings
    <2>3. job[t].by = w
      BY <1>2, <2>1 DEF WorkerInv
    <2>4. WorkerInv(w)'
      BY <1>4, <1>5, <2>1, <2>3 DEF WorkerInv, Deciding, Status
    <2> QED  BY <2>1, <2>2, <2>4
  <1> QED  BY <1>4, <1>5, <1>6, <1>7, StayStep

\* A tool's result is stored or dropped.
LEMMA ReturnStep ==
  ASSUME AgentInv, NEW w \in Workers, NEW result \in {"succeeded", "failed"},
         ToolReturns(w, result)
  PROVE  AgentInv' /\ Quiet
  <1>1. worker[w].pc = "run" /\ AtWork(w) /\ worker[w].pc # "idle" /\ Surroundings
        /\ job' = job
    BY SameSurroundings DEF ToolReturns, AtWork
  <1>2. PICK t \in Turns : t = worker[w].turn
    BY <1>1, Types
  <1>3. TurnRow(t) /\ WorkerRow(w) /\ (~stalled => TurnInv(t) /\ WorkerInv(w))
    BY <1>1, <1>2, Now
  <1>4. PICK k \in 1..Len(turn[t].exec), e \in Execution : Returned(w, t, k, e)
    BY <1>2, ReturnShape
  <1>5. ASSUME ~stalled
        PROVE  /\ k = Len(turn[t].exec) /\ Fenced(e, worker[w].claim[2])
               /\ ~turn[t].stale /\ turn[t].status # "tool_planned"
    BY <1>1, <1>2, <1>3, <1>4, <1>5 DEF WorkerInv, AtWork, Fenced, Status, Returned
  <1>6. /\ turn' \in [Turns -> TurnRecord] /\ Quiet /\ Grows /\ Spares
        /\ \A u \in Turns \ {t} : Ended(u)
        /\ turn'[t].status = turn[t].status /\ turn'[t].stale = turn[t].stale
        /\ turn'[t].final = turn[t].final
        /\ Len(turn'[t].exec) = Len(turn[t].exec)
    BY <1>4, RowsStay DEF Returned
  <1>7. /\ turn'[t].final => turn'[t].status = "completed"
        /\ turn'[t].status = "tool_planned" => Len(turn'[t].exec) > 0
    BY <1>3, <1>6 DEF TurnRow, Status
  <1>8. ~stalled => TurnInv(t)' /\ Settled(t)'
    <2> SUFFICES ASSUME ~stalled PROVE TurnInv(t)' /\ Settled(t)'
      OBVIOUS
    <2>1. PICK n \in Nat : n = Len(turn[t].exec)
      BY Lengths, Types
    <2>2. \A j \in 1..n : j < n => Finished(turn[t].exec[j])
      BY <1>3, <2>1 DEF TurnInv
    <2>3. /\ Finished(turn'[t].exec[n])
          /\ \A j \in 1..n : j # n => turn'[t].exec[j] = turn[t].exec[j]
      BY <1>4, <1>5, <2>1 DEF Returned
    <2>4. \A j \in 1..n : j < n \/ j = n
      OBVIOUS
    <2>5. \A j \in 1..n : j < n => j # n
      OBVIOUS
    <2>6. \A j \in 1..n : Finished(turn'[t].exec[j])
      BY <2>2, <2>3, <2>4, <2>5
    <2> QED  BY <1>6, <2>1, <2>6 DEF TurnInv, Settled
  <1>9. CASE worker' = [worker EXCEPT ![w] = Enter(t, "ask", "recovery")]
    <2>1. AgentInv'
      BY <1>1, <1>2, <1>5, <1>6, <1>7, <1>8, <1>9, AskAgainStep
    <2> QED  BY <1>6, <2>1
  <1>10. CASE /\ ~Fenced(e, worker[w].claim[2]) /\ turn' = turn
              /\ worker' = [worker EXCEPT ![w] = After(t, FALSE)]
    <2>1. Ends(turn, turn', Fates)
      BY <1>10, EndsStay, Types
    <2> QED  BY <1>1, <1>2, <1>10, <2>1, EndsStep
  <1> QED  BY <1>4, <1>9, <1>10 DEF Returned

\* The step loop goes on, or the attempt returns.
LEMMA LoopsStep ==
  ASSUME AgentInv, NEW w \in Workers, Loop(w)
  PROVE  AgentInv' /\ Quiet /\ NoNews
  <1>1. worker[w].pc = "loop" /\ AtWork(w) /\ worker[w].pc # "idle" /\ Surroundings
    BY SameSurroundings DEF Loop, AtWork
  <1>2. PICK t \in Turns : t = worker[w].turn
    BY <1>1, Types
  <1>3. TurnRow(t) /\ WorkerRow(w) /\ (~stalled => TurnInv(t) /\ WorkerInv(w))
    BY <1>1, <1>2, Now
  <1>4. CASE /\ Status(t) = "tool_planned" /\ turn' = Claimed(t) /\ job' = job
             /\ worker' = [worker EXCEPT ![w] = Enter(t, "tool", "recovery")]
    <2>1. /\ turn' \in [Turns -> TurnRecord] /\ Quiet /\ NoNews /\ Grows /\ Spares
          /\ \A u \in Turns \ {t} : turn'[u] = turn[u] /\ Ended(u)
          /\ turn'[t].status = "running" /\ turn'[t].stale = FALSE
          /\ turn'[t].exec = turn[t].exec /\ turn'[t].final = turn[t].final
      BY <1>4, ClaimedRow DEF Status
    <2>2. Len(turn'[t].exec) > 0 /\ ~turn'[t].final
      BY <1>3, <1>4, <2>1 DEF TurnRow
    <2>3. ~stalled => TurnInv(t)'
      BY <1>3, <2>1 DEF TurnInv
    <2>4. AgentInv'
      BY <1>1, <1>2, <1>4, <2>1, <2>2, <2>3, AskAgainStep
    <2> QED  BY <2>1, <2>4
  <1>5. CASE /\ Status(t) = "running" /\ worker[w].cont /\ turn' = turn /\ job' = job
             /\ worker' = [worker EXCEPT ![w] = Enter(t, "ask", "fresh")]
    <2>1. /\ turn' \in [Turns -> TurnRecord] /\ \A u \in Turns : Ended(u)
          /\ Quiet /\ NoNews /\ Grows /\ Spares
          /\ turn'[t].final => turn'[t].status = "completed"
          /\ turn'[t].status = "tool_planned" => Len(turn'[t].exec) > 0
      BY <1>3, <1>5, RowsStay
    <2>2. ~stalled => /\ TurnInv(t)' /\ ~turn'[t].stale
                      /\ turn'[t].status # "tool_planned" /\ Settled(t)'
      BY <1>1, <1>2, <1>3, <1>5 DEF WorkerInv, AtWork, TurnInv, Settled, Status
    <2>3. AgentInv'
      BY <1>1, <1>2, <1>5, <2>1, <2>2, AskAgainStep
    <2> QED  BY <2>1, <2>3
  <1>6. CASE JobDone(w) /\ turn' = turn
    <2>1. Leaves(w, t)
      BY <1>2, <1>6, DoneLeaves
    <2>2. turn' \in [Turns -> TurnRecord] /\ (\A u \in Turns : Ended(u))
          /\ Quiet /\ NoNews /\ Grows /\ Spares
      BY <1>6, RowsStay
    <2>3. ~stalled => SurvivorInv'
      BY <1>1, <2>2, SparedSurvivor DEF Surroundings
    <2>4. AgentInv'
      BY <1>1, <1>2, <1>6, <2>1, <2>2, <2>3, LeaveStep
    <2> QED  BY <2>2, <2>4
  <1> QED  BY <1>2, <1>4, <1>5, <1>6 DEF Loop

-----------------------------------------------------------------------------
(* The commits *)

\* A handover ends the other turns, and the turn itself with the status to.
LEMMA HandOffEnds ==
  ASSUME AgentInv, NEW t \in Turns, NEW from \in SUBSET Executable, NEW to \in Fates
  PROVE  Ends(turn, Transition(Others(t), t, from, to), Fates)
  <1>1. turn \in [Turns -> TurnRecord] /\ to \in Terminal /\ {"suppressed_handoff"} \subseteq Fates
    BY Types DEF Fates, Terminal
  <1>2. PICK us : us = Others(t)
    OBVIOUS
  <1>3. us = turn \/ us = TransitionMany(turn, Turns \ {t}, Executable, "suppressed_handoff")
    BY <1>2 DEF Others
  <1>4. Ends(turn, us, Fates)
    <2>1. CASE us = turn
      BY <1>1, <2>1, EndsStay
    <2>2. CASE us = TransitionMany(turn, Turns \ {t}, Executable, "suppressed_handoff")
      <3>1. Ends(turn, us, {"suppressed_handoff"})
        BY <1>1, <2>2, TransitionManyEnds DEF Terminal
      <3> QED  BY <1>1, <3>1, EndsWiden
    <2> QED  BY <1>3, <2>1, <2>2
  <1>5. us \in [Turns -> TurnRecord]
    BY <1>4 DEF Ends
  <1>6. PICK vs : vs = Transition(us, t, from, to)
    OBVIOUS
  <1>7. Ends(us, vs, {to})
    BY <1>1, <1>5, <1>6, TransitionEnds
  <1>8. Ends(us, vs, Fates)
    BY <1>7, EndsWiden
  <1>9. Ends(turn, vs, Fates)
    BY <1>4, <1>8, EndsCompose, StatusSets
  <1> QED  BY <1>2, <1>6, <1>9

\* The failure of a turn ends turns, and may hand over.
LEMMA FailTurnEnds ==
  ASSUME AgentInv, NEW t \in Turns, NEW h \in BOOLEAN, FailTurn(t, h)
  PROVE  Ends(turn, turn', Fates) /\ (HandsOff(t) \/ UNCHANGED desk)
  <1>1. "failed" \in Fates
    BY DEF Fates, Terminal
  <1>2. Ends(turn, Transition(Others(t), t, Executable, "failed"), Fates)
    BY <1>1, HandOffEnds
  <1>3. Ends(turn, Transition(turn, t, Executable, "failed"), {"failed"})
    BY <1>1, StatusSets, TransitionEnds, Types
  <1>4. Ends(turn, Transition(turn, t, Executable, "failed"), Fates)
    BY <1>1, <1>3, EndsWiden
  <1> QED  BY <1>2, <1>4 DEF FailTurn, HandsOff

\* The commits that suppress the turn.
LEMMA SuppressedStep ==
  ASSUME AgentInv, NEW w \in Workers, CommitPaused(w) \/ CommitDisabled(w) \/ CommitRefused(w)
  PROVE  AgentInv' /\ Quiet /\ NoNews
  <1>1. PICK to \in Fates : Suppress(w, to)
    BY DEF CommitPaused, CommitDisabled, CommitRefused, Fates, Terminal
  <1>2. AtWork(w) /\ Surroundings
    BY SameSurroundings DEF CommitPaused, CommitDisabled, CommitRefused, InTx, AtWork
  <1> QED  BY <1>1, <1>2, SuppressStep

\* The commits that end turns, or throw.
LEMMA EndingStep ==
  ASSUME AgentInv, NEW w \in Workers,
         \/ CommitHeld(w) \/ CommitRepeat(w) \/ CommitHandoff(w) \/ CommitFailure(w)
  PROVE  AgentInv' /\ Quiet /\ NoNews
  <1>1. worker[w].pc = "tx" /\ AtWork(w) /\ worker[w].pc # "idle"
    BY DEF CommitHeld, CommitRepeat, CommitHandoff, CommitFailure, InTx, AtWork
  <1>2. PICK t \in Turns : t = worker[w].turn
    BY <1>1, Types
  <1>3. "completed" \in Fates /\ "suppressed_handoff" \in Fates /\ Owned \subseteq Executable
        /\ Executable \subseteq Executable
    BY DEF Fates, Terminal, Owned, Executable
  <1>4. ASSUME HandsOff(t) \/ UNCHANGED desk, UNCHANGED <<seen, switches, history, scenario>>
        PROVE  Surroundings
    BY <1>4, HandSurroundings
  <1>5. ASSUME Surroundings, job' = job, worker' = [worker EXCEPT ![w] = After(t, FALSE)],
               NEW from \in SUBSET Executable, NEW to \in Fates,
               \/ turn' = Transition(Others(t), t, from, to)
               \/ turn' = Transition(turn, t, from, to)
        PROVE  AgentInv' /\ Quiet /\ NoNews
    <2>1. Ends(turn, Transition(Others(t), t, from, to), Fates)
      BY HandOffEnds
    <2>2. Ends(turn, Transition(turn, t, from, to), {to})
      BY StatusSets, TransitionEnds, Types
    <2>3. Ends(turn, Transition(turn, t, from, to), Fates)
      BY <2>2, EndsWiden
    <2> QED  BY <1>1, <1>2, <1>5, <2>1, <2>3, EndsStep
  <1>6. CASE CommitHeld(w)
    <2>1. Surroundings
      BY <1>2, <1>4, <1>6 DEF CommitHeld, HandsOff
    <2>2. \/ /\ turn' = Transition(Others(t), t, Owned, "completed") /\ job' = job
             /\ worker' = [worker EXCEPT ![w] = After(t, FALSE)]
          \/ Throw(w)
      BY <1>2, <1>6 DEF CommitHeld, Settle
    <2> QED  BY <1>1, <1>3, <1>5, <2>1, <2>2, ThrowStep
  <1>7. CASE CommitRepeat(w)
    <2>1. Surroundings
      BY <1>7, SameSurroundings DEF CommitRepeat
    <2>2. \/ /\ turn' = Transition(turn, t, Owned, "completed") /\ job' = job
             /\ worker' = [worker EXCEPT ![w] = After(t, FALSE)]
          \/ Throw(w)
      BY <1>2, <1>7 DEF CommitRepeat, Settle
    <2> QED  BY <1>1, <1>3, <1>5, <2>1, <2>2, ThrowStep
  <1>8. CASE CommitHandoff(w)
    <2>1. Surroundings
      BY <1>2, <1>4, <1>8 DEF CommitHandoff, HandsOff, Conflict
    <2>2. \/ /\ turn' = Transition(Others(t), t, Executable, "suppressed_handoff") /\ job' = job
             /\ worker' = [worker EXCEPT ![w] = After(t, FALSE)]
          \/ Suppress(w, "suppressed_handoff")
          \/ Throw(w)
      BY <1>2, <1>8 DEF CommitHandoff, Settle, Conflict
    <2> QED  BY <1>1, <1>3, <1>5, <2>1, <2>2, SuppressStep, ThrowStep
  <1>9. CASE CommitFailure(w)
    <2>1. CASE /\ FailTurn(t, worker[w].dec # "bad_tool") /\ job' = job
               /\ worker' = [worker EXCEPT ![w] = After(t, FALSE)]
      <3>1. Ends(turn, turn', Fates) /\ (HandsOff(t) \/ UNCHANGED desk)
        BY <2>1, FailTurnEnds
      <3>2. Surroundings
        BY <1>4, <1>9, <3>1 DEF CommitFailure
      <3> QED  BY <1>1, <1>2, <2>1, <3>1, <3>2, EndsStep
    <2>2. CASE Conflict(w)
      <3>1. Throw(w) /\ Surroundings
        BY <1>4, <1>9, <2>2 DEF CommitFailure, Conflict
      <3> QED  BY <1>1, <3>1, ThrowStep
    <2> QED  BY <1>2, <1>9, <2>1, <2>2 DEF CommitFailure
  <1> QED  BY <1>6, <1>7, <1>8, <1>9

\* The attempt of the last retry has gone; the worker ends the turn.
LEMMA ReconcileStep ==
  ASSUME AgentInv, NEW w \in Workers, Reconcile(w) \/ ReconcileFails(w)
  PROVE  AgentInv' /\ Quiet /\ NoNews
  <1>1. worker[w].pc = "reconcile" /\ worker[w].pc # "idle" /\ job' = job
        /\ worker' = [worker EXCEPT ![w] = Idle]
    BY DEF Reconcile, ReconcileFails
  <1>2. PICK t \in Turns : t = worker[w].turn
    BY <1>1, Types
  <1>3. Ends(turn, turn', Fates) /\ Surroundings
    <2>1. CASE Reconcile(w)
      <3>1. Ends(turn, turn', Fates) /\ (HandsOff(t) \/ UNCHANGED desk)
        BY <1>2, <2>1, FailTurnEnds DEF Reconcile
      <3> QED  BY <2>1, <3>1, HandSurroundings DEF Reconcile
    <2>2. CASE ReconcileFails(w)
      BY <2>2, EndsStay, FaultSurroundings, Types DEF ReconcileFails
    <2> QED  BY <2>1, <2>2
  <1>4. Ends(turn, turn', Terminal)
    BY <1>3, EndsWiden, StatusSets
  <1>5. Quiet /\ NoNews /\ Grows /\ Spares
    BY <1>3, <1>4, EndsQuiet, EndsSpares DEF AgentInv
  <1>6. turn' \in [Turns -> TurnRecord] /\ \A u \in Turns : Ended(u)
    BY <1>4 DEF Ends, Ended
  <1>7. /\ worker' \in [Workers -> WorkerRecord] /\ worker'[w] = Idle
        /\ \A v \in Workers \ {w} : worker'[v] = worker[v]
    BY <1>1, NewRecords, WorkerSet, Types
  <1>8. WorkShape(w, t)
    BY <1>1, <1>3, <1>6, <1>7, NewRecords, Types DEF WorkShape
  <1>9. TurnRow(t)' /\ (~stalled => TurnInv(t)')
    BY <1>1, <1>6, EndedRow
  <1>10. WorkerRow(w)' /\ WorkerInv(w)'
    BY <1>7, NewRecords DEF WorkerRow, WorkerInv, AtWork
  <1>11. ~stalled' => TurnInv(t)' /\ SurvivorInv'
    BY <1>3, <1>5, <1>9, SparedSurvivor DEF Surroundings
  <1>12. Mine(w, t)
    BY <1>1, <1>6 DEF Mine
  <1> QED  BY <1>5, <1>8, <1>9, <1>10, <1>11, <1>12, WorkStep

\* A transaction that kept its writes: nothing is heard by a contact whose
\* agent has been switched off.
LEMMA KeptMeansOn ==
  ASSUME AgentInv, NEW w \in Workers, worker[w].pc = "tx", worker[w].ok,
         Status(worker[w].turn) \in Owned, ~stalled
  PROVE  contact
  <1>1. WorkerInv(w) /\ AtWork(w)
    BY Now DEF AtWork
  <1>2. Status(worker[w].turn) \notin Terminal
    BY DEF Owned, Terminal
  <1> QED  BY <1>1, <1>2 DEF WorkerInv

\* The final reply is written for a turn that is owned, with the switch on.
LEMMA FinalStep ==
  ASSUME AgentInv, NEW w \in Workers, CommitFinal(w)
  PROVE  /\ AgentInv' /\ NoNews
         /\ Quiet \/ \E t \in Turns : Answers(t)
         /\ ~stalled /\ ~contact => Quiet
  <1>1. worker[w].pc = "tx" /\ AtWork(w) /\ worker[w].pc # "idle" /\ Surroundings
        /\ ~paused /\ worker[w].ok
    BY SameSurroundings DEF CommitFinal, InTx, AtWork
  <1>2. PICK t \in Turns : t = worker[w].turn
    BY <1>1, Types
  <1>3. CASE Throw(w)
    BY <1>1, <1>3, ThrowStep
  <1>4. CASE /\ Status(t) \in Owned /\ job' = job
             /\ turn' = [turn EXCEPT ![t].status = "completed", ![t].final = TRUE]
             /\ worker' = [worker EXCEPT ![w] = After(t, FALSE)]
    <2> PICK x : x = turn[t]
      OBVIOUS
    <2>1. x \in TurnRecord /\ Len(x.exec) \in Nat
      BY Lengths, Types
    <2>2. PICK r : r = [status |-> "completed", stale |-> x.stale, exec |-> x.exec,
                        steps |-> x.steps, note |-> x.note, final |-> TRUE]
      OBVIOUS
    <2>3. r \in TurnRecord
      BY <2>1, <2>2, TurnFields DEF TurnRecord, Terminal
    <2>4. turn' = [turn EXCEPT ![t] = r]
      <3>1. PICK y : y = [x EXCEPT !.status = "completed"]
        OBVIOUS
      <3>2. y = [status |-> "completed", stale |-> x.stale, exec |-> x.exec,
                 steps |-> x.steps, note |-> x.note, final |-> x.final]
        BY <2>1, <3>1 DEF TurnRecord
      <3>3. PICK us : us = [turn EXCEPT ![t].status = "completed"]
        OBVIOUS
      <3>4. us = [turn EXCEPT ![t] = [x EXCEPT !.status = "completed"]]
        BY <3>3
      <3>5. us = [turn EXCEPT ![t] = y] /\ us[t] = y
        BY <3>1, <3>4, Types
      <3>6. turn' = [us EXCEPT ![t].final = TRUE]
        BY <1>4, <3>3
      <3>7. turn' = [us EXCEPT ![t] = [y EXCEPT !.final = TRUE]]
        BY <3>5, <3>6
      <3>8. PICK z : z = [y EXCEPT !.final = TRUE]
        OBVIOUS
      <3>9. z = r
        <4>1. z = [status |-> "completed", stale |-> x.stale, exec |-> x.exec,
                   steps |-> x.steps, note |-> x.note, final |-> TRUE]
          BY <3>2, <3>8
        <4> QED  BY <2>2, <4>1
      <3>10. turn' = [us EXCEPT ![t] = r]
        BY <3>7, <3>8, <3>9
      <3> QED  BY <3>5, <3>10
    <2>5. /\ r.status = "completed" /\ r.final = TRUE /\ r.stale = x.stale /\ r.exec = x.exec
          /\ r.steps = x.steps /\ r.note = x.note
      BY <2>2
    <2>6. x.status \in Owned /\ x.status \notin Fates
      BY <1>4 DEF Status, Owned, Fates, Terminal
    <2>7. /\ turn' \in [Turns -> TurnRecord] /\ turn'[t] = r /\ Grows /\ Spares
          /\ \A u \in Turns \ {t} : turn'[u] = turn[u] /\ Ended(u)
      <3>1. Len(turn[t].exec) <= Len(r.exec)
        BY <2>1, <2>5
      <3> QED  BY <2>3, <2>4, <2>5, <2>6, <3>1, RowSet
    <2>8. NoNews
      <3>1. \A u \in Turns : turn'[u].exec = turn[u].exec
        BY <2>5, <2>7
      <3> QED  BY <3>1 DEF NoNews
    <2>9. ASSUME ~stalled
          PROVE  ~turn'[t].stale /\ TurnInv(t)' /\ SurvivorInv'
      <3>1. TurnInv(t) /\ WorkerInv(w)
        BY <1>1, <1>2, <2>9, Now
      <3>2. ~turn[t].stale
        BY <1>1, <1>2, <3>1 DEF WorkerInv
      <3> QED  BY <1>1, <2>5, <2>7, <2>9, <3>1, <3>2, SparedSurvivor
           DEF TurnInv, Surroundings
    <2>10. AgentInv'
      BY <1>1, <1>2, <1>4, <2>5, <2>7, <2>9, LoopStep
    <2>11. Answers(t)
      BY <1>1, <2>5, <2>6, <2>7 DEF Answers, CommitFinal, desk
    <2>12. ~stalled => contact
      BY <1>1, <1>2, <1>4, KeptMeansOn
    <2> QED  BY <2>8, <2>10, <2>11, <2>12
  <1> QED  BY <1>2, <1>3, <1>4 DEF CommitFinal, Settle

\* A step is said for a turn that is owned, with the switch on.
LEMMA StepStep ==
  ASSUME AgentInv, NEW w \in Workers, CommitStep(w)
  PROVE  /\ AgentInv' /\ NoNews
         /\ Quiet \/ \E t \in Turns : Speaks(t)
         /\ ~stalled /\ ~contact => Quiet
  <1>1. worker[w].pc = "tx" /\ AtWork(w) /\ worker[w].pc # "idle" /\ Surroundings
        /\ ~paused /\ worker[w].ok
    BY SameSurroundings DEF CommitStep, InTx, AtWork
  <1>2. PICK t \in Turns : t = worker[w].turn
    BY <1>1, Types
  <1>3. CASE Throw(w)
    BY <1>1, <1>3, ThrowStep
  <1>4. CASE /\ Status(t) \in Owned /\ job' = job
             /\ turn' = [turn EXCEPT ![t].steps = @ + 1, ![t].stale = FALSE]
             /\ worker' = [worker EXCEPT ![w] = After(t, TRUE)]
    <2> PICK x : x = turn[t]
      OBVIOUS
    <2>1. x \in TurnRecord /\ Len(x.exec) \in Nat
      BY Lengths, Types
    <2>2. PICK r : r = [status |-> x.status, stale |-> FALSE, exec |-> x.exec,
                        steps |-> x.steps + 1, note |-> x.note, final |-> x.final]
      OBVIOUS
    <2>3. r \in TurnRecord
      BY <2>1, <2>2, TurnFields DEF TurnRecord
    <2>4. turn' = [turn EXCEPT ![t] = r]
      <3>1. PICK y : y = [x EXCEPT !.steps = x.steps + 1]
        OBVIOUS
      <3>2. y = [status |-> x.status, stale |-> x.stale, exec |-> x.exec,
                 steps |-> x.steps + 1, note |-> x.note, final |-> x.final]
        BY <2>1, <3>1 DEF TurnRecord
      <3>3. PICK us : us = [turn EXCEPT ![t].steps = @ + 1]
        OBVIOUS
      <3>4. us = [turn EXCEPT ![t] = [x EXCEPT !.steps = x.steps + 1]]
        BY <3>3
      <3>5. us = [turn EXCEPT ![t] = y] /\ us[t] = y
        BY <3>1, <3>4, Types
      <3>6. turn' = [us EXCEPT ![t].stale = FALSE]
        BY <1>4, <3>3
      <3>7. turn' = [us EXCEPT ![t] = [y EXCEPT !.stale = FALSE]]
        BY <3>5, <3>6
      <3>8. PICK z : z = [y EXCEPT !.stale = FALSE]
        OBVIOUS
      <3>9. z = r
        <4>1. z = [status |-> x.status, stale |-> FALSE, exec |-> x.exec,
                   steps |-> x.steps + 1, note |-> x.note, final |-> x.final]
          BY <3>2, <3>8
        <4> QED  BY <2>2, <4>1
      <3>10. turn' = [us EXCEPT ![t] = r]
        BY <3>7, <3>8, <3>9
      <3> QED  BY <3>5, <3>10
    <2>5. /\ r.status = x.status /\ r.final = x.final /\ r.stale = FALSE /\ r.exec = x.exec
          /\ r.steps = x.steps + 1 /\ r.note = x.note
      BY <2>2
    <2>6. x.status \in Owned /\ x.status \notin Fates /\ x.status # "superseded"
      BY <1>4 DEF Status, Owned, Fates, Terminal
    <2>7. /\ turn' \in [Turns -> TurnRecord] /\ turn'[t] = r /\ Grows /\ Spares
          /\ \A u \in Turns \ {t} : turn'[u] = turn[u] /\ Ended(u)
      <3>1. Len(turn[t].exec) <= Len(r.exec)
        BY <2>1, <2>5
      <3> QED  BY <2>3, <2>4, <2>5, <2>6, <3>1, RowSet
    <2>8. NoNews
      <3>1. \A u \in Turns : turn'[u].exec = turn[u].exec
        BY <2>5, <2>7
      <3> QED  BY <3>1 DEF NoNews
    <2>9. ASSUME ~stalled
          PROVE  ~turn'[t].stale /\ TurnInv(t)' /\ SurvivorInv' /\ Settled(t)'
      <3>1. TurnInv(t) /\ WorkerInv(w)
        BY <1>1, <1>2, <2>9, Now
      <3>2. Settled(t)
        BY <1>1, <1>2, <3>1 DEF WorkerInv, Deciding
      <3>3. SurvivorInv'
        BY <1>1, <2>7, <2>9, SparedSurvivor DEF Surroundings
      <3>4. turn'[t].exec = turn[t].exec /\ ~turn'[t].stale
        BY <2>5, <2>7
      <3> QED  BY <3>1, <3>2, <3>3, <3>4 DEF TurnInv, Settled
    <2>10. TurnRow(t)
      BY <1>1, <1>2, Now
    <2>11. /\ turn'[t].final => turn'[t].status = "completed"
           /\ turn'[t].status = "tool_planned" => Len(turn'[t].exec) > 0
      BY <2>5, <2>7, <2>10 DEF TurnRow, Status
    <2>12. AgentInv'
      <3>1. \A u \in Turns \ {t} : Ended(u)
        BY <2>7
      <3>2. job' = job /\ worker' = [worker EXCEPT ![w] = After(t, TRUE)]
        BY <1>1, <1>2, <1>4
      <3> QED  BY <1>1, <1>2, <2>7, <2>9, <2>11, <3>1, <3>2, LoopStep
    <2>13. Speaks(t)
      BY <1>1, <2>5, <2>6, <2>7 DEF Speaks, CommitStep, desk
    <2>14. ~stalled => contact
      BY <1>1, <1>2, <1>4, KeptMeansOn
    <2> QED  BY <2>8, <2>12, <2>13, <2>14
  <1> QED  BY <1>2, <1>3, <1>4 DEF CommitStep, Settle

\* A tool is planned for a turn that is owned, with the switch on.
LEMMA CheckpointStep ==
  ASSUME AgentInv, NEW w \in Workers, CommitCheckpoint(w)
  PROVE  /\ AgentInv' /\ NoNews
         /\ Quiet \/ \E t \in Turns : Speaks(t)
         /\ ~stalled /\ ~contact => Quiet
  <1>1. worker[w].pc = "tx" /\ AtWork(w) /\ worker[w].pc # "idle" /\ Surroundings
        /\ ~paused /\ worker[w].ok
    BY SameSurroundings DEF CommitCheckpoint, InTx, AtWork
  <1>2. PICK t \in Turns : t = worker[w].turn
    BY <1>1, Types
  <1>3. CASE Throw(w)
    BY <1>1, <1>3, ThrowStep
  <1>4. ASSUME Status(t) \in Owned, job' = job, NEW note \in {turn[t].note, TRUE},
               turn' = [turn EXCEPT ![t].status = "tool_planned", ![t].note = note,
                          ![t].exec = Append(@, [st |-> "planned", attempt |-> 0])],
               worker' = [worker EXCEPT ![w] = After(t, FALSE)]
        PROVE  /\ AgentInv' /\ NoNews
               /\ Quiet \/ \E u \in Turns : Speaks(u)
               /\ ~stalled /\ ~contact => Quiet
    <2> PICK x : x = turn[t]
      OBVIOUS
    <2> PICK n \in Nat : n = Len(x.exec)
      BY Lengths, Types
    <2>1. x \in TurnRecord /\ x.exec \in Seq(Execution) /\ note \in BOOLEAN
      BY Lengths, TurnFields, Types
    <2>2. PICK p : p = [st |-> "planned", attempt |-> 0]
      OBVIOUS
    <2>3. PICK q : q = Append(x.exec, p)
      OBVIOUS
    <2>4. /\ q \in Seq(Execution) /\ Len(q) = n + 1
          /\ \A k \in 1..n : q[k] = x.exec[k]
      <3>1. p \in Execution
        BY <2>2 DEF Execution
      <3>2. /\ q \in Seq(Execution) /\ Len(q) = Len(x.exec) + 1
            /\ \A k \in 1..Len(x.exec) : q[k] = x.exec[k]
        BY <2>1, <2>3, <3>1, AppendProperties
      <3> QED  BY <3>2
    <2>5. PICK r : r = [status |-> "tool_planned", stale |-> x.stale, exec |-> q,
                        steps |-> x.steps, note |-> note, final |-> x.final]
      OBVIOUS
    <2>6. r \in TurnRecord
      BY <2>1, <2>4, <2>5, TurnFields DEF TurnRecord, Executable
    <2>7. turn' = [turn EXCEPT ![t] = r]
      <3>1. PICK y : y = [x EXCEPT !.status = "tool_planned"]
        OBVIOUS
      <3>2. y = [status |-> "tool_planned", stale |-> x.stale, exec |-> x.exec,
                 steps |-> x.steps, note |-> x.note, final |-> x.final]
        BY <2>1, <3>1 DEF TurnRecord
      <3>3. PICK us : us = [turn EXCEPT ![t].status = "tool_planned"]
        OBVIOUS
      <3>4. us = [turn EXCEPT ![t] = [x EXCEPT !.status = "tool_planned"]]
        BY <3>3
      <3>5. us = [turn EXCEPT ![t] = y] /\ us[t] = y
        BY <3>1, <3>4, Types
      <3>6. PICK z : z = [y EXCEPT !.note = note]
        OBVIOUS
      <3>7. z = [status |-> "tool_planned", stale |-> x.stale, exec |-> x.exec,
                 steps |-> x.steps, note |-> note, final |-> x.final]
        BY <3>2, <3>6
      <3>8. PICK vs : vs = [us EXCEPT ![t].note = note]
        OBVIOUS
      <3>9. vs = [us EXCEPT ![t] = [y EXCEPT !.note = note]]
        BY <3>5, <3>8
      <3>10. vs = [us EXCEPT ![t] = z]
        BY <3>6, <3>9
      <3>11. vs = [turn EXCEPT ![t] = z] /\ vs[t] = z
        BY <3>5, <3>10, Types
      <3>12. turn' = [vs EXCEPT ![t].exec = Append(@, p)]
        BY <1>4, <2>2, <3>3, <3>8
      <3>13. turn' = [vs EXCEPT ![t] = [z EXCEPT !.exec = Append(z.exec, p)]]
        BY <3>11, <3>12
      <3>14. z.exec = x.exec
        BY <3>7
      <3>15. turn' = [vs EXCEPT ![t] = [z EXCEPT !.exec = q]]
        BY <2>3, <3>13, <3>14
      <3>16. PICK a : a = [z EXCEPT !.exec = q]
        OBVIOUS
      <3>17. a = r
        <4>1. a = [status |-> "tool_planned", stale |-> x.stale, exec |-> q,
                   steps |-> x.steps, note |-> note, final |-> x.final]
          BY <3>7, <3>16
        <4> QED  BY <2>5, <4>1
      <3>18. turn' = [vs EXCEPT ![t] = r]
        BY <3>15, <3>16, <3>17
      <3> QED  BY <3>11, <3>18
    <2>8. /\ r.status = "tool_planned" /\ r.final = x.final /\ r.stale = x.stale
          /\ r.exec = q /\ r.steps = x.steps /\ r.note = note
      BY <2>5
    <2>9. /\ x.status \in Owned /\ x.status \notin Fates /\ r.status \in Owned
          /\ x.status \in Executable /\ r.status \in Executable
      BY <1>4, <2>8 DEF Status, Owned, Fates, Terminal, Executable
    <2>10. Len(turn[t].exec) <= Len(r.exec)
      BY <2>4, <2>8
    <2>11. /\ turn' \in [Turns -> TurnRecord] /\ turn'[t] = r /\ Grows /\ Spares
           /\ \A u \in Turns \ {t} : turn'[u] = turn[u] /\ Ended(u)
      BY <2>6, <2>7, <2>8, <2>9, <2>10, RowSet
    <2>12. NoNews
      <3>1. ASSUME NEW u \in Turns, NEW k \in 1..Len(turn[u].exec)
            PROVE  turn'[u].exec[k] = turn[u].exec[k]
        <4>1. CASE u = t
          BY <2>4, <2>8, <2>11, <4>1
        <4>2. CASE u # t
          BY <2>11, <4>2
        <4> QED  BY <4>1, <4>2
      <3> QED  BY <3>1 DEF NoNews
    <2>13. ASSUME ~stalled
           PROVE  ~turn'[t].stale /\ TurnInv(t)' /\ SurvivorInv'
      <3>1. WorkerInv(w)
        BY <1>1, <1>2, <2>13, Now
      <3>2. ~turn[t].stale /\ \A k \in 1..n : Finished(x.exec[k])
        BY <1>1, <1>2, <3>1 DEF WorkerInv, Deciding, Settled
      <3>3. SurvivorInv'
        BY <1>1, <2>11, <2>13, SparedSurvivor DEF Surroundings
      <3>4. \A k \in 1..(n + 1) : k < n + 1 => k \in 1..n
        OBVIOUS
      <3>5. \A k \in 1..(n + 1) : k < n + 1 => Finished(q[k])
        BY <2>4, <3>2, <3>4
      <3>6. TurnInv(t)'
        BY <2>4, <2>8, <2>11, <3>5 DEF TurnInv
      <3> QED  BY <2>8, <2>11, <3>2, <3>3, <3>6
    <2>14. ~x.final
      <3>1. TurnRow(t)
        BY <1>1, <1>2, Now
      <3> QED  BY <2>9, <3>1 DEF TurnRow, Status, Owned
    <2>15. AgentInv'
      <3>1. Len(turn'[t].exec) > 0 /\ ~turn'[t].final
        BY <2>4, <2>8, <2>11, <2>14
      <3> QED  BY <1>1, <1>2, <1>4, <2>11, <2>13, <3>1, LoopStep
    <2>16. Quiet \/ Speaks(t)
      <3>1. CASE note = x.note
        BY <2>6, <2>7, <2>8, <2>9, <2>10, <3>1, RowSet
      <3>2. CASE note # x.note
        <4>1. note = TRUE /\ x.note = FALSE
          BY <2>1, <3>2, TurnFields
        <4> QED  BY <1>1, <2>8, <2>9, <2>11, <4>1 DEF Speaks, CommitCheckpoint, desk
      <3> QED  BY <3>1, <3>2
    <2>17. ~stalled => contact
      BY <1>1, <1>2, <1>4, KeptMeansOn
    <2> QED  BY <2>12, <2>15, <2>16, <2>17
  <1>5. ASSUME ~Throw(w) PROVE \E note \in {turn[t].note, TRUE} :
            /\ Status(t) \in Owned /\ job' = job
            /\ turn' = [turn EXCEPT ![t].status = "tool_planned", ![t].note = note,
                          ![t].exec = Append(@, [st |-> "planned", attempt |-> 0])]
            /\ worker' = [worker EXCEPT ![w] = After(t, FALSE)]
    BY <1>2, <1>5 DEF CommitCheckpoint, Settle
  <1> QED  BY <1>3, <1>4, <1>5

-----------------------------------------------------------------------------
(* Faults *)

\* A process dies, and its job is nobody's.
LEMMA CrashStep ==
  ASSUME AgentInv, NEW w \in Workers, Crash(w)
  PROVE  AgentInv' /\ Quiet /\ NoNews
  <1>1. worker[w].pc # "idle" /\ turn' = turn /\ worker' = [worker EXCEPT ![w] = Idle]
        /\ Surroundings
    BY FaultSurroundings DEF Crash
  <1>2. PICK t \in Turns : t = worker[w].turn
    BY <1>1, Types
  <1>3. \/ job' = job
        \/ job[t].by = w /\ job' = [job EXCEPT ![t].by = Nobody]
    BY <1>2 DEF Crash, Holds
  <1>4. PICK j : j = [job[t] EXCEPT !.by = Nobody]
    OBVIOUS
  <1>5. j \in JobRecord /\ j.by = Nobody
    BY <1>4, Types DEF JobRecord
  <1>6. \/ job' = job
        \/ job[t].by = w /\ job' = [job EXCEPT ![t] = j]
    <2>1. [job EXCEPT ![t].by = Nobody] = [job EXCEPT ![t] = [job[t] EXCEPT !.by = Nobody]]
      OBVIOUS
    <2> QED  BY <1>3, <1>4, <2>1
  <1>7. /\ worker' \in [Workers -> WorkerRecord] /\ worker'[w] = Idle
        /\ \A v \in Workers \ {w} : worker'[v] = worker[v]
    BY <1>1, NewRecords, WorkerSet, Types
  <1>8. turn' \in [Turns -> TurnRecord] /\ (\A u \in Turns : Ended(u))
        /\ Quiet /\ NoNews /\ Grows /\ Spares
    BY <1>1, RowsStay
  <1>9. job' \in [Turns -> JobRecord] /\ \A u \in Turns \ {t} : job'[u] = job[u]
    BY <1>5, <1>6, Types
  <1>10. WorkShape(w, t)
    BY <1>1, <1>7, <1>8, <1>9, NewRecords DEF WorkShape
  <1>11. TurnRow(t) /\ (~stalled => TurnInv(t))
    BY <1>1, <1>2, Now
  <1>12. TurnRow(t)' /\ (~stalled => TurnInv(t)')
    BY <1>1, <1>5, <1>6, <1>11, Types DEF TurnRow, TurnInv, Status
  <1>13. WorkerRow(w)' /\ WorkerInv(w)'
    BY <1>7, NewRecords DEF WorkerRow, WorkerInv, AtWork
  <1>14. ~stalled' => TurnInv(t)' /\ SurvivorInv'
    BY <1>1, <1>8, <1>12, SparedSurvivor DEF Surroundings
  <1>15. Mine(w, t)
    BY <1>6, <1>8 DEF Mine
  <1> QED  BY <1>8, <1>10, <1>12, <1>13, <1>14, <1>15, WorkStep

\* A process outlives its lock; from here on only rows and types are kept.
LEMMA LoseLockStep ==
  ASSUME AgentInv, NEW w \in Workers, LoseLock(w)
  PROVE  AgentInv' /\ Quiet /\ NoNews
  <1>1. worker[w].pc # "idle" /\ turn' = turn /\ worker' = worker /\ stalled' = TRUE
        /\ Holds(w)
    BY DEF LoseLock
  <1>2. PICK t \in Turns : t = worker[w].turn
    BY <1>1, Types
  <1>3. Surroundings
    BY FaultUsed, Types DEF LoseLock, Surroundings, desk, switches
  <1>4. PICK j : j = [job[t] EXCEPT !.by = Nobody]
    OBVIOUS
  <1>5. j \in JobRecord /\ j.by = Nobody
    BY <1>4, Types DEF JobRecord
  <1>6. job[t].by = w /\ job' = [job EXCEPT ![t] = j]
    <2>1. job[t].by = w /\ job' = [job EXCEPT ![t].by = Nobody]
      BY <1>2 DEF LoseLock, Holds
    <2>2. job' = [job EXCEPT ![t] = [job[t] EXCEPT !.by = Nobody]]
      BY <2>1
    <2> QED  BY <1>4, <2>1, <2>2
  <1>7. turn' \in [Turns -> TurnRecord] /\ (\A u \in Turns : Ended(u))
        /\ Quiet /\ NoNews /\ Grows
    BY <1>1, RowsStay
  <1>8. job' \in [Turns -> JobRecord] /\ \A u \in Turns \ {t} : job'[u] = job[u]
    BY <1>5, <1>6, Types
  <1>9. WorkShape(w, t)
    BY <1>1, <1>2, <1>3, <1>7, <1>8, Types DEF WorkShape
  <1>10. TurnRow(t) /\ WorkerRow(w)
    BY <1>1, <1>2, Now
  <1>11. TurnRow(t)'
    BY <1>1, <1>5, <1>6, <1>10, Types DEF TurnRow, Status
  <1>12. WorkerRow(w)'
    BY <1>7, <1>1, RowKept
  <1>13. Mine(w, t)
    BY <1>6 DEF Mine
  <1> QED  BY <1>1, <1>7, <1>9, <1>11, <1>12, <1>13, WorkStep

-----------------------------------------------------------------------------
(* The queue, time, the dispatcher and people *)

\* A step of the surroundings keeps the invariant, if it does for every row
\* and every worker.
LEMMA OutsideStep ==
  ASSUME AgentInv, Outside, Grows, Bounded',
         turn' \in [Turns -> TurnRecord], job' \in [Turns -> JobRecord],
         seen' \subseteq Turns, \A u \in seen' : turn'[u].status # "absent",
         \A u \in Turns : TurnRow(u)',
         ~stalled => /\ \A u \in Turns : TurnInv(u)'
                     /\ \A w \in Workers : WorkerInv(w)'
                     /\ SurvivorInv'
  PROVE  AgentInv'
  <1>1. TypeOK'
    BY Types DEF TypeOK, Outside
  <1>2. \A w \in Workers : WorkerRow(w)'
    BY RowKept DEF Outside
  <1>3. RowInv'
    BY <1>2 DEF RowInv, Status
  <1>4. ~stalled' => LiveInv'
    BY DEF LiveInv, Outside
  <1> QED  BY <1>1, <1>3, <1>4 DEF AgentInv

\* Nobody was at the worker's turn, or it only ended.
LEMMA Undisturbed ==
  ASSUME AgentInv, ~stalled, worker' = worker, NEW w \in Workers,
         AtWork(w) => /\ Ended(worker[w].turn)
                      /\ job'[worker[w].turn].by = job[worker[w].turn].by,
         AtWork(w) /\ worker[w].pc = "tx" /\ worker[w].ok /\ ~contact'
            => turn'[worker[w].turn].status \in Terminal,
         worker[w].pc = "absorb" /\ seen' # {}
            => turn'[worker[w].turn].status \in Terminal
  PROVE  WorkerInv(w)'
  <1> PICK x : x = worker[w]
    OBVIOUS
  <1>1. worker'[w] = x /\ WorkerInv(w)
    BY DEF AgentInv, LiveInv
  <1>2. CASE x.pc \in {"idle", "reconcile"}
    BY <1>1, <1>2 DEF WorkerInv, AtWork
  <1>3. CASE x.pc \notin {"idle", "reconcile"}
    <2>1. Ended(x.turn) /\ job'[x.turn].by = w
      BY <1>1, <1>3 DEF AtWork, WorkerInv
    <2>2. /\ turn'[x.turn].exec = turn[x.turn].exec /\ turn'[x.turn].stale = turn[x.turn].stale
          /\ turn[x.turn].status # "tool_planned" => turn'[x.turn].status # "tool_planned"
          /\ turn[x.turn].status \in {"running"} \cup Terminal
                => turn'[x.turn].status \in {"running"} \cup Terminal
      BY <2>1 DEF Ended, SameButStatus, Executable, Terminal
    <2> QED  BY <1>1, <1>3, <2>1, <2>2 DEF WorkerInv, AtWork, Settled, Status
  <1> QED  BY <1>2, <1>3

\* The same, when the contact's switch and the dispatcher stand still.
LEMMA Aside ==
  ASSUME AgentInv, ~stalled, worker' = worker, contact' = contact, seen' = seen,
         NEW w \in Workers,
         AtWork(w) => /\ Ended(worker[w].turn)
                      /\ job'[worker[w].turn].by = job[worker[w].turn].by
  PROVE  WorkerInv(w)'
  <1> PICK x : x = worker[w]
    OBVIOUS
  <1>1. WorkerInv(w)
    BY DEF AgentInv, LiveInv
  <1>2. AtWork(w) /\ turn[x.turn].status \in Terminal => turn'[x.turn].status \in Terminal
    BY DEF Ended
  <1>3. AtWork(w) /\ x.pc = "tx" /\ x.ok /\ ~contact' => turn'[x.turn].status \in Terminal
    BY <1>1, <1>2 DEF WorkerInv, Status
  <1>4. x.pc = "absorb" /\ seen' # {} => turn'[x.turn].status \in Terminal
    BY <1>1, <1>2 DEF WorkerInv, AtWork, Status
  <1> QED  BY <1>3, <1>4, Undisturbed

\* The rows stay or end, and the jobs keep their workers.
LEMMA TurnsEnd ==
  ASSUME AgentInv, Outside, Ends(turn, turn', Fates), job' = job, seen' = seen,
         contact' = contact \/ contact' = TRUE
            \/ \A t \in Turns : turn'[t].status # "running"
  PROVE  AgentInv' /\ Quiet /\ NoNews
  <1>1. Ends(turn, turn', Terminal)
    BY EndsWiden, StatusSets
  <1>2. Quiet /\ NoNews /\ Grows /\ Spares
    BY <1>1, EndsQuiet, EndsSpares DEF AgentInv
  <1>3. turn' \in [Turns -> TurnRecord] /\ \A u \in Turns : Ended(u)
    BY <1>1 DEF Ends, Ended
  <1>4. \A u \in Turns : TurnRow(u)' /\ (~stalled => TurnInv(u)')
    BY <1>3, EndedRow
  <1>5. Bounded'
    <2>1. \A u \in Turns : turn[u].status = "absent" => turn'[u].status = "absent"
      BY <1>3, StatusSets DEF Ended
    <2>2. CASE Turns = {}
      BY <2>2 DEF Bounded
    <2>3. CASE Turns # {}
      BY <2>1, <2>3, StillBounded
    <2> QED  BY <2>2, <2>3
  <1>6. \A u \in seen' : turn'[u].status # "absent"
    BY <1>2, Types DEF AgentInv, RowInv, Status, Grows
  <1>7. ASSUME ~stalled, NEW w \in Workers PROVE WorkerInv(w)'
    <2> PICK x : x = worker[w]
      OBVIOUS
    <2>1. WorkerInv(w)
      BY <1>7 DEF AgentInv, LiveInv
    <2>2. AtWork(w) => Ended(x.turn) /\ x.turn \in Turns
      BY <1>3, Types DEF AtWork
    <2>3. /\ AtWork(w) /\ turn[x.turn].status \in Terminal => turn'[x.turn].status \in Terminal
          /\ AtWork(w) /\ turn[x.turn].status \in {"running"} \cup Terminal
                => turn'[x.turn].status \in {"running"} \cup Terminal
      BY <2>2, StatusSets DEF Ended
    <2>4. AtWork(w) /\ x.pc = "tx" /\ x.ok /\ ~contact' => turn'[x.turn].status \in Terminal
      BY <2>1, <2>2, <2>3 DEF WorkerInv, Deciding, Status
    <2>5. x.pc = "absorb" /\ seen' # {} => turn'[x.turn].status \in Terminal
      BY <2>1, <2>3 DEF WorkerInv, AtWork, Status
    <2> QED  BY <1>7, <2>2, <2>4, <2>5, Undisturbed DEF Outside
  <1>8. ~stalled => SurvivorInv'
    BY <1>2, SparedSurvivor DEF Outside
  <1>9. AgentInv'
    BY <1>2, <1>3, <1>4, <1>5, <1>6, <1>7, <1>8, OutsideStep, Types
  <1> QED  BY <1>2, <1>9

\* A flip or a takeover used up leaves a scenario.
LEMMA UseFlip ==
  ASSUME AgentInv, NEW s, s = scenario,
         \/ scenario' = [s EXCEPT !.flips = @ - 1] /\ s.flips > 0
         \/ scenario' = [s EXCEPT !.takeovers = @ - 1] /\ s.takeovers > 0
  PROVE  scenario' \in Scenario(Turns)
  <1>1. s \in Scenario(Turns)
    BY Types
  <1>2. CASE scenario' = [s EXCEPT !.flips = @ - 1] /\ s.flips > 0
    <2>1. scenario' = [answers |-> s.answers, faults |-> s.faults,
                       flips |-> s.flips - 1, takeovers |-> s.takeovers]
      BY <1>1, <1>2 DEF Scenario
    <2> QED  BY <1>1, <1>2, <2>1 DEF Scenario
  <1>3. CASE scenario' = [s EXCEPT !.takeovers = @ - 1] /\ s.takeovers > 0
    <2>1. scenario' = [answers |-> s.answers, faults |-> s.faults,
                       flips |-> s.flips, takeovers |-> s.takeovers - 1]
      BY <1>1, <1>3 DEF Scenario
    <2> QED  BY <1>1, <1>3, <2>1 DEF Scenario
  <1> QED  BY <1>2, <1>3

\* Takeover, resolution and switches end turns, at most.
LEMMA PeopleStep ==
  ASSUME AgentInv,
         TakeOver \/ Resolve \/ SetRuntime \/ \E on \in BOOLEAN : SetContact(on)
  PROVE  AgentInv' /\ Quiet /\ NoNews
  <1>1. Ends(turn, turn, Fates)
    BY EndsStay, Types
  <1>2. CASE TakeOver
    <2>1. turn' = TransitionMany(turn, Turns, Executable, "suppressed_handoff")
      BY <1>2 DEF TakeOver
    <2>2. Ends(turn, turn', {"suppressed_handoff"})
      BY <2>1, TransitionManyEnds, Types DEF Terminal
    <2>3. Ends(turn, turn', Fates)
      BY <2>2, EndsWiden DEF Fates, Terminal
    <2>4. Outside
      BY <1>2, UseFlip, Types DEF TakeOver, Outside, switches, history
    <2> QED  BY <1>2, <2>3, <2>4, TurnsEnd DEF TakeOver, switches
  <1>3. CASE Resolve
    <2>1. Outside
      BY <1>3, Types DEF Resolve, Outside, switches, history
    <2> QED  BY <1>1, <1>3, <2>1, TurnsEnd DEF Resolve, switches
  <1>4. CASE SetRuntime
    <2>1. Outside
      <3>1. scenario' \in Scenario(Turns)
        BY <1>4, UseFlip DEF SetRuntime
      <3> QED  BY <1>4, <3>1, Types DEF SetRuntime, Outside, desk, history
    <2>2. turn' = turn /\ job' = job /\ seen' = seen /\ contact' = contact
      BY <1>4 DEF SetRuntime
    <2>3. Ends(turn, turn', Fates)
      BY <1>1, <2>2
    <2> QED  BY <2>1, <2>2, <2>3, TurnsEnd
  <1>5. ASSUME NEW on \in BOOLEAN, SetContact(on) PROVE AgentInv' /\ Quiet /\ NoNews
    <2>1. Outside
      <3>1. scenario' \in Scenario(Turns)
        BY <1>5, UseFlip DEF SetContact
      <3> QED  BY <1>5, <3>1, Types DEF SetContact, Outside, desk, history
    <2>2. CASE on
      <3>1. turn' = turn /\ job' = job /\ seen' = seen /\ contact' = TRUE
        BY <1>5, <2>2 DEF SetContact
      <3>2. Ends(turn, turn', Fates)
        BY <1>1, <3>1
      <3> QED  BY <2>1, <3>1, <3>2, TurnsEnd
    <2>3. CASE ~on
      <3>1. turn' = TransitionMany(turn, Turns, {"queued", "running"}, "suppressed_policy")
        BY <1>5, <2>3 DEF SetContact
      <3>2. Ends(turn, turn', {"suppressed_policy"})
        <4>1. /\ {"queued", "running"} \in SUBSET Executable
              /\ "suppressed_policy" \in Terminal /\ Turns \in SUBSET Turns
          BY DEF Terminal, Executable
        <4> QED  BY <3>1, <4>1, TransitionManyEnds, Types
      <3>3. Ends(turn, turn', Fates)
        BY <3>2, EndsWiden DEF Fates, Terminal
      <3>4. ASSUME NEW u \in Turns PROVE turn'[u].status # "running"
        <4>1. turn'[u] = IF turn[u].status \in {"queued", "running"}
                         THEN [turn[u] EXCEPT !.status = "suppressed_policy"] ELSE turn[u]
          BY <3>1 DEF TransitionMany
        <4>2. [turn[u] EXCEPT !.status = "suppressed_policy"].status = "suppressed_policy"
          BY Restatus, StatusSets, Types DEF Terminal
        <4> QED  BY <4>1, <4>2
      <3> QED  BY <1>5, <2>1, <3>3, <3>4, TurnsEnd DEF SetContact
    <2> QED  BY <2>2, <2>3
  <1> QED  BY <1>2, <1>3, <1>4, <1>5

\* The jobs of turns nobody is on.
LEMMA QueueStep ==
  ASSUME AgentInv, NEW t \in Turns, Evict(t) \/ Stalled(t)
  PROVE  AgentInv' /\ Quiet /\ NoNews
  <1>1. turn' = turn /\ Outside /\ seen' = seen /\ contact' = contact /\ job[t].by = Nobody
    <2>1. TurnRow(t)
      BY DEF AgentInv, RowInv
    <2>2. job[t].by = Nobody
      BY <2>1 DEF TurnRow, Evict, Stalled
    <2>3. UNCHANGED <<turn, worker, seen, desk, switches, history, scenario>>
      BY DEF Evict, Stalled
    <2> QED  BY <2>2, <2>3, Types DEF Outside, desk, switches, history
  <1>2. PICK j \in JobRecord : job' = [job EXCEPT ![t] = j] /\ j.by = Nobody
    <2>1. CASE Evict(t)
      BY <2>1, NewRecords DEF Evict
    <2>2. CASE Stalled(t)
      <3>1. PICK a : a = [job[t] EXCEPT !.st = "waiting", !.stalls = 1]
        OBVIOUS
      <3>0. job[t] \in JobRecord
        BY Types
      <3>2. a = [st |-> "waiting", by |-> job[t].by, tries |-> job[t].tries, stalls |-> 1]
        BY <3>0, <3>1 DEF JobRecord
      <3>3. a \in JobRecord /\ a.by = Nobody
        BY <1>1, <3>0, <3>2 DEF JobRecord
      <3>4. PICK b : b = [NewJob EXCEPT !.st = "failed"]
        OBVIOUS
      <3>5. b \in JobRecord /\ b.by = Nobody
        BY <3>4 DEF NewJob, JobRecord
      <3>6. job' = [job EXCEPT ![t] = a] \/ job' = [job EXCEPT ![t] = b]
        BY <2>2, <3>1, <3>4 DEF Stalled
      <3> QED  BY <3>3, <3>5, <3>6
    <2> QED  BY <2>1, <2>2
  <1>3. turn' \in [Turns -> TurnRecord] /\ (\A u \in Turns : Ended(u))
        /\ Quiet /\ NoNews /\ Grows /\ Spares
    BY <1>1, RowsStay
  <1>4. /\ job' \in [Turns -> JobRecord]
        /\ \A u \in Turns : job'[u].by = job[u].by /\ (job'[u].by # Nobody => job'[u] = job[u])
    BY <1>1, <1>2, Types
  <1>5. \A u \in Turns : TurnRow(u)' /\ (~stalled => TurnInv(u)')
    BY <1>1, <1>4 DEF AgentInv, RowInv, LiveInv, TurnRow, TurnInv, Status
  <1>6. \A w \in Workers : ~stalled => WorkerInv(w)'
    <2>1. ASSUME NEW w \in Workers, ~stalled PROVE WorkerInv(w)'
      <3>1. AtWork(w) => worker[w].turn \in Turns
        BY Types DEF AtWork
      <3> QED  BY <1>1, <1>3, <1>4, <2>1, <3>1, Aside DEF Outside
    <2> QED  BY <2>1
  <1>7. Bounded' /\ \A u \in seen' : turn'[u].status # "absent"
    BY <1>1, Types DEF AgentInv, RowInv, Bounded, Status
  <1>8. ~stalled => SurvivorInv'
    BY <1>1, <1>3, SparedSurvivor DEF Outside
  <1>9. seen' \subseteq Turns
    BY <1>1, Types
  <1>10. AgentInv'
    BY <1>1, <1>3, <1>4, <1>5, <1>6, <1>7, <1>8, <1>9, OutsideStep
  <1> QED  BY <1>3, <1>10

\* One turn changes, which no worker is on.
LEMMA AloneStep ==
  ASSUME AgentInv, Outside, NEW t \in Turns, job' = job, seen' = seen, contact' = contact,
         turn' \in [Turns -> TurnRecord], \A u \in Turns \ {t} : turn'[u] = turn[u],
         Grows, Spares,
         \A w \in Workers : ~stalled /\ AtWork(w) => worker[w].turn # t,
         turn'[t].final => turn'[t].status = "completed",
         turn'[t].status = "tool_planned" => Len(turn'[t].exec) > 0,
         ~stalled => TurnInv(t)'
  PROVE  AgentInv'
  <1>1. \A u \in Turns : TurnRow(u) /\ (~stalled => TurnInv(u))
    BY DEF AgentInv, RowInv, LiveInv
  <1>2. TurnRow(t)'
    BY <1>1 DEF TurnRow, Status
  <1>3. \A u \in Turns : TurnRow(u)' /\ (~stalled => TurnInv(u)')
    <2>1. ASSUME NEW u \in Turns, u # t PROVE TurnRow(u)' /\ (~stalled => TurnInv(u)')
      BY <1>1, <2>1 DEF TurnRow, TurnInv, Status
    <2> QED  BY <1>2, <2>1
  <1>4. ASSUME ~stalled, NEW w \in Workers PROVE WorkerInv(w)'
    <2>1. AtWork(w) => worker[w].turn \in Turns \ {t}
      BY <1>4, Types DEF AtWork
    <2> QED  BY <1>4, <2>1, Aside DEF Outside, Ended
  <1>5. Bounded'
    BY StillBounded
  <1>6. \A u \in seen' : turn'[u].status # "absent"
    BY Types DEF AgentInv, RowInv, Status, Grows
  <1>7. ~stalled => SurvivorInv'
    BY SparedSurvivor DEF Outside
  <1> QED  BY <1>3, <1>4, <1>5, <1>6, <1>7, OutsideStep, Types

\* A tool's lease runs out with no worker on the turn.
LEMMA LeaseStep ==
  ASSUME AgentInv, NEW t \in Turns, LeaseRunsOut(t)
  PROVE  AgentInv' /\ Quiet /\ NoNews
  <1>1. Outside /\ job' = job /\ seen' = seen /\ contact' = contact
    BY Types DEF LeaseRunsOut, Outside, desk, switches, history
  <1>2. turn[t].exec \in Seq(Execution) /\ Len(turn[t].exec) \in Nat /\ turn[t].exec # <<>>
    BY Lengths, Types DEF LeaseRunsOut
  <1>3. PICK k \in 1..Len(turn[t].exec) : k = Len(turn[t].exec)
    <2>1. Len(turn[t].exec) # 0
      BY <1>2, Lengths, Types
    <2> QED  BY <1>2, <2>1
  <1>4. turn' = [turn EXCEPT ![t].exec[k].st = "expired"]
    BY <1>3 DEF LeaseRunsOut
  <1>5. PICK f \in Execution : f.st = "expired" /\ Rewritten(t, k, f)
    BY <1>4, StatusRow
  <1>10. /\ turn' \in [Turns -> TurnRecord] /\ Quiet /\ Grows /\ Spares /\ NoNews
         /\ \A u \in Turns \ {t} : turn'[u] = turn[u]
    BY <1>5 DEF Rewritten
  <1>11. /\ turn'[t].status = turn[t].status /\ turn'[t].final = turn[t].final
         /\ Len(turn'[t].exec) = Len(turn[t].exec)
    BY <1>5 DEF Rewritten
  <1>13. \A j \in 1..Len(turn[t].exec) : j # k => turn'[t].exec[j] = turn[t].exec[j]
    BY <1>5 DEF Rewritten
  <1>14. TurnRow(t) /\ (~stalled => TurnInv(t))
    BY DEF AgentInv, RowInv, LiveInv
  <1>15. ~stalled => TurnInv(t)'
    <2> SUFFICES ASSUME ~stalled PROVE TurnInv(t)'
      OBVIOUS
    <2>1. PICK n \in Nat : n = k /\ n = Len(turn[t].exec)
      BY <1>2, <1>3
    <2>2. \A j \in 1..n : j < n => Finished(turn[t].exec[j])
      BY <1>14, <2>1 DEF TurnInv
    <2>3. \A j \in 1..n : j < n => j # k
      BY <2>1
    <2>4. \A j \in 1..n : j < n => turn'[t].exec[j] = turn[t].exec[j]
      BY <1>13, <2>1, <2>3
    <2> QED  BY <1>11, <2>1, <2>2, <2>4 DEF TurnInv
  <1>16. /\ turn'[t].final => turn'[t].status = "completed"
         /\ turn'[t].status = "tool_planned" => Len(turn'[t].exec) > 0
    BY <1>11, <1>14 DEF TurnRow, Status
  <1>17. ASSUME NEW w \in Workers, ~stalled, AtWork(w) PROVE worker[w].turn # t
    <2>1. job[worker[w].turn].by = w
      BY <1>17, Now DEF WorkerInv, AtWork
    <2> QED  BY <2>1 DEF LeaseRunsOut, Healthy
  <1>18. AgentInv'
    BY <1>1, <1>10, <1>15, <1>16, <1>17, AloneStep
  <1> QED  BY <1>10, <1>18

\* A turn grows stale with no worker on it.
LEMMA StaleStep ==
  ASSUME AgentInv, NEW t \in Turns, GrowsStale(t)
  PROVE  AgentInv' /\ Quiet /\ NoNews
  <1>1. Outside /\ job' = job /\ seen' = seen /\ contact' = contact
    BY Types DEF GrowsStale, Outside, desk, switches, history
  <1> PICK x : x = turn[t]
    OBVIOUS
  <1>2. x \in TurnRecord /\ Len(x.exec) \in Nat
    BY Lengths, Types
  <1>3. PICK r : r = [x EXCEPT !.stale = TRUE]
    OBVIOUS
  <1>4. turn' = [turn EXCEPT ![t] = r]
    <2>1. turn' = [turn EXCEPT ![t].stale = TRUE]
      BY DEF GrowsStale
    <2>2. turn' = [turn EXCEPT ![t] = [x EXCEPT !.stale = TRUE]]
      BY <2>1
    <2> QED  BY <1>3, <2>2
  <1>5. /\ r \in TurnRecord /\ r.status = x.status /\ r.exec = x.exec
        /\ r.final = x.final /\ r.steps = x.steps /\ r.note = x.note
    BY <1>2, <1>3 DEF TurnRecord
  <1>6. x.status \in Owned /\ x.status \notin Fates /\ x.status # "superseded"
    BY DEF GrowsStale, Status, Owned, Fates, Terminal
  <1>7. Len(turn[t].exec) <= Len(r.exec)
    BY <1>2, <1>5
  <1>8. /\ turn' \in [Turns -> TurnRecord] /\ turn'[t] = r /\ Quiet /\ Grows /\ Spares
        /\ \A u \in Turns \ {t} : turn'[u] = turn[u]
    BY <1>4, <1>5, <1>6, <1>7, RowSet
  <1>9. NoNews
    <2>1. \A u \in Turns : turn'[u].exec = turn[u].exec
      BY <1>5, <1>8
    <2> QED  BY <2>1 DEF NoNews
  <1>10. TurnRow(t) /\ (~stalled => TurnInv(t))
    BY DEF AgentInv, RowInv, LiveInv
  <1>11. /\ turn'[t].final => turn'[t].status = "completed"
         /\ turn'[t].status = "tool_planned" => Len(turn'[t].exec) > 0
         /\ ~stalled => TurnInv(t)'
    BY <1>5, <1>8, <1>10 DEF TurnRow, TurnInv, Status
  <1>12. ASSUME NEW w \in Workers, ~stalled, AtWork(w) PROVE worker[w].turn # t
    <2>1. job[worker[w].turn].by = w
      BY <1>12, Now DEF WorkerInv, AtWork
    <2> QED  BY <2>1 DEF GrowsStale, Healthy
  <1>13. AgentInv'
    BY <1>1, <1>8, <1>11, <1>12, AloneStep
  <1> QED  BY <1>8, <1>9, <1>13

\* The admission of a turn.
Comes(t) ==
    /\ turn[t].status = "absent" /\ turn'[t].status = "queued" /\ paused' = paused
    /\ turn'[t].final = turn[t].final
    /\ turn'[t].steps = turn[t].steps /\ turn'[t].note = turn[t].note
    /\ \A u \in Turns \ {t} : turn'[u] = turn[u]

\* A turn comes.
LEMMA AdmitStep ==
  ASSUME AgentInv, NEW t \in Turns, Admit(t)
  PROVE  AgentInv' /\ Comes(t) /\ NoNews
  <1>1. Outside /\ job' = job /\ seen' = seen /\ contact' = contact /\ paused' = paused
    BY Types DEF Admit, Outside, desk, switches, history
  <1> PICK x : x = turn[t]
    OBVIOUS
  <1>2. x \in TurnRecord /\ Len(x.exec) \in Nat
    BY Lengths, Types
  <1>3. PICK r : r = [x EXCEPT !.status = "queued"]
    OBVIOUS
  <1>4. turn' = [turn EXCEPT ![t] = r]
    <2>1. turn' = [turn EXCEPT ![t].status = "queued"]
      BY DEF Admit
    <2>2. turn' = [turn EXCEPT ![t] = [x EXCEPT !.status = "queued"]]
      BY <2>1
    <2> QED  BY <1>3, <2>2
  <1>5. /\ r \in TurnRecord /\ r.status = "queued" /\ r.exec = x.exec
        /\ r.final = x.final /\ r.steps = x.steps /\ r.note = x.note
    BY <1>2, <1>3 DEF TurnRecord, Executable
  <1>6. x.status = "absent" /\ x.status \notin Fates
    BY DEF Admit, Status, Fates, Terminal
  <1>7. Len(turn[t].exec) <= Len(r.exec)
    BY <1>2, <1>5
  <1>8. /\ turn' \in [Turns -> TurnRecord] /\ turn'[t] = r /\ Grows /\ Spares
        /\ \A u \in Turns \ {t} : turn'[u] = turn[u]
    BY <1>4, <1>5, <1>6, <1>7, RowSet
  <1>9. NoNews
    <2>1. \A u \in Turns : turn'[u].exec = turn[u].exec
      BY <1>5, <1>8
    <2> QED  BY <2>1 DEF NoNews
  <1>10. TurnRow(t) /\ (~stalled => TurnInv(t))
    BY DEF AgentInv, RowInv, LiveInv
  <1>11. /\ turn'[t].final => turn'[t].status = "completed"
         /\ turn'[t].status = "tool_planned" => Len(turn'[t].exec) > 0
         /\ ~stalled => TurnInv(t)'
    BY <1>5, <1>6, <1>8, <1>10 DEF TurnRow, TurnInv, Status
  <1>12. ASSUME NEW w \in Workers, ~stalled, AtWork(w) PROVE worker[w].turn # t
    BY <1>6, <1>12, Now DEF WorkerRow, AtWork, Status
  <1>13. AgentInv'
    BY <1>1, <1>8, <1>11, <1>12, AloneStep
  <1>14. Comes(t)
    BY <1>1, <1>5, <1>6, <1>8 DEF Comes
  <1> QED  BY <1>9, <1>13, <1>14

-----------------------------------------------------------------------------
(* The dispatcher's cycle *)

\* Only expired executions are planned again.
LEMMA ReclaimedIs ==
  ASSUME NEW s \in Seq(Execution)
  PROVE  /\ Reclaimed(s) \in Seq(Execution) /\ Len(Reclaimed(s)) = Len(s)
         /\ \A k \in 1..Len(s) :
               /\ Finished(s[k]) => Reclaimed(s)[k] = s[k]
               /\ s[k].st # "expired" => Reclaimed(s)[k] = s[k]
               /\ Reclaimed(s)[k].st = "succeeded" => s[k].st = "succeeded"
  <1>1. PICK n \in Nat : n = Len(s) /\ DOMAIN s = 1..n
    BY ExecFields
  <1>2. \A k \in 1..n : s[k] \in Execution
    BY <1>1, ElementOfSeq
  <1>3. PICK q : q = Reclaimed(s)
    OBVIOUS
  <1>4. q = [k \in 1..n |-> IF s[k].st = "expired"
                            THEN [s[k] EXCEPT !.st = "planned"] ELSE s[k]]
    BY <1>1, <1>3 DEF Reclaimed
  <1>5. ASSUME NEW k \in 1..n
        PROVE  /\ q[k] \in Execution
               /\ s[k].st # "expired" => q[k] = s[k]
               /\ s[k].st = "expired" => q[k].st = "planned"
    <2>1. PICK e \in Execution : e = s[k]
      BY <1>2
    <2>2. [e EXCEPT !.st = "planned"] \in Execution /\ [e EXCEPT !.st = "planned"].st = "planned"
      BY DEF Execution
    <2> QED  BY <1>4, <2>1, <2>2
  <1>6. q \in [1..n -> Execution]
    BY <1>4, <1>5
  <1>7. q \in Seq(Execution) /\ Len(q) = n
    BY <1>6
  <1> QED  BY <1>1, <1>3, <1>5, <1>7 DEF Finished

\* A row after the recovery.
LEMMA RecoveredRow ==
  ASSUME AgentInv, NEW t \in Turns
  PROVE  /\ Recovery[t] \in TurnRecord
         /\ Recovery[t].exec = Reclaimed(turn[t].exec)
         /\ Recovery[t].status = (IF t \in Recovered THEN "queued" ELSE turn[t].status)
         /\ Recovery[t].stale = (IF t \in Recovered THEN FALSE ELSE turn[t].stale)
         /\ Recovery[t].steps = turn[t].steps /\ Recovery[t].note = turn[t].note
         /\ Recovery[t].final = turn[t].final
         /\ t \in Recovered => turn[t].status \in Owned
  <1> PICK x : x = turn[t]
    OBVIOUS
  <1>1. x \in TurnRecord /\ x.exec \in Seq(Execution)
    BY Lengths, Types
  <1>2. PICK q \in Seq(Execution) : q = Reclaimed(x.exec)
    BY <1>1, ReclaimedIs
  <1>3. PICK st \in Statuses : st = (IF t \in Recovered THEN "queued" ELSE x.status)
    BY <1>1, TurnFields DEF Statuses, Executable
  <1>4. PICK b \in BOOLEAN : b = (IF t \in Recovered THEN FALSE ELSE x.stale)
    BY <1>1, TurnFields
  <1>5. Recovery[t] = [x EXCEPT !.exec = q, !.status = st, !.stale = b]
    BY <1>2, <1>3, <1>4 DEF Recovery
  <1>6. PICK r : r = [x EXCEPT !.exec = q, !.status = st, !.stale = b]
    OBVIOUS
  <1>7. r = [status |-> st, stale |-> b, exec |-> q,
             steps |-> x.steps, note |-> x.note, final |-> x.final]
    BY <1>1, <1>6 DEF TurnRecord
  <1>8. r \in TurnRecord
    BY <1>1, <1>7, TurnFields DEF TurnRecord, Statuses
  <1>9. t \in Recovered => x.status \in Owned
    BY DEF Recovered, Resumable, StaleRunning, Status, Owned
  <1> QED  BY <1>2, <1>3, <1>4, <1>5, <1>6, <1>7, <1>8, <1>9

\* The rows after a cycle that recovers.
LEMMA ScanRow ==
  ASSUME AgentInv, Scan, NEW t \in Turns
  PROVE  /\ turn'[t] \in TurnRecord
         /\ turn'[t].status = (IF t \in Recovered THEN "queued" ELSE turn[t].status)
         /\ turn'[t].stale = (IF t \in Recovered THEN FALSE ELSE turn[t].stale)
         /\ turn'[t].steps = turn[t].steps /\ turn'[t].note = turn[t].note
         /\ turn'[t].final = turn[t].final
         /\ turn'[t].exec \in Seq(Execution) /\ Len(turn'[t].exec) = Len(turn[t].exec)
         /\ \A k \in 1..Len(turn[t].exec) :
               /\ Finished(turn[t].exec[k]) => turn'[t].exec[k] = turn[t].exec[k]
               /\ turn'[t].exec[k].st = "succeeded" => turn[t].exec[k].st = "succeeded"
         /\ t \in Recovered => turn[t].status \in Owned
  <1>1. turn' = Recovery
    BY DEF Scan
  <1>2. PICK q \in Seq(Execution) : q = turn[t].exec
    BY Lengths, Types
  <1>3. turn'[t].exec = Reclaimed(q)
    BY <1>1, <1>2, RecoveredRow
  <1>4. /\ Reclaimed(q) \in Seq(Execution) /\ Len(Reclaimed(q)) = Len(q)
        /\ \A k \in 1..Len(q) : /\ Finished(q[k]) => Reclaimed(q)[k] = q[k]
                                /\ Reclaimed(q)[k].st = "succeeded" => q[k].st = "succeeded"
    BY ReclaimedIs
  <1> QED  BY <1>1, <1>2, <1>3, <1>4, RecoveredRow

\* A turn whose lease and tools are in time is left as it is.
LEMMA InTime ==
  ASSUME AgentInv, Scan, NEW t \in Turns, ~turn[t].stale,
         \A k \in 1..Len(turn[t].exec) : turn[t].exec[k].st # "expired"
  PROVE  turn'[t] = turn[t] /\ t \notin Recovered
  <1>1. PICK q \in Seq(Execution) : q = turn[t].exec
    BY Lengths, Types
  <1>2. DOMAIN q = 1..Len(q)
    BY ExecFields
  <1>3. t \notin Recovered
    BY <1>1, <1>2 DEF Recovered, Resumable, StaleRunning
  <1>4. turn'[t].exec = Reclaimed(q)
    BY <1>1, RecoveredRow DEF Scan
  <1>5. Reclaimed(q) = [k \in 1..Len(q) |-> q[k]]
    BY <1>1, <1>2 DEF Reclaimed
  <1>6. Reclaimed(q) = q
    <2>1. q \in [1..Len(q) -> Execution]
      BY <1>2, ElementOfSeq
    <2> QED  BY <1>5, <2>1
  <1>7. turn'[t] \in TurnRecord /\ turn[t] \in TurnRecord
    BY ScanRow, Types
  <1>8. /\ turn'[t].status = turn[t].status /\ turn'[t].stale = turn[t].stale
        /\ turn'[t].steps = turn[t].steps /\ turn'[t].note = turn[t].note
        /\ turn'[t].final = turn[t].final
    BY <1>3, ScanRow
  <1> QED  BY <1>1, <1>3, <1>4, <1>6, <1>7, <1>8, TurnFields

\* The recovery drops only jobs nobody holds.
LEMMA ScanJobs ==
  ASSUME AgentInv, Scan
  PROVE  /\ job' \in [Turns -> JobRecord]
         /\ \A t \in Turns : /\ job'[t].by = job[t].by
                             /\ job'[t].by # Nobody => job'[t] = job[t]
  <1>1. ASSUME NEW t \in Turns
        PROVE  /\ job'[t] \in JobRecord /\ job'[t].by = job[t].by
               /\ job'[t].by # Nobody => job'[t] = job[t]
    <2>1. job'[t] = IF t \in Recovered /\ job[t].by = Nobody THEN NewJob ELSE job[t]
      BY DEF Scan
    <2> QED  BY <2>1, NewRecords, Types
  <1>2. job' = [t \in Turns |-> IF t \in Recovered /\ job[t].by = Nobody
                                THEN NewJob ELSE job[t]]
    BY DEF Scan
  <1>3. job' = [t \in Turns |-> job'[t]]
    BY <1>2
  <1> QED  BY <1>1, <1>3

\* The recovery touches a turn with a worker at work only between its steps,
\* or before its next tool is claimed.
LEMMA ScanWorker ==
  ASSUME AgentInv, Scan, ~stalled, NEW w \in Workers
  PROVE  WorkerInv(w)'
  <1> PICK x : x = worker[w]
    OBVIOUS
  <1>1. worker' = worker /\ contact' = contact
    BY DEF Scan, switches
  <1>2. CASE x.pc \in {"idle", "reconcile"}
    BY <1>1, <1>2 DEF WorkerInv, AtWork
  <1>3. CASE x.pc \notin {"idle", "reconcile"}
    <2> PICK t \in Turns : t = x.turn
      BY <1>3, Types
    <2>1. AtWork(w) /\ WorkerInv(w) /\ TurnInv(t)
      BY <1>3 DEF AgentInv, LiveInv, AtWork
    <2>2. job[t].by = w /\ ~turn[t].stale /\ job'[t].by = w
      BY <2>1, ScanJobs DEF WorkerInv
    <2>3. x \in WorkerRecord
      BY Types
    <2>4. CASE x.pc \in {"tool", "loop"} /\ ~(x.pc = "loop" /\ x.cont)
      <3>1. ~turn'[t].stale
        BY <2>2, ScanRow
      <3>2. x.pc = "tool" => turn'[t].status # "tool_planned"
        BY <2>1, <2>4, ScanRow DEF WorkerInv, Status
      <3> QED  BY <1>1, <2>2, <2>4, <3>1, <3>2 DEF WorkerInv, Deciding, Status
    <2>5. CASE x.pc \notin {"tool", "loop"} \/ (x.pc = "loop" /\ x.cont)
      <3>1. \A k \in 1..Len(turn[t].exec) : turn[t].exec[k].st # "expired"
        <4>1. CASE x.pc = "run"
          <5>1. PICK n \in Nat : n = Len(turn[t].exec)
            BY Lengths, Types
          <5>2. turn[t].exec[n].st = "running"
            BY <2>1, <4>1, <5>1 DEF WorkerInv
          <5>3. \A k \in 1..n : k < n => Finished(turn[t].exec[k])
            BY <2>1, <5>1 DEF TurnInv
          <5>4. \A k \in 1..n : k < n \/ k = n
            BY <5>1
          <5> QED  BY <5>1, <5>2, <5>3, <5>4 DEF Finished
        <4>2. CASE x.pc # "run"
          <5>1. Settled(t)
            BY <1>3, <2>1, <2>3, <2>5, <4>2 DEF WorkerInv, Deciding, WorkerRecord
          <5> QED  BY <5>1 DEF Settled, Finished
        <4> QED  BY <4>1, <4>2
      <3>2. turn'[t] = turn[t]
        BY <2>2, <3>1, InTime
      <3>3. x.pc = "tx" /\ x.ok /\ ~contact => turn'[t].status \in Terminal
        BY <2>1, <3>2 DEF WorkerInv, Status
      <3>4. x.pc = "absorb" /\ seen' # {} => turn'[t].status \in Terminal
        <4>1. seen' # {} => turn'[t].status # "running"
          BY DEF Scan
        <4>2. x.pc = "absorb" => turn[t].status \in {"running"} \cup Terminal
          BY <2>1 DEF WorkerInv, Deciding, Status
        <4> QED  BY <3>2, <4>1, <4>2
      <3> QED  BY <1>1, <2>2, <3>2, <3>3, <3>4, Undisturbed DEF Ended
    <2> QED  BY <2>4, <2>5
  <1> QED  BY <1>2, <1>3

\* The dispatcher recovers stale turns and reads the queued ones.
LEMMA ScanStep ==
  ASSUME AgentInv, Scan
  PROVE  AgentInv' /\ Quiet /\ NoNews
  <1>1. Outside
    BY Types DEF Scan, Outside, desk, switches, history
  <1>2. turn' \in [Turns -> TurnRecord]
    <2>1. turn' = [t \in Turns |-> turn'[t]]
      <3>1. turn' = Recovery
        BY DEF Scan
      <3> QED  BY <3>1 DEF Recovery
    <2>2. \A t \in Turns : turn'[t] \in TurnRecord
      BY ScanRow
    <2> QED  BY <2>1, <2>2
  <1>3. \A t \in Turns : turn[t].status \notin Owned => turn'[t].status = turn[t].status
    BY ScanRow
  <1>4. \A t \in Turns : turn[t].status \in Owned => turn'[t].status \in Executable
    BY ScanRow DEF Owned, Executable
  <1>5. Grows
    <2>1. \A t \in Turns : Len(turn[t].exec) <= Len(turn'[t].exec)
      <3>1. \A t \in Turns : Len(turn[t].exec) \in Nat
        BY Lengths, Types
      <3>2. \A t \in Turns : Len(turn'[t].exec) = Len(turn[t].exec)
        BY ScanRow
      <3> QED  BY <3>1, <3>2
    <2>2. \A t \in Turns : turn'[t].status = "absent" => turn[t].status = "absent"
      BY <1>3, <1>4, StatusSets
    <2> QED  BY <2>1, <2>2 DEF Grows
  <1>6. Quiet
    <2>1. Owned \subseteq Executable
      BY StatusSets
    <2> QED  BY <1>3, <1>4, <2>1, ScanRow DEF Quiet
  <1>7. NoNews
    BY ScanRow DEF NoNews
  <1>8. Bounded'
    <2>1. PICK n \in Nat : \A t \in Turns : turn[t].status # "absent" => t <= n
      BY DEF AgentInv, RowInv, Bounded, Status
    <2>2. \A t \in Turns : turn[t].status = "absent" => turn'[t].status = "absent"
      BY <1>3 DEF Owned
    <2> QED  BY <2>1, <2>2 DEF Bounded, Status
  <1>9. seen' \subseteq Turns /\ \A t \in seen' : turn'[t].status = "queued"
    BY DEF Scan
  <1>10. ASSUME NEW t \in Turns PROVE TurnRow(t)'
    <2>1. TurnRow(t)
      BY DEF AgentInv, RowInv
    <2>2. turn'[t].final => turn'[t].status = "completed"
      BY <1>3, <2>1, ScanRow DEF TurnRow, Status, Owned
    <2>3. turn'[t].status = "tool_planned" => Len(turn'[t].exec) > 0
      BY <2>1, ScanRow DEF TurnRow, Status
    <2>4. job'[t].by # Nobody => job'[t].st = "active"
      BY <2>1, ScanJobs DEF TurnRow
    <2> QED  BY <2>2, <2>3, <2>4 DEF TurnRow, Status
  <1>11. ASSUME ~stalled, NEW t \in Turns PROVE TurnInv(t)'
    <2>1. TurnInv(t)
      BY <1>11 DEF AgentInv, LiveInv
    <2>2. /\ Len(turn'[t].exec) = Len(turn[t].exec)
          /\ \A k \in 1..Len(turn[t].exec) :
                Finished(turn[t].exec[k]) => turn'[t].exec[k] = turn[t].exec[k]
      BY ScanRow
    <2> QED  BY <2>1, <2>2 DEF TurnInv
  <1>12. ASSUME ~stalled PROVE SurvivorInv'
    <2> SUFFICES ASSUME ~chained
        PROVE  /\ \/ \A t \in Turns : Status(t)' # "superseded"
                  \/ \E t \in Turns : Status(t)' \notin {"absent", "superseded"}
               /\ seen' # {} => Given' \/ Status(Newest)' # "superseded"
      BY <1>1 DEF SurvivorInv, Outside
    <2>1. SurvivorInv
      BY <1>12 DEF AgentInv, LiveInv
    <2>2. \/ \A t \in Turns : turn'[t].status # "superseded"
          \/ \E t \in Turns : turn'[t].status \notin {"absent", "superseded"}
      <3>1. \A t \in Turns : turn'[t].status \in {"absent", "superseded"}
               <=> turn[t].status \in {"absent", "superseded"}
        BY <1>3, <1>4 DEF Owned, Executable
      <3>2. \A t \in Turns : turn'[t].status = "superseded" <=> turn[t].status = "superseded"
        BY <1>3, <1>4 DEF Owned, Executable
      <3> QED  BY <2>1, <3>1, <3>2 DEF SurvivorInv, Status
    <2>3. ASSUME seen' # {} PROVE Status(Newest)' # "superseded"
      <3>1. PICK S : S = seen'
        OBVIOUS
      <3>2. S \in SUBSET Nat
        BY <1>9, <3>1, Types
      <3>3. PICK n \in Nat : \A t \in Turns : turn'[t].status # "absent" => t <= n
        BY <1>8 DEF Bounded, Status
      <3>4. \A u \in S : u <= n
        BY <1>9, <3>1, <3>3
      <3>5. PICK m \in S : m = (CHOOSE t \in S : \A u \in S : u <= t)
        BY <2>3, <3>1, <3>2, <3>4, GreatestIs
      <3>6. Newest' = m
        BY <3>1, <3>5 DEF Newest
      <3> QED  BY <1>9, <3>1, <3>5, <3>6 DEF Status
    <2> QED  BY <2>2, <2>3 DEF Status
  <1>13. AgentInv'
    <2>1. \A t \in seen' : turn'[t].status # "absent"
      BY <1>9
    <2>2. \A w \in Workers : ~stalled => WorkerInv(w)'
      BY ScanWorker
    <2>3. job' \in [Turns -> JobRecord]
      BY ScanJobs
    <2> QED  BY <1>1, <1>2, <1>5, <1>8, <1>9, <1>10, <1>11, <1>12, <2>1, <2>2, <2>3, OutsideStep
  <1> QED  BY <1>6, <1>7, <1>13

\* The dispatcher spares the newest of the turns it has read, or another turn
\* has ended otherwise.
LEMMA EnqueueStep ==
  ASSUME AgentInv, NEW quiet \in BOOLEAN, Enqueue(quiet)
  PROVE  AgentInv' /\ Quiet /\ NoNews
  <1>1. Outside /\ contact' = contact /\ seen # {} /\ seen' = {}
    BY Types DEF Enqueue, Outside, desk, switches, history
  <1>2. PICK m \in Turns : /\ m = Newest /\ m \in seen /\ \A u \in seen : u <= m
    BY <1>1, NewestIs, Types
  <1>3. /\ turn' = TransitionMany(turn, seen \ {m}, {"queued"}, "superseded")
        /\ job' = IF quiet /\ job[m].st = "none"
                  THEN [job EXCEPT ![m].st = "waiting"] ELSE job
    BY <1>2 DEF Enqueue, Newest
  <1>4. Ends(turn, turn', {"superseded"})
    BY <1>3, TransitionManyEnds, Types DEF Terminal, Executable
  <1>5. Ends(turn, turn', Terminal)
    BY <1>4, EndsWiden DEF Terminal
  <1>6. Quiet /\ NoNews /\ Grows
    BY <1>5, EndsQuiet DEF AgentInv
  <1>7. turn' \in [Turns -> TurnRecord] /\ \A u \in Turns : Ended(u)
    BY <1>5 DEF Ends, Ended
  <1>8. /\ job' \in [Turns -> JobRecord]
        /\ \A u \in Turns : /\ job'[u].by = job[u].by
                            /\ job'[u].by # Nobody => job'[u] = job[u]
    <2>1. TurnRow(m) /\ job[m] \in JobRecord
      BY Types DEF AgentInv, RowInv
    <2>2. PICK j : j = [job[m] EXCEPT !.st = "waiting"]
      OBVIOUS
    <2>3. j = [st |-> "waiting", by |-> job[m].by, tries |-> job[m].tries,
               stalls |-> job[m].stalls]
      BY <2>1, <2>2 DEF JobRecord
    <2>4. j \in JobRecord /\ j.by = job[m].by
      BY <2>1, <2>3 DEF JobRecord
    <2>5. job[m].st = "none" => job[m].by = Nobody
      BY <2>1 DEF TurnRow
    <2>6. job' = job \/ (job[m].st = "none" /\ job' = [job EXCEPT ![m] = j])
      BY <1>3, <2>2
    <2> QED  BY <2>4, <2>5, <2>6, Types
  <1>9. \A u \in Turns : TurnRow(u)' /\ (~stalled => TurnInv(u)')
    <2>1. ASSUME NEW u \in Turns PROVE TurnRow(u)' /\ (~stalled => TurnInv(u)')
      <3>1. TurnRow(u) /\ (~stalled => TurnInv(u))
        BY DEF AgentInv, RowInv, LiveInv
      <3>2. /\ turn'[u].exec = turn[u].exec /\ turn'[u].final = turn[u].final
            /\ turn'[u].status = "tool_planned" => turn[u].status = "tool_planned"
            /\ turn[u].status = "completed" => turn'[u].status = "completed"
        BY <1>7 DEF Ended, SameButStatus, Executable, Terminal
      <3>3. job'[u].by # Nobody => job'[u].st = "active"
        BY <1>8, <3>1 DEF TurnRow
      <3> QED  BY <3>1, <3>2, <3>3 DEF TurnRow, TurnInv, Status
    <2> QED  BY <2>1
  <1>10. ASSUME ~stalled, NEW w \in Workers PROVE WorkerInv(w)'
    <2> PICK x : x = worker[w]
      OBVIOUS
    <2>1. WorkerInv(w) /\ worker' = worker
      BY <1>1, <1>10 DEF AgentInv, LiveInv, Outside
    <2>2. AtWork(w) => x.turn \in Turns
      BY Types DEF AtWork
    <2>3. AtWork(w) => Ended(x.turn) /\ job'[x.turn].by = job[x.turn].by
      BY <1>7, <1>8, <2>2
    <2>4. AtWork(w) /\ turn[x.turn].status \in Terminal => turn'[x.turn].status \in Terminal
      BY <2>3 DEF Ended
    <2>5. AtWork(w) /\ x.pc = "tx" /\ x.ok /\ ~contact' => turn'[x.turn].status \in Terminal
      BY <1>1, <2>1, <2>4 DEF WorkerInv, Status
    <2> QED  BY <1>1, <1>10, <2>1, <2>3, <2>5, Undisturbed
  <1>11. Bounded'
    <2>1. \A u \in Turns : turn[u].status = "absent" => turn'[u].status = "absent"
      BY <1>7, StatusSets DEF Ended
    <2> QED  BY <1>2, <2>1, StillBounded
  <1>12. ASSUME ~stalled PROVE SurvivorInv'
    <2> SUFFICES ASSUME ~chained
        PROVE  \E t \in Turns : turn'[t].status \notin {"absent", "superseded"}
      BY <1>1 DEF SurvivorInv, Outside, Status
    <2>1. Given \/ turn[m].status # "superseded"
      BY <1>1, <1>2, <1>12 DEF AgentInv, LiveInv, SurvivorInv, Status
    <2>2. CASE Given
      <3>1. PICK t \in Turns : turn[t].status \in Fates
        BY <2>2 DEF Given, Status
      <3>2. turn'[t] = turn[t]
        BY <1>7, <3>1, StatusSets DEF Ended
      <3> QED  BY <3>1, <3>2 DEF Fates, Terminal
    <2>3. CASE turn[m].status # "superseded"
      <3>1. turn'[m] = turn[m]
        BY <1>3 DEF TransitionMany
      <3>2. turn[m].status # "absent"
        BY <1>2 DEF AgentInv, RowInv, Status
      <3> QED  BY <2>3, <3>1, <3>2
    <2> QED  BY <2>1, <2>2, <2>3
  <1>13. AgentInv'
    <2>1. seen' \subseteq Turns /\ \A u \in seen' : turn'[u].status # "absent"
      BY <1>1
    <2> QED  BY <1>1, <1>6, <1>7, <1>8, <1>9, <1>10, <1>11, <1>12, <2>1, OutsideStep
  <1> QED  BY <1>6, <1>13

-----------------------------------------------------------------------------
(* Every step *)

\* What a step says: at most one turn comes, is answered or is spoken for.
Told == Quiet \/ \E t \in Turns : Comes(t) \/ Answers(t) \/ Speaks(t)
Silent ==
    \A u \in Turns : /\ turn'[u].final = turn[u].final
                     /\ turn'[u].steps = turn[u].steps /\ turn'[u].note = turn[u].note

\* Whose claim a stored result was.
StoredByClaimer ==
    \A t \in Turns : \A k \in DOMAIN turn[t].exec :
        turn[t].exec[k].st \in {"running", "expired"} /\ turn'[t].exec[k].st = "succeeded"
        => \E w \in Workers :
              /\ worker[w].pc = "run" /\ worker'[w].pc = "ask"
              /\ worker[w].turn = t
              /\ worker[w].claim = <<k, turn[t].exec[k].attempt>>

Outcome ==
    /\ AgentInv' /\ Told /\ StoredByClaimer
    /\ ~stalled /\ ~contact => Silent

\* Where no result is stored, none is stored for somebody else.
LEMMA NoNewsStored ==
  ASSUME AgentInv, NoNews
  PROVE  StoredByClaimer
  <1>1. \A t \in Turns : DOMAIN turn[t].exec = 1..Len(turn[t].exec)
    BY Lengths, Types
  <1>2. \A t \in Turns : \A k \in DOMAIN turn[t].exec :
           turn'[t].exec[k].st = "succeeded" => turn[t].exec[k].st = "succeeded"
    BY <1>1 DEF NoNews
  <1> QED  BY <1>2 DEF StoredByClaimer

\* The outcome of a step that says nothing and stores no result.
LEMMA QuietOutcome ==
  ASSUME AgentInv, AgentInv', Quiet, NoNews
  PROVE  Outcome
  <1>1. Silent
    BY DEF Quiet, Silent
  <1> QED  BY <1>1, NoNewsStored DEF Outcome, Told

\* A tool's result is news, and the worker's own.
LEMMA ReturnOutcome ==
  ASSUME AgentInv, NEW w \in Workers, NEW result \in {"succeeded", "failed"},
         ToolReturns(w, result)
  PROVE  Outcome
  <1> PICK x : x = worker[w]
    OBVIOUS
  <1>1. x.pc = "run" /\ x \in WorkerRecord
    BY Types DEF ToolReturns
  <1> PICK t \in Turns : t = x.turn
    BY <1>1, Types
  <1>2. PICK k \in 1..Len(turn[t].exec), e \in Execution : Returned(w, t, k, e)
    BY ReturnShape
  <1>3. AgentInv' /\ Quiet
    BY ReturnStep
  <1>4. Silent /\ Told
    BY <1>3 DEF Quiet, Silent, Told
  <1>5. CASE turn' = turn
    BY <1>3, <1>5, QuietOutcome, RowsStay
  <1>6. CASE turn' # turn
    <2>1. /\ Fenced(e, x.claim[2]) /\ k = x.claim[1] /\ e = turn[t].exec[k]
          /\ \A u \in Turns \ {t} : turn'[u] = turn[u]
          /\ \A j \in 1..Len(turn[t].exec) : j # k => turn'[t].exec[j] = turn[t].exec[j]
          /\ worker' = [worker EXCEPT ![w] = Enter(t, "ask", "recovery")]
      BY <1>2, <1>6 DEF Returned
    <2>2. worker'[w].pc = "ask"
      <3>1. PICK r \in WorkerRecord : r = Enter(t, "ask", "recovery") /\ r.pc = "ask"
        BY EnterFields
      <3> QED  BY <2>1, <3>1, Types
    <2>3. x.claim = <<k, turn[t].exec[k].attempt>>
      <3>1. x.claim \in Nat \X Nat
        BY <1>1 DEF WorkerRecord
      <3>2. x.claim = <<x.claim[1], x.claim[2]>>
        BY <3>1
      <3>3. x.claim[1] = k /\ x.claim[2] = turn[t].exec[k].attempt
        BY <2>1 DEF Fenced
      <3> QED  BY <3>2, <3>3
    <2>4. ASSUME NEW u \in Turns, NEW j \in DOMAIN turn[u].exec,
                 turn[u].exec[j].st \in {"running", "expired"},
                 turn'[u].exec[j].st = "succeeded"
          PROVE  u = t /\ j = k
      <3>1. u = t
        BY <2>1, <2>4
      <3>2. j \in 1..Len(turn[t].exec)
        BY <2>4, <3>1, Lengths, Types
      <3> QED  BY <2>1, <2>4, <3>1, <3>2
    <2>5. StoredByClaimer
      BY <1>1, <2>2, <2>3, <2>4 DEF StoredByClaimer
    <2> QED  BY <1>3, <1>4, <2>5 DEF Outcome
  <1> QED  BY <1>5, <1>6

\* The outcome of every commit,
LEMMA CommitOutcome ==
  ASSUME AgentInv, NEW w \in Workers, Commit(w)
  PROVE  Outcome
  <1>1. CASE CommitPaused(w) \/ CommitDisabled(w) \/ CommitRefused(w)
    BY <1>1, SuppressedStep, QuietOutcome
  <1>2. CASE CommitHeld(w) \/ CommitRepeat(w) \/ CommitHandoff(w) \/ CommitFailure(w)
    BY <1>2, EndingStep, QuietOutcome
  <1>3. CASE CommitFinal(w) \/ CommitStep(w) \/ CommitCheckpoint(w)
    <2>1. /\ AgentInv' /\ NoNews
          /\ Quiet \/ \E t \in Turns : Answers(t) \/ Speaks(t)
          /\ ~stalled /\ ~contact => Quiet
      <3>1. CASE CommitFinal(w)
        BY <3>1, FinalStep
      <3>2. CASE CommitStep(w)
        BY <3>2, StepStep
      <3>3. CASE CommitCheckpoint(w)
        BY <3>3, CheckpointStep
      <3> QED  BY <1>3, <3>1, <3>2, <3>3
    <2>2. ~stalled /\ ~contact => Silent
      BY <2>1 DEF Quiet, Silent
    <2> QED  BY <2>1, <2>2, NoNewsStored DEF Outcome, Told
  <1> QED  BY <1>1, <1>2, <1>3 DEF Commit

\* of every step of a worker,
LEMMA WorkerOutcome ==
  ASSUME AgentInv, NEW w \in Workers, Work(w) \/ Fault(w)
  PROVE  Outcome
  <1>1. ASSUME NEW t \in Turns, Take(w, t) PROVE Outcome
    BY <1>1, TakeStep, QuietOutcome
  <1>2. ASSUME NEW u \in Turns, Absorb(w, u) PROVE Outcome
    BY <1>2, AbsorbStep, QuietOutcome
  <1>3. CASE AskBlocked(w)
    BY <1>3, AskBlockedStep, QuietOutcome
  <1>4. CASE Ask(w)
    BY <1>4, AskStep, QuietOutcome
  <1>5. ASSUME NEW d \in Decisions, Decide(w, d) PROVE Outcome
    BY <1>5, DecideStep, QuietOutcome
  <1>6. CASE Tool(w)
    BY <1>6, ToolStep, QuietOutcome
  <1>7. ASSUME NEW r \in {"succeeded", "failed"}, ToolReturns(w, r) PROVE Outcome
    BY <1>7, ReturnOutcome
  <1>8. CASE Begin(w)
    BY <1>8, BeginStep, QuietOutcome
  <1>9. CASE Commit(w)
    BY <1>9, CommitOutcome
  <1>10. CASE Loop(w)
    BY <1>10, LoopsStep, QuietOutcome
  <1>11. CASE Reconcile(w) \/ ReconcileFails(w)
    BY <1>11, ReconcileStep, QuietOutcome
  <1>12. CASE AskFails(w) \/ Fails(w)
    BY <1>12, FailsStep, QuietOutcome
  <1>13. CASE Crash(w)
    BY <1>13, CrashStep, QuietOutcome
  <1>14. CASE LoseLock(w)
    BY <1>14, LoseLockStep, QuietOutcome
  <1>15. CASE Work(w)
    BY <1>1, <1>2, <1>3, <1>4, <1>5, <1>6, <1>7, <1>8, <1>9, <1>10, <1>11, <1>15 DEF Work
  <1>16. CASE Fault(w)
    BY <1>11, <1>12, <1>13, <1>14, <1>16 DEF Fault
  <1> QED  BY <1>15, <1>16

\* and of every step.
LEMMA NextOutcome ==
  ASSUME AgentInv, Next
  PROVE  Outcome
  <1>1. ASSUME NEW w \in Workers, Work(w) \/ Fault(w) PROVE Outcome
    BY <1>1, WorkerOutcome
  <1>2. ASSUME NEW t \in Turns, Evict(t) \/ Stalled(t) PROVE Outcome
    BY <1>2, QueueStep, QuietOutcome
  <1>3. ASSUME NEW t \in Turns, LeaseRunsOut(t) PROVE Outcome
    BY <1>3, LeaseStep, QuietOutcome
  <1>4. ASSUME NEW t \in Turns, GrowsStale(t) PROVE Outcome
    BY <1>4, StaleStep, QuietOutcome
  <1>5. ASSUME NEW t \in Turns, Admit(t) PROVE Outcome
    <2>1. AgentInv' /\ Comes(t) /\ NoNews
      BY <1>5, AdmitStep
    <2>2. Silent
      BY <2>1 DEF Comes, Silent
    <2> QED  BY <2>1, <2>2, NoNewsStored DEF Outcome, Told
  <1>6. CASE Scan
    BY <1>6, ScanStep, QuietOutcome
  <1>7. ASSUME NEW quiet \in BOOLEAN, Enqueue(quiet) PROVE Outcome
    BY <1>7, EnqueueStep, QuietOutcome
  <1>8. CASE TakeOver \/ Resolve \/ SetRuntime \/ \E on \in BOOLEAN : SetContact(on)
    BY <1>8, PeopleStep, QuietOutcome
  <1> QED  BY <1>1, <1>2, <1>3, <1>4, <1>5, <1>6, <1>7, <1>8 DEF Next

-----------------------------------------------------------------------------
(* Farewells *)

\* The conversation is handed over for a turn that has come, for the first
\* time, with a farewell.
Parts(t) ==
    /\ ~paused /\ paused' /\ t \notin farewells /\ Status(t) # "absent"
    /\ farewells' = farewells \cup {t}

\* A handover parts or leaves no farewell.
LEMMA HandOffParts ==
  ASSUME AgentInv, NEW t \in Turns, HandsOff(t) \/ UNCHANGED desk, Status(t) # "absent"
  PROVE  farewells' = farewells \/ Parts(t)
  BY Types DEF HandsOff, HandOff, Creates, desk, Parts

\* A worker leaves a farewell only in a handover.
LEMMA WorkerParts ==
  ASSUME AgentInv, NEW w \in Workers, Work(w) \/ Fault(w)
  PROVE  farewells' = farewells \/ \E t \in Turns : Parts(t)
  <1> PICK t : t = worker[w].turn
    OBVIOUS
  <1>1. worker[w].pc # "idle" => t \in Turns /\ Status(t) # "absent"
    BY Types DEF AgentInv, RowInv, WorkerRow
  <1>2. CASE Commit(w)
    <2>1. worker[w].pc # "idle"
      BY <1>2 DEF Commit, CommitPaused, CommitDisabled, CommitRefused, CommitHeld,
                  CommitFinal, CommitStep, CommitCheckpoint, CommitRepeat, CommitHandoff,
                  CommitFailure, InTx
    <2>2. CASE \/ CommitPaused(w) \/ CommitDisabled(w) \/ CommitRefused(w)
               \/ CommitFinal(w) \/ CommitStep(w) \/ CommitCheckpoint(w) \/ CommitRepeat(w)
      BY <2>2 DEF CommitPaused, CommitDisabled, CommitRefused, CommitFinal, CommitStep,
                  CommitCheckpoint, CommitRepeat, desk
    <2>3. CASE CommitHeld(w) \/ CommitHandoff(w)
      <3>1. HandsOff(t) \/ UNCHANGED desk
        BY <2>3 DEF CommitHeld, CommitHandoff, HandsOff, Conflict
      <3> QED  BY <1>1, <2>1, <3>1, HandOffParts
    <2>4. CASE CommitFailure(w)
      <3>1. HandsOff(t) \/ UNCHANGED desk
        BY <2>4 DEF CommitFailure, FailTurn, HandsOff, Conflict
      <3> QED  BY <1>1, <2>1, <3>1, HandOffParts
    <2> QED  BY <1>2, <2>2, <2>3, <2>4 DEF Commit
  <1>3. CASE Reconcile(w)
    <2>1. worker[w].pc # "idle" /\ (HandsOff(t) \/ UNCHANGED desk)
      BY <1>3 DEF Reconcile, FailTurn, HandsOff
    <2> QED  BY <1>1, <2>1, HandOffParts
  <1>4. ASSUME Work(w), ~Commit(w), ~Reconcile(w) PROVE farewells' = farewells
    BY <1>4 DEF Work, Take, Absorb, AskBlocked, Ask, Decide, Tool, ToolReturns, Begin,
                Loop, desk
  <1>5. CASE Fault(w)
    BY <1>5 DEF Fault, AskFails, Fails, ReconcileFails, Crash, LoseLock, desk
  <1> QED  BY <1>2, <1>3, <1>4, <1>5

\* So does every step.
LEMMA NextParts ==
  ASSUME AgentInv, Next
  PROVE  farewells' = farewells \/ \E t \in Turns : Parts(t)
  <1>1. ASSUME NEW w \in Workers, Work(w) \/ Fault(w)
        PROVE  farewells' = farewells \/ \E t \in Turns : Parts(t)
    BY <1>1, WorkerParts
  <1>2. ASSUME NEW t \in Turns,
               Evict(t) \/ Stalled(t) \/ LeaseRunsOut(t) \/ GrowsStale(t) \/ Admit(t)
        PROVE  farewells' = farewells
    BY <1>2 DEF Evict, Stalled, LeaseRunsOut, GrowsStale, Admit, desk
  <1>3. CASE Scan \/ (\E quiet \in BOOLEAN : Enqueue(quiet)) \/ TakeOver \/ Resolve
             \/ (\E on \in BOOLEAN : SetContact(on)) \/ SetRuntime
    BY <1>3 DEF Scan, Enqueue, TakeOver, Resolve, SetContact, SetRuntime, desk
  <1> QED  BY <1>1, <1>2, <1>3 DEF Next

-----------------------------------------------------------------------------
(* The invariant holds *)

\* The invariant holds at the start,
LEMMA InitInv == Init => AgentInv
  <1> SUFFICES ASSUME Init PROVE AgentInv
    OBVIOUS
  <1>1. /\ \A t \in Turns : turn[t] = NewTurn /\ job[t] = NewJob
        /\ \A w \in Workers : worker[w] = Idle
        /\ seen = {} /\ requested = {} /\ farewells = {}
        /\ scenario \in Scenario(Turns)
    BY AgentTurnAssumption DEF Init
  <1>2. NewTurn.status = "absent" /\ NewTurn.final = FALSE /\ NewTurn.exec = <<>>
    BY DEF NewTurn
  <1>3. TypeOK
    BY <1>1, NewRecords DEF Init, TypeOK
  <1>4. \A t \in Turns : TurnRow(t) /\ TurnInv(t)
    <2>1. Len(<<>>) = 0
      BY EmptySeq
    <2>2. \A k \in 1..Len(<<>>) : FALSE
      BY <2>1
    <2> QED  BY <1>1, <1>2, <2>2, NewRecords DEF TurnRow, TurnInv, Status
  <1>5. \A w \in Workers : WorkerRow(w) /\ WorkerInv(w)
    BY <1>1, NewRecords DEF WorkerRow, WorkerInv, AtWork
  <1>6. Bounded /\ SurvivorInv
    BY <1>1, <1>2 DEF Bounded, SurvivorInv, Status
  <1> QED  BY <1>1, <1>3, <1>4, <1>5, <1>6 DEF AgentInv, RowInv, LiveInv

\* and of a state like the one before.
LEMMA StutterInv == AgentInv /\ UNCHANGED vars => AgentInv'
  <1> SUFFICES ASSUME AgentInv, UNCHANGED vars PROVE AgentInv'
    OBVIOUS
  <1>1. /\ turn' = turn /\ job' = job /\ worker' = worker /\ seen' = seen
        /\ paused' = paused /\ requested' = requested /\ contact' = contact
        /\ farewells' = farewells
        /\ ai' = ai /\ send' = send /\ stalled' = stalled /\ chained' = chained
        /\ scenario' = scenario
    BY DEF vars, desk, switches, history
  <1>2. TypeOK'
    BY <1>1 DEF AgentInv, TypeOK
  <1>3. RowInv'
    BY <1>1 DEF AgentInv, RowInv, TurnRow, WorkerRow, Bounded, Status
  <1>4. ~stalled' => LiveInv'
    <2> SUFFICES ASSUME ~stalled PROVE LiveInv'
      BY <1>1
    <2>1. \A t \in Turns : TurnInv(t)'
      BY <1>1 DEF AgentInv, LiveInv, TurnInv
    <2>2. \A w \in Workers : WorkerInv(w)'
      <3>1. ASSUME NEW w \in Workers PROVE WorkerInv(w)'
        <4>1. AtWork(w) => worker[w].turn \in Turns
          BY Types DEF AtWork
        <4>2. AtWork(w) => /\ Ended(worker[w].turn)
                           /\ job'[worker[w].turn].by = job[worker[w].turn].by
          BY <1>1, <4>1 DEF Ended
        <4> QED  BY <1>1, <4>2, Aside
      <3> QED  BY <3>1
    <2>3. SurvivorInv'
      BY <1>1 DEF AgentInv, LiveInv, SurvivorInv, Given, Newest, Status
    <2> QED  BY <2>1, <2>2, <2>3 DEF LiveInv
  <1> QED  BY <1>2, <1>3, <1>4 DEF AgentInv

\* The inductive invariant holds of every behaviour.
THEOREM AgentInvariant == Spec => []AgentInv
  <1>1. AgentInv /\ [Next]_vars => AgentInv'
    BY NextOutcome, StutterInv DEF Outcome
  <1> QED  BY <1>1, InitInv, PTL DEF Spec

\* Every row, job and worker stays one the code can store, for any number
\* of turns, workers, attempts and faults.
THEOREM AgentTypes == Spec => []TypeOK
  <1>1. AgentInv => TypeOK
    BY DEF AgentInv
  <1> QED  BY <1>1, AgentInvariant, PTL

\* Absorption and coalescing leave someone to answer, however many turns and
\* workers there are, until a process outlives its lock or an absorbed turn
\* absorbs another (findNewerActiveTurnIds, coalesceQueuedAgentTurns).
THEOREM SomeTurnStands == Spec => []SomeTurnSurvives
  <1>1. AgentInv => SomeTurnSurvives
    BY DEF AgentInv, LiveInv, SurvivorInv, SomeTurnSurvives
  <1> QED  BY <1>1, AgentInvariant, PTL

\* A tool's result is stored only under the claim of the worker that goes on
\* to use it (the claimedAt fence of ToolExecutionService).
THEOREM ResultFromItsClaimer == Spec => ResultOfItsClaimer
  <1>1. AgentInv /\ [Next]_vars =>
           [\A t \in Turns : \A k \in DOMAIN turn[t].exec :
              turn[t].exec[k].st \in {"running", "expired"}
                /\ turn'[t].exec[k].st = "succeeded"
              => \E w \in Workers :
                    /\ worker[w].pc = "run" /\ worker'[w].pc = "ask"
                    /\ worker[w].turn = t
                    /\ worker[w].claim = <<k, turn[t].exec[k].attempt>>]_vars
    BY NextOutcome DEF Outcome, StoredByClaimer
  <1> QED  BY <1>1, AgentInvariant, PTL DEF Spec, ResultOfItsClaimer

\* Once the contact's switch is off no reply is written, although the switch
\* takes no ownership lock (updateContactProfile), while no process outlives
\* its lock; what is still written is the farewell or the apology of a step
\* that calls the human.
THEOREM DisabledGetsNoReply == Spec => DisabledContactGetsNoReply
  <1>1. AgentInv /\ [Next]_vars =>
           [~stalled /\ ~contact =>
              /\ \A t \in Turns :
                    turn'[t].final = turn[t].final /\ Replies(t)' = Replies(t)
              /\ farewells' # farewells => ~paused /\ paused']_vars
    <2> SUFFICES ASSUME AgentInv, Next, ~stalled, ~contact
                 PROVE  /\ \A t \in Turns :
                              turn'[t].final = turn[t].final /\ Replies(t)' = Replies(t)
                        /\ farewells' # farewells => ~paused /\ paused'
      OBVIOUS
    <2>1. \A t \in Turns : turn'[t].final = turn[t].final /\ Replies(t)' = Replies(t)
      BY NextOutcome DEF Outcome, Silent, Replies
    <2>2. farewells' # farewells => ~paused /\ paused'
      BY NextParts DEF Parts
    <2> QED  BY <2>1, <2>2
  <1> QED  BY <1>1, AgentInvariant, PTL DEF Spec, DisabledContactGetsNoReply

-----------------------------------------------------------------------------
(* The turns implement their contract *)

\* A turn that can still be worked on has no final reply.
LEMMA StageIs ==
  ASSUME AgentInv, NEW t \in Turns
  PROVE  /\ turn[t].status = "absent" => Stage(t) = "absent" /\ ~turn[t].final
         /\ turn[t].status \in Executable => Stage(t) = "open" /\ ~turn[t].final
         /\ turn[t].status \in Terminal =>
               Stage(t) = (IF turn[t].final THEN "answered" ELSE "closed")
         /\ turn[t].final \in BOOLEAN /\ turn[t].status \in Statuses
  <1>1. TurnRow(t)
    BY DEF AgentInv, RowInv
  <1>2. turn[t].final \in BOOLEAN /\ turn[t].status \in Statuses
    BY Types, TurnFields
  <1>3. turn[t].final => turn[t].status = "completed"
    BY <1>1 DEF TurnRow, Status
  <1> QED  BY <1>2, <1>3 DEF Stage, Status, Executable, Terminal

\* A quiet step ends open turns, at most.
LEMMA QuietEnds ==
  ASSUME AgentInv, Quiet
  PROVE  Contract!EndSome /\ [t \in Turns |-> Replies(t)'] = [t \in Turns |-> Replies(t)]
  <1>1. ASSUME NEW t \in Turns
        PROVE  Stage(t)' = Stage(t) \/ (Stage(t) = "open" /\ Stage(t)' = "closed")
    <2>1. CASE turn'[t].status = turn[t].status
      BY <2>1 DEF Quiet, Stage, Status
    <2>2. CASE turn[t].status \in Executable /\ turn'[t].status \in Executable \cup Terminal
      <3>1. Stage(t) = "open" /\ ~turn[t].final
        BY <2>2, StageIs
      <3>2. ~turn'[t].final
        BY <3>1 DEF Quiet
      <3>3. Stage(t)' = "open" \/ Stage(t)' = "closed"
        BY <2>2, <3>2 DEF Stage, Status, Executable, Terminal
      <3> QED  BY <3>1, <3>3
    <2> QED  BY <2>1, <2>2 DEF Quiet
  <1> PICK S : S = {t \in Turns : Stage(t) = "open" /\ Stage(t)' = "closed"}
    OBVIOUS
  <1>2. /\ S \in SUBSET Turns /\ \A t \in S : [u \in Turns |-> Stage(u)][t] = "open"
        /\ [t \in Turns |-> Stage(t)'] =
              [t \in Turns |-> IF t \in S THEN "closed" ELSE [u \in Turns |-> Stage(u)][t]]
    BY <1>1
  <1>3. [t \in Turns |-> Replies(t)'] = [t \in Turns |-> Replies(t)]
    BY DEF Quiet, Replies
  <1> QED  BY <1>2, <1>3 DEF Contract!EndSome

\* A quiet step without a farewell is the contract's Close,
LEMMA QuietCloses ==
  ASSUME AgentInv, AgentInv', Quiet, farewells' = farewells
  PROVE  Contract!Close
  <1>1. paused' \in BOOLEAN
    BY DEF AgentInv, TypeOK
  <1> QED  BY <1>1, QuietEnds DEF Contract!Close

\* and one with a farewell its HandOver.
LEMMA PartsHandsOver ==
  ASSUME AgentInv, AgentInv', Quiet, NEW t \in Turns, Parts(t)
  PROVE  Contract!HandOver(t)
  <1>1. Stage(t) # "absent"
    BY DEF Parts, Stage, Status
  <1>2. paused' = TRUE
    BY Types DEF Parts, AgentInv, TypeOK
  <1> QED  BY <1>1, <1>2, QuietEnds DEF Contract!HandOver, Parts

\* An admission is the contract's.
LEMMA ComesAdmits ==
  ASSUME AgentInv, NEW t \in Turns, Comes(t), farewells' = farewells
  PROVE  Contract!Admit(t)
  <1>1. Stage(t) = "absent" /\ ~turn[t].final
    BY StageIs DEF Comes
  <1>2. Stage(t)' = "open"
    BY <1>1 DEF Comes, Stage, Status, Terminal
  <1>3. \A u \in Turns : u # t => Stage(u)' = Stage(u)
    BY DEF Comes, Stage, Status
  <1>4. \A u \in Turns : Replies(u)' = Replies(u)
    BY DEF Comes, Replies
  <1>5. [u \in Turns |-> Stage(u)'] = [[u \in Turns |-> Stage(u)] EXCEPT ![t] = "open"]
    BY <1>2, <1>3
  <1>6. [u \in Turns |-> Replies(u)'] = [u \in Turns |-> Replies(u)]
    BY <1>4
  <1> QED  BY <1>1, <1>5, <1>6 DEF Contract!Admit, Comes

\* A final reply is the contract's.
LEMMA AnswersAnswer ==
  ASSUME AgentInv, NEW t \in Turns, Answers(t), farewells' = farewells
  PROVE  Contract!Answer(t)
  <1>1. Stage(t) = "open"
    BY StageIs, StatusSets DEF Answers
  <1>2. Stage(t)' = "answered"
    BY DEF Answers, Stage, Status
  <1>3. \A u \in Turns : u # t => Stage(u)' = Stage(u)
    BY DEF Answers, Stage, Status
  <1>4. \A u \in Turns : Replies(u)' = Replies(u)
    BY DEF Answers, Replies
  <1>5. [u \in Turns |-> Stage(u)'] = [[u \in Turns |-> Stage(u)] EXCEPT ![t] = "answered"]
    BY <1>2, <1>3
  <1>6. [u \in Turns |-> Replies(u)'] = [u \in Turns |-> Replies(u)]
    BY <1>4
  <1> QED  BY <1>1, <1>5, <1>6 DEF Contract!Answer, Answers

\* A step or a note is the contract's.
LEMMA SpeaksSpeak ==
  ASSUME AgentInv, NEW t \in Turns, Speaks(t), farewells' = farewells
  PROVE  Contract!Speak(t)
  <1>1. Stage(t) = "open" /\ ~turn[t].final
    BY StageIs, StatusSets DEF Speaks
  <1>2. Stage(t)' = "open"
    BY <1>1 DEF Speaks, Stage, Status, Terminal, Owned
  <1>3. \A u \in Turns : u # t => Stage(u)' = Stage(u) /\ Replies(u)' = Replies(u)
    BY DEF Speaks, Stage, Replies, Status
  <1>4. Replies(t)' = Replies(t) + 1
    <2>1. turn[t].steps \in Nat
      BY Types, TurnFields
    <2> QED  BY <2>1 DEF Speaks, Replies
  <1>5. [u \in Turns |-> Stage(u)'] = [u \in Turns |-> Stage(u)]
    BY <1>1, <1>2, <1>3
  <1>6. [u \in Turns |-> Replies(u)'] = [[u \in Turns |-> Replies(u)] EXCEPT ![t] = @ + 1]
    BY <1>3, <1>4
  <1> QED  BY <1>1, <1>5, <1>6 DEF Contract!Speak, Speaks

\* The refinement: a turn ends once, has at most one final reply, written
\* with its end, and replies only while it is open and no human holds the
\* conversation; a farewell is left once, by the step that hands it over.
THEOREM TurnContractImplemented == Spec => ImplementsTurnContract
  <1>1. Init => Contract!Init
    <2> SUFFICES ASSUME Init PROVE Contract!Init
      OBVIOUS
    <2>1. \A t \in Turns : turn[t] = NewTurn
      BY DEF Init
    <2>2. \A t \in Turns : Stage(t) = "absent" /\ Replies(t) = 0
      <3>1. /\ NewTurn.status = "absent" /\ NewTurn.steps = 0
            /\ NewTurn.note = FALSE /\ NewTurn.final = FALSE
        BY DEF NewTurn
      <3>2. ASSUME NEW t \in Turns PROVE Stage(t) = "absent" /\ Replies(t) = 0
        <4>1. /\ turn[t].status = "absent" /\ turn[t].steps = 0
              /\ turn[t].note = FALSE /\ turn[t].final = FALSE
          BY <2>1, <3>1
        <4>2. Stage(t) = "absent"
          BY <4>1 DEF Stage, Status
        <4>3. Replies(t) = 0
          BY <4>1 DEF Replies
        <4> QED  BY <4>2, <4>3
      <3> QED  BY <3>2
    <2> QED  BY <2>2 DEF Init, Contract!Init
  <1>2. AgentInv /\ [Next]_vars => [Contract!Next]_(Contract!vars)
    <2> SUFFICES ASSUME AgentInv, [Next]_vars PROVE [Contract!Next]_(Contract!vars)
      OBVIOUS
    <2>1. CASE UNCHANGED vars
      <3>1. turn' = turn /\ paused' = paused /\ farewells' = farewells
        BY <2>1 DEF vars, desk
      <3> QED  BY <3>1 DEF Contract!vars, Stage, Replies, Status
    <2>2. CASE Next
      <3>1. AgentInv' /\ Told
        BY <2>2, NextOutcome DEF Outcome
      <3>2. CASE Quiet
        <4>1. CASE farewells' = farewells
          BY <3>1, <3>2, <4>1, QuietCloses DEF Contract!Next
        <4>2. ASSUME NEW t \in Turns, Parts(t) PROVE Contract!HandOver(t)
          BY <3>1, <3>2, <4>2, PartsHandsOver
        <4> QED  BY <2>2, <4>1, <4>2, NextParts DEF Contract!Next
      <3>3. ASSUME NEW t \in Turns, Comes(t) \/ Answers(t) \/ Speaks(t)
            PROVE  Contract!Next
        <4>1. farewells' = farewells
          BY <2>2, <3>3, NextParts DEF Parts, Comes, Answers, Speaks
        <4> QED  BY <3>3, <4>1, ComesAdmits, AnswersAnswer, SpeaksSpeak DEF Contract!Next
      <3> QED  BY <3>1, <3>2, <3>3 DEF Told
    <2> QED  BY <2>1, <2>2
  <1> QED  BY <1>1, <1>2, AgentInvariant, PTL DEF Spec, ImplementsTurnContract, Contract!Spec
=============================================================================
