---------------------- MODULE OutboundDelivery_proofs ----------------------
(***************************************************************************)
(* Theorems about OutboundDelivery for every set of messages, batches and  *)
(* authors, every text assignment, page size and bound.                    *)
(*                                                                         *)
(* Nothing holds a lock from the row's SELECT to the last write, so that   *)
(* no property is inductive: whether a Post is right depends on what the   *)
(* pass has read, remembered and checked earlier.  Reading says what the   *)
(* pass may still believe of its rows, Switched whom the switch let past   *)
(* it, Interjected what the memo of interjections hides, and Honest what   *)
(* the Host's states say of WeChat as long as it has not lost its store.   *)
(***************************************************************************)
EXTENDS OutboundDelivery, FiniteSetTheorems, TLAPS

OpStates == Host!Terminal \cup {"absent", "pending", "executing"}

\* TypeOK with the shape of what it leaves out.
Shape ==
  /\ TypeOK
  /\ resp \in [state : OpStates, id : Authors \cup {None}, age : 0..Window]
  /\ memo \in [Batches -> (SUBSET Actors) \cup {None}]
  /\ chan \in [Messages -> Authors \cup {None}]
  /\ sent \subseteq Authors
  /\ sentWith \in [Authors -> SUBSET MediaMsgs]
  /\ toggles \in Nat /\ cancels \in Nat /\ losses \in Nat

InHand == pc \notin {"idle", "next"}

\* A row the pass has still to deal with is unknown only if it was when it
\* was read: nobody but the pass makes a row unknown.
Reading ==
  /\ InHand => cur \in todo
  /\ \A m \in todo : sendState[m] = "unknown" => snap[m] = "unknown"
  /\ pc \in {"hold", "assign", "create"} => snap[cur] # "unknown"
  /\ pc = "hold" => cur \in AgentMsgs
  /\ pc = "assign" => snap[cur] = "pending"

\* The row in hand has the gates behind it and may still be posted.
PastGates ==
  /\ pc \in {"assign", "get", "create"}
  /\ cur \in AgentMsgs
  /\ snap[cur] # "unknown"

\* With the switch off, such a row is the one it went off under.
Switched == ~autoSend /\ PastGates => cur = inHand

\* The batch is interrupted, and the pass knows or will look.
Halted(b) ==
  /\ Interrupted(b, interjections[b])
  /\ memo[b] = None \/ Interrupted(b, memo[b])

\* While nobody touches the switch, held means halted, and no row gets past
\* the gates beside a held one.
Interjected ==
  /\ \A m \in Messages : sendState[m] = "held" => m \in AgentMsgs
  /\ \A b \in Batches : memo[b] = None \/ memo[b] \subseteq interjections[b]
  /\ toggles = 0 =>
       /\ autoSend
       /\ \A m \in Messages : sendState[m] = "held" => Halted(BatchOf[m])
       /\ pc = "hold" => Halted(BatchOf[cur])
       /\ PastGates => \A m \in Members(BatchOf[cur]) : sendState[m] # "held"

\* What an operation's state says of its message, and where a failed row has
\* its state from.
Honest ==
  losses = 0 =>
    /\ \A o \in Messages :
         opState[o] \in {"absent", "pending", "failed"} => gui # o /\ o \notin sent
    /\ \A m \in Rejected : opState[m] = "absent"
    /\ pc = "apply" /\ resp.state = "failed" => opState[cur] = "failed"
    /\ \A m \in Messages \ MediaMsgs :
         sendState[m] = "failed" => opState[m] = "failed" \/ m \in Rejected

Inv == Shape /\ Reading /\ Switched /\ Interjected /\ Honest

-----------------------------------------------------------------------------
(* Shape *)

\* The age of a reply, its place in created_at order, is a number.
LEMMA AgeType == 1 + Cardinality({p \in Messages : sendState[p] # "absent"}) \in Nat
  <1>1. IsFiniteSet({p \in Messages : sendState[p] # "absent"})
    BY ConstantsAssumption, FS_Subset
  <1>2. Cardinality({p \in Messages : sendState[p] # "absent"}) \in Nat
    BY <1>1, FS_CardinalityType
  <1> QED  BY <1>2

\* The initial state is of the declared shape.
LEMMA InitShape == Init => Shape
  BY ConstantsAssumption
  DEF Init, Host!Init, Shape, TypeOK, OpStates, NoAnswer, NoMemo, SendStates, Loop, Authors,
      Host!Terminal

\* The answer of the Host is a state of its protocol and at most an author.
LEMMA FromHostType == \A s \in OpStates : FromHost(s) \in SendStates \cup {"absent"}
  BY DEF FromHost, OpStates, Host!Terminal, SendStates

\* No step of the pass takes a variable out of its type.
LEMMA PollShape == Shape /\ (Poll \/ Fault) => Shape'
  <1>0. SUFFICES ASSUME Shape, Poll \/ Fault PROVE Shape'
    OBVIOUS
  <1> USE Shape, ConstantsAssumption
      DEF Shape, TypeOK, OpStates, Host!Terminal, SendStates, Loop, Authors, NoAnswer,
          rows, switches, pass, host, events, bounds, Now
  <1>1. CASE StartPass
    <2>1. PICK S \in SUBSET Eligible :
            /\ todo' = S
            /\ snap' = [m \in Messages |-> IF m \in S THEN sendState[m] ELSE "absent"]
      BY <1>1 DEF StartPass
    <2>2. /\ todo' \subseteq Messages
          /\ snap' \in [Messages -> Loop \cup {"absent"}]
      BY <2>1 DEF Eligible
    <2> QED  BY <1>1, <2>2 DEF StartPass
  <1>2. CASE EndPass
    BY <1>2 DEF EndPass, NoMemo
  <1>3. ASSUME NEW m \in Messages, Wait(m) PROVE Shape'
    BY <1>3 DEF Wait, IsNext, Continue
  <1>4. ASSUME NEW m \in Messages, Examine(m) PROVE Shape'
    <2>1. BatchOf[m] \in Batches
      OBVIOUS
    <2>2. Seen(BatchOf[m]) \in (SUBSET Actors) \cup {None}
      BY <2>1 DEF Seen
    <2>3. memo' \in [Batches -> (SUBSET Actors) \cup {None}]
      <3>1. memo' = memo \/ memo' = [memo EXCEPT ![BatchOf[m]] = Seen(BatchOf[m])]
        BY <1>4 DEF Examine
      <3> HIDE DEF Shape, TypeOK
      <3>2. memo \in [Batches -> (SUBSET Actors) \cup {None}]
        BY DEF Shape
      <3> QED  BY <2>1, <2>2, <3>1, <3>2
    <2>4. pc' \in {"hold", "assign", "get"} /\ cur' = m
      BY <1>4 DEF Examine
    <2> QED  BY <1>4, <2>3, <2>4 DEF Examine
  <1>5. CASE HandleCurrent
    <2> USE DEF Write, Continue
    <2>1. CASE Hold               BY <2>1 DEF Hold
    <2>2. CASE Assign             BY <2>2 DEF Assign
    <2>3. CASE GetFindsOperation  BY <2>3 DEF GetFindsOperation, Answer
    <2>4. CASE GetFindsNothing
      <3>1. CASE snap[cur] = "unknown"
        <4>1. /\ sendState' = [sendState EXCEPT ![cur] = "unknown"]
              /\ stamp' = [stamp EXCEPT ![cur] = Now]
              /\ todo' = todo \ {cur} /\ snap' = [snap EXCEPT ![cur] = "absent"]
              /\ cur \in Messages
          BY <2>4, <3>1 DEF GetFindsNothing
        <4>2. /\ sendState' \in [Messages -> SendStates \cup {"absent"}]
              /\ stamp' \in [Messages -> 0..Window]
              /\ todo' \subseteq Messages
              /\ snap' \in [Messages -> Loop \cup {"absent"}]
          BY <4>1
        <4> QED  BY <2>4, <3>1, <4>2 DEF GetFindsNothing
      <3>2. CASE snap[cur] # "unknown"  BY <2>4, <3>2 DEF GetFindsNothing
      <3> QED  BY <3>1, <3>2
    <2>5. CASE Create             BY <2>5 DEF Create, Post, Host!Create
    <2>6. CASE CreateRejected     BY <2>6 DEF CreateRejected
    <2>7. CASE Apply
      <3>1. cur \in Messages /\ resp.state \in OpStates
        BY <2>7 DEF Apply
      <3>2. FromHost(resp.state) \in SendStates \cup {"absent"}
        BY <3>1, FromHostType
      <3>3. PICK s \in SendStates \cup {"absent"}, age \in 0..Window :
              /\ sendState' = [sendState EXCEPT ![cur] = s]
              /\ stamp' = [stamp EXCEPT ![cur] = age]
              /\ UNCHANGED <<born, echoes>>
        BY <2>7, <3>1, <3>2 DEF Apply
      <3>4. bound' \in [Messages -> Authors \cup {None}]
        <4>1. bound' = bound \/ bound' = [bound EXCEPT ![cur] = resp.id]
          BY <2>7 DEF Apply
        <4>2. resp.id \in Authors \cup {None} /\ bound \in [Messages -> Authors \cup {None}]
          OBVIOUS
        <4> QED  BY <3>1, <4>1, <4>2
      <3>5. /\ pc' = "next" /\ cur' = None /\ resp' = NoAnswer
            /\ todo' = todo \ {cur} /\ snap' = [snap EXCEPT ![cur] = "absent"]
            /\ UNCHANGED <<switches, memo, host, opStamp, events, bounds>>
        BY <2>7 DEF Apply
      <3>6. sendState' \in [Messages -> SendStates \cup {"absent"}] /\ stamp' \in [Messages -> 0..Window]
        BY <3>1, <3>3
      <3>7. todo' \subseteq Messages /\ snap' \in [Messages -> Loop \cup {"absent"}]
        BY <3>1, <3>5
      <3> QED  BY <3>3, <3>4, <3>5, <3>6, <3>7
    <2>8. CASE GetConflicts       BY <2>8 DEF GetConflicts
    <2> QED  BY <1>5, <2>1, <2>2, <2>3, <2>4, <2>5, <2>6, <2>7, <2>8 DEF HandleCurrent
  <1>6. CASE Fault
    <2> USE DEF Write, Continue, Abandon, NoMemo
    <2>1. CASE StagingFails
      <3>1. /\ sendState' = sendState \/ sendState' = [sendState EXCEPT ![cur] = "failed"]
            /\ stamp' = stamp \/ stamp' = [stamp EXCEPT ![cur] = Now]
            /\ UNCHANGED <<born, echoes>>
            /\ cur \in Messages
        BY <2>1 DEF StagingFails
      <3>2. /\ sendState' \in [Messages -> SendStates \cup {"absent"}]
            /\ stamp' \in [Messages -> 0..Window]
        <4>1. /\ sendState \in [Messages -> SendStates \cup {"absent"}]
              /\ stamp \in [Messages -> 0..Window]
              /\ Now \in 0..Window
          OBVIOUS
        <4> HIDE DEF Shape, TypeOK, Now
        <4> QED  BY <3>1, <4>1
      <3>3. todo' \subseteq Messages /\ snap' \in [Messages -> Loop \cup {"absent"}]
        BY <2>1, <3>1 DEF StagingFails
      <3>4. pc' = "next" /\ cur' = None /\ resp' = NoAnswer /\ UNCHANGED <<born, echoes>>
        BY <2>1 DEF StagingFails
      <3> QED  BY <2>1, <3>2, <3>3, <3>4 DEF StagingFails
    <2>2. CASE AbortPass        BY <2>2 DEF AbortPass
    <2>3. CASE CreateAnswerLost BY <2>3 DEF CreateAnswerLost, Post, Host!Create
    <2>4. CASE HostLosesStore   BY <2>4 DEF HostLosesStore
    <2> QED  BY <1>6, <2>1, <2>2, <2>3, <2>4 DEF Fault
  <1> QED  BY <1>0, <1>1, <1>2, <1>3, <1>4, <1>5, <1>6 DEF Poll

\* Time goes by within the window.
LEMMA OlderType == \A age \in 0..Window : Older(age) \in 0..Window
  BY ConstantsAssumption DEF Older

\* Nor does a step of anybody else.
LEMMA OthersShape == Shape /\ (Others \/ HostStep) => Shape'
  <1>0. SUFFICES ASSUME Shape, Others \/ HostStep PROVE Shape'
    OBVIOUS
  <1> USE Shape, ConstantsAssumption
      DEF Shape, TypeOK, OpStates, Host!Terminal, SendStates, Loop, Authors,
          rows, switches, pass, host, events, bounds, Now, Core
  <1>1. ASSUME NEW b \in Batches, CommitBatch(b) PROVE Shape'
    BY <1>1, AgeType DEF CommitBatch, Members
  <1>2. ASSUME NEW x \in Actors, Inbound(x) PROVE Shape'
    <2>1. interjections' \in [Batches -> SUBSET Actors]
      BY <1>2 DEF Inbound
    <2> QED  BY <1>2, <2>1 DEF Inbound
  <1>3. CASE ToggleAutoSend
    BY <1>3 DEF ToggleAutoSend
  <1>4. CASE CancelPending
    BY <1>4 DEF CancelPending
  <1>5. ASSUME NEW a \in Authors, IngestEcho(a) PROVE Shape'
    <2>1. CASE IsMedia(a) /\ Fusable(a) # {}
      <3>1. PICK m \in Messages :
              /\ bound' = [bound EXCEPT ![m] = a]
              /\ sendState' = [sendState EXCEPT ![m] = "confirmed"]
              /\ stamp' = [stamp EXCEPT ![m] = Now]
              /\ UNCHANGED echoes
        BY <1>5, <2>1 DEF IngestEcho, Fusable
      <3> QED  BY <1>5, <3>1 DEF IngestEcho
    <2>2. CASE ~(IsMedia(a) /\ Fusable(a) # {})
      BY <1>5, <2>2 DEF IngestEcho
    <2> QED  BY <2>1, <2>2
  <1>6. ASSUME NEW h \in Humans, OwnerTypes(h) PROVE Shape'
    BY <1>6 DEF OwnerTypes, Host!HumanTypes, Appears
  <1>7. CASE Tick
    <2>1. \A age \in 0..Window : Older(age) \in 0..Window
      BY OlderType
    <2>2. /\ stamp' = [m \in Messages |-> Older(stamp[m])]
          /\ opStamp' = [m \in Messages |-> Older(opStamp[m])]
          /\ resp' = [resp EXCEPT !.age = Older(resp.age)]
      BY <1>7 DEF Tick
    <2>a. /\ stamp \in [Messages -> 0..Window] /\ opStamp \in [Messages -> 0..Window]
          /\ resp \in [state : OpStates, id : Authors \cup {None}, age : 0..Window]
      OBVIOUS
    <2>3. stamp' \in [Messages -> 0..Window] /\ opStamp' \in [Messages -> 0..Window]
      <3> HIDE DEF Shape, TypeOK
      <3> QED  BY <2>1, <2>2, <2>a
    <2>4. resp' \in [state : OpStates, id : Authors \cup {None}, age : 0..Window]
      <3> HIDE DEF Shape, TypeOK
      <3> QED  BY <2>1, <2>2, <2>a
    <2> QED  BY <1>7, <2>3, <2>4 DEF Tick
  <1>8. CASE HostReleases
    BY <1>8 DEF HostReleases, Host!Release
  <1>9. ASSUME NEW o \in Messages, HostClaims(o) PROVE Shape'
    BY <1>9 DEF HostClaims, Host!Claim
  <1>10. ASSUME NEW o \in Messages, HostHandsOver(o) PROVE Shape'
    BY <1>10 DEF HostHandsOver, Host!HandOver
  <1>11. ASSUME NEW o \in Messages, HostDelivers(o) PROVE Shape'
    BY <1>11 DEF HostDelivers, Host!Deliver, Appears
  <1>12. ASSUME NEW o \in Messages, NEW s \in Host!Terminal, NEW a \in Authors \cup {None},
                HostSettles(o, s, a)
         PROVE  Shape'
    BY <1>12 DEF HostSettles, Host!Settle
  <1>13. CASE Others
    BY <1>13, <1>1, <1>2, <1>3, <1>4, <1>5, <1>6, <1>7 DEF Others
  <1>14. CASE HostStep
    <2> HIDE DEF Shape
    <2> QED  BY <1>14, <1>8, <1>9, <1>10, <1>11, <1>12 DEF HostStep
  <1> QED  BY <1>0, <1>13, <1>14

-----------------------------------------------------------------------------
(* What others do to the pass, and what it reads *)

\* What everybody but the pass does: the pass keeps what it has in mind, no
\* row becomes unknown, held or failed, interjections are not forgotten, and
\* a turn of the switch counts.
Elsewhere ==
  /\ UNCHANGED <<pc, todo, snap, cur, memo>>
  /\ resp'.state = resp.state
  /\ \A m \in Messages :
       sendState'[m] \in {"unknown", "held", "failed"} => sendState'[m] = sendState[m]
  /\ \A b \in Batches : interjections[b] \subseteq interjections'[b]
  /\ \/ UNCHANGED <<autoSend, inHand, toggles>>
     \/ ToggleAutoSend

\* Every step outside the pass is such a step.
LEMMA OthersAreElsewhere ==
  ASSUME Shape, Others \/ HostStep \/ HostLosesStore
  PROVE  Elsewhere
  <1> USE Shape, ConstantsAssumption
      DEF Shape, TypeOK, Elsewhere, rows, switches, pass, host, events, bounds, Core
  <1>1. ASSUME NEW b \in Batches, CommitBatch(b) PROVE Elsewhere
    BY <1>1 DEF CommitBatch
  <1>2. ASSUME NEW x \in Actors, Inbound(x) PROVE Elsewhere
    BY <1>2 DEF Inbound
  <1>3. CASE ToggleAutoSend
    BY <1>3 DEF ToggleAutoSend
  <1>4. CASE CancelPending
    BY <1>4 DEF CancelPending
  <1>5. ASSUME NEW a \in Authors, IngestEcho(a) PROVE Elsewhere
    <2>1. CASE IsMedia(a) /\ Fusable(a) # {}
      <3>1. PICK m \in Messages : sendState' = [sendState EXCEPT ![m] = "confirmed"]
        BY <1>5, <2>1 DEF IngestEcho, Fusable
      <3> QED  BY <1>5, <3>1 DEF IngestEcho
    <2>2. CASE ~(IsMedia(a) /\ Fusable(a) # {})
      BY <1>5, <2>2 DEF IngestEcho
    <2> QED  BY <2>1, <2>2
  <1>6. ASSUME NEW h \in Humans, OwnerTypes(h) PROVE Elsewhere
    BY <1>6 DEF OwnerTypes, Appears
  <1>7. CASE Tick
    <2>1. resp'.state = resp.state
      BY <1>7 DEF Tick
    <2> QED  BY <1>7, <2>1 DEF Tick
  <1>8. CASE HostReleases \/ HostLosesStore
    BY <1>8 DEF HostReleases, HostLosesStore
  <1>9. ASSUME NEW o \in Messages, HostClaims(o) \/ HostHandsOver(o) \/ HostDelivers(o)
        PROVE  Elsewhere
    BY <1>9 DEF HostClaims, HostHandsOver, HostDelivers, Appears
  <1>10. ASSUME NEW o \in Messages, NEW s \in Host!Terminal, NEW a \in Authors \cup {None},
                HostSettles(o, s, a)
         PROVE  Elsewhere
    BY <1>10 DEF HostSettles
  <1> QED
    BY <1>1, <1>2, <1>3, <1>4, <1>5, <1>6, <1>7, <1>8, <1>9, <1>10 DEF Others, HostStep

\* What the steps of the pass are, the Host's loss of its store aside.
PassStep ==
  \/ Poll \/ StagingFails \/ AbortPass \/ CreateAnswerLost

\* A step is the pass's, somebody else's, or none.
LEMMA StepCases ==
  [Next]_vars => PassStep \/ Others \/ HostStep \/ HostLosesStore \/ UNCHANGED vars
  BY DEF Next, Fault, PassStep

\* A step of the pass by itself: the settings and interjections stay.
LEMMA PassLeavesSwitches ==
  PassStep => UNCHANGED <<autoSend, interjections, inHand, toggles, losses>>
  BY DEF PassStep, Poll, HandleCurrent, StartPass, EndPass, Wait, Examine, Hold, Assign,
         GetFindsOperation, GetConflicts, GetFindsNothing, Create, CreateRejected, Apply,
         StagingFails, AbortPass, CreateAnswerLost, Abandon, switches, bounds

\* The pass only makes the row in hand unknown, and then leaves it.
LEMMA PassReads == Shape /\ Reading /\ PassStep => Reading'
  <1>0. SUFFICES ASSUME Shape, Reading, PassStep PROVE Reading'
    OBVIOUS
  <1> USE ConstantsAssumption DEF Reading, InHand, rows, pass
  <1>a. /\ sendState \in [Messages -> SendStates \cup {"absent"}]
        /\ snap \in [Messages -> Loop \cup {"absent"}]
        /\ todo \subseteq Messages
        /\ InHand => cur \in Messages
    BY <1>0 DEF Shape, TypeOK
  <1>1. CASE StartPass
    BY <1>1, <1>a DEF StartPass, Eligible
  <1>2. CASE EndPass
    BY <1>0, <1>2 DEF EndPass
  <1>3. ASSUME NEW m \in Messages, Wait(m) PROVE Reading'
    BY <1>0, <1>3, <1>a DEF Wait, IsNext, Continue
  <1>4. ASSUME NEW m \in Messages, Examine(m) PROVE Reading'
    BY <1>0, <1>4, <1>a DEF Examine, IsNext
  <1>5. CASE HandleCurrent
    <2> USE DEF Write, Continue
    <2>1. CASE Hold               BY <1>0, <1>a, <2>1 DEF Hold
    <2>2. CASE Assign             BY <1>0, <1>a, <2>2 DEF Assign
    <2>3. CASE GetFindsOperation  BY <1>0, <1>a, <2>3 DEF GetFindsOperation
    <2>4. CASE GetFindsNothing    BY <1>0, <1>a, <2>4 DEF GetFindsNothing
    <2>5. CASE Create             BY <1>0, <1>a, <2>5 DEF Create
    <2>6. CASE CreateRejected     BY <1>0, <1>a, <2>6 DEF CreateRejected
    <2>7. CASE Apply              BY <1>0, <1>a, <2>7 DEF Apply
    <2>8. CASE GetConflicts       BY <1>0, <1>a, <2>8 DEF GetConflicts
    <2> QED  BY <1>5, <2>1, <2>2, <2>3, <2>4, <2>5, <2>6, <2>7, <2>8 DEF HandleCurrent
  <1>6. CASE StagingFails
    BY <1>0, <1>a, <1>6 DEF StagingFails, Write, Continue
  <1>7. CASE AbortPass \/ CreateAnswerLost
    BY <1>7 DEF AbortPass, CreateAnswerLost, Abandon
  <1> QED  BY <1>0, <1>1, <1>2, <1>3, <1>4, <1>5, <1>6, <1>7 DEF PassStep, Poll

\* The pass takes a row past the gates while the switch is on, and otherwise
\* goes on with the row it has there.
LEMMA PassSwitches == Shape /\ Switched /\ PassStep => Switched'
  <1>0. SUFFICES ASSUME Shape, Switched, PassStep PROVE Switched'
    OBVIOUS
  <1>a. UNCHANGED <<autoSend, inHand>>
    BY <1>0, PassLeavesSwitches
  <1> USE <1>0, <1>a DEF Switched, PastGates, pass
  <1>1. CASE StartPass \/ EndPass
    BY <1>1 DEF StartPass, EndPass
  <1>2. ASSUME NEW m \in Messages, Wait(m) PROVE Switched'
    BY <1>2 DEF Wait, Continue
  <1>3. ASSUME NEW m \in Messages, Examine(m) PROVE Switched'
    BY <1>3 DEF Examine
  <1>4. CASE HandleCurrent
    BY <1>4 DEF HandleCurrent, Hold, Assign, GetFindsOperation, GetConflicts, GetFindsNothing,
                Create, CreateRejected, Apply, Continue
  <1>5. CASE StagingFails \/ AbortPass \/ CreateAnswerLost
    BY <1>5 DEF StagingFails, AbortPass, CreateAnswerLost, Abandon, Continue
  <1> QED  BY <1>1, <1>2, <1>3, <1>4, <1>5 DEF PassStep, Poll

-----------------------------------------------------------------------------
(* Interjections *)

\* Who was interrupted stays so as more is said.
LEMMA InterruptedGrows ==
  ASSUME NEW b \in Batches, NEW S, NEW T, S \subseteq T, Interrupted(b, S)
  PROVE  Interrupted(b, T)
  BY DEF Interrupted

\* What the pass remembers of a halted batch, and what it will read, hold up
\* every segment of it.
LEMMA HaltedIsSeen ==
  ASSUME NEW b \in Batches, Halted(b)
  PROVE  Interrupted(b, Seen(b))
  BY DEF Halted, Seen

\* No step of the pass lets a row past the gates beside a held one.
LEMMA PassInterjected == Shape /\ Reading /\ Interjected /\ PassStep => Interjected'
  <1>0. SUFFICES ASSUME Shape, Reading, Interjected, PassStep PROVE Interjected'
    OBVIOUS
  <1>a. /\ sendState \in [Messages -> SendStates \cup {"absent"}]
        /\ memo \in [Batches -> (SUBSET Actors) \cup {None}]
        /\ interjections \in [Batches -> SUBSET Actors]
        /\ BatchOf \in [Messages -> Batches]
        /\ InHand => cur \in Messages
    BY <1>0, ConstantsAssumption DEF Shape, TypeOK, InHand
  <1>b. UNCHANGED <<autoSend, interjections, toggles>>
    BY <1>0, PassLeavesSwitches
  <1> USE <1>a, <1>b DEF Interjected, PastGates, Halted, Interrupted, rows, pass
  <1>1. CASE StartPass
    BY <1>0, <1>1 DEF StartPass
  <1>2. CASE EndPass
    BY <1>0, <1>2 DEF EndPass, NoMemo
  <1>3. ASSUME NEW m \in Messages, Wait(m) PROVE Interjected'
    BY <1>0, <1>3 DEF Wait, Continue
  <1>4. ASSUME NEW m \in Messages, Examine(m) PROVE Interjected'
    <2> HIDE DEF Interrupted
    <2> DEFINE b == BatchOf[m]
               seen == Seen(b)
               gated == m \in AgentMsgs /\ snap[m] # "unknown"
    <2>1. b \in Batches /\ seen \subseteq interjections[b]
      BY <1>0 DEF Seen
    <2>2. UNCHANGED <<sendState, snap>> /\ cur' = m
      BY <1>4 DEF Examine
    <2>3. CASE gated /\ autoSend
      <3>1. memo' = [memo EXCEPT ![b] = seen]
        BY <1>4, <2>3 DEF Examine
      <3>2. pc' = IF Interrupted(b, seen) THEN "hold" ELSE IF snap[m] = "pending" THEN "assign" ELSE "get"
        BY <1>4, <2>3 DEF Examine
      <3> HIDE DEF b, seen, gated
      <3>3. \A c \in Batches : memo'[c] = None \/ memo'[c] \subseteq interjections'[c]
        BY <1>0, <2>1, <3>1
      <3>4. ASSUME toggles = 0, NEW p \in Messages, sendState[p] = "held"
            PROVE  Halted(BatchOf[p])' /\ (BatchOf[p] = b => Interrupted(b, seen))
        <4>1. Halted(BatchOf[p]) /\ BatchOf[p] \in Batches
          BY <1>0, <3>4
        <4>2. Interrupted(BatchOf[p], Seen(BatchOf[p]))
          BY <4>1, HaltedIsSeen
        <4>3. BatchOf[p] = b => Interrupted(b, seen)
          BY <4>2 DEF seen
        <4>4. memo'[BatchOf[p]] = None \/ Interrupted(BatchOf[p], memo'[BatchOf[p]])
          BY <3>1, <4>1, <4>3
        <4> QED  BY <4>1, <4>3, <4>4 DEF Interrupted
      <3>5. toggles = 0 /\ pc' = "hold" => Halted(b)'
        <4>1. pc' = "hold" => Interrupted(b, seen)
          BY <3>2
        <4>2. pc' = "hold" => Interrupted(b, interjections[b])
          BY <4>1, <2>1, InterruptedGrows
        <4>3. memo'[b] = seen
          BY <3>1, <2>1
        <4> QED  BY <4>1, <4>2, <4>3 DEF Interrupted
      <3>6. toggles = 0 /\ pc' # "hold" =>
              \A p \in Members(b) : sendState[p] # "held"
        BY <3>2, <3>4 DEF Members
      <3>7. BatchOf[cur'] = b
        BY <2>2 DEF b
      <3> QED  BY <1>0, <2>2, <3>3, <3>4, <3>5, <3>6, <3>7 DEF Members
    <2>4. CASE ~(gated /\ autoSend)
      <3>1. memo' = memo /\ (pc' = "hold" => gated) /\ (gated => pc' = "hold")
        BY <1>4, <2>4 DEF Examine
      <3> QED  BY <1>0, <2>2, <2>4, <3>1 DEF Members, Interrupted
    <2> QED  BY <2>3, <2>4
  <1>5. CASE Hold
    BY <1>0, <1>5 DEF Hold, Write, Continue, Reading, InHand
  <1>6. CASE HandleCurrent /\ ~Hold
    <2> USE DEF Write, Continue, Members, InHand
    <2>2. CASE Assign             BY <1>0, <2>2 DEF Assign
    <2>3. CASE GetFindsOperation  BY <1>0, <2>3 DEF GetFindsOperation
    <2>4. CASE GetFindsNothing    BY <1>0, <2>4 DEF GetFindsNothing
    <2>5. CASE Create             BY <1>0, <2>5 DEF Create
    <2>6. CASE CreateRejected     BY <1>0, <2>6 DEF CreateRejected
    <2>7. CASE Apply
      <3>1. resp.state \in OpStates
        BY <1>0 DEF Shape
      <3>2. FromHost(resp.state) # "held"
        BY <3>1 DEF FromHost, OpStates, Host!Terminal
      <3> QED  BY <1>0, <2>7, <3>2 DEF Apply
    <2>8. CASE GetConflicts       BY <1>0, <2>8 DEF GetConflicts
    <2> QED  BY <1>6, <2>2, <2>3, <2>4, <2>5, <2>6, <2>7, <2>8 DEF HandleCurrent
  <1>7. CASE StagingFails
    BY <1>0, <1>7 DEF StagingFails, Write, Continue, InHand
  <1>8. CASE AbortPass \/ CreateAnswerLost
    BY <1>0, <1>8 DEF AbortPass, CreateAnswerLost, Abandon, NoMemo
  <1> QED  BY <1>0, <1>1, <1>2, <1>3, <1>4, <1>5, <1>6, <1>7, <1>8 DEF PassStep, Poll

\* Nor does a step of anybody else: nobody else holds a row, and what was
\* said is not taken back.
LEMMA OthersInterjected == Interjected /\ Shape /\ Elsewhere => Interjected'
  <1>0. SUFFICES ASSUME Interjected, Shape, Elsewhere PROVE Interjected'
    OBVIOUS
  <1>1. \A m \in Messages : sendState'[m] = "held" => sendState[m] = "held"
    BY <1>0 DEF Elsewhere
  <1>2. UNCHANGED <<pc, todo, snap, cur, memo>>
    BY <1>0 DEF Elsewhere
  <1>3. \A b \in Batches : interjections[b] \subseteq interjections'[b]
    BY <1>0 DEF Elsewhere
  <1>4. toggles' = 0 => toggles = 0 /\ autoSend' = autoSend
    BY <1>0 DEF Elsewhere, ToggleAutoSend, Shape
  <1>5. \A b \in Batches : Halted(b) => Halted(b)'
    BY <1>2, <1>3 DEF Halted, Interrupted
  <1>6. \A m \in Messages : BatchOf[m] \in Batches
    BY ConstantsAssumption
  <1>7. pc = "hold" => cur \in Messages
    BY <1>0 DEF Shape, TypeOK
  <1> QED  BY <1>0, <1>1, <1>2, <1>3, <1>4, <1>5, <1>6, <1>7
           DEF Interjected, PastGates, Members

-----------------------------------------------------------------------------
(* Honesty *)

\* The pass writes "failed" for the Host's failed, a rejection or a media
\* file, and posts what the Host did not have.
LEMMA PassHonest == Shape /\ Honest /\ PassStep => Honest'
  <1>0. SUFFICES ASSUME Shape, Honest, PassStep PROVE Honest'
    OBVIOUS
  <1>a. /\ sendState \in [Messages -> SendStates \cup {"absent"}]
        /\ opState \in [Messages -> OpStates]
        /\ InHand => cur \in Messages
        /\ resp.state \in OpStates
        /\ Rejected \subseteq Messages
    BY <1>0, ConstantsAssumption DEF Shape, TypeOK, OpStates, InHand
  <1>b. losses' = losses
    BY <1>0, PassLeavesSwitches
  <1> USE <1>a, <1>b DEF Honest, rows, pass, host
  <1>1. CASE StartPass
    BY <1>0, <1>1 DEF StartPass
  <1>2. CASE EndPass
    BY <1>0, <1>2 DEF EndPass
  <1>3. ASSUME NEW m \in Messages, Wait(m) PROVE Honest'
    BY <1>0, <1>3 DEF Wait, Continue
  <1>4. ASSUME NEW m \in Messages, Examine(m) PROVE Honest'
    BY <1>0, <1>4 DEF Examine
  <1>5. CASE HandleCurrent
    <2> USE DEF Write, Continue, InHand
    <2>1. CASE Hold               BY <1>0, <2>1 DEF Hold
    <2>2. CASE Assign             BY <1>0, <2>2 DEF Assign
    <2>3. CASE GetFindsOperation  BY <1>0, <2>3 DEF GetFindsOperation, Answer
    <2>4. CASE GetFindsNothing    BY <1>0, <2>4 DEF GetFindsNothing
    <2>5. CASE Create             BY <1>0, <2>5 DEF Create, Post, Host!Create
    <2>6. CASE CreateRejected     BY <1>0, <2>6 DEF CreateRejected
    <2>7. CASE Apply
      <3>1. FromHost(resp.state) = "failed" => resp.state = "failed"
        BY DEF FromHost
      <3> QED  BY <1>0, <2>7, <3>1 DEF Apply
    <2>8. CASE GetConflicts       BY <1>0, <2>8 DEF GetConflicts
    <2> QED  BY <1>5, <2>1, <2>2, <2>3, <2>4, <2>5, <2>6, <2>7, <2>8 DEF HandleCurrent
  <1>6. CASE StagingFails
    BY <1>0, <1>6 DEF StagingFails, Write, Continue, InHand
  <1>7. CASE AbortPass
    BY <1>0, <1>7 DEF AbortPass, Abandon
  <1>8. CASE CreateAnswerLost
    BY <1>0, <1>8 DEF CreateAnswerLost, Post, Host!Create, Abandon, InHand
  <1> QED  BY <1>0, <1>1, <1>2, <1>3, <1>4, <1>5, <1>6, <1>7, <1>8 DEF PassStep, Poll

\* The Host keeps its promise: what it reports as failed is nowhere, and
\* stays failed until it loses its store.
LEMMA OthersHonest ==
  Shape /\ Honest /\ (Others \/ HostStep \/ HostLosesStore) => Honest'
  <1>0. SUFFICES ASSUME Shape, Honest, Others \/ HostStep \/ HostLosesStore PROVE Honest'
    OBVIOUS
  <1>a. /\ opState \in [Messages -> OpStates]
        /\ pc = "apply" => cur \in Messages
        /\ Rejected \subseteq Messages
        /\ Messages \cap Humans = {}
        /\ None \notin Messages
    BY <1>0, ConstantsAssumption DEF Shape, TypeOK, OpStates, Authors
  <1>b. /\ UNCHANGED <<pc, cur>>
        /\ resp'.state = resp.state
        /\ \A m \in Messages : sendState'[m] = "failed" => sendState[m] = "failed"
    BY <1>0, OthersAreElsewhere DEF Elsewhere
  <1> USE <1>a, <1>b DEF Honest, host, bounds, Core
  <1>1. CASE Others /\ ~(\E h \in Humans : OwnerTypes(h))
    <2>1. UNCHANGED <<opState, gui, sent, losses>>
      BY <1>1 DEF Others, CommitBatch, Inbound, ToggleAutoSend, CancelPending, IngestEcho, Tick
    <2> QED  BY <1>0, <2>1
  <1>2. ASSUME NEW h \in Humans, OwnerTypes(h) PROVE Honest'
    BY <1>0, <1>2 DEF OwnerTypes, Host!HumanTypes, Appears
  <1>3. CASE HostReleases
    BY <1>0, <1>3 DEF HostReleases, Host!Release
  <1>4. ASSUME NEW o \in Messages, HostClaims(o) PROVE Honest'
    BY <1>0, <1>4 DEF HostClaims, Host!Claim
  <1>5. ASSUME NEW o \in Messages, HostHandsOver(o) PROVE Honest'
    BY <1>0, <1>5 DEF HostHandsOver, Host!HandOver
  <1>6. ASSUME NEW o \in Messages, HostDelivers(o) PROVE Honest'
    BY <1>0, <1>6 DEF HostDelivers, Host!Deliver, Appears
  <1>7. ASSUME NEW o \in Messages, NEW s \in Host!Terminal, NEW a \in Authors \cup {None},
               HostSettles(o, s, a)
        PROVE  Honest'
    BY <1>0, <1>7 DEF HostSettles, Host!Settle, Host!Terminal
  <1>8. CASE HostLosesStore
    BY <1>0, <1>8 DEF HostLosesStore, Shape
  <1> QED  BY <1>0, <1>1, <1>2, <1>3, <1>4, <1>5, <1>6, <1>7, <1>8 DEF HostStep

-----------------------------------------------------------------------------
(* The invariant *)

\* The invariant holds at the start.
LEMMA InitInv == Init => Inv
  <1> SUFFICES ASSUME Init PROVE Inv
    OBVIOUS
  <1>1. Shape
    BY InitShape
  <1>2. Reading /\ Switched
    BY DEF Init, Reading, InHand, Switched, PastGates
  <1>3. Interjected
    BY DEF Init, Interjected, PastGates, NoMemo
  <1>4. Honest
    BY ConstantsAssumption DEF Init, Host!Init, Honest, Authors
  <1> QED  BY <1>1, <1>2, <1>3, <1>4 DEF Inv

\* Every step keeps it.
LEMMA StepInv == Inv /\ [Next]_vars => Inv'
  <1>0. SUFFICES ASSUME Inv, [Next]_vars PROVE Inv'
    OBVIOUS
  <1>1. CASE PassStep
    <2>1. Shape'
      BY <1>0, <1>1, PollShape DEF Inv, PassStep, Fault
    <2>2. Reading' /\ Switched'
      BY <1>0, <1>1, PassReads, PassSwitches DEF Inv
    <2>3. Interjected' /\ Honest'
      BY <1>0, <1>1, PassInterjected, PassHonest DEF Inv
    <2> QED  BY <2>1, <2>2, <2>3 DEF Inv
  <1>2. CASE Others \/ HostStep \/ HostLosesStore
    <2>1. Shape'
      BY <1>0, <1>2, PollShape, OthersShape DEF Inv, Fault
    <2>2. Elsewhere
      BY <1>0, <1>2, OthersAreElsewhere DEF Inv
    <2>3. Reading'
      BY <1>0, <2>2 DEF Inv, Reading, InHand, Elsewhere, Shape, TypeOK
    <2>4. Switched'
      BY <1>0, <2>2 DEF Inv, Switched, PastGates, Elsewhere, ToggleAutoSend, Shape, TypeOK
    <2>5. Interjected' /\ Honest'
      BY <1>0, <1>2, <2>2, OthersInterjected, OthersHonest DEF Inv
    <2> QED  BY <2>1, <2>3, <2>4, <2>5 DEF Inv
  <1>3. CASE UNCHANGED vars
    BY <1>0, <1>3
    DEF vars, rows, switches, pass, host, events, bounds, Inv, Shape, TypeOK, Reading, InHand,
        Switched, PastGates, Interjected, Halted, Interrupted, Members, Honest
  <1> QED  BY <1>0, <1>1, <1>2, <1>3, StepCases

\* The pass may believe what it believes (Inv), in every state.
THEOREM PassInvariant == Spec => []Inv
  BY InitInv, StepInv, PTL DEF Spec

\* Every variable keeps its type, and no row of the messages table holds a
\* state of the Host's protocol (send-states.ts).
THEOREM TypesHold == Spec => []TypeOK
  <1>1. Inv => TypeOK
    BY DEF Inv, Shape
  <1> QED  BY <1>1, PassInvariant, PTL

\* A text the Core reports as failed is not in WeChat, as long as the Host has
\* not lost its store.
THEOREM FailedIsNowhere == Spec => []FailedTextUndelivered
  <1>1. Inv => FailedTextUndelivered
    <2> SUFFICES ASSUME Inv, losses = 0, NEW m \in Messages \ MediaMsgs, sendState[m] = "failed"
                 PROVE  m \notin sent
      BY DEF FailedTextUndelivered
    <2>1. opState[m] \in {"failed", "absent"}
      BY DEF Inv, Honest
    <2> QED  BY <2>1 DEF Inv, Honest
  <1> QED  BY <1>1, PassInvariant, PTL

-----------------------------------------------------------------------------
(* What is posted *)

\* Only the pass posts, the row in hand, after the Host did not know it and
\* not for a row it had read as unknown.
LEMMA PostedByThePass ==
  ASSUME Inv, [Next]_vars, NEW m \in Messages, Posted(m)
  PROVE  /\ pc = "create" /\ cur = m /\ m \in todo /\ snap[m] # "unknown"
         /\ UNCHANGED sendState
  <1>a. opState \in [Messages -> OpStates] /\ (pc = "create" => cur \in Messages)
    BY DEF Inv, Shape, TypeOK, OpStates
  <1> USE <1>a DEF Posted, OpStates, Host!Terminal, host, rows, Core
  <1>1. CASE Create \/ CreateAnswerLost
    <2>1. pc = "create" /\ opState' = [opState EXCEPT ![cur] = "pending"] /\ UNCHANGED sendState
      BY <1>1 DEF Create, CreateAnswerLost, Post, Abandon, Host!Create
    <2>2. cur = m
      BY <2>1
    <2>3. cur \in todo /\ snap[cur] # "unknown"
      BY <2>1 DEF Inv, Reading, InHand
    <2> QED  BY <2>1, <2>2, <2>3
  <1>2. CASE PassStep /\ ~Create /\ ~CreateAnswerLost
    <2>1. UNCHANGED opState
      BY <1>2 DEF PassStep, Poll, HandleCurrent, StartPass, EndPass, Wait, Examine, Hold, Assign,
                  GetFindsOperation, GetConflicts, GetFindsNothing, CreateRejected, Apply, StagingFails,
                  AbortPass
    <2> QED  BY <2>1
  <1>3. CASE Others
    <2>1. UNCHANGED opState
      BY <1>3 DEF Others, CommitBatch, Inbound, ToggleAutoSend, CancelPending, IngestEcho, Tick,
                  OwnerTypes, Host!HumanTypes
    <2> QED  BY <2>1
  <1>4. CASE HostStep
    <2>1. CASE HostReleases
      BY <2>1 DEF HostReleases, Host!Release
    <2>2. ASSUME NEW o \in Messages, HostClaims(o) PROVE FALSE
      BY <2>2 DEF HostClaims, Host!Claim
    <2>3. ASSUME NEW o \in Messages, HostHandsOver(o) \/ HostDelivers(o) PROVE FALSE
      BY <2>3 DEF HostHandsOver, HostDelivers, Host!HandOver, Host!Deliver
    <2>4. ASSUME NEW o \in Messages, NEW s \in Host!Terminal, NEW a \in Authors \cup {None},
                 HostSettles(o, s, a)
          PROVE  FALSE
      BY <2>4 DEF HostSettles, Host!Settle
    <2> QED  BY <1>4, <2>1, <2>2, <2>3, <2>4 DEF HostStep
  <1>5. CASE HostLosesStore
    BY <1>5 DEF HostLosesStore
  <1>6. CASE UNCHANGED vars
    BY <1>6 DEF vars
  <1> QED  BY <1>1, <1>2, <1>3, <1>4, <1>5, <1>6, StepCases

\* A row that is unknown is never posted again, also when the Host has lost
\* the operation.
THEOREM UnknownStaysUnposted == Spec => UnknownNeverPosted
  <1>1. Inv /\ [Next]_vars => [\A m \in Messages : Posted(m) => sendState[m] # "unknown"]_vars
    <2> SUFFICES ASSUME Inv, [Next]_vars, NEW m \in Messages, Posted(m)
                 PROVE  sendState[m] # "unknown"
      OBVIOUS
    <2>1. m \in todo /\ snap[m] # "unknown"
      BY PostedByThePass
    <2> QED  BY <2>1 DEF Inv, Reading
  <1> QED  BY <1>1, PassInvariant, PTL DEF Spec, UnknownNeverPosted

\* With the switch off nothing of the agent is posted but the one message that
\* was between its check and its post.
THEOREM SwitchHoldsBack == Spec => SwitchStopsAgent
  <1>1. Inv /\ [Next]_vars => [\A m \in AgentMsgs : Posted(m) /\ ~autoSend => m = inHand]_vars
    <2> SUFFICES ASSUME Inv, [Next]_vars, NEW m \in AgentMsgs, Posted(m), ~autoSend
                 PROVE  m = inHand
      OBVIOUS
    <2>1. m \in Messages
      BY ConstantsAssumption
    <2>2. pc = "create" /\ cur = m /\ snap[m] # "unknown"
      BY <2>1, PostedByThePass
    <2> QED  BY <2>2 DEF Inv, Switched, PastGates
  <1> QED  BY <1>1, PassInvariant, PTL DEF Spec, SwitchStopsAgent

\* Once an interjection has held a segment, nothing behind it in the reply is
\* posted any more.
THEOREM NoHoles == Spec => NothingAfterHeld
  <1>1. Inv /\ [Next]_vars =>
          [\A m, p \in Messages :
             /\ BatchOf[m] = BatchOf[p] /\ SeqOf[p] < SeqOf[m]
             /\ sendState[p] = "held" /\ toggles = 0
             => ~Posted(m)]_vars
    <2> SUFFICES ASSUME Inv, [Next]_vars, NEW m \in Messages, NEW p \in Messages,
                        BatchOf[m] = BatchOf[p], sendState[p] = "held", toggles = 0, Posted(m)
                 PROVE  FALSE
      OBVIOUS
    <2>1. pc = "create" /\ cur = m /\ snap[m] # "unknown"
      BY PostedByThePass
    <2>2. p \in AgentMsgs
      BY DEF Inv, Interjected
    <2>3. m \in AgentMsgs
      BY <2>2, ConstantsAssumption
    <2>4. PastGates
      BY <2>1, <2>3 DEF PastGates
    <2>5. p \in Members(BatchOf[cur])
      BY <2>1 DEF Members
    <2> QED  BY <2>4, <2>5 DEF Inv, Interjected
  <1> QED  BY <1>1, PassInvariant, PTL DEF Spec, NothingAfterHeld

-----------------------------------------------------------------------------
(* Channel ids *)

\* A channel id known for a row is not lost again: an answer without an id
\* leaves it, and an echo brings one.
THEOREM IdsAreKept == Spec => BoundIdKept
  <1>1. Inv /\ [Next]_vars => [\A m \in Messages : bound[m] # None => bound'[m] # None]_vars
    <2> SUFFICES ASSUME Inv, [Next]_vars
                 PROVE  \A m \in Messages : bound[m] # None => bound'[m] # None
      OBVIOUS
    <2>a. bound \in [Messages -> Authors \cup {None}] /\ None \notin Authors
      BY ConstantsAssumption DEF Inv, Shape, TypeOK
    <2> USE <2>a DEF rows, Core
    <2>1. CASE Apply
      BY <2>1 DEF Apply
    <2>2. ASSUME NEW a \in Authors, IngestEcho(a)
          PROVE  \A m \in Messages : bound[m] # None => bound'[m] # None
      BY <2>2 DEF IngestEcho
    <2>3. CASE PassStep /\ ~Apply
      <3>1. UNCHANGED bound
        BY <2>3 DEF PassStep, Poll, HandleCurrent, StartPass, EndPass, Wait, Examine, Hold,
                    Assign, GetFindsOperation, GetConflicts, GetFindsNothing, Create, CreateRejected,
                    StagingFails, AbortPass, CreateAnswerLost, Abandon
      <3> QED  BY <3>1
    <2>4. CASE Others /\ ~(\E a \in Authors : IngestEcho(a))
      <3>1. UNCHANGED bound
        BY <2>4 DEF Others, CommitBatch, Inbound, ToggleAutoSend, CancelPending, Tick,
                    OwnerTypes, Appears
      <3> QED  BY <3>1
    <2>5. CASE HostStep \/ HostLosesStore
      <3>1. UNCHANGED bound
        BY <2>5 DEF HostStep, HostLosesStore, HostReleases, HostClaims, HostHandsOver,
                    HostDelivers, HostSettles, Appears
      <3> QED  BY <3>1
    <2>6. CASE UNCHANGED vars
      BY <2>6 DEF vars
    <2> QED  BY <2>1, <2>2, <2>3, <2>4, <2>5, <2>6, StepCases
  <1> QED  BY <1>1, PassInvariant, PTL DEF Spec, BoundIdKept

-----------------------------------------------------------------------------
(* The order of a reply                                                     *)
(*                                                                          *)
(* The promise of the docstring does not hold without reserve: with three   *)
(* segments, with a text that was delivered before, after a cancellation    *)
(* and with a switch turned off and on a later segment may overtake.  In    *)
(* the other histories, Undisturbed, it does hold, whatever is lost, late   *)
(* or aborted.                                                              *)

TwoSegments ==
  \A m, p, q \in Messages :
    BatchOf[m] = BatchOf[p] /\ BatchOf[m] = BatchOf[q] => m = p \/ q \in {m, p}

OwnTexts == \A a, b \in Authors : TextOf[a] = TextOf[b] => a = b

Undisturbed == TwoSegments /\ OwnTexts /\ MaxCancels = 0 /\ MaxToggles \in {0, 1}

Over == Host!Terminal \cup {"absent"}

\* The Host's word, in its store and in the answer in hand: confirmed means
\* in WeChat, and an operation that is over stays so until it is lost.
Word ==
  /\ \A o \in Messages : opState[o] = "confirmed" => o \in sent
  /\ \A o \in Messages : chan[o] # None => opState[o] = "confirmed"
  /\ \A o \in Messages : gui = o => opState[o] \notin {"absent", "pending"}
  /\ \A o \in Rejected : opState[o] = "absent"
  /\ echoes \subseteq sent
  /\ pc = "apply" =>
       /\ resp.state # "absent"
       /\ resp.id # None => resp.state = "confirmed"
       /\ resp.state = "confirmed" => cur \in sent
       /\ resp.state \in Host!Terminal => opState[cur] \in Over

\* The agent's rows in the hands of the pass are as it has read them, but for
\* the operation id it wrote itself; a reply is in the table as a whole.
Kept ==
  /\ \A m, p \in Messages :
       BatchOf[m] = BatchOf[p] => (sendState[m] = "absent" <=> sendState[p] = "absent")
  /\ \A m \in todo : sendState[m] # "absent"
  /\ \A m \in AgentMsgs \cap todo :
       /\ snap[m] \in Loop
       /\ sendState[m] = snap[m] \/ (sendState[m] = "submitting" /\ snap[m] = "pending")

\* What a row of the agent says of its operation.
Truthful ==
  /\ \A m \in AgentMsgs : sendState[m] # "cancelled"
  /\ \A m \in AgentMsgs : sendState[m] \in Delivered => m \in sent
  /\ \A m \in AgentMsgs : sendState[m] \in {"unknown", "failed"} => opState[m] \in Over
  /\ pc = "apply" /\ cur \in AgentMsgs /\ sendState[cur] = "unknown" =>
       resp.state \in Host!Terminal

\* The switch is turned once, if at all.
TurnedOnce == toggles \in {0, 1} /\ (autoSend <=> toggles = 0)

\* A segment that has begun to go out, or may; and one that is in WeChat or
\* will not be handed over any more.
Begun(p) ==
  \/ opState[p] # "absent" \/ p \in sent \/ sendState[p] = "unknown"
  \/ cur = p /\ pc \in {"assign", "get", "create", "apply"}
Out(m) == m \in sent \/ sendState[m] \in {"unknown", "failed"}

Follows(m, p) == m \in Messages /\ p \in Messages /\ BatchOf[m] = BatchOf[p] /\ SeqOf[m] < SeqOf[p]

\* No segment begins before the one in front of it is out, and once it is in
\* WeChat the GUI thread does not hold the other any more.
Orderly ==
  \A m, p \in Messages : Follows(m, p) =>
    /\ Begun(p) => Out(m)
    /\ p \in sent /\ m \notin sent => gui # m

OrderInv == Word /\ Kept /\ Truthful /\ TurnedOnce /\ Orderly

\* The segments of a reply are the agent's.
LEMMA FollowsAgent ==
  ASSUME NEW m \in Messages, NEW p \in Messages, Follows(m, p)
  PROVE  m \in AgentMsgs /\ p \in AgentMsgs /\ m # p
  <1>1. m # p
    BY ConstantsAssumption DEF Follows
  <1> QED  BY <1>1, ConstantsAssumption DEF Follows

\* In undisturbed histories nobody but the pass writes to the agent's rows once
\* they are committed, and commits are of whole replies.
RowsKept ==
  \A m \in Messages :
    /\ sendState'[m] = "absent" <=> sendState[m] = "absent"
    /\ m \in AgentMsgs => sendState'[m] = sendState[m]

\* The other writers leave these rows alone: an echo fuses with rows of people
\* only.
LEMMA OthersKeepRows ==
  ASSUME Undisturbed, Shape, Others \/ HostStep \/ HostLosesStore
  PROVE  RowsKept \/ \E b \in Batches : CommitBatch(b)
  <1>a. /\ cancels \in Nat /\ MaxCancels = 0
        /\ sendState \in [Messages -> SendStates \cup {"absent"}]
        /\ sentWith \in [Authors -> SUBSET MediaMsgs]
        /\ MediaMsgs \subseteq Messages \ AgentMsgs
    BY ConstantsAssumption DEF Undisturbed, Shape, TypeOK
  <1> USE <1>a DEF RowsKept, rows, Core
  <1>1. CASE \E x \in Actors : Inbound(x)       BY <1>1 DEF Inbound
  <1>2. CASE ToggleAutoSend                     BY <1>2 DEF ToggleAutoSend
  <1>3. ~CancelPending                          BY DEF CancelPending
  <1>4. ASSUME NEW a \in Authors, IngestEcho(a) PROVE RowsKept
    <2>1. CASE IsMedia(a) /\ Fusable(a) # {}
      <3>1. PICK m \in Fusable(a) : sendState' = [sendState EXCEPT ![m] = "confirmed"]
        BY <1>4, <2>1 DEF IngestEcho
      <3>2. m \in Messages \ AgentMsgs /\ sendState[m] # "absent"
        BY <3>1 DEF Fusable, Loop
      <3> QED  BY <3>1, <3>2
    <2>2. CASE ~(IsMedia(a) /\ Fusable(a) # {})
      BY <1>4, <2>2 DEF IngestEcho
    <2> QED  BY <2>1, <2>2
  <1>5. CASE \E h \in Humans : OwnerTypes(h)    BY <1>5 DEF OwnerTypes, Appears
  <1>6. CASE Tick                               BY <1>6 DEF Tick
  <1>7. CASE HostStep \/ HostLosesStore
    BY <1>7 DEF HostStep, HostLosesStore, HostReleases, HostClaims, HostHandsOver, HostDelivers,
                HostSettles, Appears
  <1>8. CASE Others
    BY <1>8, <1>1, <1>2, <1>3, <1>4, <1>5, <1>6 DEF Others
  <1> QED  BY <1>7, <1>8

-----------------------------------------------------------------------------
(* The Host's word *)

\* The pass takes the answer from the store, and only posts.
LEMMA PassWord == Shape /\ Word /\ PassStep => Word'
  <1>0. SUFFICES ASSUME Shape, Word, PassStep PROVE Word'
    OBVIOUS
  <1>a. /\ opState \in [Messages -> OpStates]
        /\ InHand => cur \in Messages
        /\ Rejected \subseteq Messages
    BY <1>0, ConstantsAssumption DEF Shape, TypeOK, OpStates, InHand
  <1> USE <1>a DEF Word, Over, Host!Terminal, rows, pass, host
  <1>1. CASE StartPass \/ EndPass
    BY <1>0, <1>1 DEF StartPass, EndPass
  <1>2. ASSUME NEW m \in Messages, Wait(m) PROVE Word'
    BY <1>0, <1>2 DEF Wait, Continue
  <1>3. ASSUME NEW m \in Messages, Examine(m) PROVE Word'
    BY <1>0, <1>3 DEF Examine
  <1>4. CASE HandleCurrent
    <2> USE DEF Write, Continue, InHand
    <2>1. CASE Hold               BY <1>0, <2>1 DEF Hold
    <2>2. CASE Assign             BY <1>0, <2>2 DEF Assign
    <2>3. CASE GetFindsOperation  BY <1>0, <2>3 DEF GetFindsOperation, Answer
    <2>4. CASE GetFindsNothing    BY <1>0, <2>4 DEF GetFindsNothing
    <2>5. CASE Create             BY <1>0, <2>5 DEF Create, Post, Host!Create
    <2>6. CASE CreateRejected     BY <1>0, <2>6 DEF CreateRejected
    <2>7. CASE Apply              BY <1>0, <2>7 DEF Apply
    <2>8. CASE GetConflicts       BY <1>0, <2>8 DEF GetConflicts
    <2> QED  BY <1>4, <2>1, <2>2, <2>3, <2>4, <2>5, <2>6, <2>7, <2>8 DEF HandleCurrent
  <1>5. CASE StagingFails
    BY <1>0, <1>5 DEF StagingFails, Write, Continue
  <1>6. CASE AbortPass
    BY <1>0, <1>6 DEF AbortPass, Abandon
  <1>7. CASE CreateAnswerLost
    BY <1>0, <1>7 DEF CreateAnswerLost, Post, Host!Create, Abandon, InHand
  <1> QED  BY <1>0, <1>1, <1>2, <1>3, <1>4, <1>5, <1>6, <1>7 DEF PassStep, Poll

\* The Host keeps its word; with texts of their own, evidence for a message is
\* the message itself.
LEMMA OthersWord ==
  Undisturbed /\ Shape /\ Word /\ (Others \/ HostStep \/ HostLosesStore) => Word'
  <1>0. SUFFICES ASSUME Undisturbed, Shape, Word, Others \/ HostStep \/ HostLosesStore
                 PROVE  Word'
    OBVIOUS
  <1>a. /\ opState \in [Messages -> OpStates] /\ chan \in [Messages -> Authors \cup {None}]
        /\ pc = "apply" => cur \in Messages
        /\ Rejected \subseteq Messages /\ None \notin Messages
    BY <1>0, ConstantsAssumption DEF Shape, TypeOK, OpStates, Authors
  <1>b. /\ UNCHANGED <<pc, cur>> /\ resp'.state = resp.state
    BY <1>0, OthersAreElsewhere DEF Elsewhere
  <1>c. resp'.id = resp.id
    <2>1. CASE Tick
      BY <1>0, <2>1 DEF Tick, Shape
    <2>2. CASE ~Tick
      BY <1>0, <2>2
      DEF Others, HostStep, HostLosesStore, CommitBatch, Inbound, ToggleAutoSend, CancelPending,
          IngestEcho, OwnerTypes, HostReleases, HostClaims, HostHandsOver, HostDelivers,
          HostSettles, Appears, Core, pass
    <2> QED  BY <2>1, <2>2
  <1> USE <1>a, <1>b, <1>c DEF Word, Over, Host!Terminal, rows, host, Core
  <1>1. ASSUME NEW a \in Authors, IngestEcho(a) PROVE Word'
    <2>1. echoes' \subseteq echoes \cup {a} /\ a \in sent
      BY <1>1 DEF IngestEcho
    <2> QED  BY <1>0, <1>1, <2>1 DEF IngestEcho
  <1>2. CASE Others /\ ~(\E h \in Humans : OwnerTypes(h)) /\ ~(\E a \in Authors : IngestEcho(a))
    <2>1. UNCHANGED <<opState, chan, gui, sent, echoes>>
      BY <1>2 DEF Others, CommitBatch, Inbound, ToggleAutoSend, CancelPending, Tick
    <2> QED  BY <1>0, <2>1
  <1>3. ASSUME NEW h \in Humans, OwnerTypes(h) PROVE Word'
    BY <1>0, <1>3 DEF OwnerTypes, Host!HumanTypes, Appears
  <1>4. CASE HostReleases
    BY <1>0, <1>4 DEF HostReleases, Host!Release
  <1>5. ASSUME NEW o \in Messages, HostClaims(o) PROVE Word'
    BY <1>0, <1>5 DEF HostClaims, Host!Claim
  <1>6. ASSUME NEW o \in Messages, HostHandsOver(o) PROVE Word'
    BY <1>0, <1>6 DEF HostHandsOver, Host!HandOver
  <1>7. ASSUME NEW o \in Messages, HostDelivers(o) PROVE Word'
    BY <1>0, <1>7 DEF HostDelivers, Host!Deliver, Appears
  <1>8. ASSUME NEW o \in Messages, NEW s \in Host!Terminal, NEW a \in Authors \cup {None},
               HostSettles(o, s, a)
        PROVE  Word'
    <2>1. s = "confirmed" => o \in sent
      <3>1. sent \subseteq Authors /\ o \in Authors
        BY <1>0 DEF Shape, Authors
      <3>2. s = "confirmed" => \E e \in sent : TextOf[e] = TextOf[o]
        BY <1>8 DEF HostSettles, Host!Settle, Host!Evidence
      <3> QED  BY <1>0, <3>1, <3>2 DEF Undisturbed, OwnTexts
    <2>2. /\ opState[o] \in {"pending", "executing"}
          /\ a # None => s = "confirmed"
          /\ opState' = [opState EXCEPT ![o] = s] /\ chan' = [chan EXCEPT ![o] = a]
          /\ opState[o] = "pending" => gui # o
          /\ UNCHANGED <<gui, sent, echoes>>
      BY <1>0, <1>8 DEF HostSettles, Host!Settle
    <2>3. o \notin Rejected
      BY <1>0, <2>2
    <2> QED  BY <1>0, <2>1, <2>2, <2>3
  <1>9. CASE HostLosesStore
    BY <1>0, <1>9 DEF HostLosesStore
  <1> QED  BY <1>0, <1>1, <1>2, <1>3, <1>4, <1>5, <1>6, <1>7, <1>8, <1>9 DEF HostStep

-----------------------------------------------------------------------------
(* The rows *)

\* A step of the pass by what it writes: nothing, or the row in hand, which
\* it then leaves, or to which it has given its operation id.
LEMMA PassWrites ==
  ASSUME Shape, Reading, Word, PassStep
  PROVE  \/ UNCHANGED sendState /\ (pc = "idle" \/ todo' \subseteq todo)
            /\ (pc = "idle" \/ \A m \in todo' : snap'[m] = snap[m])
         \/ /\ InHand /\ cur \in Messages
            /\ \E s \in SendStates : sendState' = [sendState EXCEPT ![cur] = s]
            /\ \/ /\ todo' = todo \ {cur}
                  /\ \A m \in todo' : snap'[m] = snap[m]
               \/ Assign
  <1>a. /\ sendState \in [Messages -> SendStates \cup {"absent"}]
        /\ snap \in [Messages -> Loop \cup {"absent"}]
        /\ todo \subseteq Messages
        /\ InHand => cur \in Messages
    BY DEF Shape, TypeOK, InHand
  <1> USE <1>a DEF rows, pass, Write, Continue, InHand, SendStates
  <1>1. CASE StartPass            BY <1>1 DEF StartPass
  <1>2. CASE EndPass              BY <1>2 DEF EndPass
  <1>3. CASE \E m \in Messages : Wait(m)      BY <1>3 DEF Wait, IsNext
  <1>4. CASE \E m \in Messages : Examine(m)   BY <1>4 DEF Examine
  <1>5. CASE HandleCurrent
    <2>1. CASE Hold               BY <2>1 DEF Hold
    <2>2. CASE Assign             BY <2>2 DEF Assign
    <2>3. CASE GetFindsOperation  BY <2>3 DEF GetFindsOperation
    <2>4. CASE GetFindsNothing    BY <2>4 DEF GetFindsNothing
    <2>5. CASE Create             BY <2>5 DEF Create
    <2>6. CASE CreateRejected     BY <2>6 DEF CreateRejected
    <2>7. CASE Apply
      <3>1. resp.state \in OpStates \ {"absent"}
        BY <2>7 DEF Shape, Word, Apply
      <3>2. FromHost(resp.state) \in SendStates
        BY <3>1 DEF FromHost, OpStates, Host!Terminal
      <3> QED  BY <2>7, <3>2 DEF Apply
    <2>8. CASE GetConflicts       BY <2>8 DEF GetConflicts
    <2> QED  BY <1>5, <2>1, <2>2, <2>3, <2>4, <2>5, <2>6, <2>7, <2>8 DEF HandleCurrent
  <1>6. CASE StagingFails         BY <1>6 DEF StagingFails
  <1>7. CASE AbortPass            BY <1>7 DEF AbortPass, Abandon
  <1>8. CASE CreateAnswerLost     BY <1>8 DEF CreateAnswerLost, Abandon
  <1> QED  BY <1>1, <1>2, <1>3, <1>4, <1>5, <1>6, <1>7, <1>8 DEF PassStep, Poll

\* The pass reads the rows it takes, and leaves those it has written.
LEMMA PassKept == Shape /\ Reading /\ Word /\ Kept /\ PassStep => Kept'
  <1>0. SUFFICES ASSUME Shape, Reading, Word, Kept, PassStep PROVE Kept'
    OBVIOUS
  <1>a. /\ sendState \in [Messages -> SendStates \cup {"absent"}]
        /\ snap \in [Messages -> Loop \cup {"absent"}]
        /\ todo \subseteq Messages
        /\ BatchOf \in [Messages -> Batches]
        /\ "absent" \notin SendStates
    BY <1>0, ConstantsAssumption DEF Shape, TypeOK, SendStates
  <1>1. CASE pc = "idle"
    <2>1. StartPass
      BY <1>0, <1>1 DEF PassStep, Poll, HandleCurrent, EndPass, Wait, Examine, IsNext, Hold, Assign,
                        GetFindsOperation, GetConflicts, GetFindsNothing, Create, CreateRejected, Apply,
                        StagingFails, AbortPass, CreateAnswerLost
    <2>2. PICK S \in SUBSET Eligible :
            /\ todo' = S
            /\ snap' = [m \in Messages |-> IF m \in S THEN sendState[m] ELSE "absent"]
      BY <2>1 DEF StartPass
    <2>3. UNCHANGED sendState
      BY <2>1 DEF StartPass, rows
    <2> QED  BY <1>0, <1>a, <2>2, <2>3 DEF Kept, Eligible, Loop
  <1>2. CASE pc # "idle" /\ UNCHANGED sendState
    <2>1. todo' \subseteq todo /\ \A m \in todo' : snap'[m] = snap[m]
      <3>1. CASE Assign
        BY <3>1 DEF Assign
      <3>2. CASE ~Assign
        BY <1>0, <1>2, <3>2, PassWrites
      <3> QED  BY <3>1, <3>2
    <2> QED  BY <1>0, <1>2, <2>1 DEF Kept
  <1>3. CASE ~UNCHANGED sendState
    <2>1. /\ InHand /\ cur \in Messages
          /\ \E s \in SendStates : sendState' = [sendState EXCEPT ![cur] = s]
          /\ \/ /\ todo' = todo \ {cur}
                /\ \A m \in todo' : snap'[m] = snap[m]
             \/ Assign
      BY <1>0, <1>3, PassWrites
    <2>2. PICK s \in SendStates : sendState' = [sendState EXCEPT ![cur] = s]
      BY <2>1
    <2>3. sendState[cur] # "absent" /\ sendState'[cur] # "absent"
      BY <1>0, <1>a, <2>1, <2>2 DEF Kept, Reading
    <2>4. \A m \in Messages : sendState'[m] = "absent" <=> sendState[m] = "absent"
      BY <1>a, <2>2, <2>3
    <2>5. CASE todo' = todo \ {cur} /\ \A m \in todo' : snap'[m] = snap[m]
      BY <1>0, <1>a, <2>2, <2>4, <2>5 DEF Kept
    <2>6. CASE Assign
      <3>1. /\ UNCHANGED <<todo, snap>> /\ pc = "assign"
            /\ sendState' = [sendState EXCEPT ![cur] = "submitting"]
        BY <2>6 DEF Assign, Write
      <3>2. cur \in AgentMsgs \cap todo => snap[cur] = "pending"
        BY <1>0, <3>1 DEF Reading
      <3> QED  BY <1>0, <1>a, <2>4, <3>1, <3>2 DEF Kept
    <2> QED  BY <2>1, <2>5, <2>6
  <1> QED  BY <1>1, <1>2, <1>3

\* Nor does anybody else touch them.
LEMMA OthersKept ==
  Undisturbed /\ Shape /\ Kept /\ (Others \/ HostStep \/ HostLosesStore) => Kept'
  <1>0. SUFFICES ASSUME Undisturbed, Shape, Kept, Others \/ HostStep \/ HostLosesStore
                 PROVE  Kept'
    OBVIOUS
  <1>1. UNCHANGED <<todo, snap>> /\ todo \subseteq Messages /\ AgentMsgs \subseteq Messages
    BY <1>0, OthersAreElsewhere, ConstantsAssumption DEF Elsewhere, Shape, TypeOK
  <1>2. CASE RowsKept
    BY <1>0, <1>1, <1>2 DEF Kept, RowsKept
  <1>3. ASSUME NEW b \in Batches, CommitBatch(b) PROVE Kept'
    <2>1. /\ \A m \in Messages : BatchOf[m] = b => sendState[m] = "absent" /\ sendState'[m] = "pending"
          /\ \A m \in Messages : BatchOf[m] # b => sendState'[m] = sendState[m]
      BY <1>3 DEF CommitBatch, Members
    <2> QED  BY <1>0, <1>1, <2>1 DEF Kept
  <1> QED  BY <1>0, <1>2, <1>3, OthersKeepRows

\* What a segment of the agent in hand looks like.
LEMMA InHandIs ==
  ASSUME Shape, Reading, Kept, InHand, cur \in AgentMsgs
  PROVE  /\ sendState[cur] \in Loop
         /\ pc \in {"hold", "assign", "create"} => sendState[cur] \in InFlight
  <1>1. cur \in AgentMsgs \cap todo
    BY DEF Reading
  <1>2. /\ snap[cur] \in Loop
        /\ sendState[cur] = snap[cur] \/ sendState[cur] = "submitting"
    BY <1>1 DEF Kept
  <1>3. pc \in {"hold", "assign", "create"} => snap[cur] # "unknown"
    BY DEF Reading
  <1> QED  BY <1>2, <1>3 DEF Loop, InFlight

\* What the pass writes to a row of the agent is true.
LEMMA PassTruthful ==
  Shape /\ Reading /\ Word /\ Kept /\ Truthful /\ PassStep => Truthful'
  <1>0. SUFFICES ASSUME Shape, Reading, Word, Kept, Truthful, PassStep PROVE Truthful'
    OBVIOUS
  <1>a. /\ sendState \in [Messages -> SendStates \cup {"absent"}]
        /\ opState \in [Messages -> OpStates]
        /\ InHand => cur \in Messages
        /\ AgentMsgs \subseteq Messages /\ AgentMsgs \cap MediaMsgs = {}
    BY <1>0, ConstantsAssumption DEF Shape, TypeOK, OpStates, InHand
  <1>b. InHand /\ cur \in AgentMsgs =>
          /\ sendState[cur] \in Loop
          /\ pc \in {"hold", "assign", "create"} => sendState[cur] \in InFlight
    BY <1>0, InHandIs
  <1> USE <1>a, <1>b DEF Truthful, Over, Host!Terminal, Delivered, InFlight, rows, pass, host
  <1>1. CASE StartPass \/ EndPass
    BY <1>0, <1>1 DEF StartPass, EndPass
  <1>2. ASSUME NEW m \in Messages, Wait(m) PROVE Truthful'
    BY <1>0, <1>2 DEF Wait, Continue
  <1>3. ASSUME NEW m \in Messages, Examine(m) PROVE Truthful'
    BY <1>0, <1>3 DEF Examine
  <1>4. CASE HandleCurrent
    <2> USE DEF Write, Continue, InHand
    <2>1. CASE Hold               BY <1>0, <2>1 DEF Hold
    <2>2. CASE Assign             BY <1>0, <2>2 DEF Assign
    <2>3. CASE GetFindsOperation  BY <1>0, <2>3 DEF GetFindsOperation, Answer
    <2>4. CASE GetFindsNothing    BY <1>0, <2>4 DEF GetFindsNothing
    <2>5. CASE Create             BY <1>0, <2>5 DEF Create, Post, Host!Create
    <2>6. CASE CreateRejected
      <3>1. opState[cur] = "absent"
        BY <1>0, <2>6 DEF CreateRejected, Word
      <3> QED  BY <1>0, <2>6, <3>1 DEF CreateRejected
    <2>7. CASE Apply
      <3>1. PICK s \in SendStates :
              /\ sendState' = [sendState EXCEPT ![cur] = s]
              /\ s = "unknown" \/ s = FromHost(resp.state)
              /\ s # FromHost(resp.state) => resp.id # None
        <4>1. resp.state \in OpStates \ {"absent"}
          BY <1>0, <2>7 DEF Shape, Word, Apply
        <4>2. FromHost(resp.state) \in SendStates
          BY <4>1 DEF FromHost, OpStates, SendStates
        <4> QED  BY <2>7, <4>2 DEF Apply, Collision, SendStates
      <3>2. /\ resp.id # None => resp.state = "confirmed"
            /\ resp.state = "confirmed" => cur \in sent
            /\ resp.state \in Host!Terminal => opState[cur] \in Over
            /\ resp.state \in OpStates
        BY <1>0, <2>7 DEF Word, Apply, Shape
      <3>3. /\ s \notin {"cancelled", "observed"}
            /\ s = "confirmed" => cur \in sent
            /\ s \in {"unknown", "failed"} => opState[cur] \in Over
        BY <3>1, <3>2 DEF FromHost, OpStates
      <3>4. pc' = "next" /\ UNCHANGED <<opState, sent>> /\ cur \in Messages
        BY <2>7 DEF Apply
      <3> QED  BY <1>0, <3>1, <3>3, <3>4
    <2>8. CASE GetConflicts
      <3>1. cur \notin AgentMsgs
        BY <1>0, <2>8, ConstantsAssumption DEF GetConflicts
      <3> QED  BY <1>0, <2>8, <3>1 DEF GetConflicts
    <2> QED  BY <1>4, <2>1, <2>2, <2>3, <2>4, <2>5, <2>6, <2>7, <2>8 DEF HandleCurrent
  <1>5. CASE StagingFails
    BY <1>0, <1>5 DEF StagingFails, Write, Continue, InHand
  <1>6. CASE AbortPass
    BY <1>0, <1>6 DEF AbortPass, Abandon
  <1>7. CASE CreateAnswerLost
    BY <1>0, <1>7 DEF CreateAnswerLost, Post, Host!Create, Abandon, InHand
  <1> QED  BY <1>0, <1>1, <1>2, <1>3, <1>4, <1>5, <1>6, <1>7 DEF PassStep, Poll

\* What everybody but the pass does at the Host: what is over stays over, what
\* is not there is not created, and only the message in the GUI is delivered.
HostKeeps ==
  /\ sent \subseteq sent'
  /\ \A o \in Messages : opState[o] \in Over => opState'[o] \in Over
  /\ \A o \in Messages : opState[o] = "absent" => opState'[o] = "absent"
  /\ \A o \in Messages : o \in sent' => o \in sent \/ gui = o
  /\ \A o \in Messages : gui' = o => gui = o \/ opState[o] = "executing"

\* Every step outside the pass is such a step.
LEMMA OthersHostKeeps ==
  ASSUME Shape, Others \/ HostStep \/ HostLosesStore
  PROVE  HostKeeps
  <1>a. /\ opState \in [Messages -> OpStates]
        /\ Messages \cap Humans = {} /\ None \notin Messages
    BY ConstantsAssumption DEF Shape, TypeOK, OpStates, Authors
  <1> USE <1>a DEF HostKeeps, Over, Host!Terminal, host, bounds, Core
  <1>1. CASE Others /\ ~(\E h \in Humans : OwnerTypes(h))
    <2>1. UNCHANGED <<opState, gui, sent>>
      BY <1>1 DEF Others, CommitBatch, Inbound, ToggleAutoSend, CancelPending, IngestEcho, Tick
    <2> QED  BY <2>1
  <1>2. ASSUME NEW h \in Humans, OwnerTypes(h) PROVE HostKeeps
    BY <1>2 DEF OwnerTypes, Host!HumanTypes, Appears
  <1>3. CASE HostReleases
    BY <1>3 DEF HostReleases, Host!Release
  <1>4. ASSUME NEW o \in Messages, HostClaims(o) PROVE HostKeeps
    BY <1>4 DEF HostClaims, Host!Claim
  <1>5. ASSUME NEW o \in Messages, HostHandsOver(o) PROVE HostKeeps
    BY <1>5 DEF HostHandsOver, Host!HandOver
  <1>6. ASSUME NEW o \in Messages, HostDelivers(o) PROVE HostKeeps
    BY <1>6 DEF HostDelivers, Host!Deliver, Appears
  <1>7. ASSUME NEW o \in Messages, NEW s \in Host!Terminal, NEW a \in Authors \cup {None},
               HostSettles(o, s, a)
        PROVE  HostKeeps
    BY <1>7 DEF HostSettles, Host!Settle
  <1>8. CASE HostLosesStore
    BY <1>8 DEF HostLosesStore
  <1> QED  BY <1>1, <1>2, <1>3, <1>4, <1>5, <1>6, <1>7, <1>8 DEF HostStep

\* The agent's rows stay true whatever others do.
LEMMA OthersTruthful ==
  Undisturbed /\ Shape /\ Truthful /\ (Others \/ HostStep \/ HostLosesStore) => Truthful'
  <1>0. SUFFICES ASSUME Undisturbed, Shape, Truthful, Others \/ HostStep \/ HostLosesStore
                 PROVE  Truthful'
    OBVIOUS
  <1>1. HostKeeps
    BY <1>0, OthersHostKeeps
  <1>2. UNCHANGED <<pc, cur>> /\ resp'.state = resp.state
    BY <1>0, OthersAreElsewhere DEF Elsewhere
  <1>3. AgentMsgs \subseteq Messages
    BY ConstantsAssumption
  <1>4. CASE RowsKept
    BY <1>0, <1>1, <1>2, <1>3, <1>4 DEF Truthful, RowsKept, HostKeeps
  <1>5. ASSUME NEW b \in Batches, CommitBatch(b) PROVE Truthful'
    <2>1. \A m \in Messages : sendState'[m] = "pending" \/ sendState'[m] = sendState[m]
      BY <1>5 DEF CommitBatch
    <2> QED  BY <1>0, <1>1, <1>2, <1>3, <2>1 DEF Truthful, HostKeeps, Delivered
  <1> QED  BY <1>0, <1>4, <1>5, OthersKeepRows

-----------------------------------------------------------------------------
(* The order *)

\* The pass does not bring back a segment that is out.
LEMMA PassKeepsOut ==
  ASSUME Shape, Reading, Word, Kept, Truthful, PassStep, NEW m \in AgentMsgs, Out(m)
  PROVE  Out(m)'
  <1>a. /\ sendState \in [Messages -> SendStates \cup {"absent"}]
        /\ InHand => cur \in Messages
        /\ m \in Messages /\ m \notin MediaMsgs
    BY ConstantsAssumption DEF Shape, TypeOK, InHand
  <1>b. InHand /\ cur = m =>
          /\ sendState[m] \in Loop
          /\ pc \in {"hold", "assign", "create"} => sendState[m] \in InFlight
    BY InHandIs
  <1> USE <1>a, <1>b DEF Out, InFlight, rows, pass, host
  <1>1. CASE StartPass \/ EndPass
    BY <1>1 DEF StartPass, EndPass
  <1>2. CASE \E q \in Messages : Wait(q) \/ Examine(q)
    BY <1>2 DEF Wait, Examine
  <1>3. CASE HandleCurrent
    <2> USE DEF Write, InHand
    <2>1. CASE Hold               BY <2>1 DEF Hold
    <2>2. CASE Assign             BY <2>2 DEF Assign
    <2>3. CASE GetFindsOperation  BY <2>3 DEF GetFindsOperation
    <2>4. CASE GetFindsNothing    BY <2>4 DEF GetFindsNothing
    <2>5. CASE Create             BY <2>5 DEF Create, Post, Host!Create
    <2>6. CASE CreateRejected     BY <2>6 DEF CreateRejected
    <2>7. CASE Apply
      <3>1. pc = "apply" /\ UNCHANGED sent
        BY <2>7 DEF Apply
      <3>2. CASE m \in sent
        BY <3>1, <3>2
      <3>3. CASE m # cur
        BY <2>7, <3>1, <3>3 DEF Apply
      <3>4. CASE m = cur /\ m \notin sent
        <4>1. sendState[cur] = "unknown"
          BY <3>1, <3>4 DEF Loop
        <4>2. resp.state \in {"failed", "unknown"}
          BY <3>1, <3>4, <4>1 DEF Truthful, Word, Host!Terminal
        <4>3. FromHost(resp.state) \in {"failed", "unknown"}
          BY <4>2 DEF FromHost
        <4>4. sendState'[cur] \in {"failed", "unknown"}
          BY <2>7, <4>3 DEF Apply
        <4> QED  BY <3>4, <4>4
      <3> QED  BY <3>2, <3>3, <3>4
    <2>8. CASE GetConflicts       BY <2>8 DEF GetConflicts
    <2> QED  BY <1>3, <2>1, <2>2, <2>3, <2>4, <2>5, <2>6, <2>7, <2>8 DEF HandleCurrent
  <1>4. CASE StagingFails
    BY <1>4 DEF StagingFails, Write, InHand
  <1>5. CASE AbortPass \/ CreateAnswerLost
    BY <1>5 DEF AbortPass, CreateAnswerLost, Post, Host!Create, Abandon
  <1> QED  BY <1>1, <1>2, <1>3, <1>4, <1>5 DEF PassStep, Poll

\* A segment begins where it gets past the gates.
LEMMA PassBegins ==
  ASSUME Shape, PassStep, NEW p \in Messages, Begun(p)'
  PROVE  Begun(p) \/ (Examine(p) /\ pc' # "hold")
  <1>a. /\ sendState \in [Messages -> SendStates \cup {"absent"}]
        /\ opState \in [Messages -> OpStates]
        /\ InHand => cur \in Messages
    BY DEF Shape, TypeOK, OpStates, InHand
  <1> USE <1>a DEF Begun, InHand, rows, pass, host
  <1>1. CASE StartPass \/ EndPass
    BY <1>1 DEF StartPass, EndPass
  <1>2. ASSUME NEW q \in Messages, Wait(q) PROVE Begun(p)
    BY <1>2 DEF Wait, Continue
  <1>3. ASSUME NEW q \in Messages, Examine(q) PROVE Begun(p) \/ (Examine(p) /\ pc' # "hold")
    <2>1. UNCHANGED <<sendState, opState, sent>> /\ cur' = q
      BY <1>3 DEF Examine
    <2>2. CASE q = p
      BY <1>3, <2>1, <2>2
    <2>3. CASE q # p
      BY <2>1, <2>3
    <2> QED  BY <2>2, <2>3
  <1>4. CASE HandleCurrent
    <2> USE DEF Write, Continue
    <2>1. CASE Hold               BY <2>1 DEF Hold
    <2>2. CASE Assign             BY <2>2 DEF Assign
    <2>3. CASE GetFindsOperation  BY <2>3 DEF GetFindsOperation
    <2>4. CASE GetFindsNothing    BY <2>4 DEF GetFindsNothing
    <2>5. CASE Create             BY <2>5 DEF Create, Post, Host!Create
    <2>6. CASE CreateRejected     BY <2>6 DEF CreateRejected
    <2>7. CASE Apply              BY <2>7 DEF Apply
    <2>8. CASE GetConflicts       BY <2>8 DEF GetConflicts
    <2> QED  BY <1>4, <2>1, <2>2, <2>3, <2>4, <2>5, <2>6, <2>7, <2>8 DEF HandleCurrent
  <1>5. CASE StagingFails
    BY <1>5 DEF StagingFails, Write, Continue
  <1>6. CASE AbortPass \/ CreateAnswerLost
    BY <1>6 DEF AbortPass, CreateAnswerLost, Post, Host!Create, Abandon
  <1> QED  BY <1>1, <1>2, <1>3, <1>4, <1>5, <1>6 DEF PassStep, Poll

\* The earlier-segment gate: who passes it finds the segment in front out.  A
\* held one is not, but then the switch or the interjection holds this one.
LEMMA GateKeepsOrder ==
  ASSUME Undisturbed, Inv, OrderInv, NEW m \in Messages, NEW p \in Messages, Follows(m, p),
         Examine(p), pc' # "hold"
  PROVE  Out(m)
  <1>1. m \in AgentMsgs /\ p \in AgentMsgs /\ m # p
    BY FollowsAgent
  <1>2. /\ p \in todo /\ Unblocked(p)
        /\ BatchOf[m] = BatchOf[p] /\ SeqOf[m] < SeqOf[p] /\ BatchOf[p] \in Batches
    BY ConstantsAssumption DEF Examine, IsNext, Follows
  <1>3. CASE \E q \in WaitingPriors(p) : DeliveredCopy(q)
    <2>1. PICK q \in Messages : BatchOf[q] = BatchOf[p] /\ SeqOf[q] < SeqOf[p] /\ DeliveredCopy(q)
      BY <1>3 DEF WaitingPriors, Members
    <2>2. q = m
      <3>1. SeqOf[p] \in Nat /\ SeqOf[q] \in Nat
        BY ConstantsAssumption
      <3>2. q # p
        BY <2>1, <3>1
      <3> QED  BY <1>1, <1>2, <2>1, <3>2 DEF Undisturbed, TwoSegments
    <2>3. CASE \E a \in echoes : TextOf[a] = TextOf[m]
      <3>1. PICK a \in echoes : TextOf[a] = TextOf[m]
        BY <2>3
      <3>2. a \in Authors /\ m \in Authors /\ a \in sent
        BY DEF OrderInv, Word, Inv, Shape, TypeOK, Authors
      <3>3. a = m
        BY <3>1, <3>2 DEF Undisturbed, OwnTexts
      <3> QED  BY <3>2, <3>3 DEF Out
    <2>4. CASE \E r \in Messages : sendState[r] \in Delivered /\ TextOf[r] = TextOf[m]
      <3>1. PICK r \in Messages : sendState[r] \in Delivered /\ TextOf[r] = TextOf[m]
        BY <2>4
      <3>2. r = m
        BY <3>1 DEF Undisturbed, OwnTexts, Authors
      <3> QED  BY <1>1, <3>1, <3>2 DEF OrderInv, Truthful, Out
    <2> QED  BY <2>1, <2>2, <2>3, <2>4 DEF DeliveredCopy
  <1>4. CASE WaitingPriors(p) = {}
    <2>1. sendState[m] \notin InFlight
      BY <1>2, <1>4 DEF WaitingPriors, Members
    <2>2. sendState[m] # "absent"
      BY <1>2 DEF OrderInv, Kept, Inv, Shape, TypeOK
    <2>3. sendState[m] \in SendStates
      BY <2>2 DEF Inv, Shape, TypeOK
    <2>4. CASE sendState[m] \in Delivered \cup {"unknown", "failed"}
      BY <1>1, <2>4 DEF OrderInv, Truthful, Out
    <2>5. CASE sendState[m] = "held"
      <3>1. CASE snap[p] = "unknown"
        <4>1. p \in AgentMsgs \cap todo
          BY <1>1, <1>2
        <4>2. sendState[p] = "unknown"
          BY <3>1, <4>1 DEF OrderInv, Kept
        <4> QED  BY <4>2 DEF OrderInv, Orderly, Begun
      <3>2. CASE snap[p] # "unknown"
        <4>1. autoSend
          BY <1>1, <3>2 DEF Examine
        <4>2. toggles = 0
          BY <4>1 DEF OrderInv, TurnedOnce
        <4>3. Halted(BatchOf[p])
          BY <1>2, <2>5, <4>2 DEF Inv, Interjected
        <4>4. Interrupted(BatchOf[p], Seen(BatchOf[p]))
          BY <1>2, <4>3, HaltedIsSeen
        <4> QED  BY <1>1, <3>2, <4>1, <4>4 DEF Examine
      <3> QED  BY <3>1, <3>2
    <2>6. sendState[m] # "cancelled"
      BY <1>1 DEF OrderInv, Truthful
    <2> QED  BY <2>1, <2>3, <2>4, <2>5, <2>6 DEF SendStates, Delivered, InFlight
  <1> QED  BY <1>2, <1>3, <1>4 DEF Unblocked

\* The pass keeps the order.
LEMMA PassOrderly == Undisturbed /\ Inv /\ OrderInv /\ PassStep => Orderly'
  <1>0. SUFFICES ASSUME Undisturbed, Inv, OrderInv, PassStep,
                        NEW m \in Messages, NEW p \in Messages, Follows(m, p)
                 PROVE  /\ Begun(p)' => Out(m)'
                        /\ p \in sent' /\ m \notin sent' => gui' # m
    BY DEF Orderly, Follows
  <1>1. UNCHANGED <<gui, sent>>
    BY <1>0
    DEF PassStep, Poll, HandleCurrent, StartPass, EndPass, Wait, Examine, Hold, Assign,
        GetFindsOperation, GetConflicts, GetFindsNothing, Create, Post, Host!Create,
        CreateRejected, Apply, StagingFails, AbortPass, CreateAnswerLost, host
  <1>2. m \in AgentMsgs
    BY <1>0, FollowsAgent
  <1>3. ASSUME Begun(p)' PROVE Out(m)'
    <2>1. Begun(p) \/ (Examine(p) /\ pc' # "hold")
      BY <1>0, <1>3, PassBegins DEF Inv
    <2>2. Out(m)
      BY <1>0, <2>1, GateKeepsOrder DEF OrderInv, Orderly
    <2> QED  BY <1>0, <1>2, <2>2, PassKeepsOut DEF Inv, OrderInv
  <1> QED  BY <1>0, <1>1, <1>3 DEF OrderInv, Orderly

\* And the others: what is out is handed over no more.
LEMMA OthersOrderly ==
  Undisturbed /\ Inv /\ OrderInv /\ (Others \/ HostStep \/ HostLosesStore) => Orderly'
  <1>0. SUFFICES ASSUME Undisturbed, Inv, OrderInv, Others \/ HostStep \/ HostLosesStore,
                        NEW m \in Messages, NEW p \in Messages, Follows(m, p)
                 PROVE  /\ Begun(p)' => Out(m)'
                        /\ p \in sent' /\ m \notin sent' => gui' # m
    BY DEF Orderly, Follows
  <1>1. HostKeeps
    BY <1>0, OthersHostKeeps DEF Inv
  <1>2. /\ UNCHANGED <<pc, cur>>
        /\ sendState'[p] = "unknown" => sendState[p] = "unknown"
    BY <1>0, OthersAreElsewhere DEF Inv, Elsewhere
  <1>3. m \in AgentMsgs /\ m # p
    BY <1>0, FollowsAgent
  <1>4. p \in sent' => Begun(p)
    <2>1. gui = p => opState[p] # "absent"
      BY <1>0 DEF OrderInv, Word
    <2> QED  BY <1>1, <2>1 DEF HostKeeps, Begun
  <1>5. Begun(p)' => Begun(p)
    BY <1>1, <1>2, <1>4 DEF HostKeeps, Begun
  <1>6. Begun(p) => Out(m)
    BY <1>0 DEF OrderInv, Orderly
  <1>7. Out(m) => Out(m)'
    <2>1. CASE RowsKept
      BY <1>1, <1>3, <2>1 DEF RowsKept, HostKeeps, Out
    <2>2. ASSUME NEW b \in Batches, CommitBatch(b), sendState[m] # "absent"
          PROVE  sendState'[m] = sendState[m]
      BY <2>2 DEF CommitBatch
    <2>3. CASE \E b \in Batches : CommitBatch(b)
      BY <1>1, <2>2, <2>3 DEF HostKeeps, Out
    <2> QED  BY <1>0, <2>1, <2>3, OthersKeepRows DEF Inv
  <1>8. ASSUME p \in sent', m \notin sent', gui' = m PROVE FALSE
    <2>1. Out(m) /\ m \notin sent
      BY <1>1, <1>4, <1>6, <1>8 DEF HostKeeps
    <2>2. opState[m] \in Over
      BY <1>0, <1>3, <2>1 DEF Out, OrderInv, Truthful
    <2>3. gui = m
      BY <1>1, <1>8, <2>2 DEF HostKeeps, Over, Host!Terminal
    <2>4. p \in sent
      BY <1>1, <1>3, <1>8, <2>3 DEF HostKeeps
    <2> QED  BY <1>0, <2>1, <2>3, <2>4 DEF OrderInv, Orderly
  <1> QED  BY <1>5, <1>6, <1>7, <1>8

\* The invariant of undisturbed histories holds at the start,
LEMMA InitOrder == Undisturbed /\ Init => OrderInv
  <1> SUFFICES ASSUME Undisturbed, Init PROVE OrderInv
    OBVIOUS
  <1> USE ConstantsAssumption DEF Init, Host!Init
  <1>1. Word
    BY DEF Word, Authors
  <1>2. Kept /\ TurnedOnce
    BY DEF Kept, TurnedOnce
  <1>3. Truthful
    BY DEF Truthful, Delivered
  <1>4. Orderly
    BY DEF Orderly, Follows, Begun
  <1> QED  BY <1>1, <1>2, <1>3, <1>4 DEF OrderInv

\* and every step keeps it.
LEMMA StepOrder == Undisturbed /\ Inv /\ OrderInv /\ [Next]_vars => OrderInv'
  <1>0. SUFFICES ASSUME Undisturbed, Inv, OrderInv, [Next]_vars PROVE OrderInv'
    OBVIOUS
  <1>1. CASE PassStep
    <2>1. Word'
      BY <1>0, <1>1, PassWord DEF Inv, OrderInv
    <2>2. Kept'
      BY <1>0, <1>1, PassKept DEF Inv, OrderInv
    <2>3. Truthful'
      BY <1>0, <1>1, PassTruthful DEF Inv, OrderInv
    <2>4. TurnedOnce'
      BY <1>0, <1>1, PassLeavesSwitches DEF OrderInv, TurnedOnce
    <2>5. Orderly'
      BY <1>0, <1>1, PassOrderly
    <2> QED  BY <2>1, <2>2, <2>3, <2>4, <2>5 DEF OrderInv
  <1>2. CASE Others \/ HostStep \/ HostLosesStore
    <2>1. Word'
      BY <1>0, <1>2, OthersWord DEF Inv, OrderInv
    <2>2. Kept'
      BY <1>0, <1>2, OthersKept DEF Inv, OrderInv
    <2>3. Truthful'
      BY <1>0, <1>2, OthersTruthful DEF Inv, OrderInv
    <2>4. TurnedOnce'
      <3>1. UNCHANGED <<autoSend, inHand, toggles>> \/ ToggleAutoSend
        BY <1>0, <1>2, OthersAreElsewhere DEF Inv, Elsewhere
      <3>2. CASE UNCHANGED <<autoSend, inHand, toggles>>
        BY <1>0, <3>2 DEF OrderInv, TurnedOnce
      <3>3. CASE ToggleAutoSend
        <4>1. toggles \in {0, 1} /\ MaxToggles \in {0, 1} /\ toggles < MaxToggles
          BY <1>0, <3>3 DEF OrderInv, TurnedOnce, Undisturbed, ToggleAutoSend
        <4>2. toggles = 0 /\ toggles' = 1
          BY <3>3, <4>1 DEF ToggleAutoSend
        <4>3. autoSend
          BY <1>0, <4>2 DEF OrderInv, TurnedOnce
        <4>4. ~autoSend'
          BY <3>3, <4>3, Zenon DEF ToggleAutoSend
        <4> QED  BY <4>2, <4>4 DEF TurnedOnce
      <3> QED  BY <3>1, <3>2, <3>3
    <2>5. Orderly'
      BY <1>0, <1>2, OthersOrderly
    <2> QED  BY <2>1, <2>2, <2>3, <2>4, <2>5 DEF OrderInv
  <1>3. CASE UNCHANGED vars
    BY <1>0, <1>3
    DEF vars, rows, switches, pass, host, events, bounds, OrderInv, Word, Kept, Truthful,
        TurnedOnce, Orderly, Begun, Out
  <1> QED  BY <1>0, <1>1, <1>2, <1>3, StepCases

\* Segments of one reply reach WeChat in their order, for replies of two
\* segments with texts of their own, while nobody cancels and the switch is
\* turned once at most: whatever is lost, late, aborted or interjected.
THEOREM RepliesInOrder == Undisturbed => (Spec => BatchOrder)
  <1> SUFFICES ASSUME Undisturbed PROVE Spec => BatchOrder
    OBVIOUS
  <1>1. Init => OrderInv
    BY InitOrder
  <1>2. Inv /\ OrderInv /\ [Next]_vars => OrderInv'
    BY StepOrder
  <1>3. Inv /\ OrderInv /\ [Next]_vars =>
          [\A m, p \in Messages :
             BatchOf[m] = BatchOf[p] /\ SeqOf[p] > SeqOf[m] /\ p \in sent =>
               ~(m \notin sent /\ m \in sent')]_vars
    <2> SUFFICES ASSUME Inv, OrderInv, [Next]_vars, NEW m \in Messages, NEW p \in Messages,
                        BatchOf[m] = BatchOf[p], SeqOf[p] > SeqOf[m], p \in sent,
                        m \notin sent, m \in sent'
                 PROVE  FALSE
      OBVIOUS
    <2>1. CASE PassStep
      <3>1. UNCHANGED sent
        BY <2>1
        DEF PassStep, Poll, HandleCurrent, StartPass, EndPass, Wait, Examine, Hold, Assign,
            GetFindsOperation, GetConflicts, GetFindsNothing, Create, Post, Host!Create,
            CreateRejected, Apply, StagingFails, AbortPass, CreateAnswerLost, host
      <3> QED  BY <3>1
    <2>2. CASE Others \/ HostStep \/ HostLosesStore
      <3>1. gui = m
        BY <2>2, OthersHostKeeps DEF Inv, HostKeeps
      <3>2. Follows(m, p)
        BY ConstantsAssumption DEF Follows
      <3> QED  BY <3>1, <3>2 DEF OrderInv, Orderly
    <2>3. CASE UNCHANGED vars
      BY <2>3 DEF vars, host
    <2> QED  BY <2>1, <2>2, <2>3, StepCases
  <1> QED  BY <1>1, <1>2, <1>3, PassInvariant, PTL DEF Spec, BatchOrder
=============================================================================
