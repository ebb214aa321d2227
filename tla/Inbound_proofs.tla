--------------------------- MODULE Inbound_proofs ---------------------------
(***************************************************************************)
(* Theorems about EventLedger and Inbound for any number of messages and   *)
(* dispatchers, any page size, limits and scenarios.                       *)
(*                                                                         *)
(* LedgerInv is about the Host alone.  What its steps look like from       *)
(* outside is Grown: the ledger goes on with newer live events, or another *)
(* store begins.  PollInv says where the page in hand lies in the ledger   *)
(* and that what was admitted does not come again; WindowInv ties claims   *)
(* to the revision of the row.  PollInv uses the ledger only by Grown, and *)
(* WindowInv uses of the poller only that new messages are newer and are   *)
(* events of the ledger.                                                   *)
(***************************************************************************)
EXTENDS Inbound, SequenceTheorems, TLAPS

-----------------------------------------------------------------------------
(* The ledger *)

Live(e) == ~e.historical

\* How far the observer has captured: it goes on behind this message.
Reached == IF observer = NoBatch THEN checkpoint ELSE observer.at

BackfillInv ==
    /\ backfill.pc # "fill" => backfill.at = 0
    /\ backfill.pc = "fill" => backfill.skip \subseteq Captured(ledger)

\* Live events are in the order of their messages, and all of them are newer
\* than the first start and not newer than what was captured.
OrderInv ==
    /\ Old <= Reached /\ Reached <= checkpoint
    /\ \A c \in DOMAIN ledger :
         Live(ledger[c]) => ledger[c].msg > Old /\ ledger[c].msg <= Reached
    /\ \A c, d \in DOMAIN ledger :
         c < d /\ Live(ledger[c]) /\ Live(ledger[d]) => ledger[c].msg < ledger[d].msg

LedgerInv == LedgerTypeOK /\ BackfillInv /\ OrderInv

-----------------------------------------------------------------------------
(* The poller *)

PollTypeOK ==
    /\ cursor \in Nat
    /\ stored \in [Messages -> {"no", "history", "held", "deferred", "refused", "admitted"}]
    /\ poller \in [pc : {"idle", "page", "handoff"}, events : Seq(PageEvent), next : Nat,
                   more : BOOLEAN, handoff : Messages \cup {NoMessage}]
    /\ poller.pc = "handoff" <=> poller.handoff # NoMessage
    /\ requested \subseteq Messages /\ given \subseteq Messages

\* Event c of the ledger was ingested, or given up with an error.
Covered(c) == stored[ledger[c].msg] # "no" \/ ledger[c].msg \in given

\* A page of the first store is the part of the ledger behind what is covered.
Before == poller.next - Len(poller.events)
PageInv ==
    epoch = 0 =>
      /\ Before \in Nat /\ poller.next <= Len(ledger)
      /\ \A k \in DOMAIN poller.events :
           poller.events[k] = [cursor |-> Before + k, msg |-> ledger[Before + k].msg,
                               historical |-> ledger[Before + k].historical]
      /\ \A c \in 1..Before : Covered(c)

Admitted == {m \in Messages : stored[m] = "admitted"}

\* The live events of a page are in order, newer than all admitted messages
\* and not newer than what was captured.
PageOrder ==
    /\ \A m \in Admitted : m <= Reached
    /\ \A k \in DOMAIN poller.events : Live(poller.events[k]) =>
         /\ poller.events[k].msg > Old /\ poller.events[k].msg <= Reached
         /\ \A m \in Admitted : m < poller.events[k].msg
         /\ \A j \in DOMAIN poller.events :
              j < k /\ Live(poller.events[j]) => poller.events[j].msg < poller.events[k].msg

\* The poller is behind the event c of the present ledger, for good.
LeftBehind(c) ==
    /\ c <= cursor /\ cursor <= Len(ledger)
    /\ poller.pc # "idle" => c <= poller.next /\ poller.next <= Len(ledger)
    /\ \A k \in DOMAIN poller.events :
         c <= poller.events[k].cursor /\ poller.events[k].cursor <= Len(ledger)

\* Once a message is admitted, the live events up to it do not come again;
\* nor do they once an event of the page is ingested.
NoReturn ==
    \A c \in DOMAIN ledger : Live(ledger[c]) =>
      /\ \A m \in Admitted : ledger[c].msg <= m => LeftBehind(c)
      /\ \A k \in DOMAIN poller.events :
           Live(poller.events[k]) /\ ledger[c].msg <= poller.events[k].msg =>
             /\ c <= poller.events[k].cursor /\ poller.events[k].cursor <= Len(ledger)
             /\ poller.events[k].cursor <= poller.next /\ poller.next <= Len(ledger)
             /\ \A j \in DOMAIN poller.events :
                  j > k => poller.events[k].cursor <= poller.events[j].cursor
                             /\ poller.events[j].cursor <= Len(ledger)

PollInv == PollTypeOK /\ PageInv /\ CursorCovers /\ PageOrder /\ NoReturn

-----------------------------------------------------------------------------
(* The window *)

DispatcherRecord == [pc : {"idle", "check", "judge", "done", "requeue"},
                     claim : RowRecord, reason : Reasons]

WindowTypeOK ==
    /\ row \in RowRecord
    /\ row.st # "none" => row.last \in Messages
    /\ dispatcher \in [Dispatchers -> DispatcherRecord]
    /\ \A d \in Dispatchers : dispatcher[d].pc # "idle" => dispatcher[d].claim.last \in Messages
    /\ turns \subseteq Messages /\ closed \subseteq Messages

\* A message that came after the first start, captured by the observer.
FromObserver(m) ==
    /\ m > Old
    /\ epoch = 0 => \E c \in DOMAIN ledger : ledger[c] = Event(m, FALSE)

\* A claim is of the window it was taken from, while the revision stands.
ClaimSound(w) ==
    w.pc # "idle" =>
      /\ w.claim.rev <= row.rev
      /\ w.claim.rev = row.rev => w.claim.last = row.last
      /\ w.claim.attempt < MaxAttempts
      /\ w.pc = "done" /\ w.reason = "none" => w.claim.last \in turns
      /\ w.pc \in {"check", "judge"} => w.reason = "none"
      /\ FromObserver(w.claim.last)

WindowInv ==
    /\ WindowTypeOK
    /\ Open => row.attempt < MaxAttempts
    /\ row.st # "none" => FromObserver(row.last)
    /\ \A t \in turns : FromObserver(t)
    /\ \A d \in Dispatchers : ClaimSound(dispatcher[d])
    /\ WindowCovers

InboundInv ==
    /\ LedgerInv /\ PollInv /\ WindowInv
    /\ {ai, allowed, paused} \subseteq BOOLEAN /\ core \in CoreScenario
-----------------------------------------------------------------------------
(* The ledger: an invariant of its own, and what its steps look like to the  *)
(* Core, which sees the ledger grow or start again.                          *)

EventRecord == [msg : Messages, historical : BOOLEAN]

\* A captured message makes an event.
LEMMA EventType == \A m \in Messages, h \in BOOLEAN : Event(m, h) \in EventRecord
  BY DEF Event, EventRecord

\* The later of two messages is one of them, and no older than either.
LEMMA LaterType == \A a, b \in Nat : Later(a, b) \in {a, b} /\ a <= Later(a, b) /\ b <= Later(a, b)
  BY DEF Later

\* The ledger goes on behind what it holds, with live events that are newer
\* than all before, or a new store begins.
Grown ==
    /\ Reached <= Reached'
    /\ epoch' \in Nat /\ epoch <= epoch'
    /\ epoch' = epoch =>
         /\ Len(ledger) <= Len(ledger')
         /\ \A c \in 1..Len(ledger) : ledger'[c] = ledger[c]
         /\ \A c \in Len(ledger) + 1 .. Len(ledger') :
              Live(ledger'[c]) => Reached < ledger'[c].msg
    /\ epoch' # epoch => ledger' = <<>>

\* INSERT OR IGNORE keeps what is there and appends the event if it is new.
LEMMA InsertProperties ==
  ASSUME ledger \in Seq(EventRecord), NEW e \in EventRecord
  PROVE  /\ Insert(ledger, e) \in Seq(EventRecord)
         /\ Insert(ledger, e) = ledger \/ Insert(ledger, e) = Append(ledger, e)
         /\ Captured(Insert(ledger, e)) = Captured(ledger) \cup {e.msg}
  <1>1. CASE \E c \in DOMAIN ledger : ledger[c] = e
    BY <1>1 DEF Insert, Captured
  <1>2. CASE ~\E c \in DOMAIN ledger : ledger[c] = e
    <2>1. Insert(ledger, e) = Append(ledger, e)
      BY <1>2 DEF Insert
    <2>2. /\ Append(ledger, e) \in Seq(EventRecord)
          /\ Len(Append(ledger, e)) = Len(ledger) + 1
          /\ \A c \in 1..Len(ledger) : Append(ledger, e)[c] = ledger[c]
          /\ Append(ledger, e)[Len(ledger) + 1] = e
      BY AppendProperties
    <2>3. /\ DOMAIN ledger = 1..Len(ledger)
          /\ DOMAIN Append(ledger, e) = 1..Len(ledger) + 1 /\ Len(ledger) \in Nat
      BY <2>2, LenProperties
    <2>4. Captured(Append(ledger, e)) = Captured(ledger) \cup {e.msg}
      BY <2>2, <2>3 DEF Captured
    <2> QED  BY <2>1, <2>2, <2>4
  <1> QED  BY <1>1, <1>2

\* Inserting an event that the observer reaches, or a historical one.
LEMMA InsertOrdered ==
  ASSUME ledger \in Seq(EventRecord), Reached \in Nat,
         NEW m \in Messages, NEW h \in BOOLEAN,
         ledger' = Insert(ledger, Event(m, h)),
         Reached <= Reached', Reached' \in Nat,
         ~h => Reached < m /\ m <= Reached' /\ m > Old,
         OrderInv
  PROVE  /\ Len(ledger) <= Len(ledger')
         /\ \A c \in 1..Len(ledger) : ledger'[c] = ledger[c]
         /\ \A c \in Len(ledger) + 1 .. Len(ledger') :
              Live(ledger'[c]) => Reached < ledger'[c].msg
         /\ \A c \in DOMAIN ledger' :
              Live(ledger'[c]) => ledger'[c].msg > Old /\ ledger'[c].msg <= Reached'
         /\ \A c, d \in DOMAIN ledger' :
              c < d /\ Live(ledger'[c]) /\ Live(ledger'[d]) => ledger'[c].msg < ledger'[d].msg
  <1> DEFINE e == Event(m, h)
  <1>0. e \in EventRecord /\ e.msg = m /\ e.historical = h
    BY DEF Event, EventRecord
  <1>1. /\ DOMAIN ledger = 1..Len(ledger) /\ Len(ledger) \in Nat
        /\ \A c \in 1..Len(ledger) : ledger[c] \in EventRecord
    BY LenProperties, ElementOfSeq
  <1>2. CASE ledger' = ledger
    BY <1>1, <1>2, LedgerAssumption DEF OrderInv, EventRecord, Messages
  <1>3. CASE ledger' = Append(ledger, e)
    <2>1. /\ Len(ledger') = Len(ledger) + 1
          /\ \A c \in 1..Len(ledger) : ledger'[c] = ledger[c]
          /\ ledger'[Len(ledger) + 1] = e
      BY <1>0, <1>3, AppendProperties
    <2>2. DOMAIN ledger' = 1..Len(ledger) + 1
      BY <1>0, <1>3, <2>1, AppendProperties, LenProperties
    <2> HIDE DEF e
    <2>3. \A c \in Len(ledger) + 1 .. Len(ledger') : c = Len(ledger) + 1
      BY <1>1, <2>1
    <2>4. \A c \in DOMAIN ledger' : c \in DOMAIN ledger \/ c = Len(ledger) + 1
      BY <1>1, <2>2
    <2>5. \A c \in DOMAIN ledger : Live(ledger[c]) =>
             ledger[c].msg > Old /\ ledger[c].msg <= Reached /\ ledger[c].msg \in Nat
      BY <1>1 DEF OrderInv, EventRecord, Messages
    <2>6. Live(e) => Reached < e.msg /\ e.msg <= Reached' /\ e.msg > Old /\ e.msg \in Nat
      BY <1>0 DEF Live, Messages
    <2>7. \A c \in Len(ledger) + 1 .. Len(ledger') : Live(ledger'[c]) => Reached < ledger'[c].msg
      BY <2>1, <2>3, <2>6
    <2>8. \A c \in DOMAIN ledger' :
              Live(ledger'[c]) => ledger'[c].msg > Old /\ ledger'[c].msg <= Reached'
      BY <1>1, <2>1, <2>4, <2>5, <2>6
    <2>9. ASSUME NEW c \in DOMAIN ledger', NEW d \in DOMAIN ledger',
                 c < d, Live(ledger'[c]), Live(ledger'[d])
          PROVE  ledger'[c].msg < ledger'[d].msg
      <3>1. c \in DOMAIN ledger /\ ledger'[c] = ledger[c]
        BY <1>1, <2>1, <2>2, <2>9
      <3>2. CASE d \in DOMAIN ledger
        BY <1>1, <2>1, <2>9, <3>1, <3>2 DEF OrderInv
      <3>3. CASE d = Len(ledger) + 1
        <4>1. ledger'[c].msg <= Reached /\ ledger'[c].msg \in Nat
          BY <2>5, <2>9, <3>1
        <4>2. Reached < ledger'[d].msg /\ ledger'[d].msg \in Nat
          BY <2>1, <2>6, <2>9, <3>3
        <4> QED  BY <4>1, <4>2
      <3> QED  BY <2>4, <3>2, <3>3
    <2> QED  BY <1>1, <2>1, <2>7, <2>8, <2>9
  <1>4. Insert(ledger, e) = ledger \/ Insert(ledger, e) = Append(ledger, e)
    BY <1>0, InsertProperties
  <1> QED  BY <1>2, <1>3, <1>4

\* The empty ledger satisfies the invariant.
LEMMA LedgerBegins ==
  ASSUME LedgerInit, host \in LedgerScenario
  PROVE  LedgerInv /\ epoch = 0 /\ Len(ledger) = 0
  <1>1. ledger \in Seq(EventRecord) /\ Len(ledger) = 0 /\ DOMAIN ledger = {}
    BY DEF LedgerInit
  <1>2. LedgerTypeOK
    BY <1>1, LedgerAssumption
    DEF LedgerInit, LedgerTypeOK, EventRecord, NoBatch, AutoBackfill, Asked, NoBackfill
  <1>3. BackfillInv
    BY DEF LedgerInit, BackfillInv, AutoBackfill, Asked, NoBackfill
  <1>4. OrderInv
    BY <1>1, LedgerAssumption DEF LedgerInit, OrderInv, Reached, NoBatch
  <1> QED  BY <1>1, <1>2, <1>3, <1>4 DEF LedgerInv, LedgerInit

\* What the invariant says of the observer and the backfill, in numbers.
LEMMA LedgerNumbers ==
  ASSUME LedgerInv
  PROVE  /\ source \in Nat /\ checkpoint \in Nat /\ checkpoint <= source
         /\ source <= MaxMessages /\ Reached \in Nat /\ Reached <= checkpoint
         /\ Old <= Reached /\ epoch \in Nat
         /\ observer.at \in Nat /\ observer.to \in Nat /\ observer.to <= source
         /\ backfill.at \in Nat /\ backfill.high \in Nat /\ backfill.high <= checkpoint
         /\ observer = [at |-> observer.at, to |-> observer.to]
         /\ backfill = [pc |-> backfill.pc, at |-> backfill.at, high |-> backfill.high,
                        skip |-> backfill.skip]
         /\ ledger \in Seq(EventRecord)
         /\ Old \in Nat /\ MaxMessages \in Nat
  BY LedgerAssumption
  DEF LedgerInv, LedgerTypeOK, OrderInv, Reached, NoBatch, EventRecord

\* What a ledger is made of, and that what it holds are messages.
LEMMA LedgerElements ==
  ASSUME LedgerInv
  PROVE  /\ DOMAIN ledger = 1..Len(ledger) /\ Len(ledger) \in Nat
         /\ \A c \in DOMAIN ledger : /\ ledger[c] \in EventRecord
                                   /\ ledger[c].msg \in Messages /\ ledger[c].msg \in Nat
                                   /\ ledger[c].historical \in BOOLEAN
         /\ Captured(ledger) \subseteq Messages
  <1>1. ledger \in Seq(EventRecord)
    BY LedgerNumbers
  <1>2. /\ DOMAIN ledger = 1..Len(ledger) /\ Len(ledger) \in Nat
        /\ \A c \in DOMAIN ledger : ledger[c] \in EventRecord
    BY <1>1, LenProperties, ElementOfSeq
  <1>3. \A e \in EventRecord : e.msg \in Messages /\ e.msg \in Nat /\ e.historical \in BOOLEAN
    BY DEF EventRecord, Messages
  <1> QED  BY <1>2, <1>3 DEF Captured

LedgerShape ==
    /\ DOMAIN ledger = 1..Len(ledger) /\ Len(ledger) \in Nat
    /\ \A c \in DOMAIN ledger : ledger[c].msg \in Nat
    /\ Reached \in Nat /\ epoch \in Nat

\* What the Core's lemmas need of the ledger follows from its invariant,
LEMMA ShapeNow == LedgerInv => LedgerShape
  BY LedgerElements, LedgerNumbers DEF LedgerShape

\* before a step and after it.
LEMMA ShapeNext == LedgerInv' => LedgerShape'
  BY ShapeNow, PTL

\* The scenario a step leaves behind.
LEMMA ScenarioStep ==
  ASSUME LedgerInv, LedgerNext
  PROVE  host' \in LedgerScenario /\ host'.unsupported = host.unsupported
  <1>1. /\ host = [unsupported |-> host.unsupported, auto |-> host.auto, syncs |-> host.syncs,
                   faults |-> host.faults, rebuilds |-> host.rebuilds]
        /\ host.unsupported \in SUBSET Messages /\ host.auto \in BOOLEAN
        /\ host.syncs \in Nat /\ host.faults \in Nat /\ host.rebuilds \in Nat
    BY DEF LedgerInv, LedgerTypeOK, LedgerScenario
  <1>2. CASE UNCHANGED host
    BY <1>2 DEF LedgerInv, LedgerTypeOK
  <1>3. CASE host.faults > 0 /\ host' = [host EXCEPT !.faults = @ - 1]
    <2>1. host' = [unsupported |-> host.unsupported, auto |-> host.auto, syncs |-> host.syncs,
                   faults |-> host.faults - 1, rebuilds |-> host.rebuilds]
      BY <1>1, <1>3
    <2>2. host.faults - 1 \in Nat
      BY <1>1, <1>3
    <2> QED  BY <1>1, <2>1, <2>2 DEF LedgerScenario
  <1>4. CASE host.syncs > 0 /\ host' = [host EXCEPT !.syncs = @ - 1]
    <2>1. host' = [unsupported |-> host.unsupported, auto |-> host.auto, syncs |-> host.syncs - 1,
                   faults |-> host.faults, rebuilds |-> host.rebuilds]
      BY <1>1, <1>4
    <2>2. host.syncs - 1 \in Nat
      BY <1>1, <1>4
    <2> QED  BY <1>1, <2>1, <2>2 DEF LedgerScenario
  <1>5. CASE host.rebuilds > 0 /\ host' = [host EXCEPT !.rebuilds = @ - 1]
    <2>1. host' = [unsupported |-> host.unsupported, auto |-> host.auto, syncs |-> host.syncs,
                   faults |-> host.faults, rebuilds |-> host.rebuilds - 1]
      BY <1>1, <1>5
    <2>2. host.rebuilds - 1 \in Nat
      BY <1>1, <1>5
    <2> QED  BY <1>1, <2>1, <2>2 DEF LedgerScenario
  <1> QED  BY <1>2, <1>3, <1>4, <1>5
      DEF LedgerNext, Arrive, ReadBatch, Capture, CycleFails, AskSync, ClaimCheckpoint,
          ReadCaptured, Fill, BackfillFails, Restart, Rebuild

\* The steps that leave ledger, checkpoint and store alone.
LEMMA ReaderStep ==
  ASSUME LedgerInv,
         Arrive \/ ReadBatch \/ CycleFails \/ AskSync \/ ReadCaptured \/ BackfillFails \/ Restart
  PROVE  LedgerInv' /\ Grown
  <1> USE LedgerNumbers
  <1>1. UNCHANGED <<ledger, checkpoint, epoch>> /\ source <= source' /\ source' \in 0..MaxMessages
    BY DEF Arrive, ReadBatch, CycleFails, AskSync, ReadCaptured, BackfillFails, Restart
  <1>2. /\ observer' \in [at : Nat, to : 0..source']
        /\ observer' # NoBatch => observer'.at < observer'.to
        /\ Reached <= Reached' /\ Reached' <= checkpoint'
    <2>1. CASE UNCHANGED observer
      BY <1>1, <2>1 DEF LedgerInv, LedgerTypeOK, Reached
    <2>2. CASE ReadBatch
      <3>1. observer' = [at |-> checkpoint, to |-> source] /\ observer = NoBatch
        BY <2>2 DEF ReadBatch
      <3>2. checkpoint < source /\ source' = source
        BY <2>2 DEF ReadBatch
      <3>3. observer' # NoBatch
        BY <3>1, <3>2 DEF NoBatch
      <3> QED  BY <1>1, <3>1, <3>2, <3>3 DEF Reached
    <2>3. CASE observer' = NoBatch
      BY <1>1, <2>3 DEF NoBatch, Reached
    <2> QED  BY <2>1, <2>2, <2>3
         DEF Arrive, CycleFails, AskSync, ReadCaptured, BackfillFails, Restart
  <1>3. /\ backfill' \in [pc : {"idle", "asked", "claimed", "fill"}, at : Nat,
                          high : 0..checkpoint', skip : SUBSET Messages]
        /\ backfill'.pc = "fill" => backfill'.at < backfill'.high
        /\ BackfillInv'
    <2>1. CASE UNCHANGED backfill
      <3>1. /\ backfill \in [pc : {"idle", "asked", "claimed", "fill"}, at : Nat,
                            high : 0..checkpoint, skip : SUBSET Messages]
            /\ backfill.pc = "fill" => backfill.at < backfill.high
        BY DEF LedgerInv, LedgerTypeOK
      <3>2. BackfillInv'
        BY <1>1, <2>1 DEF LedgerInv, BackfillInv, Captured
      <3> QED  BY <1>1, <2>1, <3>1, <3>2
    <2>2. CASE backfill' \in {NoBackfill, Asked}
      <3>1. checkpoint' \in Nat
        BY <1>1
      <3>2. /\ backfill'.pc \in {"idle", "asked"} /\ backfill'.at = 0
            /\ backfill' = [pc |-> backfill'.pc, at |-> 0, high |-> 0, skip |-> {}]
        BY <2>2 DEF NoBackfill, Asked
      <3> HIDE LedgerNumbers
      <3> QED  BY <3>1, <3>2 DEF BackfillInv
    <2>3. CASE backfill.pc = "claimed" /\ backfill.high # 0
               /\ backfill' = [backfill EXCEPT !.pc = "fill", !.skip = Captured(ledger)]
      <3>1. Captured(ledger) \subseteq Messages
        BY LedgerElements
      <3>2. backfill' = [pc |-> "fill", at |-> 0, high |-> backfill.high,
                         skip |-> Captured(ledger)]
        BY <2>3 DEF LedgerInv, BackfillInv
      <3>3. backfill.high \in 0..checkpoint' /\ 0 < backfill.high /\ 0 \in Nat
        BY <1>1, <2>3, LedgerNumbers
      <3>4. backfill' \in [pc : {"idle", "asked", "claimed", "fill"}, at : Nat,
                           high : 0..checkpoint', skip : SUBSET Messages]
        BY <3>1, <3>2, <3>3
      <3>5. Captured(ledger') = Captured(ledger)
        BY <1>1
      <3> QED  BY <3>2, <3>3, <3>4, <3>5 DEF BackfillInv
    <2>4. CASE ReadCaptured
      BY <2>2, <2>3, <2>4 DEF ReadCaptured
    <2> QED  BY <2>1, <2>2, <2>4
         DEF Arrive, ReadBatch, CycleFails, AskSync, BackfillFails, Restart
  <1>4. host' \in LedgerScenario
    BY ScenarioStep DEF LedgerNext
  <1>5. LedgerTypeOK'
    <2>1. /\ source' \in 0..MaxMessages /\ checkpoint' \in 0..source'
          /\ ledger' \in Seq([msg : Messages, historical : BOOLEAN])
          /\ epoch' \in Nat
      BY <1>1 DEF LedgerTypeOK, LedgerInv
    <2> HIDE LedgerNumbers
    <2> QED  BY <1>2, <1>3, <1>4, <2>1 DEF LedgerTypeOK
  <1>6. OrderInv'
    <2>1. /\ \A c \in DOMAIN ledger : Live(ledger[c]) => ledger[c].msg \in Nat
          /\ Reached' \in Nat
      <3>1. observer'.at \in Nat /\ checkpoint' \in Nat
        BY <1>1, <1>2, LedgerNumbers
      <3> QED  BY <3>1, LedgerElements DEF Reached
    <2>2. OrderInv
      BY DEF LedgerInv
    <2>3. Old <= Reached' /\ Reached' <= checkpoint'
      BY <1>2, <2>1
    <2>4. \A c \in DOMAIN ledger :
             Live(ledger[c]) => ledger[c].msg > Old /\ ledger[c].msg <= Reached'
      <3>1. Reached \in Nat /\ Reached <= Reached'
        BY <1>2
      <3> HIDE LedgerNumbers
      <3> QED  BY <3>1, <2>1, <2>2 DEF OrderInv
    <2> HIDE LedgerNumbers
    <2> QED  BY <1>1, <2>2, <2>3, <2>4 DEF OrderInv
  <1>7. Grown
    <2>1. Reached <= Reached' /\ ledger' = ledger /\ epoch' = epoch /\ epoch \in Nat
      BY <1>1, <1>2 DEF LedgerInv, LedgerTypeOK
    <2>2. Len(ledger) \in Nat
      BY LedgerElements
    <2> HIDE LedgerNumbers
    <2> QED  BY <2>1, <2>2 DEF Grown
  <1> QED  BY <1>3, <1>5, <1>6, <1>7 DEF LedgerInv

\* The backfill takes the checkpoint to the high water.
LEMMA ClaimCheckpointStep ==
  ASSUME LedgerInv, ClaimCheckpoint
  PROVE  LedgerInv' /\ Grown
  <1> USE LedgerNumbers
  <1>1. checkpoint' = source /\ UNCHANGED <<epoch, source, ledger, observer, host>>
    BY DEF ClaimCheckpoint, Later
  <1>2. backfill' = [pc |-> "claimed", at |-> 0, high |-> source, skip |-> backfill.skip]
    BY <1>1 DEF ClaimCheckpoint, LedgerInv, BackfillInv
  <1>3. LedgerTypeOK' /\ BackfillInv'
    BY <1>1, <1>2 DEF LedgerInv, LedgerTypeOK, BackfillInv
  <1>4. Reached <= Reached' /\ Reached' <= checkpoint' /\ Reached' \in Nat
    BY <1>1 DEF Reached
  <1>5. OrderInv'
    <2>1. \A c \in DOMAIN ledger : Live(ledger[c]) => ledger[c].msg \in Nat
      BY LedgerElements
    <2> QED  BY <1>1, <1>4, <2>1 DEF LedgerInv, OrderInv
  <1>6. Grown
    BY <1>1, <1>4, LenProperties DEF Grown
  <1> QED  BY <1>3, <1>5, <1>6 DEF LedgerInv

\* The observer writes the next message and moves the checkpoint behind it.
LEMMA CaptureStep ==
  ASSUME LedgerInv, Capture
  PROVE  LedgerInv' /\ Grown /\ Behind' \subseteq Behind
  <1> USE LedgerNumbers
  <1> DEFINE m == observer.at + 1
  <1>1. /\ observer # NoBatch /\ observer.at < observer.to
        /\ m \in Messages /\ m \in Nat /\ m <= source /\ Reached = observer.at
    BY DEF Capture, LedgerInv, LedgerTypeOK, Reached, Messages
  <1>2. /\ UNCHANGED <<epoch, source, backfill, host>>
        /\ checkpoint' = Later(checkpoint, m)
        /\ ledger' = IF Supported(m) THEN Insert(ledger, Event(m, FALSE)) ELSE ledger
        /\ observer' = IF m = observer.to THEN NoBatch ELSE [at |-> m, to |-> observer.to]
    BY DEF Capture
  <1> HIDE DEF m
  <1>3. checkpoint' \in Nat /\ checkpoint <= checkpoint' /\ m <= checkpoint' /\ checkpoint' <= source
    BY <1>1, <1>2 DEF Later
  <1>4. /\ Reached' \in Nat /\ Reached < m /\ m <= Reached' /\ Reached' <= checkpoint'
        /\ observer' \in [at : Nat, to : 0..source']
        /\ observer' # NoBatch => observer'.at < observer'.to
    <2>0. m = observer.at + 1
      BY DEF m
    <2>1. CASE m = observer.to
      BY <1>1, <1>2, <1>3, <2>0, <2>1 DEF Reached, NoBatch
    <2>2. CASE m # observer.to
      <3>1. observer' = [at |-> m, to |-> observer.to] /\ observer' # NoBatch
        BY <1>1, <1>2, <2>0, <2>2 DEF NoBatch
      <3> QED  BY <1>1, <1>2, <1>3, <2>0, <2>2, <3>1 DEF Reached
    <2> QED  BY <2>1, <2>2
  <1>5. Event(m, FALSE) \in EventRecord /\ Event(m, FALSE).msg = m
    BY <1>1 DEF Event, EventRecord
  <1>6. /\ ledger' \in Seq(EventRecord)
        /\ Captured(ledger') = Captured(ledger) \cup {x \in {m} : Supported(m)}
    BY <1>2, <1>5, InsertProperties
  <1>7. /\ Len(ledger) <= Len(ledger')
        /\ \A c \in 1..Len(ledger) : ledger'[c] = ledger[c]
        /\ \A c \in Len(ledger) + 1 .. Len(ledger') :
              Live(ledger'[c]) => Reached < ledger'[c].msg
        /\ \A c \in DOMAIN ledger' :
              Live(ledger'[c]) => ledger'[c].msg > Old /\ ledger'[c].msg <= Reached'
        /\ \A c, d \in DOMAIN ledger' :
              c < d /\ Live(ledger'[c]) /\ Live(ledger'[d]) => ledger'[c].msg < ledger'[d].msg
    <2>0. ledger \in Seq(EventRecord) /\ Reached \in Nat /\ OrderInv /\ m > Old /\ Reached <= Reached'
      BY <1>1, <1>4, LedgerNumbers DEF LedgerInv
    <2>1. CASE Supported(m)
      <3>1. ledger' = Insert(ledger, Event(m, FALSE))
        BY <1>2, <2>1
      <3> QED  BY <1>1, <1>4, <2>0, <3>1, InsertOrdered
    <2>2. CASE ~Supported(m)
      <3>1. ledger' = ledger
        BY <1>2, <2>2
      <3>2. /\ DOMAIN ledger = 1..Len(ledger) /\ Len(ledger) \in Nat
            /\ \A c \in DOMAIN ledger : ledger[c].msg \in Nat
        BY LedgerElements
      <3>3. \A c \in Len(ledger) + 1 .. Len(ledger) : FALSE
        BY <3>2
      <3> HIDE LedgerNumbers
      <3>4. \A c \in DOMAIN ledger : ledger[c].msg <= Reached => ledger[c].msg <= Reached'
        BY <1>4, <2>0, <3>2
      <3>5. /\ \A c \in DOMAIN ledger :
                 Live(ledger[c]) => ledger[c].msg > Old /\ ledger[c].msg <= Reached'
            /\ \A c, d \in DOMAIN ledger :
                 c < d /\ Live(ledger[c]) /\ Live(ledger[d]) => ledger[c].msg < ledger[d].msg
        BY <2>0, <3>4 DEF OrderInv
      <3>6. Len(ledger) <= Len(ledger)
        BY <3>2
      <3>7. \A c \in DOMAIN ledger' :
              Live(ledger'[c]) => ledger'[c].msg > Old /\ ledger'[c].msg <= Reached'
        BY <3>1, <3>5
      <3>8. \A c, d \in DOMAIN ledger' :
              c < d /\ Live(ledger'[c]) /\ Live(ledger'[d]) => ledger'[c].msg < ledger'[d].msg
        BY <3>1, <3>5
      <3>9. /\ Len(ledger) <= Len(ledger')
            /\ \A c \in 1..Len(ledger) : ledger'[c] = ledger[c]
            /\ \A c \in Len(ledger) + 1 .. Len(ledger') :
                  Live(ledger'[c]) => Reached < ledger'[c].msg
        BY <3>1, <3>3, <3>6
      <3> QED  BY <3>7, <3>8, <3>9
    <2> QED  BY <2>1, <2>2
  <1>8. LedgerTypeOK'
    <2>1. /\ backfill' \in [pc : {"idle", "asked", "claimed", "fill"}, at : Nat,
                             high : 0..checkpoint', skip : SUBSET Messages]
          /\ backfill'.pc = "fill" => backfill'.at < backfill'.high
      BY <1>2, <1>3, LedgerNumbers DEF LedgerInv, LedgerTypeOK
    <2>2. source' \in 0..MaxMessages /\ checkpoint' \in 0..source' /\ epoch' \in Nat
      BY <1>2, <1>3, LedgerNumbers
    <2>3. host' \in LedgerScenario
      BY <1>2 DEF LedgerInv, LedgerTypeOK
    <2> QED  BY <1>4, <1>6, <2>1, <2>2, <2>3 DEF LedgerTypeOK, EventRecord
  <1>9. BackfillInv'
    BY <1>2, <1>6 DEF LedgerInv, BackfillInv
  <1>10. OrderInv' /\ Grown
    <2>1. Old <= Reached' /\ Reached <= Reached' /\ epoch \in Nat /\ epoch' = epoch
      BY <1>1, <1>2, <1>4, LedgerNumbers
    <2> QED  BY <1>4, <1>7, <2>1 DEF OrderInv, Grown
  <1>11. Behind' \subseteq Behind
    <2>1. ASSUME NEW x \in 1..checkpoint', x \notin 1..checkpoint PROVE x = m
      BY <1>1, <1>2, <1>3, <2>1 DEF Later, m, LedgerInv, OrderInv
    <2>2. UNCHANGED ToFill /\ \A x : Supported(x)' = Supported(x)
      BY <1>2 DEF ToFill, Supported
    <2> QED  BY <1>6, <2>1, <2>2 DEF Behind
  <1> QED  BY <1>8, <1>9, <1>10, <1>11 DEF LedgerInv

\* The backfill writes the next message, unless it was captured before.
LEMMA FillStep ==
  ASSUME LedgerInv, Fill
  PROVE  LedgerInv' /\ Grown /\ Behind' \subseteq Behind
  <1> USE LedgerNumbers
  <1> DEFINE m == backfill.at + 1
  <1>1. /\ backfill.pc = "fill" /\ backfill.at < backfill.high
        /\ m \in Messages /\ m \in Nat /\ backfill.skip \subseteq Captured(ledger)
    <2>1. backfill.pc = "fill" /\ backfill.skip \subseteq Captured(ledger)
      BY DEF Fill, LedgerInv, BackfillInv
    <2>2. backfill.at < backfill.high
      BY <2>1 DEF LedgerInv, LedgerTypeOK
    <2> QED  BY <2>1, <2>2, LedgerNumbers DEF Messages
  <1>2. /\ UNCHANGED <<epoch, source, checkpoint, observer, host>>
        /\ ledger' = IF Supported(m) /\ m \notin backfill.skip
                     THEN Insert(ledger, Event(m, TRUE)) ELSE ledger
        /\ backfill' = IF m = backfill.high THEN NoBackfill ELSE [backfill EXCEPT !.at = m]
    BY DEF Fill
  <1>3. UNCHANGED Reached
    BY <1>2 DEF Reached
  <1>4. /\ ledger' \in Seq(EventRecord) /\ Captured(ledger) \subseteq Captured(ledger')
        /\ Supported(m) => m \in Captured(ledger')
    <2>1. Event(m, TRUE) \in EventRecord /\ Event(m, TRUE).msg = m
      BY <1>1 DEF Event, EventRecord
    <2> HIDE DEF m
    <2> QED  BY <1>1, <1>2, <2>1, InsertProperties
  <1>5. /\ Len(ledger) <= Len(ledger')
        /\ \A c \in 1..Len(ledger) : ledger'[c] = ledger[c]
        /\ \A c \in Len(ledger) + 1 .. Len(ledger') :
              Live(ledger'[c]) => Reached < ledger'[c].msg
        /\ \A c \in DOMAIN ledger' :
              Live(ledger'[c]) => ledger'[c].msg > Old /\ ledger'[c].msg <= Reached'
        /\ \A c, d \in DOMAIN ledger' :
              c < d /\ Live(ledger'[c]) /\ Live(ledger'[d]) => ledger'[c].msg < ledger'[d].msg
    <2>0. /\ ledger \in Seq(EventRecord) /\ Reached \in Nat /\ OrderInv
          /\ Reached' = Reached /\ Reached <= Reached'
      BY <1>3, LedgerNumbers DEF LedgerInv
    <2> HIDE DEF m
    <2>1. CASE ledger' = Insert(ledger, Event(m, TRUE))
      BY <1>1, <2>0, <2>1, InsertOrdered
    <2>2. CASE ledger' = ledger
      <3>1. DOMAIN ledger = 1..Len(ledger) /\ Len(ledger) \in Nat
        BY LedgerElements
      <3> QED  BY <2>0, <2>2, <3>1 DEF OrderInv
    <2> QED  BY <1>2, <2>1, <2>2
  <1>6. /\ backfill' \in [pc : {"idle", "asked", "claimed", "fill"}, at : Nat,
                          high : 0..checkpoint', skip : SUBSET Messages]
        /\ backfill'.pc = "fill" => backfill'.at < backfill'.high
        /\ BackfillInv'
    <2>1. CASE m = backfill.high
      BY <1>2, <2>1 DEF NoBackfill, BackfillInv
    <2>2. CASE m # backfill.high
      <3>1. backfill' = [pc |-> "fill", at |-> m, high |-> backfill.high,
                         skip |-> backfill.skip]
        BY <1>1, <1>2, <2>2
      <3>2. m < backfill.high
        BY <1>1, <2>2
      <3>3. /\ backfill.high \in 0..checkpoint' /\ m \in Nat
            /\ backfill.skip \in SUBSET Messages
        BY <1>1, <1>2, LedgerNumbers DEF LedgerInv, LedgerTypeOK
      <3> HIDE DEF m
      <3>4. backfill' \in [pc : {"idle", "asked", "claimed", "fill"}, at : Nat,
                           high : 0..checkpoint', skip : SUBSET Messages]
        BY <3>1, <3>3
      <3> QED  BY <1>1, <1>4, <3>1, <3>2, <3>4 DEF BackfillInv
    <2> QED  BY <2>1, <2>2
  <1>7. LedgerTypeOK'
    BY <1>2, <1>4, <1>6 DEF LedgerInv, LedgerTypeOK, EventRecord
  <1>8. OrderInv' /\ Grown
    <2>1. /\ Old <= Reached' /\ Reached <= Reached' /\ Reached' <= checkpoint'
          /\ epoch' \in Nat /\ epoch <= epoch' /\ epoch' = epoch
      BY <1>2, <1>3, LedgerNumbers
    <2> QED  BY <1>5, <2>1 DEF OrderInv, Grown
  <1>9. Behind' \subseteq Behind
    <2>1. ToFill \subseteq ToFill' \cup {m}
      <3>1. CASE m = backfill.high
        BY <1>1, <3>1 DEF ToFill
      <3>2. CASE m # backfill.high
        <4>1. backfill'.pc = "fill" /\ backfill'.at = m /\ backfill'.high = backfill.high
          BY <1>1, <1>2, <3>2
        <4> HIDE LedgerNumbers
        <4> QED  BY <1>1, <4>1 DEF ToFill
      <3> QED  BY <3>1, <3>2
    <2>2. \A x : Supported(x)' = Supported(x)
      BY <1>2 DEF Supported
    <2>3. checkpoint' = checkpoint
      BY <1>2
    <2>4. \A x : Supported(x) /\ x = m => x \in Captured(ledger')
      BY <1>4
    <2> HIDE DEF m
    <2> QED  BY <1>4, <2>1, <2>2, <2>3, <2>4 DEF Behind
  <1> QED  BY <1>6, <1>7, <1>8, <1>9 DEF LedgerInv

\* Another store: nothing of the old one is left.
LEMMA RebuildStep ==
  ASSUME LedgerInv, Rebuild
  PROVE  LedgerInv' /\ Grown
  <1> USE LedgerNumbers
  <1>1. /\ ledger' = <<>> /\ checkpoint' = source /\ observer' = NoBatch
        /\ epoch' = epoch + 1 /\ source' = source
        /\ backfill' \in {NoBackfill, Asked}
    BY DEF Rebuild, AutoBackfill
  <1>2. ledger' \in Seq(EventRecord) /\ Len(ledger') = 0 /\ DOMAIN ledger' = {}
    BY <1>1
  <1>3. host' \in LedgerScenario
    BY ScenarioStep DEF LedgerNext
  <1>4. Reached' = source
    BY <1>1 DEF Reached
  <1>5. LedgerTypeOK'
    <2>1. source \in 0..MaxMessages /\ epoch \in Nat
      BY DEF LedgerInv, LedgerTypeOK
    <2>2. observer' \in [at : Nat, to : 0..source'] /\ observer' = NoBatch
      BY <1>1, <2>1 DEF NoBatch
    <2>3. /\ backfill' \in [pc : {"idle", "asked", "claimed", "fill"}, at : Nat,
                             high : 0..checkpoint', skip : SUBSET Messages]
          /\ backfill'.pc # "fill"
      <3>1. checkpoint' \in Nat
        BY <1>1, <2>1
      <3> HIDE LedgerNumbers
      <3> QED  BY <1>1, <3>1 DEF NoBackfill, Asked
    <2>4. ledger' \in Seq([msg : Messages, historical : BOOLEAN])
      BY <1>2 DEF EventRecord
    <2>5. /\ source' \in 0..MaxMessages /\ checkpoint' \in 0..source'
          /\ epoch' \in Nat
      BY <1>1, <2>1
    <2> QED  BY <1>3, <2>2, <2>3, <2>4, <2>5 DEF LedgerTypeOK
  <1>6. BackfillInv'
    BY <1>1 DEF BackfillInv, NoBackfill, Asked
  <1>7. OrderInv' /\ Grown
    BY <1>1, <1>2, <1>4 DEF OrderInv, Grown
  <1> QED  BY <1>5, <1>6, <1>7 DEF LedgerInv

\* Every step of the Host keeps its invariant, and shows the Core a ledger that
\* has grown.
LEMMA LedgerStep ==
  ASSUME LedgerInv, LedgerNext
  PROVE  LedgerInv' /\ Grown
  BY ReaderStep, ClaimCheckpointStep, CaptureStep, FillStep, RebuildStep DEF LedgerNext

\* No message falls behind but by the steps that are named.
LEMMA FallsStep ==
  ASSUME LedgerInv, [LedgerNext]_ledgerVars, ~CutShort, ~Rebuild
  PROVE  Behind' \subseteq Behind
  <1> USE LedgerNumbers
  <1>1. CASE UNCHANGED <<ledger, checkpoint, backfill, host>>
    BY <1>1 DEF Behind, ToFill, Supported, Captured
  <1>2. CASE Capture \/ Fill
    BY <1>2, CaptureStep, FillStep
  <1>3. CASE ClaimCheckpoint
    <2>1. ToFill' = 1..checkpoint'
      BY <1>3 DEF ClaimCheckpoint, ToFill
    <2> QED  BY <2>1 DEF Behind
  <1>4. CASE AskSync \/ CycleFails \/ BackfillFails \/ Restart \/ ReadCaptured
    <2>1. UNCHANGED <<ledger, checkpoint>>
      BY <1>4 DEF AskSync, CycleFails, BackfillFails, Restart, ReadCaptured
    <2>3. \A x : Supported(x)' = Supported(x)
      <3>1. host'.unsupported = host.unsupported
        BY <1>4, ScenarioStep DEF LedgerNext
      <3> QED  BY <3>1 DEF Supported
    <2>2. ToFill \subseteq ToFill'
      <3>1. CASE AskSync
        BY <3>1 DEF AskSync, ToFill
      <3>2. CASE CycleFails
        BY <3>2 DEF CycleFails, ToFill
      <3>3. CASE BackfillFails \/ Restart
        BY <3>3 DEF CutShort
      <3>4. CASE ReadCaptured
        <4>1. CASE backfill.high = 0
          BY <3>4, <4>1 DEF ReadCaptured, ToFill
        <4>2. CASE backfill.high # 0
          <5>1. backfill' = [pc |-> "fill", at |-> 0, high |-> backfill.high,
                             skip |-> Captured(ledger)]
            BY <3>4, <4>2 DEF ReadCaptured, LedgerInv, BackfillInv
          <5>2. ToFill = 1..backfill.high
            BY <3>4 DEF ReadCaptured, ToFill
          <5>3. backfill'.pc = "fill" /\ backfill'.at + 1 = 1 /\ backfill'.high = backfill.high
            BY <5>1
          <5>4. ToFill' = 1..backfill.high
            BY <5>3 DEF ToFill
          <5> QED  BY <5>2, <5>4
        <4> QED  BY <4>1, <4>2
      <3> QED  BY <1>4, <3>1, <3>2, <3>3, <3>4
    <2> QED  BY <2>1, <2>2, <2>3 DEF Behind, Captured
  <1> QED  BY <1>1, <1>2, <1>3, <1>4 DEF LedgerNext, Arrive, ReadBatch, ledgerVars
-----------------------------------------------------------------------------
(* The poller: how its page lies in the ledger.                              *)

\* The fields of the poller and of the events on its page.
LEMMA PollNumbers ==
  ASSUME PollTypeOK
  PROVE  /\ cursor \in Nat /\ poller.next \in Nat /\ poller.events \in Seq(PageEvent)
         /\ DOMAIN poller.events = 1..Len(poller.events) /\ Len(poller.events) \in Nat
         /\ \A k \in DOMAIN poller.events :
              /\ poller.events[k] \in PageEvent
              /\ poller.events[k].cursor \in Nat /\ poller.events[k].msg \in Messages
              /\ poller.events[k].msg \in Nat /\ poller.events[k].historical \in BOOLEAN
         /\ poller = [pc |-> poller.pc, events |-> poller.events, next |-> poller.next,
                      more |-> poller.more, handoff |-> poller.handoff]
         /\ poller.pc \in {"idle", "page", "handoff"}
         /\ poller.more \in BOOLEAN /\ poller.handoff \in Messages \cup {NoMessage}
  <1>1. /\ cursor \in Nat /\ poller.next \in Nat /\ poller.events \in Seq(PageEvent)
        /\ poller = [pc |-> poller.pc, events |-> poller.events, next |-> poller.next,
                      more |-> poller.more, handoff |-> poller.handoff]
        /\ poller.pc \in {"idle", "page", "handoff"}
        /\ poller.more \in BOOLEAN /\ poller.handoff \in Messages \cup {NoMessage}
    BY DEF PollTypeOK
  <1>2. /\ DOMAIN poller.events = 1..Len(poller.events) /\ Len(poller.events) \in Nat
        /\ \A k \in DOMAIN poller.events : poller.events[k] \in PageEvent
    BY <1>1, LenProperties, ElementOfSeq
  <1>3. \A e \in PageEvent : /\ e.cursor \in Nat /\ e.msg \in Messages
                             /\ e.msg \in Nat /\ e.historical \in BOOLEAN
    BY DEF PageEvent, Messages
  <1> QED  BY <1>1, <1>2, <1>3

\* A pull returns the next part of the ledger.
LEMMA EventsProperties ==
  ASSUME LedgerInv, NEW after \in Nat
  PROVE  /\ PageEnd(after) \in Nat /\ after <= PageEnd(after)
         /\ after <= Len(ledger) => PageEnd(after) <= Len(ledger)
         /\ Events(after) \in Seq(PageEvent)
         /\ Len(Events(after)) = PageEnd(after) - after
         /\ DOMAIN Events(after) = 1 .. PageEnd(after) - after
         /\ \A k \in DOMAIN Events(after) :
              /\ after + k \in DOMAIN ledger /\ k \in Nat
              /\ Events(after)[k] = [cursor |-> after + k, msg |-> ledger[after + k].msg,
                                     historical |-> ledger[after + k].historical]
  <1>1. Len(ledger) \in Nat /\ DOMAIN ledger = 1..Len(ledger)
    BY LedgerElements
  <1>2. /\ PageEnd(after) \in Nat /\ after <= PageEnd(after)
        /\ after <= Len(ledger) => PageEnd(after) <= Len(ledger)
        /\ after > Len(ledger) => PageEnd(after) = after
    <2>1. PageLimit \in Nat
      BY LedgerAssumption
    <2>2. CASE Len(ledger) > after + PageLimit
      <3>1. PageEnd(after) = after + PageLimit
        BY <2>2 DEF PageEnd
      <3> QED  BY <1>1, <2>1, <2>2, <3>1
    <2>3. CASE ~(Len(ledger) > after + PageLimit)
      <3>1. PageEnd(after) = IF after > Len(ledger) THEN after ELSE Len(ledger)
        BY <2>3 DEF PageEnd, Later
      <3>2. CASE after > Len(ledger)
        BY <3>1, <3>2
      <3>3. CASE ~(after > Len(ledger))
        <4>1. PageEnd(after) = Len(ledger)
          BY <3>1, <3>3
        <4>2. Len(ledger) \in Nat /\ after <= Len(ledger) /\ ~(after > Len(ledger))
          BY <1>1, <3>3
        <4>3. Len(ledger) <= Len(ledger)
          BY <4>2
        <4> QED  BY <4>1, <4>2, <4>3
      <3> QED  BY <3>2, <3>3
    <2> QED  BY <2>2, <2>3
  <1> DEFINE n == PageEnd(after) - after
  <1>3. n \in Nat
    BY <1>2
  <1>4. \A k \in 1..n : after + k \in DOMAIN ledger /\ k \in Nat
    BY <1>1, <1>2
  <1>5. \A k \in 1..n : [cursor |-> after + k, msg |-> ledger[after + k].msg,
                         historical |-> ledger[after + k].historical] \in PageEvent
    <2>1. ASSUME NEW k \in 1..n
          PROVE  [cursor |-> after + k, msg |-> ledger[after + k].msg,
                  historical |-> ledger[after + k].historical] \in PageEvent
      <3>1. /\ after + k \in Nat /\ ledger[after + k].msg \in Messages
            /\ ledger[after + k].historical \in BOOLEAN
        BY <1>4, LedgerElements
      <3> QED  BY <3>1 DEF PageEvent
    <2> QED  BY <2>1
  <1>6. Events(after) \in [1..n -> PageEvent]
    BY <1>5 DEF Events
  <1> HIDE DEF n
  <1>7. Events(after) \in Seq(PageEvent)
    BY <1>3, <1>6, SeqDef
  <1>8. DOMAIN Events(after) = 1..n
    BY <1>6
  <1>9. Len(Events(after)) = n
    BY <1>3, <1>7, <1>8, LenProperties
  <1>10. \A k \in 1..n :
            Events(after)[k] = [cursor |-> after + k, msg |-> ledger[after + k].msg,
                                historical |-> ledger[after + k].historical]
    BY DEF Events, n
  <1> QED  BY <1>2, <1>4, <1>7, <1>8, <1>9, <1>10 DEF n

\* What is left of a page when its first event is taken.
LEMMA RestProperties ==
  ASSUME PollTypeOK, poller.events # <<>>
  PROVE  /\ Tail(poller.events) \in Seq(PageEvent)
         /\ Len(Tail(poller.events)) = Len(poller.events) - 1
         /\ DOMAIN Tail(poller.events) = 1 .. Len(poller.events) - 1
         /\ \A k \in DOMAIN Tail(poller.events) :
              /\ k \in Nat /\ k + 1 \in DOMAIN poller.events
              /\ Tail(poller.events)[k] = poller.events[k + 1]
         /\ 1 \in DOMAIN poller.events /\ Head(poller.events) = poller.events[1]
  <1>1. poller.events \in Seq(PageEvent) /\ DOMAIN poller.events = 1..Len(poller.events)
    BY PollNumbers
  <1>2. Len(poller.events) \in Nat \ {0}
    BY <1>1, EmptySeq
  <1>3. /\ Tail(poller.events) \in Seq(PageEvent)
        /\ Len(Tail(poller.events)) = Len(poller.events) - 1
        /\ \A k \in 1..Len(Tail(poller.events)) : Tail(poller.events)[k] = poller.events[k + 1]
    BY <1>1, HeadTailProperties
  <1>4. DOMAIN Tail(poller.events) = 1 .. Len(poller.events) - 1
    BY <1>3, LenProperties
  <1>5. Head(poller.events) = poller.events[1]
    BY <1>1
  <1> QED  BY <1>1, <1>2, <1>3, <1>4, <1>5

\* Before the first pull nothing has been passed.
LEMMA PollBegins ==
  ASSUME Init, LedgerInv
  PROVE  PollInv
  <1>1. /\ cursor = 0 /\ stored = [m \in Messages |-> "no"] /\ ledger = <<>> /\ epoch = 0
        /\ poller = [pc |-> "idle", events |-> <<>>, next |-> 0, more |-> FALSE,
                     handoff |-> NoMessage]
        /\ requested = {} /\ given = {}
    BY DEF Init, LedgerInit, NoPage
  <1>2. <<>> \in Seq(PageEvent) /\ Len(<<>>) = 0 /\ DOMAIN <<>> = {}
    BY EmptySeq
  <1>3. PollTypeOK
    BY <1>1, <1>2 DEF PollTypeOK
  <1>4. PageInv
    BY <1>1, <1>2 DEF PageInv, Before
  <1>5. CursorCovers
    BY <1>1 DEF CursorCovers
  <1>6. Admitted = {}
    BY <1>1 DEF Admitted
  <1>7. PageOrder
    BY <1>1, <1>2, <1>6 DEF PageOrder
  <1>8. NoReturn
    BY <1>1, <1>2 DEF NoReturn
  <1> QED  BY <1>3, <1>4, <1>5, <1>7, <1>8 DEF PollInv

\* The Host's steps: what the page covers stays where it is.
LEMMA PollKeepsLedgerStep ==
  ASSUME LedgerInv, PollInv, LedgerInv', Grown,
         UNCHANGED <<cursor, stored, poller, requested, given>>
  PROVE  PollInv'
  <1>1. /\ Len(ledger) \in Nat /\ Len(ledger') \in Nat
        /\ DOMAIN ledger = 1..Len(ledger) /\ DOMAIN ledger' = 1..Len(ledger')
        /\ \A c \in DOMAIN ledger : ledger[c].msg \in Nat
        /\ \A c \in DOMAIN ledger' : ledger'[c].msg \in Nat
        /\ Reached \in Nat /\ Reached' \in Nat /\ epoch \in Nat /\ epoch' \in Nat
    BY ShapeNow, ShapeNext DEF LedgerShape
  <1>2. epoch' = 0 => epoch = 0
    BY <1>1 DEF Grown
  <1>3. PollTypeOK /\ PollTypeOK'
    BY DEF PollInv, PollTypeOK
  <1>4. Admitted' = Admitted
    BY DEF Admitted
  <1>5. PageInv'
    <2> SUFFICES ASSUME epoch' = 0
                 PROVE  /\ Before' \in Nat /\ poller'.next <= Len(ledger')
                        /\ \A k \in DOMAIN poller'.events :
                             poller'.events[k] =
                               [cursor |-> Before' + k, msg |-> ledger'[Before' + k].msg,
                                historical |-> ledger'[Before' + k].historical]
                        /\ \A c \in 1..Before' : Covered(c)'
      BY DEF PageInv
    <2>1. /\ Before' = Before /\ Before \in Nat /\ poller.next <= Len(ledger)
          /\ poller.next = Before + Len(poller.events)
          /\ Len(ledger) <= Len(ledger')
          /\ \A c \in 1..Len(ledger) : ledger'[c] = ledger[c]
      <3>1. Before' = Before
        BY DEF Before
      <3>2. Before \in Nat /\ poller.next <= Len(ledger)
        BY <1>2 DEF PollInv, PageInv
      <3>3. poller.next \in Nat /\ Len(poller.events) \in Nat
        BY <1>3, PollNumbers
      <3>4. poller.next = Before + Len(poller.events)
        BY <3>3 DEF Before
      <3> QED  BY <1>2, <3>1, <3>2, <3>4 DEF Grown
    <2>2. \A k \in DOMAIN poller.events : Before + k \in 1..Len(ledger)
      BY <1>1, <1>3, <2>1, PollNumbers
    <2>3. \A c \in 1..Before : c \in 1..Len(ledger)
      BY <1>1, <1>3, <2>1, PollNumbers
    <2>4. \A c \in 1..Before : Covered(c)'
      BY <1>2, <2>1, <2>3 DEF PollInv, PageInv, Covered
    <2>5. poller.next <= Len(ledger')
      BY <1>1, <1>3, <2>1, PollNumbers
    <2>6. \A k \in DOMAIN poller.events :
             poller.events[k] = [cursor |-> Before + k, msg |-> ledger'[Before + k].msg,
                                 historical |-> ledger'[Before + k].historical]
      BY <1>2, <2>1, <2>2 DEF PollInv, PageInv
    <2> QED  BY <2>1, <2>4, <2>5, <2>6
  <1>6. CursorCovers'
    <2> SUFFICES ASSUME epoch' = 0, NEW c \in 1..cursor
                 PROVE  /\ c \in DOMAIN ledger'
                        /\ stored[ledger'[c].msg] # "no" \/ ledger'[c].msg \in given
      BY DEF CursorCovers
    <2>1. /\ c \in DOMAIN ledger
          /\ stored[ledger[c].msg] # "no" \/ ledger[c].msg \in given
      BY <1>2 DEF PollInv, CursorCovers
    <2>2. ledger'[c] = ledger[c] /\ Len(ledger) <= Len(ledger')
      BY <1>1, <1>2, <2>1 DEF Grown
    <2> QED  BY <1>1, <2>1, <2>2
  <1>7. PageOrder'
    <2>1. Reached <= Reached'
      BY DEF Grown
    <2>2. \A n \in Nat : n <= Reached => n <= Reached'
      BY <1>1, <2>1
    <2>3. Admitted \subseteq Nat
      BY DEF Admitted, Messages
    <2> QED  BY <1>3, <1>4, <2>2, <2>3, PollNumbers DEF PollInv, PageOrder
  <1>8. NoReturn'
    <2> SUFFICES ASSUME NEW c \in DOMAIN ledger', Live(ledger'[c])
                 PROVE  /\ \A m \in Admitted : ledger'[c].msg <= m => LeftBehind(c)'
                        /\ \A k \in DOMAIN poller.events :
                             Live(poller.events[k]) /\ ledger'[c].msg <= poller.events[k].msg =>
                               /\ c <= poller.events[k].cursor
                               /\ poller.events[k].cursor <= Len(ledger')
                               /\ poller.events[k].cursor <= poller.next
                               /\ poller.next <= Len(ledger')
                               /\ \A j \in DOMAIN poller.events :
                                    j > k => poller.events[k].cursor <= poller.events[j].cursor
                                               /\ poller.events[j].cursor <= Len(ledger')
      BY <1>4 DEF NoReturn
    <2>1. epoch' = epoch
      BY <1>1, EmptySeq DEF Grown
    <2>2. \A n \in Nat : n <= Len(ledger) => n <= Len(ledger')
      BY <1>1, <2>1 DEF Grown
    <2>3. CASE c \in DOMAIN ledger
      <3>1. ledger'[c] = ledger[c] /\ Live(ledger[c])
        BY <1>1, <2>1, <2>3 DEF Grown
      <3>2. LeftBehind(c) => LeftBehind(c)'
        BY <1>3, <2>2, PollNumbers DEF LeftBehind
      <3> QED  BY <1>3, <2>2, <2>3, <3>1, <3>2, PollNumbers DEF PollInv, NoReturn
    <2>4. CASE c \notin DOMAIN ledger
      <3>1. c \in Len(ledger) + 1 .. Len(ledger')
        BY <1>1, <2>4
      <3>2. Reached < ledger'[c].msg /\ ledger'[c].msg \in Nat
        BY <1>1, <2>1, <3>1 DEF Grown
      <3>3. \A n \in Nat : n <= Reached => ~(ledger'[c].msg <= n)
        BY <1>1, <3>2
      <3>4. Admitted \subseteq Nat
        BY DEF Admitted, Messages
      <3> QED  BY <1>3, <3>3, <3>4, PollNumbers DEF PollInv, PageOrder
    <2> QED  BY <2>3, <2>4
  <1> QED  BY <1>3, <1>5, <1>6, <1>7, <1>8 DEF PollInv

\* A page is taken from where the poller stands; after a new store that may be
\* anywhere, but then nothing of the new store was admitted yet.
LEMMA PageTaken ==
  ASSUME LedgerInv, PollTypeOK, NEW after \in Nat, TakePage(after),
         UNCHANGED <<ledgerVars, stored, requested, given>>, cursor' \in Nat,
         epoch = 0 => /\ cursor' = after /\ after <= Len(ledger)
                      /\ \A c \in 1..after : Covered(c),
         \A m \in Admitted : m <= Reached,
         \A c \in DOMAIN ledger : \A m \in Admitted :
           Live(ledger[c]) /\ ledger[c].msg <= m =>
             c <= after /\ after <= Len(ledger) /\ cursor' = after
  PROVE  PollInv'
  <1> DEFINE page == Events(after)
  <1>1. /\ PageEnd(after) \in Nat /\ after <= PageEnd(after)
        /\ after <= Len(ledger) => PageEnd(after) <= Len(ledger)
        /\ page \in Seq(PageEvent) /\ Len(page) = PageEnd(after) - after
        /\ DOMAIN page = 1 .. PageEnd(after) - after
        /\ \A k \in DOMAIN page :
              /\ after + k \in DOMAIN ledger /\ k \in Nat
              /\ page[k] = [cursor |-> after + k, msg |-> ledger[after + k].msg,
                            historical |-> ledger[after + k].historical]
    BY EventsProperties
  <1>2. /\ Len(ledger) \in Nat /\ DOMAIN ledger = 1..Len(ledger)
        /\ \A c \in DOMAIN ledger : ledger[c].msg \in Nat
    BY LedgerElements
  <1>3. poller' = [pc |-> "page", events |-> page, next |-> PageEnd(after),
                   more |-> PageEnd(after) < Len(ledger), handoff |-> NoMessage]
    BY DEF TakePage, NoPage
  <1> HIDE DEF page
  <1>4. /\ UNCHANGED <<ledger, epoch, observer, checkpoint>>
        /\ Reached' = Reached /\ Admitted' = Admitted
    BY DEF ledgerVars, Reached, Admitted
  <1>5. PollTypeOK'
    <2>1. (PageEnd(after) < Len(ledger)) \in BOOLEAN
      OBVIOUS
    <2>2. poller' \in [pc : {"idle", "page", "handoff"}, events : Seq(PageEvent), next : Nat,
                       more : BOOLEAN, handoff : Messages \cup {NoMessage}]
      BY <1>1, <1>3, <2>1
    <2>3. poller'.pc = "page" /\ poller'.handoff = NoMessage
      BY <1>3
    <2> QED  BY <2>2, <2>3 DEF PollTypeOK
  <1>6. PageInv' /\ CursorCovers'
    <2>1. Before' = after
      BY <1>1, <1>3 DEF Before
    <2>2. ASSUME epoch = 0
          PROVE  PageInv' /\ CursorCovers'
      <3>1. PageInv'
        BY <1>1, <1>3, <1>4, <2>1, <2>2 DEF PageInv, Covered
      <3>2. \A c \in 1..cursor' : c \in DOMAIN ledger /\ Covered(c)
        BY <1>2, <2>2
      <3> QED  BY <1>4, <3>1, <3>2 DEF CursorCovers, Covered
    <2>3. CASE epoch # 0
      BY <1>4, <2>3 DEF PageInv, CursorCovers
    <2> QED  BY <2>2, <2>3
  <1>7. \A k \in DOMAIN page : /\ page[k].cursor = after + k
                               /\ page[k].msg = ledger[after + k].msg
                               /\ page[k].msg \in Nat
                               /\ Live(page[k]) => Live(ledger[after + k])
    BY <1>1, <1>2 DEF Live
  <1>8. PageOrder'
    <2>1. ASSUME NEW k \in DOMAIN page, Live(page[k])
          PROVE  /\ page[k].msg > Old /\ page[k].msg <= Reached
                 /\ \A m \in Admitted : m < page[k].msg
                 /\ \A j \in DOMAIN page : j < k /\ Live(page[j]) => page[j].msg < page[k].msg
      <3>1. page[k].msg > Old /\ page[k].msg <= Reached
        BY <1>1, <1>7, <2>1 DEF LedgerInv, OrderInv
      <3>2. ASSUME NEW m \in Admitted PROVE m < page[k].msg
        <4>1. after + k \in DOMAIN ledger /\ Live(ledger[after + k]) /\ k \in Nat /\ k >= 1
          BY <1>1, <1>7, <2>1
        <4>2. ~(after + k <= after)
          BY <4>1
        <4>3. ~(ledger[after + k].msg <= m)
          BY <3>2, <4>1, <4>2
        <4>4. m \in Nat
          BY <3>2 DEF Admitted, Messages
        <4> QED  BY <1>7, <4>3, <4>4
      <3>3. ASSUME NEW j \in DOMAIN page, j < k, Live(page[j]) PROVE page[j].msg < page[k].msg
        <4>1. /\ after + j \in DOMAIN ledger /\ after + k \in DOMAIN ledger
              /\ after + j < after + k
          BY <1>1, <3>3
        <4> QED  BY <1>7, <2>1, <3>3, <4>1 DEF LedgerInv, OrderInv
      <3> QED  BY <3>1, <3>2, <3>3
    <2>2. poller'.events = page
      BY <1>3
    <2> QED  BY <1>4, <2>1, <2>2 DEF PageOrder
  <1>9. NoReturn'
    <2> SUFFICES ASSUME NEW c \in DOMAIN ledger, Live(ledger[c])
                 PROVE  /\ \A m \in Admitted : ledger[c].msg <= m => LeftBehind(c)'
                        /\ \A k \in DOMAIN page :
                             Live(page[k]) /\ ledger[c].msg <= page[k].msg =>
                               /\ c <= page[k].cursor /\ page[k].cursor <= Len(ledger)
                               /\ page[k].cursor <= PageEnd(after) /\ PageEnd(after) <= Len(ledger)
                               /\ \A j \in DOMAIN page :
                                    j > k => page[k].cursor <= page[j].cursor
                                               /\ page[j].cursor <= Len(ledger)
      BY <1>3, <1>4 DEF NoReturn
    <2>1. \A k \in DOMAIN page : after + k <= Len(ledger) /\ after + k <= PageEnd(after)
      BY <1>1, <1>2
    <2>2. ASSUME NEW m \in Admitted, ledger[c].msg <= m PROVE LeftBehind(c)'
      <3>1. c <= after /\ after <= Len(ledger) /\ cursor' = after
        BY <2>2
      <3>2. c <= PageEnd(after) /\ PageEnd(after) <= Len(ledger)
        BY <1>1, <1>2, <3>1
      <3>3. \A k \in DOMAIN page : c <= page[k].cursor /\ page[k].cursor <= Len(ledger)
        BY <1>1, <1>2, <1>7, <2>1, <3>1
      <3>4. poller'.events = page /\ poller'.next = PageEnd(after)
        BY <1>3
      <3> QED  BY <1>4, <3>1, <3>2, <3>3, <3>4 DEF LeftBehind
    <2>3. ASSUME NEW k \in DOMAIN page, Live(page[k]), ledger[c].msg <= page[k].msg
          PROVE  /\ c <= page[k].cursor /\ page[k].cursor <= Len(ledger)
                 /\ page[k].cursor <= PageEnd(after) /\ PageEnd(after) <= Len(ledger)
                 /\ \A j \in DOMAIN page : j > k => page[k].cursor <= page[j].cursor
                                                      /\ page[j].cursor <= Len(ledger)
      <3>1. after + k \in DOMAIN ledger /\ Live(ledger[after + k]) /\ k \in Nat
        BY <1>1, <1>7, <2>3
      <3>2. ~(after + k < c)
        <4>1. after + k < c => ledger[after + k].msg < ledger[c].msg
          BY <3>1 DEF LedgerInv, OrderInv
        <4> QED  BY <1>2, <1>7, <2>3, <3>1, <4>1
      <3>3. after <= Len(ledger)
        BY <1>2, <3>1
      <3>4. c <= after + k
        BY <1>2, <3>1, <3>2
      <3>5. \A j \in DOMAIN page : j > k => after + k <= after + j
        BY <1>1, <3>1
      <3> QED  BY <1>1, <1>7, <2>1, <2>3, <3>3, <3>4, <3>5
    <2> QED  BY <2>2, <2>3
  <1> QED  BY <1>5, <1>6, <1>8, <1>9 DEF PollInv

\* An event of the page is ingested or skipped: it is covered from then on,
\* and everything up to it lies behind the poller.
LEMMA EventTaken ==
  ASSUME LedgerInv, PollInv, poller.events # <<>>, poller.pc = "page",
         UNCHANGED ledgerVars, PollTypeOK',
         poller'.events = Tail(poller.events), poller'.next = poller.next,
         cursor' \in {cursor, Head(poller.events).cursor},
         \A m \in Messages : stored[m] # "no" => stored'[m] # "no",
         given \subseteq given',
         \/ stored'[Head(poller.events).msg] # "no"
         \/ Head(poller.events).msg \in given',
         \A m \in Admitted' : \/ m \in Admitted
                              \/ /\ m = Head(poller.events).msg /\ Live(Head(poller.events))
                                 /\ cursor' = Head(poller.events).cursor
  PROVE  PollInv'
  <1> DEFINE e == Head(poller.events)
             rest == Tail(poller.events)
  <1>1. /\ rest \in Seq(PageEvent) /\ Len(rest) = Len(poller.events) - 1
        /\ DOMAIN rest = 1 .. Len(poller.events) - 1
        /\ \A k \in DOMAIN rest : /\ k \in Nat /\ k + 1 \in DOMAIN poller.events
                                  /\ rest[k] = poller.events[k + 1]
        /\ 1 \in DOMAIN poller.events /\ e = poller.events[1]
    BY RestProperties DEF PollInv
  <1>2. poller'.events = rest
    OBVIOUS
  <1> HIDE DEF e, rest
  <1>3. /\ UNCHANGED <<ledger, epoch>> /\ Reached' = Reached
        /\ Len(ledger) \in Nat /\ DOMAIN ledger = 1..Len(ledger)
        /\ \A c \in DOMAIN ledger : ledger[c].msg \in Messages
    BY LedgerElements DEF ledgerVars, Reached
  <1>4. /\ cursor \in Nat /\ poller.next \in Nat
        /\ DOMAIN poller.events = 1..Len(poller.events) /\ Len(poller.events) \in Nat
        /\ \A k \in DOMAIN poller.events : /\ poller.events[k].cursor \in Nat
                                           /\ poller.events[k].msg \in Nat
    BY PollNumbers DEF PollInv
  <1>5. \A c \in DOMAIN ledger : Covered(c) => Covered(c)'
    BY <1>3 DEF Covered
  <1>6. PageInv' /\ CursorCovers'
    <2>1. CASE epoch # 0
      BY <1>3, <2>1 DEF PageInv, CursorCovers
    <2>2. ASSUME epoch = 0
          PROVE  PageInv' /\ CursorCovers'
      <3>1. /\ Before \in Nat /\ poller.next <= Len(ledger)
            /\ poller.next = Before + Len(poller.events)
            /\ \A k \in DOMAIN poller.events :
                 poller.events[k] = [cursor |-> Before + k, msg |-> ledger[Before + k].msg,
                                     historical |-> ledger[Before + k].historical]
            /\ \A c \in 1..Before : Covered(c)
        <4>1. poller.next = Before + Len(poller.events)
          BY <1>4 DEF Before
        <4> QED  BY <2>2, <4>1 DEF PollInv, PageInv
      <3>2. Before' = Before + 1
        BY <1>1, <1>2, <1>4 DEF Before
      <3>3. /\ Before + 1 \in DOMAIN ledger /\ e.cursor = Before + 1
            /\ e.msg = ledger[Before + 1].msg
        <4>1. 1 <= Len(poller.events) /\ Before + 1 <= Len(ledger)
          BY <1>1, <1>3, <1>4, <3>1
        <4>2. e = [cursor |-> Before + 1, msg |-> ledger[Before + 1].msg,
                   historical |-> ledger[Before + 1].historical]
          BY <1>1, <3>1
        <4> QED  BY <1>3, <3>1, <4>1, <4>2
      <3>5. \A c \in 1 .. Before + 1 : c \in DOMAIN ledger /\ (c \in 1..Before \/ c = Before + 1)
        BY <1>3, <3>1, <3>3
      <3>6. \A c \in 1 .. Before + 1 : stored'[ledger[c].msg] # "no" \/ ledger[c].msg \in given'
        <4>1. stored'[ledger[Before + 1].msg] # "no" \/ ledger[Before + 1].msg \in given'
          BY <3>3 DEF e
        <4> QED  BY <1>3, <1>5, <3>1, <3>5, <4>1 DEF Covered
      <3>7. PageInv'
        <4>1. \A k \in DOMAIN rest :
                 rest[k] = [cursor |-> (Before + 1) + k, msg |-> ledger[(Before + 1) + k].msg,
                            historical |-> ledger[(Before + 1) + k].historical]
          <5>1. \A k \in DOMAIN rest : Before + (k + 1) = (Before + 1) + k
            BY <1>1, <3>1
          <5> QED  BY <1>1, <3>1, <5>1
        <4>2. Before' \in Nat /\ poller'.next <= Len(ledger')
          BY <1>3, <3>1, <3>2
        <4>3. \A c \in 1..Before' : Covered(c)'
          BY <1>3, <3>2, <3>6 DEF Covered
        <4> QED  BY <1>2, <1>3, <3>2, <4>1, <4>2, <4>3 DEF PageInv
      <3>8. CursorCovers'
        <4>1. CASE cursor' = cursor
          BY <1>3, <1>5, <2>2, <4>1 DEF PollInv, CursorCovers, Covered
        <4>2. CASE cursor' = Before + 1
          BY <1>3, <3>5, <3>6, <4>2 DEF CursorCovers
        <4> QED  BY <3>3, <4>1, <4>2 DEF e
      <3> QED  BY <3>7, <3>8
    <2> QED  BY <2>1, <2>2
  <1>7. PageOrder'
    <2>1. \A m \in Admitted' : m \in Admitted \/ (m = e.msg /\ Live(e))
      BY DEF e
    <2>2. \A m \in Admitted' : m <= Reached
      BY <1>1, <2>1 DEF PollInv, PageOrder
    <2>3. ASSUME NEW k \in DOMAIN rest, Live(rest[k])
          PROVE  /\ rest[k].msg > Old /\ rest[k].msg <= Reached
                 /\ \A m \in Admitted' : m < rest[k].msg
                 /\ \A j \in DOMAIN rest : j < k /\ Live(rest[j]) => rest[j].msg < rest[k].msg
      <3>1. /\ k + 1 \in DOMAIN poller.events /\ rest[k] = poller.events[k + 1]
            /\ Live(poller.events[k + 1]) /\ 1 < k + 1
        BY <1>1, <2>3
      <3>2. \A m \in Admitted' : m < rest[k].msg
        BY <1>1, <2>1, <3>1 DEF PollInv, PageOrder
      <3>3. ASSUME NEW j \in DOMAIN rest, j < k, Live(rest[j])
            PROVE  rest[j].msg < rest[k].msg
        <4>1. /\ j + 1 \in DOMAIN poller.events /\ rest[j] = poller.events[j + 1]
              /\ j + 1 < k + 1
          BY <1>1, <3>3
        <4> QED  BY <3>1, <3>3, <4>1 DEF PollInv, PageOrder
      <3> QED  BY <3>1, <3>2, <3>3 DEF PollInv, PageOrder
    <2> QED  BY <1>2, <1>3, <2>2, <2>3 DEF PageOrder
  <1>8. NoReturn'
    <2> SUFFICES ASSUME NEW c \in DOMAIN ledger, Live(ledger[c])
                 PROVE  /\ \A m \in Admitted' : ledger[c].msg <= m => LeftBehind(c)'
                        /\ \A k \in DOMAIN rest :
                             Live(rest[k]) /\ ledger[c].msg <= rest[k].msg =>
                               /\ c <= rest[k].cursor /\ rest[k].cursor <= Len(ledger)
                               /\ rest[k].cursor <= poller.next /\ poller.next <= Len(ledger)
                               /\ \A j \in DOMAIN rest :
                                    j > k => rest[k].cursor <= rest[j].cursor
                                               /\ rest[j].cursor <= Len(ledger)
      BY <1>2, <1>3 DEF NoReturn
    <2>0. c \in Nat
      BY <1>3
    <2>1. ASSUME NEW m \in Admitted', ledger[c].msg <= m PROVE LeftBehind(c)'
      <3>1. CASE m \in Admitted
        <4>1. LeftBehind(c)
          BY <2>1, <3>1 DEF PollInv, NoReturn
        <4>2. c <= cursor' /\ cursor' <= Len(ledger)
          BY <1>1, <4>1 DEF LeftBehind, e
        <4>3. c <= poller.next /\ poller.next <= Len(ledger)
          BY <4>1 DEF LeftBehind
        <4>4. \A k \in DOMAIN rest : c <= rest[k].cursor /\ rest[k].cursor <= Len(ledger)
          BY <1>1, <4>1 DEF LeftBehind
        <4> QED  BY <1>2, <1>3, <4>2, <4>3, <4>4 DEF LeftBehind
      <3>2. CASE m \notin Admitted
        <4>1. m = e.msg /\ Live(e) /\ cursor' = e.cursor
          BY <3>2 DEF e
        <4>2. /\ c <= e.cursor /\ e.cursor <= Len(ledger)
              /\ e.cursor <= poller.next /\ poller.next <= Len(ledger)
              /\ \A j \in DOMAIN poller.events :
                   j > 1 => e.cursor <= poller.events[j].cursor
                              /\ poller.events[j].cursor <= Len(ledger)
          BY <1>1, <2>1, <4>1 DEF PollInv, NoReturn
        <4>3. c <= poller.next
          BY <1>1, <1>4, <2>0, <4>2
        <4>4. \A k \in DOMAIN rest : c <= rest[k].cursor /\ rest[k].cursor <= Len(ledger)
          <5>1. ASSUME NEW k \in DOMAIN rest
                PROVE  c <= rest[k].cursor /\ rest[k].cursor <= Len(ledger)
            <6>1. /\ k + 1 \in DOMAIN poller.events /\ k + 1 > 1
                  /\ rest[k] = poller.events[k + 1]
              BY <1>1
            <6>2. e.cursor <= rest[k].cursor /\ rest[k].cursor <= Len(ledger)
              BY <4>2, <6>1
            <6>3. e.cursor \in Nat /\ rest[k].cursor \in Nat /\ c <= e.cursor
              BY <1>1, <1>4, <4>2, <6>1
            <6> QED  BY <2>0, <6>2, <6>3
          <5> QED  BY <5>1
        <4> QED  BY <1>2, <1>3, <4>1, <4>2, <4>3, <4>4 DEF LeftBehind
      <3> QED  BY <3>1, <3>2
    <2>2. ASSUME NEW k \in DOMAIN rest, Live(rest[k]), ledger[c].msg <= rest[k].msg
          PROVE  /\ c <= rest[k].cursor /\ rest[k].cursor <= Len(ledger)
                 /\ rest[k].cursor <= poller.next /\ poller.next <= Len(ledger)
                 /\ \A j \in DOMAIN rest :
                      j > k => rest[k].cursor <= rest[j].cursor
                                 /\ rest[j].cursor <= Len(ledger)
      <3>1. k + 1 \in DOMAIN poller.events /\ rest[k] = poller.events[k + 1]
        BY <1>1
      <3>2. \A j \in DOMAIN rest : /\ j + 1 \in DOMAIN poller.events
                                   /\ rest[j] = poller.events[j + 1]
                                   /\ j > k => j + 1 > k + 1
        BY <1>1
      <3> QED  BY <2>2, <3>1, <3>2 DEF PollInv, NoReturn
    <2> QED  BY <2>1, <2>2
  <1> QED  BY <1>6, <1>7, <1>8 DEF PollInv

\* The pull at the head of a cycle, from the cursor or from the beginning of a
\* new store, keeps PollInv.
LEMMA FirstPullStep ==
  ASSUME LedgerInv, PollInv, FirstPull
  PROVE  PollInv'
  <1> DEFINE from == IF Len(ledger) < cursor THEN 0 ELSE cursor
  <1>1. /\ cursor \in Nat /\ Len(ledger) \in Nat /\ DOMAIN ledger = 1..Len(ledger)
    BY PollNumbers, LedgerElements DEF PollInv
  <1>2. /\ TakePage(from) /\ UNCHANGED <<ledgerVars, cursor, stored, requested, given>>
        /\ from \in Nat
    BY <1>1 DEF FirstPull, history
  <1>3. epoch = 0 => /\ cursor' = from /\ from <= Len(ledger)
                     /\ \A c \in 1..from : Covered(c)
    <2> SUFFICES ASSUME epoch = 0
                 PROVE  /\ cursor' = from /\ from <= Len(ledger)
                        /\ \A c \in 1..from : Covered(c)
      OBVIOUS
    <2>1. \A c \in 1..cursor : c \in DOMAIN ledger /\ Covered(c)
      BY DEF PollInv, CursorCovers, Covered
    <2>2. cursor <= Len(ledger)
      <3>1. CASE cursor = 0
        BY <1>1, <3>1
      <3>2. CASE cursor # 0
        <4>1. cursor \in DOMAIN ledger
          BY <1>1, <2>1, <3>2
        <4> QED  BY <1>1, <4>1
      <3> QED  BY <3>1, <3>2
    <2>3. from = cursor
      BY <1>1, <2>2
    <2> QED  BY <1>2, <2>1, <2>2, <2>3
  <1>4. \A m \in Admitted : m <= Reached
    BY DEF PollInv, PageOrder
  <1>5. \A c \in DOMAIN ledger : \A m \in Admitted :
           Live(ledger[c]) /\ ledger[c].msg <= m =>
             c <= from /\ from <= Len(ledger) /\ cursor' = from
    <2>1. \A c \in DOMAIN ledger : \A m \in Admitted :
             Live(ledger[c]) /\ ledger[c].msg <= m => c <= cursor /\ cursor <= Len(ledger)
      BY DEF PollInv, NoReturn, LeftBehind
    <2>2. cursor <= Len(ledger) => from = cursor
      BY <1>1
    <2> QED  BY <1>2, <2>1, <2>2
  <1> HIDE DEF from
  <1> QED  BY <1>1, <1>2, <1>3, <1>4, <1>5, PageTaken DEF PollInv

\* At the end of a page all of it is behind the cursor.
LEMMA PageDoneStep ==
  ASSUME LedgerInv, PollInv, PageDone
  PROVE  PollInv'
  <1> DEFINE to == poller.next
  <1>1. /\ to \in Nat /\ Len(ledger) \in Nat /\ DOMAIN ledger = 1..Len(ledger)
        /\ poller.pc = "page" /\ poller.events = <<>> /\ Len(poller.events) = 0
        /\ cursor' = to /\ UNCHANGED <<ledgerVars, stored, requested, given>>
    BY PollNumbers, LedgerElements, EmptySeq DEF PollInv, PageDone, history
  <1>2. epoch = 0 => /\ to <= Len(ledger)
                     /\ \A c \in 1..to : Covered(c)
    <2>1. Before = to
      BY <1>1 DEF Before
    <2> QED  BY <2>1 DEF PollInv, PageInv
  <1>3. \A m \in Admitted : m <= Reached
    BY DEF PollInv, PageOrder
  <1>4. \A c \in DOMAIN ledger : \A m \in Admitted :
           Live(ledger[c]) /\ ledger[c].msg <= m => c <= to /\ to <= Len(ledger)
    BY <1>1 DEF PollInv, NoReturn, LeftBehind
  <1>5. CASE poller.more
    <2>1. TakePage(to)
      BY <1>5 DEF PageDone
    <2> HIDE DEF to
    <2> QED  BY <1>1, <1>2, <1>3, <1>4, <2>1, PageTaken DEF PollInv
  <1>6. CASE ~poller.more
    <2>1. poller' = [pc |-> "idle", events |-> <<>>, next |-> 0, more |-> FALSE,
                     handoff |-> NoMessage]
      BY <1>6 DEF PageDone, NoPage
    <2>2. <<>> \in Seq(PageEvent) /\ Len(<<>>) = 0 /\ DOMAIN <<>> = {}
      BY EmptySeq
    <2> HIDE DEF to
    <2>3. PollTypeOK'
      BY <1>1, <2>1, <2>2 DEF PollInv, PollTypeOK
    <2>4. UNCHANGED <<ledger, epoch, Reached, Admitted>>
      BY <1>1 DEF ledgerVars, Reached, Admitted
    <2>5. PageInv'
      <3>1. Before' = 0
        BY <2>1, <2>2 DEF Before
      <3> QED  BY <1>1, <2>1, <2>2, <2>4, <3>1 DEF PageInv
    <2>6. CursorCovers'
      <3>1. epoch = 0 => \A c \in 1..to : c \in DOMAIN ledger
        BY <1>1, <1>2
      <3> QED  BY <1>1, <1>2, <2>4, <3>1 DEF CursorCovers, Covered
    <2>7. PageOrder'
      BY <1>3, <2>1, <2>2, <2>4 DEF PageOrder
    <2>8. NoReturn'
      BY <1>1, <1>4, <2>1, <2>2, <2>4 DEF NoReturn, LeftBehind
    <2> QED  BY <2>3, <2>5, <2>6, <2>7, <2>8 DEF PollInv
  <1> QED  BY <1>5, <1>6

\* What ingestion does to the message is not to forget that it is stored.
LEMMA IngestStep ==
  ASSUME LedgerInv, PollInv, Ingest
  PROVE  /\ PollInv'
         /\ Admitted' = Admitted \cup {m \in {Head(poller.events).msg} :
                                         /\ stored[m] = "no" /\ Live(Head(poller.events))
                                         /\ Treatment(Head(poller.events)) = "admitted"}
         /\ \A m \in Messages : stored[m] # "no" => stored'[m] = stored[m]
  <1> DEFINE e == Head(poller.events)
             fresh == stored[e.msg] = "no"
             as == Treatment(e)
  <1>1. /\ e = poller.events[1] /\ 1 \in DOMAIN poller.events /\ poller.events # <<>>
        /\ poller.pc = "page"
        /\ Tail(poller.events) \in Seq(PageEvent)
    BY RestProperties DEF PollInv, Ingest
  <1>2. e.msg \in Messages /\ e.cursor \in Nat
    BY <1>1, PollNumbers DEF PollInv
  <1>3. /\ as \in {"history", "held", "deferred", "refused", "admitted"}
        /\ as = "admitted" => Live(e)
    BY DEF Treatment, Live
  <1>4. /\ cursor' = e.cursor /\ UNCHANGED <<ledgerVars, requested, given>>
        /\ stored' = IF fresh THEN [stored EXCEPT ![e.msg] = as] ELSE stored
    BY DEF Ingest, history
  <1>5. poller' = [pc |-> IF fresh /\ as = "deferred" THEN "handoff" ELSE poller.pc,
                   events |-> Tail(poller.events), next |-> poller.next, more |-> poller.more,
                   handoff |-> IF fresh /\ as = "deferred" THEN e.msg ELSE poller.handoff]
    <2>1. poller' = [poller EXCEPT !.events = Tail(@),
                        !.pc = IF fresh /\ as = "deferred" THEN "handoff" ELSE @,
                        !.handoff = IF fresh /\ as = "deferred" THEN e.msg ELSE @]
      BY DEF Ingest
    <2>2. poller = [pc |-> poller.pc, events |-> poller.events, next |-> poller.next,
                    more |-> poller.more, handoff |-> poller.handoff]
      BY PollNumbers DEF PollInv
    <2> HIDE DEF e, fresh, as
    <2> QED  BY <2>1, <2>2
  <1> DEFINE kinds == {"no", "history", "held", "deferred", "refused", "admitted"}
  <1>6. stored \in [Messages -> kinds]
    BY DEF PollInv, PollTypeOK
  <1> HIDE DEF e, as
  <1>7. /\ stored' \in [Messages -> kinds]
        /\ \A m \in Messages : stored[m] # "no" => stored'[m] = stored[m]
        /\ stored'[e.msg] # "no"
        /\ \A m \in Messages : m # e.msg => stored'[m] = stored[m]
        /\ fresh => stored'[e.msg] = as
    BY <1>2, <1>3, <1>4, <1>6
  <1>8. Admitted' = Admitted \cup {m \in {e.msg} : stored[m] = "no" /\ Live(e) /\ as = "admitted"}
    BY <1>2, <1>3, <1>7 DEF Admitted
  <1>9. PollTypeOK'
    <2>1. NoMessage \notin Messages
      BY InboundAssumption DEF Messages
    <2>2. /\ poller.handoff = NoMessage /\ poller.next \in Nat /\ poller.more \in BOOLEAN
          /\ requested \subseteq Messages /\ given \subseteq Messages
      BY <1>1 DEF PollInv, PollTypeOK
    <2>3. CASE fresh /\ as = "deferred"
      <3>1. poller' = [pc |-> "handoff", events |-> Tail(poller.events), next |-> poller.next,
                       more |-> poller.more, handoff |-> e.msg]
        BY <1>5, <2>3
      <3>2. poller' \in [pc : {"idle", "page", "handoff"}, events : Seq(PageEvent), next : Nat,
                         more : BOOLEAN, handoff : Messages \cup {NoMessage}]
        BY <1>1, <1>2, <2>2, <3>1
      <3> QED  BY <1>2, <1>4, <1>7, <2>1, <2>2, <3>1, <3>2 DEF PollTypeOK
    <2>4. CASE ~(fresh /\ as = "deferred")
      <3>1. poller' = [pc |-> "page", events |-> Tail(poller.events), next |-> poller.next,
                       more |-> poller.more, handoff |-> NoMessage]
        BY <1>1, <1>5, <2>2, <2>4
      <3>2. poller' \in [pc : {"idle", "page", "handoff"}, events : Seq(PageEvent), next : Nat,
                         more : BOOLEAN, handoff : Messages \cup {NoMessage}]
        BY <1>1, <2>2, <3>1
      <3> QED  BY <1>2, <1>4, <1>7, <2>2, <3>1, <3>2 DEF PollTypeOK
    <2> QED  BY <2>3, <2>4
  <1>10. poller'.events = Tail(poller.events) /\ poller'.next = poller.next
    BY <1>5
  <1>11. \A m \in Admitted' : m \in Admitted \/ (m = e.msg /\ Live(e) /\ cursor' = e.cursor)
    BY <1>4, <1>8
  <1>12. \A m \in Messages : stored[m] # "no" => stored'[m] # "no"
    BY <1>7
  <1>13. cursor' \in {cursor, e.cursor} /\ given \subseteq given' /\ UNCHANGED ledgerVars
    BY <1>4
  <1>14. PollInv'
    <2> HIDE DEF fresh, kinds
    <2> QED  BY <1>1, <1>7, <1>9, <1>10, <1>11, <1>12, <1>13, EventTaken DEF e
  <1> QED  BY <1>7, <1>8, <1>14 DEF e, as

\* An event given up counts as dealt with, and nothing is stored.
LEMMA IngestFailsStep ==
  ASSUME LedgerInv, PollInv, IngestFails
  PROVE  PollInv'
  <1> DEFINE e == Head(poller.events)
  <1>1. /\ e = poller.events[1] /\ 1 \in DOMAIN poller.events /\ poller.events # <<>>
        /\ poller.pc = "page"
        /\ Tail(poller.events) \in Seq(PageEvent)
    BY RestProperties DEF PollInv, IngestFails
  <1>2. e.msg \in Messages
    BY <1>1, PollNumbers DEF PollInv
  <1>3. /\ UNCHANGED <<ledgerVars, cursor, stored, requested>>
        /\ given' = IF stored[e.msg] = "no" THEN given \cup {e.msg} ELSE given
    BY DEF IngestFails
  <1>4. PICK pc \in {"page", "handoff"}, h \in Messages \cup {NoMessage} :
          /\ poller' = [pc |-> pc, events |-> Tail(poller.events), next |-> poller.next,
                        more |-> poller.more, handoff |-> h]
          /\ pc = "handoff" <=> h # NoMessage
    <2>1. poller.handoff = NoMessage /\ e.msg # NoMessage
      BY <1>1, <1>2, InboundAssumption DEF PollInv, PollTypeOK, Messages
    <2>2. \/ poller' = [poller EXCEPT !.events = Tail(@), !.pc = @, !.handoff = @]
          \/ poller' = [poller EXCEPT !.events = Tail(@), !.pc = "handoff", !.handoff = e.msg]
      BY DEF IngestFails
    <2>3. \/ poller' = [pc |-> "page", events |-> Tail(poller.events), next |-> poller.next,
                        more |-> poller.more, handoff |-> poller.handoff]
          \/ poller' = [pc |-> "handoff", events |-> Tail(poller.events), next |-> poller.next,
                        more |-> poller.more, handoff |-> e.msg]
      BY <1>1, <2>2, PollNumbers DEF PollInv
    <2> QED  BY <1>2, <2>1, <2>3
  <1> HIDE DEF e
  <1>5. PollTypeOK'
    <2>1. poller.next \in Nat /\ poller.more \in BOOLEAN /\ given \subseteq Messages
      BY DEF PollInv, PollTypeOK
    <2>2. poller' \in [pc : {"idle", "page", "handoff"}, events : Seq(PageEvent), next : Nat,
                       more : BOOLEAN, handoff : Messages \cup {NoMessage}]
      BY <1>1, <1>4, <2>1
    <2> QED  BY <1>2, <1>3, <1>4, <2>1, <2>2 DEF PollInv, PollTypeOK
  <1>6. /\ poller'.events = Tail(poller.events) /\ poller'.next = poller.next
        /\ cursor' \in {cursor, e.cursor} /\ given \subseteq given' /\ UNCHANGED ledgerVars
        /\ Admitted' = Admitted
        /\ \A m \in Messages : stored[m] # "no" => stored'[m] # "no"
        /\ stored'[e.msg] # "no" \/ e.msg \in given'
    BY <1>3, <1>4 DEF Admitted
  <1> QED  BY <1>1, <1>5, <1>6, EventTaken DEF e

\* The handoff for a system account touches neither page nor cursor; a message
\* it finds taken over was not admitted.
LEMMA GlobalPauseStep ==
  ASSUME LedgerInv, PollInv, GlobalPause
  PROVE  PollInv' /\ Admitted' = Admitted
  <1>1. /\ UNCHANGED <<ledgerVars, cursor, given>>
        /\ requested' \in {requested, requested \cup {poller.handoff}}
        /\ stored' = [stored EXCEPT ![poller.handoff] = IF paused /\ @ = "deferred" THEN "held" ELSE @]
        /\ poller' = [pc |-> "page", events |-> poller.events, next |-> poller.next,
                      more |-> poller.more, handoff |-> NoMessage]
        /\ poller.pc = "handoff"
    BY PollNumbers DEF PollInv, GlobalPause, history
  <1>a. /\ stored' \in [Messages -> {"no", "history", "held", "deferred", "refused", "admitted"}]
        /\ \A m \in Messages : /\ stored'[m] = "no" <=> stored[m] = "no"
                              /\ stored'[m] = "admitted" <=> stored[m] = "admitted"
    BY <1>1 DEF PollInv, PollTypeOK
  <1>2. PollTypeOK'
    <2>1. /\ poller.handoff \in Messages /\ poller.events \in Seq(PageEvent)
          /\ poller.next \in Nat /\ poller.more \in BOOLEAN
      BY <1>1 DEF PollInv, PollTypeOK
    <2>2. poller' \in [pc : {"idle", "page", "handoff"}, events : Seq(PageEvent), next : Nat,
                       more : BOOLEAN, handoff : Messages \cup {NoMessage}]
      BY <1>1, <2>1
    <2> QED  BY <1>1, <1>a, <2>1, <2>2 DEF PollInv, PollTypeOK
  <1>3. /\ UNCHANGED <<ledger, epoch, Reached, Admitted, Before>>
        /\ poller'.events = poller.events /\ poller'.next = poller.next
        /\ poller'.pc # "idle"
    BY <1>1, <1>a DEF ledgerVars, Reached, Admitted, Before
  <1>4. PageInv' /\ CursorCovers'
    <2>1. \A c \in DOMAIN ledger : ledger[c].msg \in Messages
      BY LedgerElements
    <2>2. \A c \in DOMAIN ledger : Covered(c) => Covered(c)'
      BY <1>1, <1>a, <2>1 DEF Covered, ledgerVars
    <2>3. CursorCovers'
      BY <1>1, <1>a, <2>1 DEF PollInv, CursorCovers, ledgerVars
    <2>4. ASSUME epoch = 0, NEW c \in 1..Before PROVE Covered(c)'
      <3>1. /\ Before \in Nat /\ poller.next \in Nat /\ Len(ledger) \in Nat
            /\ Before <= poller.next /\ poller.next <= Len(ledger)
        BY <2>4, PollNumbers, LedgerElements DEF PollInv, PageInv, Before
      <3>2. c \in DOMAIN ledger
        BY <3>1, LedgerElements
      <3> QED  BY <2>2, <2>4, <3>2 DEF PollInv, PageInv
    <2>5. PageInv'
      BY <1>1, <1>3, <2>4 DEF PollInv, PageInv, ledgerVars
    <2> QED  BY <2>3, <2>5
  <1>5. PageOrder'
    BY <1>3 DEF PollInv, PageOrder
  <1>6. \A c : LeftBehind(c) => LeftBehind(c)'
    BY <1>1, <1>3 DEF LeftBehind
  <1>7. NoReturn'
    BY <1>3, <1>6 DEF PollInv, NoReturn
  <1> QED  BY <1>2, <1>3, <1>4, <1>5, <1>7 DEF PollInv

\* An aborted cycle forgets its page; the next one asks from the stored cursor.
LEMMA PollFailsStep ==
  ASSUME LedgerInv, PollInv, PollFails
  PROVE  PollInv'
  <1>1. /\ UNCHANGED <<ledgerVars, cursor, stored, requested>>
        /\ given' = given \cup ({poller.handoff} \ {NoMessage})
        /\ poller' = [pc |-> "idle", events |-> <<>>, next |-> 0, more |-> FALSE,
                      handoff |-> NoMessage]
    BY DEF PollFails, NoPage
  <1>2. <<>> \in Seq(PageEvent) /\ Len(<<>>) = 0 /\ DOMAIN <<>> = {}
    BY EmptySeq
  <1>3. PollTypeOK'
    BY <1>1, <1>2 DEF PollInv, PollTypeOK
  <1>4. UNCHANGED <<ledger, epoch, Reached, Admitted>> /\ Len(ledger) \in Nat
    BY <1>1, LedgerElements DEF ledgerVars, Reached, Admitted
  <1>5. PageInv'
    <2>1. Before' = 0
      BY <1>1, <1>2 DEF Before
    <2> QED  BY <1>1, <1>2, <1>4, <2>1 DEF PageInv
  <1>6. CursorCovers'
    BY <1>1, <1>4 DEF PollInv, CursorCovers
  <1>7. PageOrder'
    BY <1>1, <1>2, <1>4 DEF PollInv, PageOrder
  <1>8. \A c : LeftBehind(c) => LeftBehind(c)'
    BY <1>1, <1>2, <1>4 DEF LeftBehind
  <1>9. NoReturn'
    BY <1>1, <1>2, <1>4, <1>8 DEF PollInv, NoReturn
  <1> QED  BY <1>3, <1>5, <1>6, <1>7, <1>9 DEF PollInv

\* The other steps of the Core leave ledger and poller alone.
LEMMA PollIdleStep ==
  ASSUME PollInv, UNCHANGED <<ledgerVars, ingestVars, given>>
  PROVE  PollInv'
  BY DEF PollInv, PollTypeOK, PageInv, CursorCovers, PageOrder, NoReturn, LeftBehind, Before,
         Covered, Admitted, Reached, ledgerVars, ingestVars

-----------------------------------------------------------------------------
(* The window and its dispatchers.                                           *)

\* What the observer captured stays in the ledger while the store stands.
LEMMA FromObserverKept ==
  ASSUME LedgerInv, LedgerInv', Grown
  PROVE  \A m : FromObserver(m) => FromObserver(m)'
  <1>1. /\ DOMAIN ledger = 1..Len(ledger) /\ DOMAIN ledger' = 1..Len(ledger')
        /\ Len(ledger) \in Nat /\ Len(ledger') \in Nat /\ epoch \in Nat /\ epoch' \in Nat
    BY ShapeNow, ShapeNext DEF LedgerShape
  <1>2. epoch' = 0 => epoch = 0
    BY <1>1 DEF Grown
  <1>3. epoch' = 0 => \A c \in DOMAIN ledger : c \in DOMAIN ledger' /\ ledger'[c] = ledger[c]
    BY <1>1, <1>2 DEF Grown
  <1> QED  BY <1>2, <1>3 DEF FromObserver

\* The fields of the window's row and of the dispatchers' claims.
LEMMA WindowNumbers ==
  ASSUME WindowTypeOK
  PROVE  /\ row = [st |-> row.st, rev |-> row.rev, last |-> row.last, attempt |-> row.attempt]
         /\ row.st \in {"none", "scheduled", "dispatching", "done", "failed"}
         /\ row.rev \in Nat /\ row.last \in Messages \cup {NoMessage}
         /\ row.attempt \in 0..MaxAttempts
         /\ \A d \in Dispatchers :
              /\ dispatcher[d] = [pc |-> dispatcher[d].pc, claim |-> dispatcher[d].claim,
                                  reason |-> dispatcher[d].reason]
              /\ dispatcher[d].claim \in RowRecord
              /\ dispatcher[d].pc \in {"idle", "check", "judge", "done", "requeue"}
              /\ dispatcher[d].reason \in Reasons
              /\ dispatcher[d].claim.rev \in Nat
              /\ dispatcher[d].claim.attempt \in 0..MaxAttempts
  <1>1. row \in RowRecord /\ \A d \in Dispatchers : dispatcher[d] \in DispatcherRecord
    BY DEF WindowTypeOK
  <1>2. \A r \in RowRecord :
          /\ r = [st |-> r.st, rev |-> r.rev, last |-> r.last, attempt |-> r.attempt]
          /\ r.st \in {"none", "scheduled", "dispatching", "done", "failed"}
          /\ r.rev \in Nat /\ r.last \in Messages \cup {NoMessage} /\ r.attempt \in 0..MaxAttempts
    BY DEF RowRecord
  <1>3. \A w \in DispatcherRecord :
          /\ w = [pc |-> w.pc, claim |-> w.claim, reason |-> w.reason]
          /\ w.claim \in RowRecord /\ w.reason \in Reasons
          /\ w.pc \in {"idle", "check", "judge", "done", "requeue"}
    BY DEF DispatcherRecord
  <1> QED  BY <1>1, <1>2, <1>3

\* A dispatcher at rest.
LEMMA FreeType == Free \in DispatcherRecord /\ Free.pc = "idle"
  <1>1. NoRow \in RowRecord
    BY InboundAssumption DEF NoRow, RowRecord
  <1> QED  BY <1>1 DEF Free, DispatcherRecord, Reasons

\* Without a row there is no claim, and no message to cover.
LEMMA WindowBegins ==
  ASSUME Init, LedgerInv
  PROVE  WindowInv
  <1>1. /\ row = NoRow /\ turns = {} /\ closed = {} /\ stored = [m \in Messages |-> "no"]
        /\ dispatcher = [d \in Dispatchers |-> Free]
    BY DEF Init
  <1>2. NoRow \in RowRecord /\ NoRow.st = "none"
    BY InboundAssumption DEF NoRow, RowRecord
  <1>3. WindowTypeOK
    BY <1>1, <1>2, FreeType DEF WindowTypeOK
  <1>4. WindowCovers
    BY <1>1 DEF WindowCovers
  <1>5. \A d \in Dispatchers : ClaimSound(dispatcher[d])
    BY <1>1, FreeType DEF ClaimSound
  <1> QED  BY <1>1, <1>2, <1>3, <1>4, <1>5 DEF WindowInv, Open

\* Steps that leave the window alone, whatever the Host and the gates do.
LEMMA WindowIdleStep ==
  ASSUME LedgerInv, LedgerInv', Grown, WindowInv,
         UNCHANGED <<row, turns, dispatcher, closed>>, Admitted' \subseteq Admitted
  PROVE  WindowInv'
  <1>1. \A m : FromObserver(m) => FromObserver(m)'
    BY FromObserverKept
  <1>2. WindowTypeOK'
    BY DEF WindowInv, WindowTypeOK
  <1>3. \A d \in Dispatchers : ClaimSound(dispatcher[d])'
    BY <1>1 DEF WindowInv, ClaimSound
  <1>4. WindowCovers'
    BY DEF WindowInv, WindowCovers, Open, Admitted
  <1> QED  BY <1>1, <1>2, <1>3, <1>4 DEF WindowInv, Open

\* One dispatcher goes on, and the row keeps its revision and its message: it
\* stays open, or what it covered got its turn or was closed for a reason.
LEMMA DispatcherStep ==
  ASSUME WindowInv, NEW d \in Dispatchers, NEW w \in DispatcherRecord,
         dispatcher' = [dispatcher EXCEPT ![d] = w],
         w.pc # "idle" => w.claim.last \in Messages, ClaimSound(w)',
         row' \in RowRecord, row'.rev = row.rev, row'.last = row.last,
         row'.st # "none" => row.st # "none", Open' => row'.attempt < MaxAttempts,
         turns \subseteq turns', turns' \subseteq Messages, \A t \in turns' : FromObserver(t),
         closed \subseteq closed', closed' \subseteq Messages,
         Open => Open' \/ row.last \in turns' \cup closed',
         UNCHANGED <<ledgerVars, stored>>
  PROVE  WindowInv'
  <1>1. /\ dispatcher' \in [Dispatchers -> DispatcherRecord]
        /\ \A e \in Dispatchers : dispatcher'[e] = IF e = d THEN w ELSE dispatcher[e]
    BY DEF WindowInv, WindowTypeOK
  <1>2. \A m : FromObserver(m)' <=> FromObserver(m)
    BY DEF FromObserver, ledgerVars
  <1>3. WindowTypeOK'
    BY <1>1 DEF WindowInv, WindowTypeOK
  <1>4. ASSUME NEW e \in Dispatchers PROVE ClaimSound(dispatcher[e])'
    <2>1. CASE e = d
      <3>1. dispatcher'[e] = w
        BY <1>1, <2>1
      <3> QED  BY <3>1 DEF ClaimSound
    <2>2. CASE e # d
      <3>1. dispatcher'[e] = dispatcher[e]
        BY <1>1, <2>2
      <3> QED  BY <1>2, <3>1 DEF WindowInv, ClaimSound
    <2> QED  BY <2>1, <2>2
  <1>5. WindowCovers'
    BY DEF WindowInv, WindowCovers
  <1> QED  BY <1>2, <1>3, <1>4, <1>5 DEF WindowInv

\* The fields of one dispatcher.
LEMMA DispatcherShape ==
  ASSUME WindowInv, NEW d \in Dispatchers
  PROVE  /\ dispatcher[d] \in DispatcherRecord
         /\ dispatcher[d].reason \in Reasons
         /\ dispatcher[d].claim.attempt \in 0..MaxAttempts
  BY WindowNumbers DEF WindowInv, WindowTypeOK

\* The record of a dispatcher whose step, or reason, has changed.
LEMMA DispatcherUpdates ==
  ASSUME NEW w \in DispatcherRecord, NEW reason \in Reasons,
         NEW pc \in {"idle", "check", "judge", "done", "requeue"}
  PROVE  /\ [w EXCEPT !.pc = pc] = [pc |-> pc, claim |-> w.claim, reason |-> w.reason]
         /\ [w EXCEPT !.pc = pc, !.reason = reason] =
              [pc |-> pc, claim |-> w.claim, reason |-> reason]
  <1>1. w = [pc |-> w.pc, claim |-> w.claim, reason |-> w.reason]
    BY DEF DispatcherRecord
  <1>2. PICK x : x = [w EXCEPT !.pc = pc]
    OBVIOUS
  <1>3. x = [pc |-> pc, claim |-> w.claim, reason |-> w.reason]
    BY <1>1, <1>2
  <1>4. PICK y : y = [w EXCEPT !.pc = pc, !.reason = reason]
    OBVIOUS
  <1>5. y = [pc |-> pc, claim |-> w.claim, reason |-> reason]
    BY <1>1, <1>4
  <1> QED  BY <1>2, <1>3, <1>4, <1>5

\* The record of a dispatcher that has just claimed.
LEMMA FreeClaims ==
  ASSUME NEW claim \in RowRecord
  PROVE  [Free EXCEPT !.pc = "check", !.claim = claim] =
           [pc |-> "check", claim |-> claim, reason |-> "none"]
  <1>1. PICK x : x = [Free EXCEPT !.pc = "check", !.claim = claim]
    OBVIOUS
  <1>2. x = [pc |-> "check", claim |-> claim, reason |-> "none"]
    BY <1>1 DEF Free
  <1> QED  BY <1>1, <1>2

\* The claim takes the row's revision with it.
LEMMA ClaimStep ==
  ASSUME WindowInv, NEW d \in Dispatchers, Claim(d)
  PROVE  WindowInv'
  <1>1. /\ row.st = "scheduled" /\ UNCHANGED <<ledgerVars, stored, turns, closed>>
        /\ dispatcher' = [dispatcher EXCEPT ![d] = [Free EXCEPT !.pc = "check", !.claim = row']]
    BY DEF Claim, Reading, ingestVars, history
  <1>2. row' = [st |-> "dispatching", rev |-> row.rev, last |-> row.last,
                attempt |-> row.attempt]
    BY WindowNumbers DEF Claim, WindowInv
  <1>3. row' \in RowRecord
    BY <1>2, WindowNumbers DEF WindowInv, RowRecord
  <1>4. PICK w \in DispatcherRecord : w = [pc |-> "check", claim |-> row', reason |-> "none"]
    BY <1>3 DEF DispatcherRecord, Reasons
  <1>5. /\ dispatcher' = [dispatcher EXCEPT ![d] = w]
        /\ w.pc = "check" /\ w.claim = row' /\ w.reason = "none"
    <2>1. [Free EXCEPT !.pc = "check", !.claim = row'] = w
      BY <1>3, <1>4, FreeClaims
    <2>2. w.pc = "check" /\ w.claim = row' /\ w.reason = "none"
      BY <1>4
    <2> QED  BY <1>1, <2>1, <2>2
  <1>6. row.attempt < MaxAttempts /\ row.last \in Messages /\ FromObserver(row.last) /\ row.rev \in Nat
    BY <1>1, WindowNumbers DEF WindowInv, WindowTypeOK, Open
  <1>7. \A m : FromObserver(m)' <=> FromObserver(m)
    BY <1>1 DEF FromObserver, ledgerVars
  <1>8. ClaimSound(w)'
    BY <1>2, <1>5, <1>6, <1>7 DEF ClaimSound
  <1>9. Open /\ Open' /\ row'.attempt < MaxAttempts /\ row'.rev = row.rev /\ row'.last = row.last
    BY <1>1, <1>2, <1>6 DEF Open
  <1>10. /\ turns \subseteq turns' /\ turns' \subseteq Messages
         /\ \A t \in turns' : FromObserver(t)
         /\ closed \subseteq closed' /\ closed' \subseteq Messages
    BY <1>1 DEF WindowInv, WindowTypeOK
  <1>11. row'.st # "none" => row.st # "none"
    BY <1>1
  <1>12. w.pc # "idle" => w.claim.last \in Messages
    BY <1>2, <1>5, <1>6
  <1> QED  BY <1>1, <1>3, <1>5, <1>8, <1>9, <1>10, <1>11, <1>12, DispatcherStep

\* The dispatcher goes on with its claim; the row stays as it is.
LEMMA RowKept ==
  ASSUME WindowInv, NEW d \in Dispatchers, NEW reason \in Reasons,
         NEW pc \in {"check", "judge", "done", "requeue"},
         dispatcher[d].pc # "idle",
         dispatcher' = [dispatcher EXCEPT ![d] = [pc |-> pc, claim |-> dispatcher[d].claim,
                                                  reason |-> reason]],
         pc = "done" /\ reason = "none" => dispatcher[d].claim.last \in turns',
         pc \in {"check", "judge"} => reason = "none",
         turns' \in {turns, turns \cup {dispatcher[d].claim.last}},
         UNCHANGED <<ledgerVars, stored, row, closed>>
  PROVE  WindowInv'
  <1>1. PICK w \in DispatcherRecord :
          w = [pc |-> pc, claim |-> dispatcher[d].claim, reason |-> reason]
    <2>1. dispatcher[d].claim \in RowRecord
      BY WindowNumbers DEF WindowInv
    <2> QED  BY <2>1 DEF DispatcherRecord
  <1>2. /\ w.pc = pc /\ w.claim = dispatcher[d].claim /\ w.reason = reason
        /\ dispatcher' = [dispatcher EXCEPT ![d] = w]
    BY <1>1
  <1>3. \A m : FromObserver(m)' <=> FromObserver(m)
    BY DEF FromObserver, ledgerVars
  <1>4. ClaimSound(dispatcher[d]) /\ dispatcher[d].claim.last \in Messages
    BY DEF WindowInv, WindowTypeOK
  <1>5. ClaimSound(w)'
    BY <1>2, <1>3, <1>4 DEF ClaimSound
  <1>6. /\ turns \subseteq turns' /\ turns' \subseteq Messages
        /\ \A t \in turns' : FromObserver(t)
    BY <1>4 DEF WindowInv, WindowTypeOK, ClaimSound
  <1>7. /\ row' \in RowRecord /\ row'.rev = row.rev /\ row'.last = row.last
        /\ Open' = Open /\ closed' \subseteq Messages /\ closed \subseteq closed'
        /\ Open' => row'.attempt < MaxAttempts
    BY DEF WindowInv, WindowTypeOK, Open
  <1>8. w.pc # "idle" => w.claim.last \in Messages
    BY <1>2, <1>4
  <1> QED  BY <1>2, <1>5, <1>6, <1>7, <1>8, DispatcherStep

\* Reading the switches touches no row.
LEMMA RecheckStep ==
  ASSUME WindowInv, NEW d \in Dispatchers, Recheck(d)
  PROVE  WindowInv'
  <1>1. dispatcher[d].pc = "check" /\ UNCHANGED <<ledgerVars, stored, row, turns, closed>>
    BY DEF Recheck, Reading, ingestVars, history
  <1>2. dispatcher[d] \in DispatcherRecord
    BY DispatcherShape
  <1>3. ASSUME NEW r \in Declines,
               dispatcher' = [dispatcher EXCEPT ![d].pc = "done", ![d].reason = r]
        PROVE  WindowInv'
    <2>1. r \in Reasons /\ r # "none"
      BY DEF Declines, Reasons
    <2>2. [dispatcher[d] EXCEPT !.pc = "done", !.reason = r] =
            [pc |-> "done", claim |-> dispatcher[d].claim, reason |-> r]
      BY <1>2, <2>1, DispatcherUpdates
    <2>3. dispatcher' = [dispatcher EXCEPT ![d] = [dispatcher[d] EXCEPT !.pc = "done",
                                                                     !.reason = r]]
      BY <1>3
    <2>4. dispatcher' = [dispatcher EXCEPT ![d] = [pc |-> "done", claim |-> dispatcher[d].claim,
                                                   reason |-> r]]
      BY <2>2, <2>3
    <2> QED  BY <1>1, <2>1, <2>4, RowKept
  <1>4. ASSUME dispatcher' = [dispatcher EXCEPT ![d].pc = "judge"]
        PROVE  WindowInv'
    <2>1. dispatcher[d].reason = "none" /\ "none" \in Reasons
      BY <1>1 DEF WindowInv, ClaimSound, Reasons
    <2>2. [dispatcher[d] EXCEPT !.pc = "judge"] =
            [pc |-> "judge", claim |-> dispatcher[d].claim, reason |-> "none"]
      BY <1>2, <2>1, DispatcherUpdates
    <2>3. dispatcher' = [dispatcher EXCEPT ![d] = [pc |-> "judge", claim |-> dispatcher[d].claim,
                                                   reason |-> "none"]]
      BY <1>4, <2>2
    <2> QED  BY <1>1, <2>1, <2>3, RowKept
  <1> QED  BY <1>3, <1>4 DEF Recheck

\* The turn that is inserted covers the messages of the claim.
LEMMA InsertTurnStep ==
  ASSUME WindowInv, NEW d \in Dispatchers, InsertTurn(d)
  PROVE  WindowInv'
  <1>1. /\ dispatcher[d].pc = "judge"
        /\ dispatcher' = [dispatcher EXCEPT ![d].pc = "done"]
        /\ turns' = turns \cup {dispatcher[d].claim.last}
        /\ UNCHANGED <<ledgerVars, stored, row, closed>>
    BY DEF InsertTurn, Reading, ingestVars, history
  <1>2. dispatcher[d].reason = "none"
    BY <1>1 DEF WindowInv, ClaimSound
  <1>3. [dispatcher[d] EXCEPT !.pc = "done"] =
          [pc |-> "done", claim |-> dispatcher[d].claim, reason |-> "none"]
    BY <1>2, DispatcherShape, DispatcherUpdates
  <1>4. dispatcher' = [dispatcher EXCEPT ![d] = [pc |-> "done", claim |-> dispatcher[d].claim,
                                                 reason |-> "none"]]
    BY <1>1, <1>3
  <1> QED  BY <1>1, <1>4, RowKept DEF Reasons

\* A failed dispatch leaves row and turns as they are.
LEMMA DispatchFailsStep ==
  ASSUME WindowInv, NEW d \in Dispatchers, DispatchFails(d)
  PROVE  WindowInv'
  <1>1. /\ dispatcher[d].pc # "idle"
        /\ dispatcher' = [dispatcher EXCEPT ![d].pc = "requeue"]
        /\ UNCHANGED <<ledgerVars, stored, row, turns, closed>>
    BY DEF DispatchFails, Reading, ingestVars, history
  <1>2. PICK reason \in Reasons : reason = dispatcher[d].reason
    BY DispatcherShape
  <1>3. [dispatcher[d] EXCEPT !.pc = "requeue"] =
          [pc |-> "requeue", claim |-> dispatcher[d].claim, reason |-> reason]
    BY <1>2, DispatcherShape, DispatcherUpdates
  <1>4. dispatcher' = [dispatcher EXCEPT ![d] = [pc |-> "requeue",
                          claim |-> dispatcher[d].claim, reason |-> reason]]
    BY <1>1, <1>3
  <1> QED  BY <1>1, <1>4, RowKept

\* The dispatcher lets go of its claim, with what that does to the row it
\* still holds, or nothing to a row that is no longer the one it claimed.
LEMMA ClaimReleased ==
  ASSUME WindowInv, NEW d \in Dispatchers, NEW st, NEW attempt,
         dispatcher[d].pc # "idle", dispatcher' = [dispatcher EXCEPT ![d] = Free],
         row' = IF StillClaimed(d) THEN [row EXCEPT !.st = st, !.attempt = attempt] ELSE row,
         StillClaimed(d) =>
           /\ st \in {"scheduled", "dispatching", "done", "failed"}
           /\ attempt \in 0..MaxAttempts
           /\ st \in {"scheduled", "dispatching"} => attempt < MaxAttempts
           /\ \/ st \in {"scheduled", "dispatching"}
              \/ dispatcher[d].claim.last \in turns \cup closed',
         closed' \in {closed, closed \cup {dispatcher[d].claim.last}},
         UNCHANGED <<ledgerVars, stored, turns>>
  PROVE  WindowInv'
  <1>1. Free \in DispatcherRecord /\ Free.pc = "idle"
    BY FreeType
  <1>2. ClaimSound(Free)'
    BY <1>1 DEF ClaimSound
  <1>3. ClaimSound(dispatcher[d]) /\ dispatcher[d].claim.last \in Messages
    BY DEF WindowInv, WindowTypeOK
  <1>4. /\ row' \in RowRecord /\ row'.rev = row.rev /\ row'.last = row.last
        /\ row'.st # "none" => row.st # "none" /\ (Open' => row'.attempt < MaxAttempts)
        /\ Open => Open' \/ row.last \in turns' \cup closed'
        /\ Open' => row'.attempt < MaxAttempts
    <2>1. CASE StillClaimed(d)
      <3>1. row' = [st |-> st, rev |-> row.rev, last |-> row.last, attempt |-> attempt]
        BY <2>1, WindowNumbers DEF WindowInv
      <3>2. row.st = "dispatching" /\ row.last = dispatcher[d].claim.last
        BY <1>3, <2>1 DEF StillClaimed, ClaimSound
      <3>3. row' \in RowRecord
        BY <2>1, <3>1, WindowNumbers DEF WindowInv, RowRecord
      <3> QED  BY <2>1, <3>1, <3>2, <3>3 DEF Open
    <2>2. CASE ~StillClaimed(d)
      BY <2>2 DEF WindowInv, WindowTypeOK, Open
    <2> QED  BY <2>1, <2>2
  <1>5. /\ turns \subseteq turns' /\ turns' \subseteq Messages
        /\ \A t \in turns' : FromObserver(t)
        /\ closed \subseteq closed' /\ closed' \subseteq Messages
    BY <1>3 DEF WindowInv, WindowTypeOK
  <1> QED  BY <1>1, <1>2, <1>4, <1>5, DispatcherStep

\* An extended window keeps its messages, if the claim still holds.
LEMMA ExtendStep ==
  ASSUME WindowInv, NEW d \in Dispatchers, Extend(d)
  PROVE  WindowInv'
  <1> DEFINE tries == dispatcher[d].claim.attempt + 1
  <1>1. /\ dispatcher[d].pc # "idle" /\ Extensible(d)
        /\ row' = IF StillClaimed(d) THEN [row EXCEPT !.st = "scheduled", !.attempt = tries]
                  ELSE row
        /\ dispatcher' = [dispatcher EXCEPT ![d] = Free]
        /\ UNCHANGED <<ledgerVars, stored, turns, closed>>
    BY DEF Extend, Reading, ingestVars, history
  <1>2. tries \in 0..MaxAttempts /\ tries < MaxAttempts
    BY <1>1, DispatcherShape, InboundAssumption DEF Extensible
  <1> HIDE DEF tries
  <1> QED  BY <1>1, <1>2, ClaimReleased

\* A row is closed only under the revision of the claim, whose messages a turn
\* or the gates have taken.
LEMMA MarkDoneStep ==
  ASSUME WindowInv, NEW d \in Dispatchers, MarkDone(d)
  PROVE  WindowInv'
  <1>1. /\ dispatcher[d].pc = "done"
        /\ row' = IF StillClaimed(d) THEN [row EXCEPT !.st = "done"] ELSE row
        /\ closed' = IF StillClaimed(d) /\ dispatcher[d].reason # "none"
                     THEN closed \cup {dispatcher[d].claim.last} ELSE closed
        /\ dispatcher' = [dispatcher EXCEPT ![d] = Free]
        /\ UNCHANGED <<ledgerVars, stored, turns>>
    BY DEF MarkDone, Reading, ingestVars
  <1>2. row' = IF StillClaimed(d) THEN [row EXCEPT !.st = "done", !.attempt = row.attempt] ELSE row
    BY <1>1, WindowNumbers DEF WindowInv
  <1>3. row.attempt \in 0..MaxAttempts
    BY WindowNumbers DEF WindowInv
  <1>4. StillClaimed(d) => dispatcher[d].claim.last \in turns \cup closed'
    <2>1. dispatcher[d].reason \in Reasons
      BY WindowNumbers DEF WindowInv
    <2>2. dispatcher[d].reason = "none" => dispatcher[d].claim.last \in turns
      BY <1>1 DEF WindowInv, ClaimSound
    <2> QED  BY <1>1, <2>1, <2>2
  <1> QED  BY <1>1, <1>2, <1>3, <1>4, ClaimReleased

\* A window that has failed for good ends with its messages named; otherwise it
\* opens again.
LEMMA RequeueStep ==
  ASSUME WindowInv, NEW d \in Dispatchers, Requeue(d)
  PROVE  WindowInv'
  <1> DEFINE tries == dispatcher[d].claim.attempt + 1
             st == IF tries >= MaxAttempts THEN "failed" ELSE "scheduled"
  <1>1. /\ dispatcher[d].pc = "requeue"
        /\ row' = IF StillClaimed(d) THEN [row EXCEPT !.st = st, !.attempt = tries] ELSE row
        /\ closed' = IF StillClaimed(d) /\ tries >= MaxAttempts
                     THEN closed \cup {dispatcher[d].claim.last} ELSE closed
        /\ dispatcher' = [dispatcher EXCEPT ![d] = Free]
        /\ UNCHANGED <<ledgerVars, stored, turns>>
    BY DEF Requeue, Reading, ingestVars
  <1>2. dispatcher[d].claim.attempt < MaxAttempts
    BY <1>1 DEF WindowInv, ClaimSound
  <1>3. tries \in 0..MaxAttempts
    BY <1>2, DispatcherShape, InboundAssumption
  <1>4. /\ st \in {"scheduled", "failed"}
        /\ st = "scheduled" => tries < MaxAttempts
        /\ st = "failed" => tries >= MaxAttempts
    BY <1>3, InboundAssumption
  <1> HIDE DEF tries, st
  <1> QED  BY <1>1, <1>3, <1>4, ClaimReleased

\* A dispatcher that dies leaves its claim in the row.
LEMMA DispatcherStopsStep ==
  ASSUME WindowInv, NEW d \in Dispatchers, DispatcherStops(d)
  PROVE  WindowInv'
  <1>1. /\ dispatcher[d].pc # "idle"
        /\ closed' \in {closed, closed \cup {dispatcher[d].claim.last}}
        /\ dispatcher' = [dispatcher EXCEPT ![d] = Free]
        /\ UNCHANGED <<ledgerVars, stored, turns, row>>
    BY DEF DispatcherStops, Reading, ingestVars
  <1>2. row' = IF StillClaimed(d) THEN [row EXCEPT !.st = row.st, !.attempt = row.attempt] ELSE row
    BY <1>1, WindowNumbers DEF WindowInv
  <1>3. StillClaimed(d) => /\ row.st \in {"scheduled", "dispatching"}
                           /\ row.attempt \in 0..MaxAttempts /\ row.attempt < MaxAttempts
    BY WindowNumbers DEF WindowInv, StillClaimed, Open
  <1> QED  BY <1>1, <1>2, <1>3, ClaimReleased

\* A new message is newer than every admitted one, so the window it opens, or
\* starts again, covers them all.
LEMMA WindowIngestStep ==
  ASSUME LedgerInv, PollInv, WindowInv, Ingest
  PROVE  WindowInv'
  <1> DEFINE e == Head(poller.events)
             admits == stored[e.msg] = "no" /\ Treatment(e) = "admitted"
  <1>1. /\ e = poller.events[1] /\ 1 \in DOMAIN poller.events
    BY RestProperties DEF PollInv, Ingest
  <1>2. e.msg \in Messages /\ e.msg \in Nat /\ e \in PageEvent
    BY <1>1, PollNumbers DEF PollInv
  <1>3. /\ UNCHANGED <<ledgerVars, dispatcher, closed>>
        /\ IF admits THEN Admit(e.msg) ELSE UNCHANGED <<row, turns>>
    BY DEF Ingest, history
  <1>4. Admitted' = Admitted \cup {m \in {e.msg} : stored[m] = "no" /\ Live(e) /\ Treatment(e) = "admitted"}
    BY IngestStep
  <1>5. Treatment(e) = "admitted" => Live(e)
    BY DEF Treatment, Live
  <1> HIDE DEF e
  <1>6. \A m : FromObserver(m)' <=> FromObserver(m)
    BY <1>3 DEF FromObserver, ledgerVars
  <1>7. Live(e) => FromObserver(e.msg) /\ \A m \in Admitted : m < e.msg
    <2> SUFFICES ASSUME Live(e) PROVE FromObserver(e.msg) /\ \A m \in Admitted : m < e.msg
      OBVIOUS
    <2>1. e.msg > Old /\ \A m \in Admitted : m < e.msg
      BY <1>1 DEF PollInv, PageOrder
    <2>2. ASSUME epoch = 0 PROVE \E c \in DOMAIN ledger : ledger[c] = Event(e.msg, FALSE)
      <3>1. /\ Before \in Nat /\ poller.next <= Len(ledger)
            /\ e = [cursor |-> Before + 1, msg |-> ledger[Before + 1].msg,
                    historical |-> ledger[Before + 1].historical]
        BY <1>1, <2>2 DEF PollInv, PageInv
      <3>2. /\ poller.next \in Nat /\ Len(poller.events) \in Nat /\ 1 <= Len(poller.events)
            /\ Len(ledger) \in Nat /\ DOMAIN ledger = 1..Len(ledger)
        BY <1>1, PollNumbers, LedgerElements DEF PollInv
      <3>3. Before + 1 \in DOMAIN ledger
        <4>1. Before = poller.next - Len(poller.events)
          BY DEF Before
        <4> QED  BY <3>1, <3>2, <4>1
      <3>4. ledger[Before + 1] \in EventRecord
        BY <3>3, LedgerElements
      <3>5. ledger[Before + 1].msg = e.msg /\ ledger[Before + 1].historical = FALSE
        <4>1. e.historical = ledger[Before + 1].historical /\ e.msg = ledger[Before + 1].msg
          BY <3>1
        <4>2. ledger[Before + 1].historical \in BOOLEAN
          BY <3>4 DEF EventRecord
        <4> QED  BY <4>1, <4>2 DEF Live
      <3>6. ledger[Before + 1] = Event(e.msg, FALSE)
        BY <3>4, <3>5 DEF EventRecord, Event
      <3> QED  BY <3>3, <3>6
    <2> QED  BY <2>1, <2>2 DEF FromObserver
  <1>8. CASE ~admits
    <2>1. Admitted' \subseteq Admitted
      BY <1>4, <1>8 DEF e
    <2>2. UNCHANGED <<row, turns, dispatcher, closed>>
      BY <1>3, <1>8
    <2>3. WindowTypeOK' /\ WindowCovers'
      BY <2>1, <2>2 DEF WindowInv, WindowTypeOK, WindowCovers, Open, Admitted
    <2>4. \A d \in Dispatchers : ClaimSound(dispatcher[d])'
      BY <1>6, <2>2 DEF WindowInv, ClaimSound
    <2> QED  BY <1>6, <2>2, <2>3, <2>4 DEF WindowInv, Open
  <1>9. CASE admits /\ core.merge
    <2>1. /\ row' = [st |-> "scheduled", rev |-> row.rev + 1, last |-> e.msg, attempt |-> 0]
          /\ UNCHANGED <<turns, dispatcher, closed>>
      BY <1>3, <1>9 DEF Admit, Schedule
    <2>2. row.rev \in Nat /\ \A d \in Dispatchers : dispatcher[d].claim.rev \in Nat
      BY WindowNumbers DEF WindowInv
    <2>3. Live(e) /\ FromObserver(e.msg) /\ \A m \in Admitted' : m <= e.msg
      <3>1. Live(e) /\ FromObserver(e.msg) /\ \A m \in Admitted : m < e.msg
        BY <1>5, <1>7, <1>9
      <3>2. \A m \in Admitted : m \in Nat
        BY DEF Admitted, Messages
      <3> QED  BY <1>2, <1>4, <3>1, <3>2 DEF e
    <2>4. WindowTypeOK'
      <3>1. row.rev + 1 \in Nat /\ 0 \in 0..MaxAttempts
        BY <2>2, InboundAssumption
      <3>2. row' \in RowRecord
        BY <1>2, <2>1, <3>1 DEF RowRecord
      <3> QED  BY <1>2, <2>1, <3>2 DEF WindowInv, WindowTypeOK
    <2>5. \A d \in Dispatchers : ClaimSound(dispatcher[d])'
      <3>1. ASSUME NEW d \in Dispatchers PROVE ClaimSound(dispatcher[d])'
        <4>1. dispatcher'[d] = dispatcher[d] /\ ClaimSound(dispatcher[d])
          BY <2>1 DEF WindowInv
        <4>2. /\ row'.rev = row.rev + 1 /\ dispatcher[d].claim.rev \in Nat
          BY <2>1, <2>2
        <4>3. dispatcher[d].claim.rev <= row.rev =>
                 dispatcher[d].claim.rev <= row'.rev /\ dispatcher[d].claim.rev # row'.rev
          BY <2>2, <4>2
        <4> QED  BY <1>6, <2>1, <4>1, <4>3 DEF ClaimSound
      <3> QED  BY <3>1
    <2>6. WindowCovers'
      BY <2>1, <2>3 DEF WindowCovers, Admitted, Open
    <2>7. Open' => row'.attempt < MaxAttempts
      BY <2>1, InboundAssumption
    <2> QED  BY <1>6, <2>1, <2>3, <2>4, <2>5, <2>6, <2>7 DEF WindowInv
  <1>10. CASE admits /\ ~core.merge
    <2>1. turns' = turns \cup {e.msg} /\ UNCHANGED <<row, dispatcher, closed>>
      BY <1>3, <1>10 DEF Admit
    <2>2. FromObserver(e.msg)
      BY <1>5, <1>7, <1>10
    <2>3. WindowTypeOK'
      BY <1>2, <2>1 DEF WindowInv, WindowTypeOK
    <2>4. \A d \in Dispatchers : ClaimSound(dispatcher[d])'
      BY <1>6, <2>1 DEF WindowInv, ClaimSound
    <2>5. WindowCovers'
      <3>1. \A m \in Admitted' : m \in Admitted \/ m = e.msg
        BY <1>4 DEF e
      <3>2. e.msg \in turns' /\ e.msg <= e.msg
        BY <1>2, <2>1
      <3> QED  BY <2>1, <3>1, <3>2 DEF WindowInv, WindowCovers, Admitted, Open
    <2> QED  BY <1>6, <2>1, <2>2, <2>3, <2>4, <2>5 DEF WindowInv, Open
  <1> QED  BY <1>8, <1>9, <1>10

-----------------------------------------------------------------------------
(* The invariant, and what it shows.                                         *)

\* The invariant holds in every scenario.
LEMMA InboundBegins == Init => InboundInv
  <1> SUFFICES ASSUME Init PROVE InboundInv
    OBVIOUS
  <1>1. host \in LedgerScenario /\ core \in CoreScenario
    BY InboundAssumption DEF Init
  <1>2. LedgerInv
    BY <1>1, LedgerBegins DEF Init
  <1>3. {ai, allowed, paused} \subseteq BOOLEAN
    BY DEF Init
  <1> QED  BY <1>1, <1>2, <1>3, PollBegins, WindowBegins DEF InboundInv

\* What is left of the scenario, and the switches.
LEMMA GatesStep ==
  ASSUME InboundInv, [Next]_vars
  PROVE  {ai', allowed', paused'} \subseteq BOOLEAN /\ core' \in CoreScenario
  <1>1. /\ core = [merge |-> core.merge, faults |-> core.faults, flips |-> core.flips,
                   halves |-> core.halves]
        /\ core.merge \in BOOLEAN
        /\ core.faults \in Nat /\ core.flips \in Nat /\ core.halves \in Nat
    BY DEF InboundInv, CoreScenario
  <1>2. core' \in CoreScenario
    <2>1. CASE UNCHANGED core
      BY <2>1 DEF InboundInv
    <2>2. CASE CanFault /\ UseFault
      <3>1. core' = [merge |-> core.merge, faults |-> core.faults - 1, flips |-> core.flips,
                     halves |-> core.halves]
        BY <1>1, <2>2 DEF UseFault
      <3>2. core.faults - 1 \in Nat
        BY <1>1, <2>2 DEF CanFault
      <3> QED  BY <1>1, <3>1, <3>2 DEF CoreScenario
    <2>3. CASE core.flips > 0 /\ core' = [core EXCEPT !.flips = @ - 1]
      <3>1. core' = [merge |-> core.merge, faults |-> core.faults, flips |-> core.flips - 1,
                     halves |-> core.halves]
        BY <1>1, <2>3
      <3>2. core.flips - 1 \in Nat
        BY <1>1, <2>3
      <3> QED  BY <1>1, <3>1, <3>2 DEF CoreScenario
    <2>4. CASE core.halves > 0 /\ core' = [core EXCEPT !.halves = @ - 1]
      <3>1. core' = [merge |-> core.merge, faults |-> core.faults, flips |-> core.flips,
                     halves |-> core.halves - 1]
        BY <1>1, <2>4
      <3>2. core.halves - 1 \in Nat
        BY <1>1, <2>4
      <3> QED  BY <1>1, <3>1, <3>2 DEF CoreScenario
    <2> QED  BY <2>1, <2>2, <2>3, <2>4
        DEF Next, vars, coreVars, PollStep, FirstPull, Ingest, GlobalPause, PageDone, IngestFails,
            PollFails, Claim, Dispatch, Recheck, Extend, InsertTurn, MarkDone, Requeue,
            DispatchFails, DispatcherStops, Flip
  <1>3. {ai', allowed', paused'} \subseteq BOOLEAN
    <2>1. CASE UNCHANGED gates
      BY <2>1 DEF InboundInv, gates
    <2>2. CASE GlobalPause
      BY <2>2 DEF InboundInv, GlobalPause
    <2>3. CASE Flip
      BY <2>3 DEF InboundInv, Flip
    <2> QED  BY <2>1, <2>2, <2>3
        DEF Next, vars, coreVars, PollStep, FirstPull, Ingest, PageDone, IngestFails,
            PollFails, Claim, Dispatch, Recheck, Extend, InsertTurn, MarkDone, Requeue,
            DispatchFails, DispatcherStops, Reading, gates
  <1> QED  BY <1>2, <1>3

\* The steps of the Core leave the ledger alone.
LEMMA LedgerStands ==
  ASSUME LedgerInv, UNCHANGED ledgerVars
  PROVE  LedgerInv' /\ Grown
  <1>1. UNCHANGED <<source, checkpoint, ledger, observer, backfill, epoch, host, Reached>>
    BY DEF ledgerVars, Reached
  <1>2. LedgerInv'
    BY <1>1 DEF LedgerInv, LedgerTypeOK, BackfillInv, OrderInv, Captured
  <1>3. Grown
    <2>1. /\ Reached \in Nat /\ epoch \in Nat /\ Len(ledger) \in Nat
      BY LedgerNumbers, LedgerElements
    <2>2. \A c \in Len(ledger) + 1 .. Len(ledger) : FALSE
      BY <2>1
    <2> QED  BY <1>1, <2>1, <2>2 DEF Grown
  <1> QED  BY <1>2, <1>3

\* Every step of Host and Core keeps the invariant.
LEMMA InboundStep == InboundInv /\ [Next]_vars => InboundInv'
  <1> SUFFICES ASSUME InboundInv, [Next]_vars PROVE InboundInv'
    OBVIOUS
  <1>0. LedgerInv /\ PollInv /\ WindowInv
    BY DEF InboundInv
  <1>1. LedgerInv' /\ PollInv' /\ WindowInv'
    <2>1. CASE LedgerNext /\ UNCHANGED coreVars
      <3>1. /\ UNCHANGED <<cursor, stored, poller, requested, given>>
            /\ UNCHANGED <<row, turns, dispatcher, closed>> /\ Admitted' = Admitted
        BY <2>1 DEF coreVars, ingestVars, history, Admitted
      <3>2. LedgerInv' /\ Grown
        BY <1>0, <2>1, LedgerStep
      <3> QED  BY <1>0, <3>1, <3>2, PollKeepsLedgerStep, WindowIdleStep
    <2>2. CASE FirstPull
      <3>1. UNCHANGED ledgerVars /\ UNCHANGED <<row, turns, dispatcher, closed, Admitted>>
        BY <2>2 DEF FirstPull, history, Admitted
      <3>2. LedgerInv' /\ Grown
        BY <1>0, <3>1, LedgerStands
      <3> QED  BY <1>0, <2>2, <3>1, <3>2, FirstPullStep, WindowIdleStep
    <2>3. CASE PageDone
      <3>1. UNCHANGED ledgerVars /\ UNCHANGED <<row, turns, dispatcher, closed, Admitted>>
        BY <2>3 DEF PageDone, history, Admitted
      <3>2. LedgerInv' /\ Grown
        BY <1>0, <3>1, LedgerStands
      <3> QED  BY <1>0, <2>3, <3>1, <3>2, PageDoneStep, WindowIdleStep
    <2>4. CASE Ingest
      <3>1. UNCHANGED ledgerVars
        BY <2>4 DEF Ingest
      <3>2. LedgerInv'
        BY <1>0, <3>1, LedgerStands
      <3> QED  BY <1>0, <2>4, <3>2, IngestStep, WindowIngestStep
    <2>5. CASE IngestFails
      <3>1. UNCHANGED ledgerVars /\ UNCHANGED <<row, turns, dispatcher, closed, Admitted>>
        BY <2>5 DEF IngestFails, Admitted
      <3>2. LedgerInv' /\ Grown
        BY <1>0, <3>1, LedgerStands
      <3> QED  BY <1>0, <2>5, <3>1, <3>2, IngestFailsStep, WindowIdleStep
    <2>6. CASE GlobalPause
      <3>1. UNCHANGED ledgerVars /\ UNCHANGED <<row, turns, dispatcher, closed, Admitted>>
        BY <1>0, <2>6, GlobalPauseStep DEF GlobalPause, history
      <3>2. LedgerInv' /\ Grown
        BY <1>0, <3>1, LedgerStands
      <3> QED  BY <1>0, <2>6, <3>1, <3>2, GlobalPauseStep, WindowIdleStep
    <2>7. CASE PollFails
      <3>1. UNCHANGED ledgerVars /\ UNCHANGED <<row, turns, dispatcher, closed, Admitted>>
        BY <2>7 DEF PollFails, Admitted
      <3>2. LedgerInv' /\ Grown
        BY <1>0, <3>1, LedgerStands
      <3> QED  BY <1>0, <2>7, <3>1, <3>2, PollFailsStep, WindowIdleStep
    <2>8. ASSUME NEW d \in Dispatchers,
                 Claim(d) \/ Dispatch(d) \/ DispatchFails(d) \/ DispatcherStops(d)
          PROVE  LedgerInv' /\ PollInv' /\ WindowInv'
      <3>1. UNCHANGED <<ledgerVars, ingestVars, given>>
        BY <2>8 DEF Claim, Dispatch, Recheck, Extend, InsertTurn, MarkDone, Requeue,
                    DispatchFails, DispatcherStops, Reading, history
      <3>2. LedgerInv' /\ PollInv'
        BY <1>0, <3>1, LedgerStands, PollIdleStep
      <3>3. WindowInv'
        BY <1>0, <2>8, ClaimStep, RecheckStep, ExtendStep, InsertTurnStep, MarkDoneStep,
           RequeueStep, DispatchFailsStep, DispatcherStopsStep DEF Dispatch
      <3> QED  BY <3>2, <3>3
    <2>9. CASE Flip \/ UNCHANGED vars
      <3>1. /\ UNCHANGED <<ledgerVars, ingestVars, given>>
            /\ UNCHANGED <<row, turns, dispatcher, closed, Admitted>>
        BY <2>9 DEF Flip, history, vars, coreVars, ingestVars, Admitted
      <3>2. LedgerInv' /\ Grown /\ PollInv'
        BY <1>0, <3>1, LedgerStands, PollIdleStep
      <3> QED  BY <1>0, <3>1, <3>2, WindowIdleStep
    <2> QED  BY <2>1, <2>2, <2>3, <2>4, <2>5, <2>6, <2>7, <2>8, <2>9 DEF Next, PollStep
  <1>2. {ai', allowed', paused'} \subseteq BOOLEAN /\ core' \in CoreScenario
    BY GatesStep
  <1> QED  BY <1>1, <1>2 DEF InboundInv

\* The ledger, the poller and the window keep their parts of the invariant at
\* every step of the Host and of the Core, restarts and lost stores included.
THEOREM InboundInvariant == Spec => []InboundInv
  BY InboundBegins, InboundStep, PTL DEF Spec

\* Every window that the kill switch closed is among the closed ones.
LEMMA SilencedIsClosed == Spec => [](silenced \subseteq closed)
  <1> DEFINE Within == silenced \subseteq closed
  <1>1. Init => Within
    BY DEF Init
  <1>2. Within /\ [Next]_vars => Within'
    <2> SUFFICES ASSUME Within, [Next]_vars PROVE Within'
      OBVIOUS
    <2>1. CASE Flip \/ (UNCHANGED vars) \/ (LedgerNext /\ UNCHANGED coreVars)
      BY <2>1 DEF vars, coreVars, Flip, history
    <2>2. CASE PollStep \/ IngestFails \/ PollFails
      BY <2>2 DEF PollStep, FirstPull, Ingest, GlobalPause, PageDone, IngestFails, PollFails,
                  history
    <2>3. ASSUME NEW d \in Dispatchers,
                 Claim(d) \/ Recheck(d) \/ Extend(d) \/ InsertTurn(d) \/ DispatchFails(d)
          PROVE  Within'
      BY <2>3 DEF Claim, Recheck, Extend, InsertTurn, DispatchFails, history
    <2>4. ASSUME NEW d \in Dispatchers, MarkDone(d) PROVE Within'
      BY <2>4 DEF MarkDone
    <2>5. ASSUME NEW d \in Dispatchers, Requeue(d) \/ DispatcherStops(d)
          PROVE  Within'
      BY <2>5 DEF Requeue, DispatcherStops
    <2>6. CASE \E d \in Dispatchers :
                  Claim(d) \/ Dispatch(d) \/ DispatchFails(d) \/ DispatcherStops(d)
      BY <2>3, <2>4, <2>5, <2>6 DEF Dispatch
    <2> QED  BY <2>1, <2>2, <2>6 DEF Next
  <1> HIDE DEF Within
  <1>3. Spec => []Within
    BY <1>1, <1>2, PTL DEF Spec
  <1> QED  BY <1>3 DEF Within

\* Every record of the ledger and of the inbound path is one the code can
\* hold; an attempt count never passes its limit, although failed dispatches
\* and the extensions of a half sentence count into the same number.
THEOREM InboundTypes == Spec => []TypeOK
  <1>1. InboundInv /\ silenced \subseteq closed => TypeOK
    <2> SUFFICES ASSUME InboundInv, silenced \subseteq closed PROVE TypeOK
      OBVIOUS
    <2>1. LedgerTypeOK /\ PollTypeOK /\ WindowTypeOK
      BY DEF InboundInv, LedgerInv, PollInv, WindowInv
    <2> QED  BY <2>1 DEF InboundInv, TypeOK, PollTypeOK, WindowTypeOK, DispatcherRecord
  <1> QED  BY <1>1, InboundInvariant, SilencedIsClosed, PTL

\* The stored cursor never runs past an event that was neither stored nor
\* given up (channel-event-poller.ts advances it with each event's transaction
\* and at the end of a page), while the Host keeps its store.
THEOREM CursorIsCovered == Spec => []CursorCovers
  <1>1. InboundInv => CursorCovers
    BY DEF InboundInv, PollInv
  <1> QED  BY <1>1, InboundInvariant, PTL

\* No order of dispatchers and new messages loses an admitted message: the
\* open window covers it, or a turn, or a window that ended for a reason
\* (turn-admission.ts: markDone closes only the revision that was claimed).
THEOREM WindowKeepsMessages == Spec => []WindowCovers
  <1>1. InboundInv => WindowCovers
    BY DEF InboundInv, WindowInv
  <1> QED  BY <1>1, InboundInvariant, PTL

\* What a backfill writes never triggers a turn, whichever of observer and
\* backfill writes first and whatever the poller replays.
THEOREM HistoryStaysUnanswered == Spec => []HistoryIsNotAnswered
  <1>1. InboundInv => HistoryIsNotAnswered
    BY DEF InboundInv, WindowInv, FromObserver, HistoryIsNotAnswered
  <1> QED  BY <1>1, InboundInvariant, PTL

\* Observer and backfill leave no message behind the checkpoint that neither
\* wrote, except where a claimed backfill ends early or the store is replaced.
THEOREM LedgerLeavesNoGap == Spec => NothingFallsBehind
  <1>1. InboundInv /\ [Next]_vars =>
           [~(CutShort \/ Rebuild) => Behind' \subseteq Behind]_ledgerVars
    <2> SUFFICES ASSUME InboundInv, [Next]_vars, ~CutShort, ~Rebuild
                 PROVE  Behind' \subseteq Behind \/ UNCHANGED ledgerVars
      OBVIOUS
    <2>1. LedgerInv
      BY DEF InboundInv
    <2>2. LedgerNext \/ UNCHANGED ledgerVars
      BY DEF Next, vars, PollStep, FirstPull, Ingest, GlobalPause, PageDone, IngestFails,
             PollFails, Claim, Dispatch, Recheck, Extend, InsertTurn, MarkDone, Requeue,
             DispatchFails, DispatcherStops, Reading, Flip
    <2> QED  BY <2>1, <2>2, FallsStep
  <1> QED  BY <1>1, InboundInvariant, PTL DEF Spec, NothingFallsBehind

\* A window opens or starts again only with a message that is stored in the
\* same transaction: a replayed page admits nothing.
THEOREM ReplayIsHarmless == Spec => ReplayAdmitsNothing
  <1>1. InboundInv /\ [Next]_vars =>
          [row'.rev # row.rev => stored[row'.last] = "no" /\ stored'[row'.last] = "admitted"]_vars
    <2> SUFFICES ASSUME InboundInv, [Next]_vars, row'.rev # row.rev
                 PROVE  stored[row'.last] = "no" /\ stored'[row'.last] = "admitted"
      OBVIOUS
    <2>0. LedgerInv /\ PollInv /\ WindowInv
      BY DEF InboundInv
    <2>1. \A d \in Dispatchers :
             Claim(d) \/ Extend(d) \/ MarkDone(d) \/ Requeue(d) => row'.rev = row.rev
      BY <2>0, WindowNumbers DEF WindowInv, Claim, Extend, MarkDone, Requeue
    <2>2. \A d \in Dispatchers :
             Recheck(d) \/ InsertTurn(d) \/ DispatchFails(d) \/ DispatcherStops(d) => row' = row
      BY DEF Recheck, InsertTurn, DispatchFails, DispatcherStops
    <2>3. Ingest
      BY <2>1, <2>2 DEF Next, vars, coreVars, PollStep, FirstPull, GlobalPause, PageDone,
                        IngestFails, PollFails, Dispatch, Flip
    <2> DEFINE e == Head(poller.events)
    <2>4. /\ stored[e.msg] = "no" /\ Treatment(e) = "admitted" /\ Admit(e.msg)
          /\ stored' = [stored EXCEPT ![e.msg] = Treatment(e)]
      BY <2>3 DEF Ingest
    <2>5. e.msg \in Messages
      BY <2>0, <2>3, RestProperties, PollNumbers DEF PollInv, Ingest
    <2>6. row'.last = e.msg
      BY <2>4 DEF Admit, Schedule
    <2>7. stored'[e.msg] = "admitted"
      BY <2>0, <2>4, <2>5 DEF PollInv, PollTypeOK
    <2> QED  BY <2>4, <2>6, <2>7
  <1> QED  BY <1>1, InboundInvariant, PTL DEF Spec, ReplayAdmitsNothing

=============================================================================
