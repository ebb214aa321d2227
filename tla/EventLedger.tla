---------------------------- MODULE EventLedger ----------------------------
(***************************************************************************)
(* The Channel Host's event ledger for one conversation: the live observer *)
(* that captures new messages behind a source checkpoint, the historical   *)
(* backfill that runs beside it in a thread of its own, and the pages a    *)
(* consumer pulls.                                                         *)
(*                                                                         *)
(* A message is its sort sequence in the WeChat database, 1 .. source.  An *)
(* event's cursor is its index in the ledger.  Content is left out, except *)
(* that some messages are of a kind the Host does not publish.             *)
(***************************************************************************)
EXTENDS Naturals, Sequences

CONSTANTS MaxMessages,    \* bound: messages WeChat may come to hold
          Old,            \* messages it holds before the Host's first start
          PageLimit       \* events of a page (100 in the Core's poller)

Messages == 1..MaxMessages

\* Which messages are of a kind the Host does not publish, whether an empty
\* store starts a backfill (WECHAT_BACKFILL_AUTO), and how many syncs, faults
\* and rebuilds of the store there may be.
LedgerScenario == [unsupported : SUBSET Messages, auto : BOOLEAN,
                   syncs : Nat, faults : Nat, rebuilds : Nat]

ASSUME LedgerAssumption ==
    /\ MaxMessages \in Nat /\ Old \in 0..MaxMessages
    /\ PageLimit \in Nat \ {0}

VARIABLES source,      \* messages in the WeChat database
          checkpoint,  \* source_checkpoints.sort_seq
          ledger,      \* channel_events in cursor order
          observer,    \* poll_once: its batch is the messages after at, up to to
          backfill,    \* the backfill thread: what it claimed and has read
          epoch,       \* store_epoch: which store this is
          host         \* the scenario: what is left of its bounds

ledgerVars == <<source, checkpoint, ledger, observer, backfill, epoch, host>>

Supported(m) == m \notin host.unsupported
Event(m, historical) == [msg |-> m, historical |-> historical]
Captured(l) == {l[c].msg : c \in DOMAIN l}
Later(a, b) == IF a > b THEN a ELSE b

NoBatch == [at |-> 0, to |-> 0]
NoBackfill == [pc |-> "idle", at |-> 0, high |-> 0, skip |-> {}]
Asked == [NoBackfill EXCEPT !.pc = "asked"]
AutoBackfill == IF host.auto THEN Asked ELSE NoBackfill

\* The first start: bootstrap has put the checkpoint at the high water, and a
\* backfill is asked for unless it is configured off.  The module that extends
\* this one chooses the scenario.
LedgerInit ==
    /\ source = Old /\ checkpoint = Old
    /\ ledger = <<>>
    /\ observer = NoBatch
    /\ backfill = AutoBackfill
    /\ epoch = 0

(***************************************************************************)
(* The observer: read the rows after the checkpoint, then capture them one *)
(* by one, each with the checkpoint in one transaction.                    *)
(***************************************************************************)
Arrive ==
    /\ source < MaxMessages
    /\ source' = source + 1
    /\ UNCHANGED <<epoch, checkpoint, ledger, observer, backfill, host>>

ReadBatch ==
    /\ observer = NoBatch
    /\ checkpoint < source
    /\ observer' = [at |-> checkpoint, to |-> source]
    /\ UNCHANGED <<epoch, source, checkpoint, ledger, backfill, host>>

\* INSERT OR IGNORE by event id.
Insert(l, e) == IF \E c \in DOMAIN l : l[c] = e THEN l ELSE Append(l, e)

\* Mutant: the first capture of a batch puts the checkpoint at its end.
Capture_WholeBatch ==
    LET m == observer.at + 1
    IN  /\ observer # NoBatch
        /\ ledger' = IF Supported(m) THEN Insert(ledger, Event(m, FALSE)) ELSE ledger
        /\ checkpoint' = Later(checkpoint, observer.to)
        /\ observer' = IF m = observer.to THEN NoBatch ELSE [observer EXCEPT !.at = m]
        /\ UNCHANGED <<epoch, source, backfill, host>>

Capture ==
    LET m == observer.at + 1
    IN  /\ observer # NoBatch
        /\ ledger' = IF Supported(m) THEN Insert(ledger, Event(m, FALSE)) ELSE ledger
        /\ checkpoint' = Later(checkpoint, m)
        /\ observer' = IF m = observer.to THEN NoBatch ELSE [observer EXCEPT !.at = m]
        /\ UNCHANGED <<epoch, source, backfill, host>>

\* An exception ends the cycle; the next one starts from the checkpoint.
CycleFails ==
    /\ observer # NoBatch /\ host.faults > 0
    /\ observer' = NoBatch
    /\ host' = [host EXCEPT !.faults = @ - 1]
    /\ UNCHANGED <<epoch, source, checkpoint, ledger, backfill>>

(***************************************************************************)
(* The backfill: claim everything up to the high water, read what has been *)
(* captured, write the rest as history, a transaction for each batch (here *)
(* of one message, the finest the configuration allows).                   *)
(***************************************************************************)
AskSync ==
    /\ backfill.pc = "idle" /\ host.syncs > 0
    /\ backfill' = Asked
    /\ host' = [host EXCEPT !.syncs = @ - 1]
    /\ UNCHANGED <<epoch, source, checkpoint, ledger, observer>>

ClaimCheckpoint ==
    /\ backfill.pc = "asked"
    /\ checkpoint' = Later(checkpoint, source)
    /\ backfill' = [backfill EXCEPT !.pc = "claimed", !.high = checkpoint']
    /\ UNCHANGED <<epoch, source, ledger, observer, host>>

ReadCaptured ==
    /\ backfill.pc = "claimed"
    /\ backfill' = IF backfill.high = 0 THEN NoBackfill
                   ELSE [backfill EXCEPT !.pc = "fill", !.skip = Captured(ledger)]
    /\ UNCHANGED <<epoch, source, checkpoint, ledger, observer, host>>

Fill ==
    LET m == backfill.at + 1
    IN  /\ backfill.pc = "fill"
        /\ ledger' = IF Supported(m) /\ m \notin backfill.skip
                     THEN Insert(ledger, Event(m, TRUE)) ELSE ledger
        /\ backfill' = IF m = backfill.high THEN NoBackfill
                       ELSE [backfill EXCEPT !.at = m]
        /\ UNCHANGED <<epoch, source, checkpoint, observer, host>>

\* _run_guarded logs the exception and ends the thread.
BackfillFails ==
    /\ backfill.pc \in {"claimed", "fill"} /\ host.faults > 0
    /\ backfill' = NoBackfill
    /\ host' = [host EXCEPT !.faults = @ - 1]
    /\ UNCHANGED <<epoch, source, checkpoint, ledger, observer>>

(***************************************************************************)
(* The Host stops and starts again, with its store or with a new one.      *)
(***************************************************************************)
Restart ==
    /\ observer # NoBatch \/ backfill.pc # "idle"
    /\ host.faults > 0
    /\ observer' = NoBatch
    /\ backfill' = NoBackfill
    /\ host' = [host EXCEPT !.faults = @ - 1]
    /\ UNCHANGED <<epoch, source, checkpoint, ledger>>

\* A new store: its bootstrap takes the high water for its baseline, and its
\* cursors start again.
Rebuild ==
    /\ host.rebuilds > 0
    /\ ledger' = <<>>
    /\ checkpoint' = source
    /\ observer' = NoBatch
    /\ backfill' = AutoBackfill
    /\ epoch' = epoch + 1
    /\ host' = [host EXCEPT !.rebuilds = @ - 1]
    /\ UNCHANGED source

LedgerNext ==
    \/ Arrive \/ ReadBatch \/ Capture \/ CycleFails
    \/ AskSync \/ ClaimCheckpoint \/ ReadCaptured \/ Fill
    \/ BackfillFails \/ Restart \/ Rebuild

(***************************************************************************)
(* EventStore.pull: the events after a cursor, at most a page of them.     *)
(***************************************************************************)
PageEnd(after) == IF Len(ledger) > after + PageLimit THEN after + PageLimit
                  ELSE Later(after, Len(ledger))

(***************************************************************************)
(* Properties.                                                             *)
(***************************************************************************)
LedgerTypeOK ==
    /\ source \in 0..MaxMessages /\ checkpoint \in 0..source
    /\ ledger \in Seq([msg : Messages, historical : BOOLEAN])
    /\ observer \in [at : Nat, to : 0..source]
    /\ observer # NoBatch => observer.at < observer.to
    /\ backfill \in [pc : {"idle", "asked", "claimed", "fill"}, at : Nat,
                     high : 0..checkpoint, skip : SUBSET Messages]
    /\ backfill.pc = "fill" => backfill.at < backfill.high
    /\ epoch \in Nat /\ host \in LedgerScenario

\* Messages behind the checkpoint that are not in the ledger and that no
\* running backfill is about to write.  The rest of the observer's batch is no
\* excuse for them: the next batch starts at the checkpoint.
ToFill == IF backfill.pc = "claimed" THEN 1..backfill.high
          ELSE IF backfill.pc = "fill" THEN backfill.at + 1 .. backfill.high
          ELSE {}
Batch == observer.at + 1 .. observer.to
Behind == {m \in 1..checkpoint : Supported(m)} \ (Captured(ledger) \cup ToFill)

\* A backfill that has claimed messages ends before it has written them.
CutShort == ToFill # {} /\ (BackfillFails \/ Restart)

\* Observer and backfill share the checkpoint without a lock between reading
\* and writing, and either may be cut short: no message falls between them,
\* except when a claimed backfill is cut short or the store is replaced.
NothingFallsBehind ==
    [][~(CutShort \/ Rebuild) => Behind' \subseteq Behind]_ledgerVars
=============================================================================
