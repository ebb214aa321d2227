----------------------------- MODULE MCInbound -----------------------------
(***************************************************************************)
(* Instances of Inbound: one message from before the start and two after   *)
(* it, pages of one or two events, one or two dispatchers.                 *)
(***************************************************************************)
EXTENDS Inbound

MCHost(unsupported, auto, syncs, faults, rebuilds) ==
    [unsupported |-> unsupported, auto |-> auto, syncs |-> syncs, faults |-> faults, rebuilds |-> rebuilds]

MCCore(merge, faults, flips, halves) ==
    [merge |-> merge, faults |-> faults, flips |-> flips, halves |-> halves]

\* A sync beside the observer; a new store; faults and half sentences in the
\* window; switches flipped; a turn for each message; an unsupported message.
MCScenarios ==
    {<<MCHost({}, FALSE, 1, 2, 0), MCCore(TRUE, 0, 0, 0)>>,
     <<MCHost({}, TRUE, 0, 0, 1), MCCore(TRUE, 0, 0, 0)>>,
     <<MCHost({}, FALSE, 0, 0, 0), MCCore(TRUE, 3, 0, 1)>>,
     <<MCHost({}, FALSE, 0, 0, 0), MCCore(TRUE, 2, 2, 0)>>,
     <<MCHost({2}, TRUE, 0, 0, 0), MCCore(FALSE, 1, 2, 0)>>}

\* The merge window, and one flip of a switch.
MCSwitchScenarios == {<<MCHost({}, FALSE, 0, 0, 0), MCCore(TRUE, 0, 1, 0)>>}
=============================================================================
