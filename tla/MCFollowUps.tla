---------------------------- MODULE MCFollowUps ----------------------------
(***************************************************************************)
(* Instances of FollowUps and Handoff: two users, of whom a is in the      *)
(* specialist queue.                                                       *)
(***************************************************************************)
EXTENDS FollowUps

CONSTANTS a, b

MCUsers == {a, b}
MCMembers == {a}

Quiet(n) == [bound |-> n, send |-> "none", wake |-> "none", inbounds |-> 0,
             flips |-> 0, faults |-> 0, operations |-> 0]

\* The ownership alone, through four revisions; a scheduled send with the
\* customer, a fault and an operator; a wake with the customer, a switch and a
\* fault.
MCScenarios ==
    {Quiet(4),
     [Quiet(2) EXCEPT !.send = "pending", !.inbounds = 1, !.faults = 1, !.operations = 1],
     [Quiet(2) EXCEPT !.wake = "scheduled", !.inbounds = 1, !.flips = 1, !.faults = 1]}
=============================================================================
