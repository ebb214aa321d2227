---------------------------- MODULE MCAgentTurn ----------------------------
(***************************************************************************)
(* Instances of AgentTurn: up to two turns and two workers.  Each scenario *)
(* makes one kind of history rich and the others short.                    *)
(***************************************************************************)
EXTENDS AgentTurn, TLC

Case(one, two, faults, flips, takeovers) ==
    [answers |-> (1 :> one @@ 2 :> two),
     faults |-> faults, flips |-> flips, takeovers |-> takeovers]

\* One turn with tools and steps, through a fault and a switch or a takeover;
\* two turns that coalesce or absorb; an absorption after a tool; the rest of
\* the answers.
MCScenarios ==
    {Case({"tool"}, {}, 1, 1, 0),
     Case({"tool"}, {}, 1, 0, 1),
     Case({"tool", "reply"}, {"reply"}, 0, 0, 0),
     Case({"reply"}, {"go_on"}, 2, 0, 0),
     Case({"go_on"}, {"handoff"}, 0, 1, 1),
     Case(Decisions \ {"tool", "go_on"}, {}, 1, 1, 1)}

\* One turn that may go on, and one flip of a switch.
MCSwitchScenarios == {Case({"go_on", "reply"}, {}, 0, 1, 0)}
=============================================================================
