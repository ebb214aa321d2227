--------------------------- MODULE TurnContract ---------------------------
(***************************************************************************)
(* What one conversation promises about its agent turns, whatever the      *)
(* workers, the job queue and the recovery of stale turns do.  A turn is   *)
(* open from its admission until it ends, ends once, and ends either with  *)
(* the final reply or without one.  A turn replies only while it is open   *)
(* and no human holds the conversation.  Handing over to a human may leave *)
(* one farewell of the turn that asked for it, even if it has ended.       *)
(***************************************************************************)
EXTENDS Naturals

CONSTANT Turns

VARIABLES human,    \* a human holds the conversation
          stage,    \* per turn: absent, open, answered, closed
          spoken,   \* per turn: replies said on the way to the outcome
          parted    \* turns that said good-bye when they called the human

vars == <<human, stage, spoken, parted>>

Stages == {"absent", "open", "answered", "closed"}

Init ==
    /\ human = FALSE
    /\ stage = [t \in Turns |-> "absent"]
    /\ spoken = [t \in Turns |-> 0]
    /\ parted = {}

Admit(t) ==
    /\ stage[t] = "absent"
    /\ stage' = [stage EXCEPT ![t] = "open"]
    /\ UNCHANGED <<human, spoken, parted>>

\* A note or a step: something said while the turn goes on.
Speak(t) ==
    /\ ~human
    /\ stage[t] = "open"
    /\ spoken' = [spoken EXCEPT ![t] = @ + 1]
    /\ UNCHANGED <<human, stage, parted>>

\* The final reply, together with the end of the turn.
Answer(t) ==
    /\ ~human
    /\ stage[t] = "open"
    /\ stage' = [stage EXCEPT ![t] = "answered"]
    /\ UNCHANGED <<human, spoken, parted>>

\* Some open turns end without a reply.
EndSome ==
    \E S \in SUBSET Turns :
        /\ \A t \in S : stage[t] = "open"
        /\ stage' = [t \in Turns |-> IF t \in S THEN "closed" ELSE stage[t]]

\* They do, and a human may take or leave the conversation in the same step.
Close ==
    /\ EndSome
    /\ human' \in BOOLEAN
    /\ UNCHANGED <<spoken, parted>>

\* The turn calls a human and says good-bye, once.
HandOver(t) ==
    /\ ~human /\ human' = TRUE
    /\ stage[t] # "absent" /\ t \notin parted
    /\ EndSome
    /\ parted' = parted \cup {t}
    /\ UNCHANGED spoken

Next ==
    \/ \E t \in Turns : Admit(t) \/ Speak(t) \/ Answer(t) \/ HandOver(t)
    \/ Close

Spec == Init /\ [][Next]_vars
=============================================================================
