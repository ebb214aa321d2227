------------------------ MODULE SendExecutor_proofs ------------------------
(***************************************************************************)
(* Theorems about SendExecutor for every set of operations, every text     *)
(* assignment and every bound.  IndInv is shown to be inductive one action *)
(* at a time; the safety properties and the implementation of SendContract *)
(* follow from it.                                                         *)
(***************************************************************************)
EXTENDS SendExecutor, FiniteSetTheorems, TLAPS

\* The rank of a new operation (its place in created_at order) is a number.
LEMMA NextRankType == NextRank \in Nat
  <1>1. IsFiniteSet({o \in Ops : opState[o] # "absent"})
    BY ConstantsAssumption, FS_Subset
  <1> QED  BY <1>1, FS_CardinalityType DEF NextRank

\* What a found row is: a message of the same text that is in WeChat.
LEMMA NewestIsEvidence ==
  ASSUME NEW o \in Ops, NEW b \in Nat, NEW a \in Authors, TypeOK, Newest(o, b, a)
  PROVE  TextOf[a] = TextOf[o] /\ row[a] # 0
  BY DEF Newest, Matches, TypeOK

-----------------------------------------------------------------------------
(* The type invariant *)

\* The initial state is of the declared shape.
LEMMA InitType == Init => TypeOK
  BY ConstantsAssumption
  DEF Init, TypeOK, OpStates, Terminal, NoBaseline, Authors

\* No step takes a variable out of its type.
LEMMA StepType == TypeOK /\ [Next]_vars => TypeOK'
  <1>0. SUFFICES ASSUME TypeOK, [Next]_vars PROVE TypeOK'
    OBVIOUS
  <1> USE TypeOK, ConstantsAssumption
      DEF TypeOK, OpStates, Terminal, NoBaseline, Authors,
          store, pass, wechat, hist, Proceed, Finish
  <1>1. CASE UNCHANGED vars
    BY <1>1 DEF vars
  <1>2. ASSUME NEW o \in Ops, CreateSend(o) PROVE TypeOK'
    BY <1>2, NextRankType DEF CreateSend
  <1>3. ASSUME NEW o \in Ops, LeaseExpires(o) PROVE TypeOK'
    BY <1>3 DEF LeaseExpires
  <1>4. CASE StartPass
    BY <1>4 DEF StartPass, ForReconciliation, ForExecution, Oldest
  <1>5. CASE EndPass
    BY <1>5 DEF EndPass
  <1>6. ASSUME NEW o \in Ops, HandleOne(o) PROVE TypeOK'
    <2>1. CASE RejectLegacy(o)    BY <2>1 DEF RejectLegacy
    <2>2. CASE Reconcile(o)       BY <2>2 DEF Reconcile
    <2>3. CASE ReconcileRaises(o) BY <2>3 DEF ReconcileRaises
    <2>4. CASE DeferBusy(o)       BY <2>4 DEF DeferBusy
    <2>5. CASE ReadHighWater(o)   BY <2>5 DEF ReadHighWater
    <2> QED  BY <1>6, <2>1, <2>2, <2>3, <2>4, <2>5 DEF HandleOne
  <1>7. CASE HandleCurrent
    <2>1. CASE LookupFinds          BY <2>1 DEF LookupFinds
    <2>2. CASE LookupFindsNothing   BY <2>2 DEF LookupFindsNothing
    <2>3. CASE LookupRaises         BY <2>3 DEF LookupRaises
    <2>4. CASE ClaimSend            BY <2>4 DEF ClaimSend
    <2>5. CASE Dispatch             BY <2>5 DEF Dispatch
    <2>6. CASE Timeout              BY <2>6 DEF Timeout
    <2>7. CASE SettleConfirmed      BY <2>7 DEF SettleConfirmed
    <2>8. CASE SettleAmbiguousFound BY <2>8 DEF SettleAmbiguousFound
    <2>9. CASE SettleUnknown        BY <2>9 DEF SettleUnknown
    <2>10. CASE SettleFailed        BY <2>10 DEF SettleFailed
    <2> QED  BY <1>7, <2>1, <2>2, <2>3, <2>4, <2>5, <2>6, <2>7, <2>8, <2>9, <2>10
             DEF HandleCurrent
  <1>8. CASE AbortPass
    BY <1>8 DEF AbortPass
  <1>9. ASSUME NEW o \in Ops, GuiDelivers(o) PROVE TypeOK'
    BY <1>9 DEF GuiDelivers, NewRow
  <1>10. ASSUME NEW o \in Ops, NEW r \in Terminal, GuiReturns(o, r) PROVE TypeOK'
    BY <1>10 DEF GuiReturns
  <1>11. ASSUME NEW h \in Humans, HumanTypes(h) PROVE TypeOK'
    BY <1>11 DEF HumanTypes, NewRow
  <1>12. ASSUME NEW v \in 1..highWater, Flush(v) PROVE TypeOK'
    BY <1>12 DEF Flush
  <1>13. CASE Crash
    <2>1. interrupted' \subseteq Ops
      <3>1. CASE pc = "dispatch"  BY <1>13, <3>1 DEF Crash
      <3>2. CASE pc # "dispatch"  BY <1>13, <3>2 DEF Crash
      <3> QED  BY <3>1, <3>2
    <2>2. /\ up' \in BOOLEAN
          /\ pc' = "idle" /\ todo' = {} /\ cur' = None /\ guiOp' = None
      BY <1>13 DEF Crash
    <2>3. faults' \in Nat
      BY <1>13 DEF Crash
    <2>4. UNCHANGED <<store, base, result, wechat, dispatched>>
      BY <1>13 DEF Crash
    <2> QED  BY <2>1, <2>2, <2>3, <2>4
  <1>14. CASE Restart
    BY <1>14 DEF Restart
  <1> QED
    BY <1>0, <1>1, <1>2, <1>3, <1>4, <1>5, <1>6, <1>7, <1>8, <1>9, <1>10, <1>11,
       <1>12, <1>13, <1>14
    DEF Next, Process, Gui, Environment

\* Every reachable state is of the declared shape, for every instance.
THEOREM TypeCorrect == Spec => []TypeOK
  BY InitType, StepType, PTL DEF Spec
-----------------------------------------------------------------------------
(* The inductive step *)

\* The inductive invariant holds in an empty store with an idle GUI thread.
LEMMA InitInv == Init => IndInv
  BY InitType, ConstantsAssumption
  DEF Init, IndInv, PassInv, DispatchInv, OutcomeInv, SilentLossOnlyByCrash,
      ConfirmedHasEvidence, Authors

\* Confirming o on the evidence of a leaves every outcome accounted for.
LEMMA ConfirmKeepsOutcome ==
  ASSUME TypeOK, OutcomeInv, NEW o \in Ops, NEW a \in Authors, NEW b \in Nat,
         Newest(o, b, a), Finish(o, "confirmed", a),
         UNCHANGED <<row, dispatched, interrupted>>
  PROVE  OutcomeInv'
  <1>1. TextOf[a] = TextOf[o] /\ row[a] # 0
    BY NewestIsEvidence
  <1>2. SilentLossOnlyByCrash'
    BY DEF OutcomeInv, SilentLossOnlyByCrash, TypeOK, Finish
  <1>3. ASSUME NEW p \in Ops, opState'[p] = "confirmed"
        PROVE  /\ \E c \in Authors : TextOf[c] = TextOf[p] /\ row'[c] # 0
               /\ chan'[p] # None => TextOf[chan'[p]] = TextOf[p] /\ row'[chan'[p]] # 0
    <2>1. CASE p = o
      BY <1>1, <2>1 DEF TypeOK, Finish
    <2>2. CASE p # o
      BY <1>3, <2>2 DEF TypeOK, Finish, OutcomeInv, ConfirmedHasEvidence
    <2> QED  BY <2>1, <2>2
  <1> QED  BY <1>2, <1>3 DEF OutcomeInv, ConfirmedHasEvidence

\* No step of the executor, the GUI thread or the environment breaks it.
LEMMA StepInv == IndInv /\ [Next]_vars => IndInv'
  <1>0. SUFFICES ASSUME IndInv, [Next]_vars PROVE PassInv' /\ DispatchInv' /\ OutcomeInv'
    BY StepType DEF IndInv
  <1>t. TypeOK /\ TypeOK' /\ PassInv /\ DispatchInv /\ OutcomeInv
    BY <1>0, StepType DEF IndInv
  <1> USE <1>t, ConstantsAssumption
      DEF TypeOK, OpStates, Terminal, NoBaseline, Authors,
          store, pass, wechat, hist, Proceed, Finish,
          SilentLossOnlyByCrash, ConfirmedHasEvidence
  <1>1. CASE UNCHANGED vars
    BY <1>1 DEF vars, PassInv, DispatchInv, OutcomeInv
  <1>2. ASSUME NEW o \in Ops, CreateSend(o)
       PROVE  PassInv' /\ DispatchInv' /\ OutcomeInv'
    <2>1. PassInv'      BY <1>2 DEF PassInv, DispatchInv, CreateSend
    <2>2. DispatchInv'  BY <1>2 DEF PassInv, DispatchInv, CreateSend
    <2>3. OutcomeInv'   BY <1>2 DEF PassInv, DispatchInv, OutcomeInv, CreateSend
    <2> QED  BY <2>1, <2>2, <2>3
  <1>3. ASSUME NEW o \in Ops, LeaseExpires(o)
       PROVE  PassInv' /\ DispatchInv' /\ OutcomeInv'
    <2>1. PassInv'      BY <1>3 DEF PassInv, DispatchInv, LeaseExpires
    <2>2. DispatchInv'  BY <1>3 DEF PassInv, DispatchInv, LeaseExpires
    <2>3. OutcomeInv'   BY <1>3 DEF PassInv, DispatchInv, OutcomeInv, LeaseExpires
    <2> QED  BY <2>1, <2>2, <2>3
  <1>4. CASE StartPass
    <2>1. PassInv'      BY <1>4 DEF PassInv, DispatchInv, StartPass, ForReconciliation, ForExecution, Oldest
    <2>2. DispatchInv'  BY <1>4 DEF PassInv, DispatchInv, StartPass, ForReconciliation, ForExecution, Oldest
    <2>3. OutcomeInv'   BY <1>4 DEF PassInv, DispatchInv, OutcomeInv, StartPass, ForReconciliation, ForExecution, Oldest
    <2> QED  BY <2>1, <2>2, <2>3
  <1>5. CASE EndPass
    <2>1. PassInv'      BY <1>5 DEF PassInv, DispatchInv, EndPass
    <2>2. DispatchInv'  BY <1>5 DEF PassInv, DispatchInv, EndPass
    <2>3. OutcomeInv'   BY <1>5 DEF PassInv, DispatchInv, OutcomeInv, EndPass
    <2> QED  BY <2>1, <2>2, <2>3
  <1>6. ASSUME NEW o \in Ops, RejectLegacy(o)
       PROVE  PassInv' /\ DispatchInv' /\ OutcomeInv'
    <2>1. PassInv'      BY <1>6 DEF PassInv, DispatchInv, RejectLegacy, IsNext
    <2>2. DispatchInv'  BY <1>6 DEF PassInv, DispatchInv, RejectLegacy, IsNext
    <2>3. OutcomeInv'   BY <1>6 DEF PassInv, DispatchInv, OutcomeInv, RejectLegacy, IsNext
    <2> QED  BY <2>1, <2>2, <2>3
  <1>7. ASSUME NEW o \in Ops, Reconcile(o)
       PROVE  PassInv' /\ DispatchInv' /\ OutcomeInv'
    <2>1. PassInv'      BY <1>7 DEF PassInv, DispatchInv, Reconcile, IsNext
    <2>2. DispatchInv'  BY <1>7 DEF PassInv, DispatchInv, Reconcile, IsNext
    <2>3. OutcomeInv'
      <3>1. baseline[o] \in Nat /\ UNCHANGED <<row, dispatched, interrupted>>
        BY <1>7 DEF Reconcile, DispatchInv
      <3>2. CASE \E a \in Authors : Newest(o, baseline[o], a) /\ Finish(o, "confirmed", a)
        BY ONLY <1>t, <3>1, <3>2, ConfirmKeepsOutcome
      <3>3. CASE Finish(o, "unknown", None)
        BY <1>7, <3>1, <3>3 DEF Reconcile, IsNext, DispatchInv, OutcomeInv
      <3> QED  BY <1>7, <3>2, <3>3 DEF Reconcile
    <2> QED  BY <2>1, <2>2, <2>3
  <1>8. ASSUME NEW o \in Ops, ReconcileRaises(o)
       PROVE  PassInv' /\ DispatchInv' /\ OutcomeInv'
    <2>1. PassInv'      BY <1>8 DEF PassInv, DispatchInv, ReconcileRaises, IsNext
    <2>2. DispatchInv'  BY <1>8 DEF PassInv, DispatchInv, ReconcileRaises, IsNext
    <2>3. OutcomeInv'   BY <1>8 DEF PassInv, DispatchInv, OutcomeInv, ReconcileRaises, IsNext
    <2> QED  BY <2>1, <2>2, <2>3
  <1>9. ASSUME NEW o \in Ops, DeferBusy(o)
       PROVE  PassInv' /\ DispatchInv' /\ OutcomeInv'
    <2>1. PassInv'      BY <1>9 DEF PassInv, DispatchInv, DeferBusy, IsNext
    <2>2. DispatchInv'  BY <1>9 DEF PassInv, DispatchInv, DeferBusy, IsNext
    <2>3. OutcomeInv'   BY <1>9 DEF PassInv, DispatchInv, OutcomeInv, DeferBusy, IsNext
    <2> QED  BY <2>1, <2>2, <2>3
  <1>10. ASSUME NEW o \in Ops, ReadHighWater(o)
       PROVE  PassInv' /\ DispatchInv' /\ OutcomeInv'
    <2>1. PassInv'      BY <1>10 DEF PassInv, DispatchInv, ReadHighWater, IsNext
    <2>2. DispatchInv'  BY <1>10 DEF PassInv, DispatchInv, ReadHighWater, IsNext
    <2>3. OutcomeInv'   BY <1>10 DEF PassInv, DispatchInv, OutcomeInv, ReadHighWater, IsNext
    <2> QED  BY <2>1, <2>2, <2>3
  <1>11. CASE LookupFinds
    <2>1. PassInv'      BY <1>11 DEF PassInv, DispatchInv, LookupFinds
    <2>2. DispatchInv'  BY <1>11 DEF PassInv, DispatchInv, LookupFinds
    <2>3. OutcomeInv'
      <3>1. PICK a \in Authors : Newest(cur, base, a) /\ Finish(cur, "confirmed", a)
        BY <1>11 DEF LookupFinds
      <3>2. cur \in Ops /\ base \in Nat /\ UNCHANGED <<row, dispatched, interrupted>>
        BY <1>11 DEF LookupFinds
      <3> QED  BY ONLY <1>t, <3>1, <3>2, ConfirmKeepsOutcome
    <2> QED  BY <2>1, <2>2, <2>3
  <1>12. CASE LookupFindsNothing
    <2>1. PassInv'      BY <1>12 DEF PassInv, DispatchInv, LookupFindsNothing
    <2>2. DispatchInv'  BY <1>12 DEF PassInv, DispatchInv, LookupFindsNothing
    <2>3. OutcomeInv'   BY <1>12 DEF PassInv, DispatchInv, OutcomeInv, LookupFindsNothing
    <2> QED  BY <2>1, <2>2, <2>3
  <1>13. CASE LookupRaises
    <2>1. PassInv'      BY <1>13 DEF PassInv, DispatchInv, LookupRaises
    <2>2. DispatchInv'  BY <1>13 DEF PassInv, DispatchInv, LookupRaises
    <2>3. OutcomeInv'   BY <1>13 DEF PassInv, DispatchInv, OutcomeInv, LookupRaises
    <2> QED  BY <2>1, <2>2, <2>3
  <1>14. CASE ClaimSend
    <2>1. PassInv'      BY <1>14 DEF PassInv, DispatchInv, ClaimSend
    <2>2. DispatchInv'  BY <1>14 DEF PassInv, DispatchInv, ClaimSend
    <2>3. OutcomeInv'   BY <1>14 DEF PassInv, DispatchInv, OutcomeInv, ClaimSend
    <2> QED  BY <2>1, <2>2, <2>3
  <1>15. CASE Dispatch
    <2>1. PassInv'      BY <1>15 DEF PassInv, DispatchInv, Dispatch
    <2>2. DispatchInv'  BY <1>15 DEF PassInv, DispatchInv, Dispatch
    <2>3. OutcomeInv'   BY <1>15 DEF PassInv, DispatchInv, OutcomeInv, Dispatch
    <2> QED  BY <2>1, <2>2, <2>3
  <1>16. CASE Timeout
    <2>1. PassInv'      BY <1>16 DEF PassInv, DispatchInv, Timeout
    <2>2. DispatchInv'  BY <1>16 DEF PassInv, DispatchInv, Timeout
    <2>3. OutcomeInv'   BY <1>16 DEF PassInv, DispatchInv, OutcomeInv, Timeout
    <2> QED  BY <2>1, <2>2, <2>3
  <1>17. CASE SettleConfirmed
    <2>1. PassInv'      BY <1>17 DEF PassInv, DispatchInv, SettleConfirmed
    <2>2. DispatchInv'  BY <1>17 DEF PassInv, DispatchInv, SettleConfirmed
    <2>3. OutcomeInv'
      <3>1. cur \in Ops /\ baseline[cur] \in Nat /\ row[cur] # 0
            /\ UNCHANGED <<row, dispatched, interrupted>>
        BY <1>17 DEF SettleConfirmed, PassInv, DispatchInv
      <3>2. CASE \E a \in Authors : Newest(cur, baseline[cur], a) /\ Finish(cur, "confirmed", a)
        BY ONLY <1>t, <3>1, <3>2, ConfirmKeepsOutcome
      <3>3. CASE Finish(cur, "confirmed", None)
        BY <3>1, <3>3 DEF OutcomeInv
      <3> QED  BY <1>17, <3>2, <3>3 DEF SettleConfirmed
    <2> QED  BY <2>1, <2>2, <2>3
  <1>18. CASE SettleAmbiguousFound
    <2>1. PassInv'      BY <1>18 DEF PassInv, DispatchInv, SettleAmbiguousFound
    <2>2. DispatchInv'  BY <1>18 DEF PassInv, DispatchInv, SettleAmbiguousFound
    <2>3. OutcomeInv'
      <3>1. PICK a \in Authors : Newest(cur, baseline[cur], a) /\ Finish(cur, "confirmed", a)
        BY <1>18 DEF SettleAmbiguousFound
      <3>2. cur \in Ops /\ baseline[cur] \in Nat /\ UNCHANGED <<row, dispatched, interrupted>>
        BY <1>18 DEF SettleAmbiguousFound, PassInv, DispatchInv
      <3> QED  BY ONLY <1>t, <3>1, <3>2, ConfirmKeepsOutcome
    <2> QED  BY <2>1, <2>2, <2>3
  <1>19. CASE SettleUnknown
    <2>1. PassInv'      BY <1>19 DEF PassInv, DispatchInv, SettleUnknown
    <2>2. DispatchInv'  BY <1>19 DEF PassInv, DispatchInv, SettleUnknown
    <2>3. OutcomeInv'   BY <1>19 DEF PassInv, DispatchInv, OutcomeInv, SettleUnknown
    <2> QED  BY <2>1, <2>2, <2>3
  <1>20. CASE SettleFailed
    <2>1. PassInv'      BY <1>20 DEF PassInv, DispatchInv, SettleFailed
    <2>2. DispatchInv'  BY <1>20 DEF PassInv, DispatchInv, SettleFailed
    <2>3. OutcomeInv'   BY <1>20 DEF PassInv, DispatchInv, OutcomeInv, SettleFailed
    <2> QED  BY <2>1, <2>2, <2>3
  <1>21. CASE AbortPass
    <2>1. PassInv'      BY <1>21 DEF PassInv, DispatchInv, AbortPass
    <2>2. DispatchInv'  BY <1>21 DEF PassInv, DispatchInv, AbortPass
    <2>3. OutcomeInv'   BY <1>21 DEF PassInv, DispatchInv, OutcomeInv, AbortPass
    <2> QED  BY <2>1, <2>2, <2>3
  <1>22. ASSUME NEW o \in Ops, GuiDelivers(o)
       PROVE  PassInv' /\ DispatchInv' /\ OutcomeInv'
    <2>1. PassInv'      BY <1>22 DEF PassInv, DispatchInv, GuiDelivers, NewRow
    <2>2. DispatchInv'  BY <1>22 DEF PassInv, DispatchInv, GuiDelivers, NewRow
    <2>3. OutcomeInv'   BY <1>22 DEF PassInv, DispatchInv, OutcomeInv, GuiDelivers, NewRow
    <2> QED  BY <2>1, <2>2, <2>3
  <1>23. ASSUME NEW o \in Ops, NEW r \in Terminal, GuiReturns(o, r)
       PROVE  PassInv' /\ DispatchInv' /\ OutcomeInv'
    <2>1. PassInv'      BY <1>23 DEF PassInv, DispatchInv, GuiReturns
    <2>2. DispatchInv'  BY <1>23 DEF PassInv, DispatchInv, GuiReturns
    <2>3. OutcomeInv'   BY <1>23 DEF PassInv, DispatchInv, OutcomeInv, GuiReturns
    <2> QED  BY <2>1, <2>2, <2>3
  <1>24. ASSUME NEW h \in Humans, HumanTypes(h)
       PROVE  PassInv' /\ DispatchInv' /\ OutcomeInv'
    <2>1. PassInv'      BY <1>24 DEF PassInv, DispatchInv, HumanTypes, NewRow
    <2>2. DispatchInv'  BY <1>24 DEF PassInv, DispatchInv, HumanTypes, NewRow
    <2>3. OutcomeInv'   BY <1>24 DEF PassInv, DispatchInv, OutcomeInv, HumanTypes, NewRow
    <2> QED  BY <2>1, <2>2, <2>3
  <1>25. ASSUME NEW v \in 1..highWater, Flush(v)
       PROVE  PassInv' /\ DispatchInv' /\ OutcomeInv'
    <2>1. PassInv'      BY <1>25 DEF PassInv, DispatchInv, Flush
    <2>2. DispatchInv'  BY <1>25 DEF PassInv, DispatchInv, Flush
    <2>3. OutcomeInv'   BY <1>25 DEF PassInv, DispatchInv, OutcomeInv, Flush
    <2> QED  BY <2>1, <2>2, <2>3
  <1>26. CASE Crash
    <2>1. PassInv'      BY <1>26 DEF PassInv, DispatchInv, Crash
    <2>2. DispatchInv'  BY <1>26 DEF PassInv, DispatchInv, Crash
    <2>3. OutcomeInv'   BY <1>26 DEF PassInv, DispatchInv, OutcomeInv, Crash
    <2> QED  BY <2>1, <2>2, <2>3
  <1>27. CASE Restart
    <2>1. PassInv'      BY <1>27 DEF PassInv, DispatchInv, Restart
    <2>2. DispatchInv'  BY <1>27 DEF PassInv, DispatchInv, Restart
    <2>3. OutcomeInv'   BY <1>27 DEF PassInv, DispatchInv, OutcomeInv, Restart
    <2> QED  BY <2>1, <2>2, <2>3
  <1> QED
    BY <1>0, <1>1, <1>2, <1>3, <1>4, <1>5, <1>6, <1>7, <1>8, <1>9, 
       <1>10, <1>11, <1>12, <1>13, <1>14, <1>15, <1>16, <1>17, <1>18, <1>19, 
       <1>20, <1>21, <1>22, <1>23, <1>24, <1>25, <1>26, <1>27
    DEF Next, Process, HandleOne, HandleCurrent, Gui, Environment

\* Where the pass stands, what was handed over and how operations end agree in
\* every reachable state: all the safety properties below rest on this.
THEOREM Inductive == Spec => []IndInv
  BY InitInv, StepInv, PTL DEF Spec

-----------------------------------------------------------------------------
(* The safety properties *)

\* No operation is ever handed to the GUI twice: process_send_operations keeps
\* the promise of its docstring across crashes, leases, timeouts and retries.
THEOREM GuiAtMostOnce == Spec => []AtMostOnceGui
  <1>1. IndInv => AtMostOnceGui
    BY DEF IndInv, DispatchInv, AtMostOnceGui
  <1> QED  BY Inductive, <1>1, PTL

\* A2: an operation that never reached the GUI ends as unknown only when the
\* process died between the claim and the hand-over.
THEOREM LossOnlyByCrash == Spec => []SilentLossOnlyByCrash
  <1>1. IndInv => SilentLossOnlyByCrash
    BY DEF IndInv, OutcomeInv
  <1> QED  BY Inductive, <1>1, PTL

\* A failed operation has no message in WeChat and never gets one.
THEOREM FailedIsUndelivered == Spec => []FailedNeverDelivered
  <1>1. IndInv => FailedNeverDelivered
    BY DEF IndInv, DispatchInv, FailedNeverDelivered
  <1> QED  BY Inductive, <1>1, PTL

\* A confirmed operation rests on a message of ours with its text.
THEOREM ConfirmedOnEvidence == Spec => []ConfirmedHasEvidence
  <1>1. IndInv => ConfirmedHasEvidence
    BY DEF IndInv, OutcomeInv
  <1> QED  BY Inductive, <1>1, PTL

-----------------------------------------------------------------------------
(* The executor implements SendContract *)

\* The executor starts where the contract starts.
LEMMA InitImplements == Init => Contract!Init
  BY ConstantsAssumption DEF Init, Contract!Init, Authors

\* Settling o in the executor is settling it in the contract.
LEMMA FinishImplements ==
  ASSUME TypeOK, NEW o \in Ops, NEW s \in Terminal, NEW a \in Authors \cup {None},
         Finish(o, s, a),
         opState[o] = "executing" \/ (opState[o] = "pending" /\ s # "unknown"),
         s = "confirmed" => \E c \in Authors : TextOf[c] = TextOf[o] /\ row[c] # 0,
         s = "failed" => row[o] = 0 /\ guiOp # o,
         a # None => s = "confirmed" /\ o \in TextOps /\ TextOf[a] = TextOf[o] /\ row[a] # 0,
         UNCHANGED <<guiOp, dispatched, row>>
  PROVE  Contract!Settle(o, s, a)
  BY DEF Finish, Contract!Settle, Contract!Evidence

\* A new row of the WeChat database adds its author to the contract's sent.
LEMMA DeliverImplements ==
  ASSUME TypeOK, NEW a \in Authors, NewRow(a)
  PROVE  /\ a \notin {c \in Authors : row[c] # 0}
         /\ {c \in Authors : row[c] # 0}' = {c \in Authors : row[c] # 0} \cup {a}
  BY DEF NewRow, TypeOK

\* Every step of the executor is a step of the contract or a stutter.
LEMMA StepImplements == IndInv /\ [Next]_vars => [Contract!Next]_(Contract!vars)
  <1>0. SUFFICES ASSUME IndInv, [Next]_vars PROVE [Contract!Next]_(Contract!vars)
    OBVIOUS
  <1>t. TypeOK /\ PassInv /\ DispatchInv
    BY <1>0 DEF IndInv
  <1>s. ASSUME UNCHANGED <<opState, chan, guiOp, dispatched, row>>
        PROVE  UNCHANGED Contract!vars
    BY <1>s DEF Contract!vars
  <1>e. ASSUME NEW o \in Ops, NEW s \in Terminal, NEW a \in Authors \cup {None},
               Finish(o, s, a),
               opState[o] = "executing" \/ (opState[o] = "pending" /\ s # "unknown"),
               s = "confirmed" => \E c \in Authors : TextOf[c] = TextOf[o] /\ row[c] # 0,
               s = "failed" => row[o] = 0 /\ guiOp # o,
               a # None => s = "confirmed" /\ o \in TextOps /\ TextOf[a] = TextOf[o] /\ row[a] # 0,
               UNCHANGED <<guiOp, dispatched, row>>
        PROVE  Contract!Next
    <2>1. Contract!Settle(o, s, a)
      BY <1>t, <1>e, FinishImplements
    <2> QED
      BY <2>1 DEF Contract!Next, Contract!Terminal, Contract!Authors, Terminal, Authors
  <1> USE DEF store, pass, wechat, hist, Proceed
  <1>1. CASE UNCHANGED vars
    BY <1>1, <1>s DEF vars
  <1>2. ASSUME NEW o \in Ops, CreateSend(o) PROVE Contract!Next
    <2>1. Contract!Create(o)
      BY <1>2 DEF CreateSend, Contract!Create
    <2> QED  BY <2>1 DEF Contract!Next
  <1>3. ASSUME NEW o \in Ops, RejectLegacy(o) PROVE Contract!Next
    <2>1. Finish(o, "failed", None) /\ UNCHANGED <<guiOp, dispatched, row>>
      BY <1>3 DEF RejectLegacy
    <2>2. opState[o] = "pending" /\ row[o] = 0 /\ guiOp # o
      BY <1>3, <1>t, ConstantsAssumption
      DEF RejectLegacy, IsNext, PassInv, DispatchInv, TypeOK, Authors
    <2> QED  BY <1>e, <2>1, <2>2 DEF Terminal
  <1>4. ASSUME NEW o \in Ops, Reconcile(o) PROVE Contract!Next
    <2>1. opState[o] = "executing" /\ UNCHANGED <<guiOp, dispatched, row>>
      BY <1>4 DEF Reconcile
    <2>2. baseline[o] \in Nat
      BY <1>t, <2>1 DEF DispatchInv, TypeOK
    <2>3. CASE o \in TextOps /\ \E a \in Authors :
                  Newest(o, baseline[o], a) /\ Finish(o, "confirmed", a)
      BY <1>e, <1>t, <2>1, <2>2, <2>3, NewestIsEvidence DEF Terminal
    <2>4. CASE Finish(o, "unknown", None)
      BY <1>e, <2>1, <2>4 DEF Terminal
    <2> QED  BY <1>4, <2>3, <2>4 DEF Reconcile
  <1>5. ASSUME NEW o \in Ops, ReconcileRaises(o) PROVE Contract!Next
    BY <1>5, <1>e DEF ReconcileRaises, Terminal
  <1>6. CASE LookupFinds
    <2>1. PICK a \in Authors : Newest(cur, base, a) /\ Finish(cur, "confirmed", a)
      BY <1>6 DEF LookupFinds
    <2>2. /\ cur \in Ops /\ base \in Nat /\ opState[cur] = "pending" /\ cur \in TextOps
          /\ UNCHANGED <<guiOp, dispatched, row>>
      BY <1>6, <1>t DEF LookupFinds, TypeOK, PassInv
    <2>3. TextOf[a] = TextOf[cur] /\ row[a] # 0
      BY <1>t, <2>1, <2>2, NewestIsEvidence
    <2> QED  BY <1>e, <2>1, <2>2, <2>3 DEF Terminal
  <1>7. CASE ClaimSend
    <2>1. cur \in Ops /\ opState[cur] = "pending"
      BY <1>7, <1>t DEF ClaimSend, TypeOK, PassInv
    <2>2. CASE cur \notin leased
      <3>1. Contract!Claim(cur)
        BY <1>7, <2>1, <2>2 DEF ClaimSend, Contract!Claim
      <3> QED  BY <2>1, <3>1 DEF Contract!Next
    <2>3. CASE cur \in leased
      BY <1>7, <2>3, <1>s DEF ClaimSend
    <2> QED  BY <2>2, <2>3
  <1>8. CASE Dispatch
    <2>1. Contract!HandOver(cur)
      BY <1>8, <1>t DEF Dispatch, TypeOK, PassInv, Contract!HandOver
    <2> QED  BY <1>8, <1>t, <2>1 DEF Dispatch, TypeOK, Contract!Next
  <1>9. CASE SettleConfirmed
    <2>1. /\ cur \in Ops /\ opState[cur] = "executing" /\ row[cur] # 0
          /\ baseline[cur] \in Nat
          /\ UNCHANGED <<guiOp, dispatched, row>>
      BY <1>9, <1>t DEF SettleConfirmed, TypeOK, PassInv, DispatchInv
    <2>2. CASE cur \in TextOps /\ \E a \in Authors :
                  Newest(cur, baseline[cur], a) /\ Finish(cur, "confirmed", a)
      BY <1>e, <1>t, <2>1, <2>2, NewestIsEvidence DEF Terminal
    <2>3. CASE Finish(cur, "confirmed", None)
      BY <1>e, <2>1, <2>3 DEF Terminal, Authors
    <2> QED  BY <1>9, <2>2, <2>3 DEF SettleConfirmed
  <1>10. CASE SettleAmbiguousFound
    <2>1. PICK a \in Authors : Newest(cur, baseline[cur], a) /\ Finish(cur, "confirmed", a)
      BY <1>10 DEF SettleAmbiguousFound
    <2>2. /\ cur \in Ops /\ baseline[cur] \in Nat /\ opState[cur] = "executing" /\ cur \in TextOps
          /\ UNCHANGED <<guiOp, dispatched, row>>
      BY <1>10, <1>t DEF SettleAmbiguousFound, TypeOK, PassInv, DispatchInv
    <2>3. TextOf[a] = TextOf[cur] /\ row[a] # 0
      BY <1>t, <2>1, <2>2, NewestIsEvidence
    <2> QED  BY <1>e, <2>1, <2>2, <2>3 DEF Terminal
  <1>11. CASE SettleUnknown
    <2>1. cur \in Ops /\ opState[cur] = "executing"
      BY <1>11, <1>t DEF SettleUnknown, TypeOK, PassInv
    <2> QED  BY <1>11, <1>e, <2>1 DEF SettleUnknown, Terminal
  <1>12. CASE SettleFailed
    <2>1. cur \in Ops /\ opState[cur] = "executing" /\ row[cur] = 0 /\ guiOp # cur
      BY <1>12, <1>t DEF SettleFailed, TypeOK, PassInv
    <2> QED  BY <1>12, <1>e, <2>1 DEF SettleFailed, Terminal
  <1>13. ASSUME NEW o \in Ops, GuiDelivers(o) PROVE Contract!Next
    <2>1. Contract!Deliver(o)
      BY <1>13, <1>t, DeliverImplements DEF GuiDelivers, Contract!Deliver, Authors
    <2> QED  BY <2>1 DEF Contract!Next
  <1>14. ASSUME NEW o \in Ops, NEW r \in Terminal, GuiReturns(o, r) PROVE Contract!Next
    <2>1. Contract!Release
      BY <1>14, ConstantsAssumption DEF GuiReturns, Contract!Release, Authors
    <2> QED  BY <2>1 DEF Contract!Next
  <1>15. ASSUME NEW h \in Humans, HumanTypes(h) PROVE Contract!Next
    <2>1. Contract!HumanTypes(h)
      BY <1>15, <1>t, DeliverImplements DEF HumanTypes, Contract!HumanTypes, Authors
    <2> QED  BY <2>1 DEF Contract!Next
  <1>16. CASE Crash
    <2>1. CASE guiOp = None
      BY <1>16, <2>1, <1>s DEF Crash
    <2>2. CASE guiOp # None
      <3>1. Contract!Release
        BY <1>16, <2>2 DEF Crash, Contract!Release
      <3> QED  BY <3>1 DEF Contract!Next
    <2> QED  BY <2>1, <2>2
  <1>17. CASE \E o \in Ops : LeaseExpires(o) \/ DeferBusy(o) \/ ReadHighWater(o)
    BY <1>17, <1>s DEF LeaseExpires, DeferBusy, ReadHighWater
  <1>18. CASE StartPass \/ EndPass \/ LookupFindsNothing \/ LookupRaises \/ Timeout
    BY <1>18, <1>s DEF StartPass, EndPass, LookupFindsNothing, LookupRaises, Timeout
  <1>19. CASE AbortPass \/ Restart \/ \E v \in 1..highWater : Flush(v)
    BY <1>19, <1>s DEF AbortPass, Restart, Flush
  <1> QED
    BY <1>0, <1>1, <1>2, <1>3, <1>4, <1>5, <1>6, <1>7, <1>8, <1>9, <1>10, <1>11,
       <1>12, <1>13, <1>14, <1>15, <1>16, <1>17, <1>18, <1>19
    DEF Next, Process, HandleOne, HandleCurrent, Gui, Environment

\* The durable send executor implements the contract the Core relies on.
THEOREM ExecutorImplementsContract == Spec => ImplementsContract
  BY InitImplements, StepImplements, Inductive, PTL
  DEF Spec, ImplementsContract, Contract!Spec
=============================================================================
