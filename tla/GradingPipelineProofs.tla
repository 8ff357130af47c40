----------------------- MODULE GradingPipelineProofs -----------------------
(***************************************************************************)
(* Proofs about GradingPipeline for every number of submissions, workers   *)
(* and slots, every stall limit and every number of faults.                *)
(***************************************************************************)
EXTENDS GradingPipeline, TLAPS

(* The steps of a slot and the other steps, flattened. *)
LEMMA NextCases ==
  ASSUME Next
  PROVE  \/ \E s \in Submissions :
              \/ Insert(s) \/ AddApplied(s) \/ Accept(s) \/ EnqueueTimeout(s)
              \/ AddRejected(s) \/ Refuse(s) \/ RowDeleted(s)
              \/ LockLapses(s) \/ StalledCheck(s)
         \/ ApiDies
         \/ \E k \in Slots, s \in Submissions : Fetch(k, s)
         \/ \E k \in Slots :
              \/ MarkRunning(k) \/ ReadRow(k) \/ Grade(k) \/ Save(k)
              \/ Complete(k) \/ Throw(k) \/ ReportFailure(k)
         \/ \E w \in Workers, s \in Submissions : FailedHandler(w, s)
         \/ \E w \in Workers : Sigterm(w) \/ Exit(w) \/ Die(w) \/ Restart(w)
  BY DEF Next, Request, GradeStep, Queue, Process

(* A step either leaves the history of faults alone or adds to it. *)
LEMMA FaultHistoryStep ==
  ASSUME FaultHistory, [Next]_vars
  PROVE  FaultHistory'
  <1>1. ASSUME NEW kind, Strike(kind) PROVE FaultHistory'
    BY <1>1, PipelineAssumption DEF FaultHistory, Strike
  <1>2. UNCHANGED faults => FaultHistory'
    BY DEF FaultHistory
  <1>3. CASE Next
    <2> USE <1>1, <1>2
    <2>1. CASE \E s \in Submissions : Request(s) \/ Queue(s)
      BY <2>1 DEF Request, Queue, Insert, AddApplied, Accept, EnqueueTimeout,
                  AddRejected, Refuse, RowDeleted, LockLapses, StalledCheck
    <2>2. CASE ApiDies \/ \E k \in Slots, s \in Submissions : Fetch(k, s)
      BY <2>2 DEF ApiDies, Fetch
    <2>3. CASE \E k \in Slots : GradeStep(k)
      BY <2>3 DEF GradeStep, MarkRunning, ReadRow, Grade, Save, Complete, Throw,
                  ReportFailure
    <2>4. CASE \/ \E w \in Workers, s \in Submissions : FailedHandler(w, s)
               \/ \E w \in Workers : Process(w)
      BY <2>4 DEF FailedHandler, Process, Sigterm, Exit, Die, Restart
    <2>5. QED BY <1>3, <2>1, <2>2, <2>3, <2>4 DEF Next
  <1>4. QED BY <1>2, <1>3 DEF vars

TypeInv == TypeOK /\ SlotInv

(* Slots and pending handlers always name real submissions, so the type    *)
(* invariant needs SlotInv beside it to be preserved by a step.            *)
LEMMA TypeInvStep ==
  ASSUME TypeInv, [Next]_vars
  PROVE  TypeInv'
  <1>0. FaultHistory'
    BY FaultHistoryStep DEF TypeInv, TypeOK
  <1> USE <1>0, PipelineAssumption DEF TypeInv, TypeOK, SlotInv, Outcomes, Settled, Steps
  <1>1. ASSUME NEW s \in Submissions, Insert(s) PROVE TypeInv'
    BY <1>1 DEF Insert, queueVars, workerVars, slotVars
  <1>2. ASSUME NEW s \in Submissions, AddApplied(s) PROVE TypeInv'
    BY <1>2 DEF AddApplied, rowVars, workerVars, slotVars
  <1>3. ASSUME NEW s \in Submissions, Accept(s) PROVE TypeInv'
    BY <1>3 DEF Accept, rowVars, queueVars, workerVars, slotVars
  <1>4. ASSUME NEW s \in Submissions, EnqueueTimeout(s) PROVE TypeInv'
    BY <1>4 DEF EnqueueTimeout, rowVars, queueVars, workerVars, slotVars
  <1>5. ASSUME NEW s \in Submissions, AddRejected(s) PROVE TypeInv'
    BY <1>5 DEF AddRejected, rowVars, queueVars, workerVars, slotVars
  <1>6. ASSUME NEW s \in Submissions, Refuse(s) PROVE TypeInv'
    BY <1>6 DEF Refuse, SetStatus, RowExists, queueVars, workerVars, slotVars
  <1>7. ASSUME NEW s \in Submissions, RowDeleted(s) PROVE TypeInv'
    BY <1>7 DEF RowDeleted, apiVars, queueVars, workerVars, slotVars
  <1>8. ASSUME NEW s \in Submissions, LockLapses(s) PROVE TypeInv'
    BY <1>8 DEF LockLapses, rowVars, apiVars, workerVars, slotVars
  <1>9. ASSUME NEW s \in Submissions, StalledCheck(s) PROVE TypeInv'
    <2>1. stalls' \in [Submissions -> 0 .. (MaxStalls + 1)]
      BY <1>9 DEF StalledCheck
    <2>2. QED BY <1>9, <2>1 DEF StalledCheck, rowVars, apiVars, workerVars, slotVars
  <1>10. CASE ApiDies
    BY <1>10 DEF ApiDies, apiVars, rowVars, queueVars, workerVars, slotVars
  <1>11. ASSUME NEW k \in Slots, NEW s \in Submissions, Fetch(k, s) PROVE TypeInv'
    BY <1>11 DEF Fetch, rowVars, apiVars
  <1>12. ASSUME NEW k \in Slots, MarkRunning(k) PROVE TypeInv'
    BY <1>12 DEF MarkRunning, Step, SetStatus, RowExists, apiVars, queueVars
  <1>13. ASSUME NEW k \in Slots, ReadRow(k) PROVE TypeInv'
    BY <1>13 DEF ReadRow, Step, RowExists, rowVars, apiVars, queueVars
  <1>14. ASSUME NEW k \in Slots, Grade(k) PROVE TypeInv'
    BY <1>14 DEF Grade, Step, rowVars, apiVars, queueVars
  <1>15. ASSUME NEW k \in Slots, Save(k) PROVE TypeInv'
    BY <1>15 DEF Save, Step, SetStatus, RowExists, StatusOf, apiVars, queueVars
  <1>16. ASSUME NEW k \in Slots, Complete(k) PROVE TypeInv'
    BY <1>16 DEF Complete, FreeSlot, rowVars, apiVars
  <1>17. ASSUME NEW k \in Slots, Throw(k) PROVE TypeInv'
    BY <1>17 DEF Throw, rowVars, apiVars, queueVars
  <1>18. ASSUME NEW k \in Slots, ReportFailure(k) PROVE TypeInv'
    <2>1. on[k] \in Submissions /\ WorkerOf[k] \in Workers
      BY <1>18 DEF ReportFailure
    <2>2. QED BY <1>18, <2>1 DEF ReportFailure, FreeSlot, rowVars, apiVars
  <1>19. ASSUME NEW w \in Workers, NEW s \in Submissions, FailedHandler(w, s) PROVE TypeInv'
    BY <1>19 DEF FailedHandler, SetStatus, RowExists, apiVars, queueVars, slotVars
  <1>20. ASSUME NEW w \in Workers, Sigterm(w) PROVE TypeInv'
    BY <1>20 DEF Sigterm, rowVars, apiVars, queueVars, slotVars
  <1>21. ASSUME NEW w \in Workers, Exit(w) PROVE TypeInv'
    BY <1>21 DEF Exit, rowVars, apiVars, queueVars, slotVars
  <1>22. ASSUME NEW w \in Workers, Die(w) PROVE TypeInv'
    BY <1>22 DEF Die, rowVars, apiVars, queueVars
  <1>23. ASSUME NEW w \in Workers, Restart(w) PROVE TypeInv'
    BY <1>23 DEF Restart, rowVars, apiVars, queueVars, slotVars
  <1>24. CASE UNCHANGED vars
    BY <1>24 DEF vars, rowVars, apiVars, queueVars, workerVars, slotVars
  <1>25. QED
    BY <1>1, <1>2, <1>3, <1>4, <1>5, <1>6, <1>7, <1>8, <1>9, <1>10, <1>11, <1>12,
       <1>13, <1>14, <1>15, <1>16, <1>17, <1>18, <1>19, <1>20, <1>21, <1>22, <1>23,
       <1>24, NextCases

LEMMA TypeInvariance == Spec => []TypeInv
  <1>1. Init => TypeInv
    <2>1. Init => FaultHistory
      BY PipelineAssumption DEF Init, FaultHistory
    <2>2. QED
      BY <2>1, PipelineAssumption
      DEF Init, TypeInv, TypeOK, SlotInv, Outcomes, Settled, Steps
  <1>2. TypeInv /\ [Next]_vars => TypeInv'
    BY TypeInvStep
  <1>3. QED BY <1>1, <1>2, PTL DEF Spec

(* The types of all variables, and with SlotInv no submission in the hand  *)
(* of a slot that is idle or dead: in every reachable state.               *)
THEOREM Typing == Spec => []TypeOK
  BY TypeInvariance, PTL DEF TypeInv

(* A step keeps the delivery invariant: until a job stalls, the steps that  *)
(* write a status are those of its one slot and of the 'failed' handler.    *)
LEMMA DeliveryInvStep ==
  ASSUME TypeInv, TypeInv', DeliveryInv, [Next]_vars
  PROVE  DeliveryInv'
  <1> USE PipelineAssumption DEF TypeInv, TypeOK, DeliveryInv, SlotInv, LockInv,
          SubmittedOnce, FirstDelivery
  <1>1. ASSUME NEW s \in Submissions, Insert(s) PROVE DeliveryInv'
    BY <1>1 DEF Insert, queueVars, workerVars, slotVars
  <1>2. ASSUME NEW s \in Submissions, AddApplied(s) PROVE DeliveryInv'
    BY <1>2 DEF AddApplied, rowVars, workerVars, slotVars
  <1>3. ASSUME NEW s \in Submissions, Accept(s) PROVE DeliveryInv'
    BY <1>3 DEF Accept, rowVars, queueVars, workerVars, slotVars
  <1>4. ASSUME NEW s \in Submissions, EnqueueTimeout(s) PROVE DeliveryInv'
    BY <1>4 DEF EnqueueTimeout, rowVars, queueVars, workerVars, slotVars
  <1>5. ASSUME NEW s \in Submissions, AddRejected(s) PROVE DeliveryInv'
    BY <1>5 DEF AddRejected, rowVars, queueVars, workerVars, slotVars
  <1>6. ASSUME NEW s \in Submissions, Refuse(s) PROVE DeliveryInv'
    BY <1>6 DEF Refuse, SetStatus, queueVars, workerVars, slotVars
  <1>7. ASSUME NEW s \in Submissions, RowDeleted(s) PROVE DeliveryInv'
    BY <1>7 DEF RowDeleted, apiVars, queueVars, workerVars, slotVars
  <1>8. ASSUME NEW s \in Submissions, LockLapses(s) PROVE DeliveryInv'
    BY <1>8 DEF LockLapses, rowVars, apiVars, workerVars, slotVars
  <1>9. ASSUME NEW s \in Submissions, StalledCheck(s) PROVE DeliveryInv'
    BY <1>9 DEF StalledCheck, rowVars, apiVars, workerVars, slotVars
  <1>10. CASE ApiDies
    BY <1>10 DEF ApiDies, rowVars, queueVars, workerVars, slotVars
  <1>11. ASSUME NEW k \in Slots, NEW s \in Submissions, Fetch(k, s) PROVE DeliveryInv'
    BY <1>11 DEF Fetch, rowVars, apiVars
  <1>12. ASSUME NEW k \in Slots, MarkRunning(k) PROVE DeliveryInv'
    BY <1>12 DEF MarkRunning, Step, SetStatus, apiVars, queueVars
  <1>13. ASSUME NEW k \in Slots, ReadRow(k) PROVE DeliveryInv'
    BY <1>13 DEF ReadRow, Step, rowVars, apiVars, queueVars
  <1>14. ASSUME NEW k \in Slots, Grade(k) PROVE DeliveryInv'
    BY <1>14 DEF Grade, Step, rowVars, apiVars, queueVars
  <1>15. ASSUME NEW k \in Slots, Save(k) PROVE DeliveryInv'
    BY <1>15 DEF Save, Step, SetStatus, apiVars, queueVars
  <1>16. ASSUME NEW k \in Slots, Complete(k) PROVE DeliveryInv'
    <2> DEFINE s == on[k]
    <2>1. s \in Submissions /\ pc[k] # "idle"
      BY <1>16 DEF Complete
    <2>2. /\ on' = [on EXCEPT ![k] = NoSub] /\ pc' = [pc EXCEPT ![k] = "idle"]
          /\ \A r \in Submissions \ {s} : job'[r] = job[r]
          /\ job'[s] \in {job[s], "completed"}
          /\ UNCHANGED <<status, stalls, request, command>>
      BY <1>16, <2>1 DEF Complete, FreeSlot, rowVars, apiVars
    <2>3. UNCHANGED pendingError
      BY <1>16, <2>1 DEF Complete
    <2>4. SlotInv' /\ LockInv'
      BY <2>1, <2>2, <1>16 DEF Complete
    <2>5. ASSUME NEW r \in Submissions PROVE SubmittedOnce(r)'
      <3>1. command[s] # "applied" => job'[s] = "none"
        BY <2>1, <1>16 DEF Complete
      <3>2. QED BY <2>2, <3>1
    <2>6. ASSUME NEW r \in Submissions, stalls'[r] = 0 PROVE FirstDelivery(r)'
      <3>1. CASE r = s
        BY <2>1, <2>2, <2>3, <2>6, <3>1, <1>16 DEF Complete
      <3>2. CASE r # s
        BY <2>1, <2>2, <2>3, <2>6, <3>2
      <3>3. QED BY <3>1, <3>2
    <2>7. QED BY <2>4, <2>5, <2>6
  <1>17. ASSUME NEW k \in Slots, Throw(k) PROVE DeliveryInv'
    BY <1>17 DEF Throw, rowVars, apiVars, queueVars
  <1>18. ASSUME NEW k \in Slots, ReportFailure(k) PROVE DeliveryInv'
    <2> DEFINE s == on[k]
    <2>1. s \in Submissions /\ pc[k] # "idle"
      BY <1>18 DEF ReportFailure
    <2>2. /\ on' = [on EXCEPT ![k] = NoSub] /\ pc' = [pc EXCEPT ![k] = "idle"]
          /\ \A r \in Submissions \ {s} : job'[r] = job[r]
          /\ job'[s] \in {job[s], "failed"}
          /\ UNCHANGED <<status, stalls, request, command>>
      BY <1>18, <2>1 DEF ReportFailure, FreeSlot, rowVars, apiVars
    <2>3. \A w \in Workers, r \in Submissions : <<w, r>> \in pendingError' =>
            \/ <<w, r>> \in pendingError
            \/ r = s /\ job'[s] = "failed" /\ pc[k] = "threw"
      BY <1>18, <2>1 DEF ReportFailure
    <2>4. SlotInv' /\ LockInv'
      BY <2>1, <2>2, <1>18 DEF ReportFailure
    <2>5. ASSUME NEW r \in Submissions PROVE SubmittedOnce(r)'
      <3>1. command[s] # "applied" => job'[s] = "none"
        BY <2>1, <1>18 DEF ReportFailure
      <3>2. QED BY <2>2, <3>1
    <2>6. ASSUME NEW r \in Submissions, stalls'[r] = 0 PROVE FirstDelivery(r)'
      <3>1. CASE r = s
        BY <2>1, <2>2, <2>3, <2>6, <3>1, <1>18 DEF ReportFailure
      <3>2. CASE r # s
        BY <2>1, <2>2, <2>3, <2>6, <3>2
      <3>3. QED BY <3>1, <3>2
    <2>7. QED BY <2>4, <2>5, <2>6
  <1>19. ASSUME NEW w \in Workers, NEW s \in Submissions, FailedHandler(w, s) PROVE DeliveryInv'
    BY <1>19 DEF FailedHandler, SetStatus, apiVars, queueVars, slotVars
  <1>20. ASSUME NEW w \in Workers, Sigterm(w) PROVE DeliveryInv'
    BY <1>20 DEF Sigterm, rowVars, apiVars, queueVars, slotVars
  <1>21. ASSUME NEW w \in Workers, Exit(w) PROVE DeliveryInv'
    BY <1>21 DEF Exit, rowVars, apiVars, queueVars, slotVars
  <1>22. ASSUME NEW w \in Workers, Die(w) PROVE DeliveryInv'
    BY <1>22 DEF Die, rowVars, apiVars, queueVars
  <1>23. ASSUME NEW w \in Workers, Restart(w) PROVE DeliveryInv'
    BY <1>23 DEF Restart, rowVars, apiVars, queueVars, slotVars
  <1>24. CASE UNCHANGED vars
    BY <1>24 DEF vars, rowVars, apiVars, queueVars, workerVars, slotVars
  <1>25. QED
    BY <1>1, <1>2, <1>3, <1>4, <1>5, <1>6, <1>7, <1>8, <1>9, <1>10, <1>11, <1>12, <1>13, <1>14, <1>15, <1>16, <1>17, <1>18, <1>19, <1>20, <1>21, <1>22, <1>23, <1>24, NextCases


(* The reason a result is final, in every reachable state. *)
THEOREM Delivery == Spec => []DeliveryInv
  <1>1. Init => DeliveryInv
    BY PipelineAssumption DEF Init, DeliveryInv, SlotInv, LockInv, SubmittedOnce, FirstDelivery
  <1>2. TypeInv /\ TypeInv' /\ DeliveryInv /\ [Next]_vars => DeliveryInv'
    BY DeliveryInvStep
  <1>3. QED BY <1>1, <1>2, TypeInvariance, PTL DEF Spec

(* Of the six steps that write a status, deletion and the catch branch are  *)
(* the exceptions KeepsResult makes; the others find a job redelivered, or a   *)
(* status that is not 'completed'.                                         *)
LEMMA FinalStep ==
  ASSUME TypeInv, DeliveryInv, [Next]_vars
  PROVE  \A s \in Submissions : KeepsResult(s)
  <1>1. SUFFICES ASSUME NEW s \in Submissions, stalls[s] = 0,
                        status[s] = "completed", status'[s] # status[s]
                 PROVE  status'[s] = "absent" \/ request[s] = "catch"
    BY PipelineAssumption DEF KeepsResult, TypeInv, TypeOK
  <1> USE <1>1 DEF TypeInv, TypeOK, DeliveryInv, SlotInv, SubmittedOnce, FirstDelivery
  <1>2. ASSUME NEW r \in Submissions, Insert(r) PROVE FALSE
    BY <1>2 DEF Insert
  <1>3. ASSUME NEW r \in Submissions, Refuse(r) PROVE request[s] = "catch"
    BY <1>3 DEF Refuse, SetStatus
  <1>4. ASSUME NEW r \in Submissions, RowDeleted(r) PROVE status'[s] = "absent"
    BY <1>4 DEF RowDeleted
  <1>5. ASSUME NEW k \in Slots, MarkRunning(k) PROVE FALSE
    BY <1>5 DEF MarkRunning, Step, SetStatus
  <1>6. ASSUME NEW k \in Slots, Save(k) PROVE FALSE
    BY <1>6 DEF Save, Step, SetStatus
  <1>7. ASSUME NEW w \in Workers, NEW r \in Submissions, FailedHandler(w, r) PROVE FALSE
    BY <1>7 DEF FailedHandler, SetStatus
  <1>8. QED
    BY <1>2, <1>3, <1>4, <1>5, <1>6, <1>7, NextCases
       DEF AddApplied, Accept, EnqueueTimeout, AddRejected, LockLapses, StalledCheck,
           ApiDies, Fetch, ReadRow, Grade, Complete, Throw, ReportFailure, Sigterm,
           Exit, Die, Restart, rowVars, vars

(* A completed result is final until the queue delivers its job again, for  *)
(* every combination of faults, slots, processes and submissions.          *)
THEOREM ResultFinality == Spec => ResultIsFinal
  <1>1. TypeInv /\ DeliveryInv /\ [Next]_vars => [\A s \in Submissions : KeepsResult(s)]_vars
    BY FinalStep
  <1>2. QED BY <1>1, TypeInvariance, Delivery, PTL DEF Spec, ResultIsFinal

(* What makes SoleGrader inductive: a slot with a submission in hand holds  *)
(* the lock of its job.  A second delivery needs a job that is not active,  *)
(* and by LockInv such a job is locked by nobody.                          *)
HoldsLock == ~Struck("lock") => \A k \in Slots : on[k] # NoSub => holder[on[k]] = k

(* No fault is ever forgotten. *)
LEMMA StruckStays ==
  ASSUME TypeInv, [Next]_vars, NEW sort, Struck(sort)
  PROVE  Struck(sort)'
  <1>1. ASSUME NEW kind, Strike(kind) PROVE Struck(sort)'
    <2>1. PICK n \in 1 .. Len(faults) : faults[n] = sort
      BY DEF Struck
    <2>2. faults \in Seq(FaultKinds) /\ kind \in FaultKinds /\ faults' = Append(faults, kind)
      BY <1>1 DEF TypeInv, TypeOK, FaultHistory, Strike
    <2>3. n \in 1 .. Len(faults') /\ faults'[n] = sort
      BY <2>1, <2>2
    <2>4. QED BY <2>3 DEF Struck
  <1>2. UNCHANGED faults => Struck(sort)'
    BY DEF Struck
  <1>3. CASE Next
    <2> USE <1>1, <1>2
    <2>1. CASE \E s \in Submissions : Request(s) \/ Queue(s)
      BY <2>1 DEF Request, Queue, Insert, AddApplied, Accept, EnqueueTimeout,
                  AddRejected, Refuse, RowDeleted, LockLapses, StalledCheck
    <2>2. CASE ApiDies \/ \E k \in Slots, s \in Submissions : Fetch(k, s)
      BY <2>2 DEF ApiDies, Fetch
    <2>3. CASE \E k \in Slots : GradeStep(k)
      BY <2>3 DEF GradeStep, MarkRunning, ReadRow, Grade, Save, Complete, Throw,
                  ReportFailure
    <2>4. CASE \/ \E w \in Workers, s \in Submissions : FailedHandler(w, s)
               \/ \E w \in Workers : Process(w)
      BY <2>4 DEF FailedHandler, Process, Sigterm, Exit, Die, Restart
    <2>5. QED BY <1>3, <2>1, <2>2, <2>3, <2>4 DEF Next
  <1>4. QED BY <1>2, <1>3 DEF vars

(* A lock that lapses while its slot is at work is a lost lock. *)
LEMMA LapseOfIdle ==
  ASSUME TypeInv, NEW s \in Submissions, LockLapses(s), ~Struck("lock")'
  PROVE  on[holder[s]] # s
  <1>1. SUFFICES ASSUME Strike("lock") PROVE FALSE
    BY DEF LockLapses
  <1>2. /\ faults \in Seq(FaultKinds) /\ "lock" \in FaultKinds
        /\ faults' = Append(faults, "lock")
    BY <1>1 DEF TypeInv, TypeOK, FaultHistory, Strike
  <1>3. Len(faults) + 1 \in 1 .. Len(faults') /\ faults'[Len(faults) + 1] = "lock"
    BY <1>2
  <1>4. QED BY <1>3 DEF Struck

(* The steps that take or drop a submission or a lock; no other step        *)
(* touches either.                                                         *)
LEMMA HoldsLockStep ==
  ASSUME TypeInv, DeliveryInv, HoldsLock, [Next]_vars
  PROVE  HoldsLock'
  <1>1. SUFFICES ASSUME ~Struck("lock"), ~Struck("lock")',
                        \A k \in Slots : on[k] # NoSub => holder[on[k]] = k
                 PROVE  \A k \in Slots : on'[k] # NoSub => holder'[on'[k]] = k
    BY StruckStays DEF HoldsLock
  <1> USE PipelineAssumption DEF TypeInv, TypeOK, SlotInv
  <1>2. ASSUME NEW j \in Slots, NEW s \in Submissions, Fetch(j, s)
        PROVE  \A k \in Slots : on'[k] # NoSub => holder'[on'[k]] = k
    <2>1. holder[s] = NoSlot
      BY <1>2 DEF Fetch, DeliveryInv, LockInv
    <2>2. \A k \in Slots : on[k] # s
      BY <1>1, <2>1
    <2>3. /\ on' = [on EXCEPT ![j] = s]
          /\ holder' = [holder EXCEPT ![s] = j]
      BY <1>2 DEF Fetch
    <2>4. QED BY <1>1, <2>2, <2>3
  <1>3. ASSUME NEW s \in Submissions, LockLapses(s)
        PROVE  \A k \in Slots : on'[k] # NoSub => holder'[on'[k]] = k
    <2>1. on[holder[s]] # s
      BY <1>1, <1>3, LapseOfIdle
    <2>2. UNCHANGED on /\ holder' = [holder EXCEPT ![s] = NoSlot]
      BY <1>3 DEF LockLapses, workerVars, slotVars
    <2>3. \A k \in Slots : on[k] # s
      BY <1>1, <2>1
    <2>4. QED BY <1>1, <2>2, <2>3
  <1>4. ASSUME NEW j \in Slots, Complete(j) \/ ReportFailure(j)
        PROVE  \A k \in Slots : on'[k] # NoSub => holder'[on'[k]] = k
    <2>1. on[j] \in Submissions
      BY <1>4 DEF Complete, ReportFailure
    <2>2. /\ on' = [on EXCEPT ![j] = NoSub]
          /\ holder' = [holder EXCEPT ![on[j]] = NoSlot]
      BY <1>1, <1>4, <2>1 DEF Complete, ReportFailure, FreeSlot
    <2>3. \A k \in Slots : on[k] = on[j] => k = j
      BY <1>1, <2>1
    <2>4. QED BY <1>1, <2>2, <2>3
  <1>5. ASSUME NEW w \in Workers, Die(w)
        PROVE  \A k \in Slots : on'[k] # NoSub => holder'[on'[k]] = k
    BY <1>1, <1>5 DEF Die, queueVars
  <1>6. CASE UNCHANGED <<on, holder>>
    BY <1>1, <1>6
  <1>7. QED
    BY <1>2, <1>3, <1>4, <1>5, <1>6, NextCases
       DEF Insert, AddApplied, Accept, EnqueueTimeout, AddRejected, Refuse, RowDeleted,
           StalledCheck, ApiDies, MarkRunning, ReadRow, Grade, Save, Throw, FailedHandler,
           Sigterm, Exit, Restart, queueVars, workerVars, slotVars, vars

(* One slot at a time on a submission until a live worker loses a lock,     *)
(* however often processes are killed and the job is delivered again.      *)
THEOREM OneGrader == Spec => []SoleGrader
  <1>1. Init => HoldsLock
    BY DEF Init, HoldsLock
  <1>2. TypeInv /\ DeliveryInv /\ HoldsLock /\ [Next]_vars => HoldsLock'
    BY HoldsLockStep
  <1>3. TypeInv /\ HoldsLock => SoleGrader
    BY DEF HoldsLock, SoleGrader, TypeInv, TypeOK
  <1>4. QED BY <1>1, <1>2, <1>3, TypeInvariance, Delivery, PTL DEF Spec

(* The row holds the grading o. *)
Stored(s, o) == result[s] = o /\ status[s] = StatusOf(o)

(* A failed job stays failed, so its handler never meets another result.    *)
FailedStays == \A w \in Workers, s \in Submissions :
  <<w, s>> \in pendingError => job[s] = "failed"

(* What makes AnnouncedIsStored inductive: a slot that has saved finds its  *)
(* own grading in the row until it reports, since HoldsLock lets no other   *)
(* slot near the submission, the failed handler only meets failed jobs, and *)
(* the catch branch only submissions whose add() was rejected.             *)
CatchInv == \A s \in Submissions : request[s] = "catch" => command[s] = "void"

AnnouncedOf(s) ==
  job[s] = "completed" /\ RowExists(s) => Stored(s, returnvalue[s])

SavedBy(k) ==
  pc[k] = "reporting" /\ RowExists(on[k]) => Stored(on[k], out[k])

AnnouncedInv ==
  /\ ~Struck("timeout") => CatchInv
  /\ ~Struck("lock") /\ ~Struck("timeout") =>
       (\A s \in Submissions : AnnouncedOf(s)) /\ (\A k \in Slots : SavedBy(k))

LEMMA FailedStaysStep ==
  ASSUME TypeInv, DeliveryInv, FailedStays, [Next]_vars
  PROVE  FailedStays'
  <1> USE PipelineAssumption
      DEF TypeInv, TypeOK, SlotInv, DeliveryInv, LockInv, SubmittedOnce, FailedStays
  <1>1. ASSUME NEW s \in Submissions, AddApplied(s) PROVE FailedStays'
    BY <1>1 DEF AddApplied, workerVars
  <1>2. ASSUME NEW k \in Slots, NEW s \in Submissions, Fetch(k, s) PROVE FailedStays'
    BY <1>2 DEF Fetch
  <1>3. ASSUME NEW k \in Slots, Complete(k) PROVE FailedStays'
    <2>1. on[k] \in Submissions
      BY <1>3 DEF Complete
    <2>2. QED BY <1>3, <2>1 DEF Complete
  <1>4. ASSUME NEW k \in Slots, ReportFailure(k) PROVE FailedStays'
    <2>1. on[k] \in Submissions
      BY <1>4 DEF ReportFailure
    <2>2. QED BY <1>4, <2>1 DEF ReportFailure
  <1>5. ASSUME NEW s \in Submissions, StalledCheck(s) PROVE FailedStays'
    BY <1>5 DEF StalledCheck, workerVars
  <1>6. ASSUME NEW w \in Workers, Die(w) PROVE FailedStays'
    BY <1>6 DEF Die, queueVars
  <1>7. ASSUME NEW w \in Workers, NEW s \in Submissions, FailedHandler(w, s)
        PROVE  FailedStays'
    BY <1>7 DEF FailedHandler, queueVars
  <1>8. CASE UNCHANGED <<job, pendingError>>
    BY <1>8
  <1>9. QED
    BY <1>1, <1>2, <1>3, <1>4, <1>5, <1>6, <1>7, <1>8, NextCases
       DEF Insert, Accept, EnqueueTimeout, AddRejected, Refuse, RowDeleted, LockLapses,
           ApiDies, MarkRunning, ReadRow, Grade, Save, Throw, Sigterm, Exit, Restart,
           queueVars, workerVars, vars

LEMMA CatchInvStep ==
  ASSUME TypeInv, DeliveryInv, CatchInv, ~Struck("timeout")', [Next]_vars
  PROVE  CatchInv'
  <1> USE PipelineAssumption DEF TypeInv, TypeOK, DeliveryInv, SubmittedOnce, CatchInv
  <1>1. ASSUME NEW s \in Submissions, EnqueueTimeout(s) PROVE FALSE
    <2>1. faults \in Seq(FaultKinds) /\ "timeout" \in FaultKinds /\ faults' = Append(faults, "timeout")
      BY <1>1 DEF EnqueueTimeout, Strike, FaultHistory
    <2>2. Len(faults) + 1 \in 1 .. Len(faults') /\ faults'[Len(faults) + 1] = "timeout"
      BY <2>1
    <2>3. QED BY <2>2 DEF Struck
  <1>2. ASSUME NEW s \in Submissions,
               Insert(s) \/ AddApplied(s) \/ Accept(s) \/ AddRejected(s) \/ Refuse(s)
        PROVE  CatchInv'
    BY <1>2 DEF Insert, AddApplied, Accept, AddRejected, Refuse
  <1>3. CASE ApiDies
    BY <1>3 DEF ApiDies
  <1>4. CASE UNCHANGED <<request, command>>
    BY <1>4
  <1>5. QED
    BY <1>1, <1>2, <1>3, <1>4, NextCases
       DEF RowDeleted, LockLapses, StalledCheck, Fetch, MarkRunning, ReadRow, Grade, Save,
           Complete, Throw, ReportFailure, FailedHandler, Sigterm, Exit, Die, Restart,
           apiVars, vars

(* The steps that write a row, finish a job or move a slot to its report.   *)
LEMMA AnnouncedStep ==
  ASSUME TypeInv, DeliveryInv, FailedStays, HoldsLock, CatchInv, ~Struck("lock"),
         \A s \in Submissions : AnnouncedOf(s), \A k \in Slots : SavedBy(k),
         [Next]_vars
  PROVE  (\A s \in Submissions : AnnouncedOf(s)') /\ (\A k \in Slots : SavedBy(k)')
  <1> DEFINE Goal == (\A s \in Submissions : AnnouncedOf(s)') /\ (\A k \in Slots : SavedBy(k)')
  <1>a. \A k \in Slots : on[k] # NoSub => holder[on[k]] = k /\ job[on[k]] = "active"
    BY PipelineAssumption DEF HoldsLock, TypeInv, TypeOK, DeliveryInv, LockInv
  <1>b. \A k \in Slots : pc[k] # "idle" => on[k] \in Submissions
    BY DEF TypeInv, TypeOK, SlotInv
  <1>c. \A j, k \in Slots : on[j] # NoSub /\ on[j] = on[k] => j = k
    BY <1>a
  <1>d. \A s \in Submissions : job[s] # "none" => command[s] = "applied" /\ request[s] # "idle"
    BY DEF DeliveryInv, SubmittedOnce, TypeInv, TypeOK
  <1> USE PipelineAssumption DEF TypeInv, TypeOK, SlotInv, AnnouncedOf, SavedBy, Stored, RowExists
  <1>1. ASSUME NEW r \in Submissions, Insert(r) PROVE Goal
    <2>1. job[r] = "none" /\ \A k \in Slots : on[k] # r
      BY <1>1, <1>a, <1>d DEF Insert
    <2>2. QED BY <1>1, <2>1, <1>b DEF Insert, queueVars, workerVars, slotVars
  <1>2. ASSUME NEW r \in Submissions, AddApplied(r) PROVE Goal
    BY <1>2, <1>d DEF AddApplied, rowVars, workerVars, slotVars
  <1>3. ASSUME NEW r \in Submissions, Refuse(r) PROVE Goal
    <2>1. job[r] = "none" /\ \A k \in Slots : on[k] # r
      BY <1>3, <1>a, <1>d DEF Refuse, CatchInv
    <2>2. QED BY <1>3, <2>1, <1>b DEF Refuse, SetStatus, queueVars, workerVars, slotVars
  <1>4. ASSUME NEW r \in Submissions, RowDeleted(r) PROVE Goal
    BY <1>4, <1>b DEF RowDeleted, queueVars, workerVars, slotVars
  <1>5. ASSUME NEW r \in Submissions, StalledCheck(r) PROVE Goal
    BY <1>5 DEF StalledCheck, rowVars, workerVars, slotVars
  <1>6. ASSUME NEW j \in Slots, NEW r \in Submissions, Fetch(j, r) PROVE Goal
    BY <1>6 DEF Fetch, rowVars
  <1>7. ASSUME NEW j \in Slots, MarkRunning(j) PROVE Goal
    <2>1. on[j] \in Submissions /\ job[on[j]] = "active" /\ \A k \in Slots : on[k] = on[j] => k = j
      BY <1>7, <1>a, <1>b, <1>c DEF MarkRunning, Step
    <2>2. QED BY <1>7, <2>1, <1>b DEF MarkRunning, Step, SetStatus, queueVars
  <1>8. ASSUME NEW j \in Slots, ReadRow(j) \/ Grade(j) PROVE Goal
    BY <1>8, <1>b DEF ReadRow, Grade, Step, rowVars, queueVars
  <1>9. ASSUME NEW j \in Slots, Save(j) PROVE Goal
    <2>1. on[j] \in Submissions /\ job[on[j]] = "active" /\ \A k \in Slots : on[k] = on[j] => k = j
      BY <1>9, <1>a, <1>b, <1>c DEF Save, Step
    <2>2. QED BY <1>9, <2>1, <1>b DEF Save, Step, SetStatus, StatusOf, queueVars
  <1>10. ASSUME NEW j \in Slots, Complete(j) PROVE Goal
    <2>1. on[j] \in Submissions /\ holder[on[j]] = j
      BY <1>10, <1>a, <1>b DEF Complete
    <2>2. QED BY <1>10, <2>1, <1>b DEF Complete, FreeSlot, rowVars
  <1>11. ASSUME NEW j \in Slots, Throw(j) PROVE Goal
    BY <1>11, <1>b DEF Throw, rowVars, queueVars
  <1>12. ASSUME NEW j \in Slots, ReportFailure(j) PROVE Goal
    <2>1. on[j] \in Submissions /\ holder[on[j]] = j
      BY <1>12, <1>a, <1>b DEF ReportFailure
    <2>2. QED BY <1>12, <2>1, <1>b DEF ReportFailure, FreeSlot, rowVars
  <1>13. ASSUME NEW w \in Workers, NEW r \in Submissions, FailedHandler(w, r) PROVE Goal
    <2>1. job[r] = "failed" /\ \A k \in Slots : on[k] # r
      BY <1>13, <1>a DEF FailedHandler, FailedStays
    <2>2. QED BY <1>13, <2>1, <1>b DEF FailedHandler, SetStatus, queueVars, slotVars
  <1>14. ASSUME NEW w \in Workers, Die(w) PROVE Goal
    BY <1>14, <1>b DEF Die, rowVars, queueVars
  <1>15. CASE UNCHANGED <<rowVars, job, returnvalue, slotVars>>
    BY <1>15, <1>b DEF rowVars, slotVars
  <1>16. QED
    BY <1>1, <1>2, <1>3, <1>4, <1>5, <1>6, <1>7, <1>8, <1>9, <1>10, <1>11, <1>12, <1>13,
       <1>14, <1>15, NextCases
       DEF Accept, EnqueueTimeout, AddRejected, LockLapses, ApiDies, Sigterm, Exit, Restart,
           queueVars, workerVars, vars

(* What the WebSocket announces is what the row holds, for every number of  *)
(* kills, redeliveries, deletions and lost updates, until a live worker     *)
(* loses a lock or an enqueue times out.                                   *)
THEOREM Announcements == Spec => []AnnouncedIsStored
  <1> DEFINE Inv == FailedStays /\ HoldsLock /\ AnnouncedInv
  <1>1. Init => Inv
    BY PipelineAssumption
       DEF Init, FailedStays, HoldsLock, AnnouncedInv, CatchInv, AnnouncedOf, SavedBy
  <1>2. TypeInv /\ TypeInv' /\ DeliveryInv /\ Inv /\ [Next]_vars => Inv'
    <2>1. SUFFICES ASSUME TypeInv, DeliveryInv, Inv, [Next]_vars
                   PROVE  FailedStays' /\ HoldsLock' /\ AnnouncedInv'
      OBVIOUS
    <2>2. FailedStays' /\ HoldsLock'
      BY <2>1, FailedStaysStep, HoldsLockStep
    <2>3. ~Struck("timeout")' => CatchInv'
      BY <2>1, CatchInvStep, StruckStays DEF AnnouncedInv
    <2>4. ~Struck("lock")' /\ ~Struck("timeout")' =>
            (\A s \in Submissions : AnnouncedOf(s)') /\ (\A k \in Slots : SavedBy(k)')
      BY <2>1, AnnouncedStep, StruckStays DEF AnnouncedInv
    <2>5. QED BY <2>2, <2>3, <2>4 DEF AnnouncedInv
  <1>3. Inv => AnnouncedIsStored
    BY DEF AnnouncedInv, AnnouncedOf, AnnouncedIsStored, Stored
  <1>4. QED BY <1>1, <1>2, <1>3, TypeInvariance, Delivery, PTL DEF Spec

-----------------------------------------------------------------------------
(***************************************************************************)
(* A failed job leaves its row marked, or a handler that will mark it.     *)
(***************************************************************************)

(* A process goes down with empty hands: Exit waits for its slots, and Die  *)
(* clears them.                                                            *)
Manned == \A k \in Slots : on[k] # NoSub => proc[WorkerOf[k]] # "down"

Coming(s) == \E w \in Workers : <<w, s>> \in pendingError /\ proc[w] # "down"

Recorded(s) == job[s] = "failed" /\ RowExists(s) => status[s] = "error" \/ Coming(s)

Intact == \A kind \in {"db", "force", "kill", "lock"} : ~Struck(kind)

(* A fault that strikes is in the history. *)
LEMMA StrikeShows ==
  ASSUME TypeInv, NEW kind, Strike(kind)
  PROVE  Struck(kind)'
  <1>1. faults \in Seq(FaultKinds) /\ kind \in FaultKinds /\ faults' = Append(faults, kind)
    BY DEF TypeInv, TypeOK, FaultHistory, Strike
  <1>2. Len(faults) + 1 \in 1 .. Len(faults') /\ faults'[Len(faults) + 1] = kind
    BY <1>1
  <1> QED
    BY <1>2 DEF Struck

LEMMA MannedStep ==
  ASSUME TypeInv, Manned, [Next]_vars
  PROVE  Manned'
  <1> USE PipelineAssumption DEF TypeInv, TypeOK, SlotInv, Manned
  <1>1. ASSUME NEW j \in Slots, NEW s \in Submissions, Fetch(j, s) PROVE Manned'
    BY <1>1 DEF Fetch
  <1>2. ASSUME NEW j \in Slots, Complete(j) \/ ReportFailure(j) PROVE Manned'
    BY <1>2 DEF Complete, ReportFailure, FreeSlot
  <1>3. ASSUME NEW w \in Workers, Sigterm(w) PROVE Manned'
    BY <1>3 DEF Sigterm, slotVars
  <1>4. ASSUME NEW w \in Workers, Exit(w) PROVE Manned'
    BY <1>4 DEF Exit, SlotsOf, slotVars
  <1>5. ASSUME NEW w \in Workers, Die(w) PROVE Manned'
    BY <1>5 DEF Die
  <1>6. ASSUME NEW w \in Workers, Restart(w) PROVE Manned'
    BY <1>6 DEF Restart, slotVars
  <1>7. CASE UNCHANGED <<on, proc>>
    BY <1>7
  <1> QED
    BY <1>1, <1>2, <1>3, <1>4, <1>5, <1>6, <1>7, NextCases
    DEF Insert, AddApplied, Accept, EnqueueTimeout, AddRejected, Refuse, RowDeleted, LockLapses,
        StalledCheck, ApiDies, MarkRunning, ReadRow, Grade, Save, Throw, FailedHandler,
        slotVars, workerVars, vars

(* The steps that fail a job, write its row or end a process. *)
LEMMA RecordedStep ==
  ASSUME TypeInv, DeliveryInv, HoldsLock, Manned, Intact, Intact',
         \A s \in Submissions : Recorded(s), [Next]_vars,
         NEW s \in Submissions
  PROVE  Recorded(s)'
  <1>a. \A k \in Slots : on[k] # NoSub => holder[on[k]] = k /\ job[on[k]] = "active"
    BY PipelineAssumption DEF Intact, HoldsLock, TypeInv, TypeOK, DeliveryInv, LockInv
  <1>b. \A k \in Slots : pc[k] # "idle" => on[k] \in Submissions /\ on[k] # NoSub
    BY DEF TypeInv, TypeOK, SlotInv
  <1>c. ~Strike("db") /\ ~Strike("force") /\ ~Strike("kill")
    BY StrikeShows DEF Intact
  <1>d. UNCHANGED <<pendingError, proc>> /\ Coming(s) => Coming(s)'
    BY DEF Coming
  <1>e. /\ job[s] = "failed" /\ status[s] # "absent" => status[s] = "error" \/ Coming(s)
        /\ job \in [Submissions -> {"none", "waiting", "active", "completed", "failed"}]
        /\ DOMAIN status = Submissions
    BY DEF Recorded, RowExists, TypeInv, TypeOK
  <1>f. CASE /\ UNCHANGED <<pendingError, proc>>
             /\ job'[s] = "failed" => job[s] = "failed"
             /\ status'[s] \in {status[s], "absent", "error"}
    BY <1>d, <1>e, <1>f DEF Recorded, RowExists
  <1>1. ASSUME NEW r \in Submissions, Insert(r) PROVE Recorded(s)'
    <2>1. job[r] = "none"
      BY <1>1 DEF Insert, DeliveryInv, SubmittedOnce
    <2>2. s # r => status'[s] = status[s]
      BY <1>1, <1>e DEF Insert
    <2>3. UNCHANGED <<job, pendingError, proc>>
      BY <1>1 DEF Insert, queueVars, workerVars
    <2> QED
      BY <2>1, <2>2, <2>3, <1>f DEF Recorded
  <1>2. ASSUME NEW r \in Submissions, AddApplied(r) PROVE Recorded(s)'
    BY <1>2, <1>e, <1>f DEF AddApplied, rowVars, workerVars
  <1>3. ASSUME NEW r \in Submissions, Refuse(r) PROVE Recorded(s)'
    BY <1>3, <1>c, <1>e, <1>f DEF Refuse, SetStatus, queueVars, workerVars
  <1>4. ASSUME NEW r \in Submissions, RowDeleted(r) PROVE Recorded(s)'
    BY <1>4, <1>e, <1>f DEF RowDeleted, queueVars, workerVars
  <1>5. ASSUME NEW r \in Submissions, StalledCheck(r) PROVE Recorded(s)'
    BY <1>5, <1>e, <1>f DEF StalledCheck, rowVars, workerVars
  <1>6. ASSUME NEW j \in Slots, NEW r \in Submissions, Fetch(j, r) PROVE Recorded(s)'
    BY <1>6, <1>e, <1>f DEF Fetch, rowVars
  <1>7. ASSUME NEW j \in Slots, MarkRunning(j) \/ Save(j) PROVE Recorded(s)'
    <2>1. on[j] \in Submissions /\ job[on[j]] = "active"
      BY <1>7, <1>a, <1>b DEF MarkRunning, Save, Step
    <2>2. UNCHANGED <<job, pendingError, proc>>
      BY <1>7 DEF MarkRunning, Save, queueVars
    <2>3. s # on[j] => status'[s] = status[s]
      BY <1>7, <1>e DEF MarkRunning, Save, SetStatus
    <2> QED
      BY <2>1, <2>2, <2>3, <1>f DEF Recorded
  <1>8. ASSUME NEW j \in Slots, Complete(j) PROVE Recorded(s)'
    BY <1>8, <1>e, <1>f DEF Complete, rowVars
  <1>9. ASSUME NEW j \in Slots, ReportFailure(j) PROVE Recorded(s)'
    <2>1. on[j] \in Submissions /\ holder[on[j]] = j
      BY <1>9, <1>a, <1>b DEF ReportFailure
    <2>2. WorkerOf[j] \in Workers /\ proc[WorkerOf[j]] # "down"
      BY <1>9, <1>b, PipelineAssumption DEF ReportFailure, Manned
    <2>3. /\ job' = [job EXCEPT ![on[j]] = "failed"]
          /\ pendingError' = pendingError \cup {<<WorkerOf[j], on[j]>>}
          /\ UNCHANGED <<status, proc>>
      BY <1>9, <2>1 DEF ReportFailure, rowVars
    <2>4. CASE s = on[j]
      <3>1. <<WorkerOf[j], s>> \in pendingError' /\ proc'[WorkerOf[j]] # "down"
        BY <2>2, <2>3, <2>4
      <3> QED
        BY <2>2, <3>1 DEF Recorded, Coming
    <2>5. CASE s # on[j]
      <3>1. Coming(s) => Coming(s)'
        BY <2>3 DEF Coming
      <3> QED
        BY <2>3, <2>5, <3>1, <1>e DEF Recorded, RowExists
    <2> QED
      BY <2>4, <2>5
  <1>10. ASSUME NEW w \in Workers, NEW r \in Submissions, FailedHandler(w, r)
         PROVE  Recorded(s)'
    <2>1. /\ SetStatus(r, "error") /\ UNCHANGED <<job, proc>>
          /\ pendingError' = pendingError \ {<<w, r>>}
      BY <1>10, <1>c DEF FailedHandler, queueVars
    <2>2. CASE s = r
      <3>1. status'[s] \in {"absent", "error"}
        BY <2>1, <2>2, <1>e DEF SetStatus, RowExists
      <3> QED
        BY <3>1 DEF Recorded, RowExists
    <2>3. CASE s # r
      <3>1. status'[s] = status[s] /\ job'[s] = job[s]
        BY <2>1, <2>3, <1>e DEF SetStatus
      <3>2. \A v \in Workers : <<v, s>> \in pendingError => <<v, s>> \in pendingError'
        BY <2>1, <2>3
      <3>3. Coming(s) => Coming(s)'
        BY <2>1, <3>2 DEF Coming
      <3> QED
        BY <3>1, <3>3, <1>e DEF Recorded, RowExists
    <2> QED
      BY <2>2, <2>3
  <1>11. ASSUME NEW w \in Workers, Sigterm(w) \/ Restart(w) PROVE Recorded(s)'
    <2>1. \A v \in Workers : proc[v] # "down" => proc'[v] # "down"
      BY <1>11 DEF Sigterm, Restart, TypeInv, TypeOK
    <2>2. UNCHANGED <<status, job, pendingError>>
      BY <1>11 DEF Sigterm, Restart, rowVars, queueVars
    <2>3. Coming(s) => Coming(s)'
      BY <2>1, <2>2 DEF Coming
    <2> QED
      BY <2>2, <2>3, <1>e DEF Recorded, RowExists
  <1>12. ASSUME NEW w \in Workers, Exit(w) PROVE Recorded(s)'
    <2>1. \A v \in Workers : v # w => proc'[v] = proc[v]
      BY <1>12 DEF Exit, TypeInv, TypeOK
    <2>2. <<w, s>> \notin pendingError /\ UNCHANGED <<status, job, pendingError>>
      BY <1>12 DEF Exit, rowVars, queueVars
    <2>3. Coming(s) => Coming(s)'
      BY <2>1, <2>2 DEF Coming
    <2> QED
      BY <2>2, <2>3, <1>e DEF Recorded, RowExists
  <1>13. ASSUME NEW w \in Workers PROVE ~Die(w)
    BY <1>c DEF Die
  <1>14. CASE UNCHANGED <<status, job, pendingError, proc>>
    BY <1>14, <1>f
  <1> QED
    BY <1>1, <1>2, <1>3, <1>4, <1>5, <1>6, <1>7, <1>8, <1>9, <1>10, <1>11, <1>12, <1>13, <1>14,
       NextCases
    DEF Accept, EnqueueTimeout, AddRejected, LockLapses, ApiDies, ReadRow, Grade, Throw,
        rowVars, queueVars, workerVars, vars

(* Any number of thrown gradings, stalls, redeliveries, deletions and       *)
(* graceful stops leave no failed job without its 'error' or the handler    *)
(* that will write it (worker.on('failed') and shutdown of worker.js).      *)
THEOREM FailuresAreRecorded == Spec => []FailureIsRecorded
  <1> DEFINE Inv == HoldsLock /\ Manned /\ (Intact => \A s \in Submissions : Recorded(s))
  <1>1. Init => Inv
    BY DEF Init, HoldsLock, Manned, Recorded
  <1>2. TypeInv /\ DeliveryInv /\ Inv /\ [Next]_vars => Inv'
    <2>1. SUFFICES ASSUME TypeInv, DeliveryInv, Inv, [Next]_vars PROVE Inv'
      OBVIOUS
    <2>2. HoldsLock' /\ Manned'
      BY <2>1, HoldsLockStep, MannedStep
    <2>3. Intact' => Intact
      BY <2>1, StruckStays DEF Intact
    <2>4. Intact' => \A s \in Submissions : Recorded(s)'
      BY <2>1, <2>3, RecordedStep
    <2> QED
      BY <2>2, <2>4
  <1>3. Inv => FailureIsRecorded
    BY DEF Intact, Recorded, Coming, FailureIsRecorded
  <1> QED
    BY <1>1, <1>2, <1>3, TypeInvariance, Delivery, PTL DEF Spec

-----------------------------------------------------------------------------
(***************************************************************************)
(* The pipeline implements SubmissionLifecycle.                            *)
(***************************************************************************)

Disturbed == \E kind \in {"force", "kill", "lock", "timeout"} : Struck(kind)

(* Undisturbed, every active job is in some slot's hand, so none stalls,    *)
(* and before its one delivery nothing has touched the row but a deletion. *)
Forward(s) ==
  /\ stalls[s] = 0
  /\ request[s] = "idle" => status[s] = "absent"
  /\ request[s] = "catch" \/ command[s] = "pending" \/ job[s] = "waiting" =>
       status[s] \in {"absent", "queued"}
  /\ status[s] \in {"absent", "queued", "running"} => result[s] = "none"
  /\ job[s] = "active" => \E k \in Slots : on[k] = s

(* How far a row is while a slot grades it; what it saves is a grading. *)
InStep(k) ==
  /\ pc[k] = "marking" => status[on[k]] \in {"absent", "queued"}
  /\ pc[k] \in {"reading", "grading", "saving"} => status[on[k]] \in {"absent", "running"}
  /\ pc[k] = "threw" => status[on[k]] \in {"absent", "queued", "running"}
  /\ pc[k] = "saving" => out[k] \in Outcomes

(* Undisturbed, a slot holds the lock of its active job, alone. *)
LEMMA InHand ==
  ASSUME TypeInv, DeliveryInv, HoldsLock, ~Disturbed
  PROVE  /\ \A k \in Slots : on[k] # NoSub =>
              on[k] \in Submissions /\ holder[on[k]] = k /\ job[on[k]] = "active"
         /\ \A k \in Slots : pc[k] # "idle" <=> on[k] # NoSub
         /\ \A j, k \in Slots : on[j] # NoSub /\ on[j] = on[k] => j = k
         /\ \A s \in Submissions : job[s] # "none" => command[s] = "applied" /\ request[s] # "idle"
  <1>1. \A k \in Slots : on[k] # NoSub => on[k] \in Submissions /\ holder[on[k]] = k
    BY DEF TypeInv, TypeOK, HoldsLock, Disturbed
  <1>2. \A k \in Slots : on[k] # NoSub => job[on[k]] = "active"
    BY <1>1, PipelineAssumption DEF DeliveryInv, LockInv
  <1>3. \A j, k \in Slots : on[j] # NoSub /\ on[j] = on[k] => j = k
    BY <1>1
  <1>4. \A s \in Submissions : job[s] # "none" => command[s] = "applied" /\ request[s] # "idle"
    BY DEF DeliveryInv, SubmittedOnce, TypeInv, TypeOK
  <1> QED
    BY <1>1, <1>2, <1>3, <1>4 DEF TypeInv, SlotInv

(* Nothing of the kind that disturbs strikes in a step that ends undisturbed. *)
LEMMA NothingStrikes ==
  ASSUME TypeInv, ~Disturbed'
  PROVE  /\ ~Strike("force") /\ ~Strike("kill") /\ ~Strike("lock") /\ ~Strike("timeout")
         /\ \A w \in Workers : ~Die(w)
         /\ \A s \in Submissions : ~EnqueueTimeout(s)
  <1>1. ~Strike("force") /\ ~Strike("kill") /\ ~Strike("lock") /\ ~Strike("timeout")
    BY StrikeShows DEF Disturbed
  <1> QED
    BY <1>1 DEF Die, EnqueueTimeout

LEMMA ForwardStep ==
  ASSUME TypeInv, DeliveryInv, HoldsLock, CatchInv, ~Disturbed, ~Disturbed',
         \A s \in Submissions : Forward(s), \A k \in Slots : InStep(k),
         [Next]_vars, NEW s \in Submissions
  PROVE  Forward(s)'
  <1>a. /\ \A k \in Slots : on[k] # NoSub =>
              on[k] \in Submissions /\ holder[on[k]] = k /\ job[on[k]] = "active"
        /\ \A k \in Slots : pc[k] # "idle" <=> on[k] # NoSub
        /\ \A r \in Submissions : job[r] # "none" => command[r] = "applied" /\ request[r] # "idle"
    BY InHand
  <1>b. (\A w \in Workers : ~Die(w)) /\ (\A r \in Submissions : ~EnqueueTimeout(r))
    BY NothingStrikes
  <1>c. \A r \in Submissions : request[r] = "catch" => command[r] = "void"
    BY DEF CatchInv
  <1>d. /\ DOMAIN status = Submissions /\ DOMAIN result = Submissions
        /\ DOMAIN request = Submissions /\ DOMAIN command = Submissions
        /\ DOMAIN job = Submissions /\ DOMAIN stalls = Submissions
        /\ DOMAIN on = Slots /\ DOMAIN pc = Slots
        /\ status[s] \in {"absent", "queued", "running", "completed", "error"}
    BY DEF TypeInv, TypeOK, Settled
  <1>e. NoSub \notin Submissions /\ NoSlot \notin Slots
    BY PipelineAssumption
  <1> USE <1>a, <1>c, <1>d, <1>e DEF Forward
  <1>1. ASSUME NEW r \in Submissions, Insert(r) PROVE Forward(s)'
    BY <1>1 DEF Insert, queueVars, workerVars, slotVars
  <1>2. ASSUME NEW r \in Submissions, AddApplied(r) PROVE Forward(s)'
    BY <1>2 DEF AddApplied, rowVars, workerVars, slotVars
  <1>3. ASSUME NEW r \in Submissions, Accept(r) \/ AddRejected(r) PROVE Forward(s)'
    BY <1>3 DEF Accept, AddRejected, rowVars, queueVars, workerVars, slotVars
  <1>4. ASSUME NEW r \in Submissions, Refuse(r) PROVE Forward(s)'
    BY <1>4 DEF Refuse, SetStatus, queueVars, workerVars, slotVars
  <1>5. ASSUME NEW r \in Submissions, RowDeleted(r) PROVE Forward(s)'
    BY <1>5 DEF RowDeleted, apiVars, queueVars, workerVars, slotVars
  <1>6. CASE ApiDies
    BY <1>6 DEF ApiDies, rowVars, queueVars, workerVars, slotVars
  <1>7. ASSUME NEW r \in Submissions, StalledCheck(r) PROVE FALSE
    BY <1>7 DEF StalledCheck
  <1>8. ASSUME NEW j \in Slots, NEW r \in Submissions, Fetch(j, r) PROVE Forward(s)'
    <2>1. /\ on[j] = NoSub /\ on' = [on EXCEPT ![j] = r] /\ job' = [job EXCEPT ![r] = "active"]
          /\ UNCHANGED <<status, result, request, command, stalls>>
      BY <1>8 DEF Fetch, rowVars, apiVars
    <2> QED
      BY <2>1
  <1>9. ASSUME NEW j \in Slots, MarkRunning(j) PROVE Forward(s)'
    BY <1>9 DEF MarkRunning, Step, SetStatus, RowExists, InStep, apiVars, queueVars
  <1>10. ASSUME NEW j \in Slots, ReadRow(j) \/ Grade(j) \/ Throw(j) PROVE Forward(s)'
    BY <1>10 DEF ReadRow, Grade, Throw, rowVars, apiVars, queueVars
  <1>11. ASSUME NEW j \in Slots, Save(j) PROVE Forward(s)'
    BY <1>11 DEF Save, Step, SetStatus, RowExists, StatusOf, apiVars, queueVars
  <1>12. ASSUME NEW j \in Slots, Complete(j) \/ ReportFailure(j) PROVE Forward(s)'
    <2>1. /\ on[j] \in Submissions /\ holder[on[j]] = j
          /\ on' = [on EXCEPT ![j] = NoSub]
          /\ UNCHANGED <<status, result, request, command, stalls>>
      BY <1>12 DEF Complete, ReportFailure, FreeSlot, rowVars, apiVars
    <2>2. \E end \in {"completed", "failed"} : job' = [job EXCEPT ![on[j]] = end]
      BY <1>12, <2>1 DEF Complete, ReportFailure
    <2> QED
      BY <2>1, <2>2
  <1>13. ASSUME NEW w \in Workers, NEW r \in Submissions, FailedHandler(w, r)
         PROVE  Forward(s)'
    <2>1. job[r] = "failed"
      BY <1>13 DEF FailedHandler, DeliveryInv, FirstDelivery
    <2> QED
      BY <1>13, <2>1 DEF FailedHandler, SetStatus, apiVars, queueVars, slotVars
  <1>14. CASE UNCHANGED <<rowVars, apiVars, job, stalls, on>>
    BY <1>14 DEF rowVars, apiVars
  <1> QED
    BY <1>b, <1>1, <1>2, <1>3, <1>4, <1>5, <1>6, <1>7, <1>8, <1>9, <1>10, <1>11, <1>12, <1>13,
       <1>14, NextCases
    DEF LockLapses, Sigterm, Exit, Restart, queueVars, workerVars, slotVars, vars

LEMMA InStepStep ==
  ASSUME TypeInv, DeliveryInv, HoldsLock, CatchInv, ~Disturbed, ~Disturbed',
         \A s \in Submissions : Forward(s), \A k \in Slots : InStep(k),
         [Next]_vars, NEW k \in Slots
  PROVE  InStep(k)'
  <1>a. /\ \A j \in Slots : on[j] # NoSub =>
              on[j] \in Submissions /\ holder[on[j]] = j /\ job[on[j]] = "active"
        /\ \A j \in Slots : pc[j] # "idle" <=> on[j] # NoSub
        /\ \A r \in Submissions : job[r] # "none" => command[r] = "applied" /\ request[r] # "idle"
    BY InHand
  <1>b. (\A w \in Workers : ~Die(w)) /\ (\A r \in Submissions : ~EnqueueTimeout(r))
    BY NothingStrikes
  <1>c. \A r \in Submissions : request[r] = "catch" => command[r] = "void"
    BY DEF CatchInv
  <1>d. DOMAIN status = Submissions /\ DOMAIN on = Slots /\ DOMAIN pc = Slots /\ DOMAIN out = Slots
    BY DEF TypeInv, TypeOK
  <1>e. NoSub \notin Submissions
    BY PipelineAssumption
  <1> USE <1>a, <1>c, <1>d, <1>e DEF InStep
  <1>1. ASSUME NEW r \in Submissions, Insert(r) \/ RowDeleted(r) \/ Refuse(r) PROVE InStep(k)'
    <2>1. UNCHANGED <<on, pc, out>>
      BY <1>1 DEF Insert, RowDeleted, Refuse, queueVars, workerVars, slotVars
    <2>2. \A q \in Submissions : q # r \/ job[r] # "none" => status'[q] \in {status[q], "absent"}
      BY <1>1 DEF Insert, RowDeleted, Refuse, SetStatus
    <2>3. pc[k] # "idle" => status'[on[k]] \in {status[on[k]], "absent"}
      BY <2>2
    <2> QED
      BY <2>1, <2>3
  <1>2. ASSUME NEW j \in Slots, NEW r \in Submissions, Fetch(j, r) PROVE InStep(k)'
    <2>1. stalls[r] = 0 /\ status[r] \in {"absent", "queued"}
      BY <1>2 DEF Fetch, Forward
    <2>2. ~(stalls[r] > MaxStalls)
      BY <2>1, PipelineAssumption
    <2>3. /\ on' = [on EXCEPT ![j] = r] /\ pc' = [pc EXCEPT ![j] = "marking"]
          /\ UNCHANGED <<status, out>>
      BY <1>2, <2>2 DEF Fetch, rowVars
    <2>4. CASE k = j
      BY <2>1, <2>3, <2>4
    <2>5. CASE k # j
      BY <2>3, <2>5
    <2> QED
      BY <2>4, <2>5
  <1>3. ASSUME NEW j \in Slots, MarkRunning(j) PROVE InStep(k)'
    <2>1. /\ on[j] \in Submissions /\ pc[j] = "marking"
          /\ SetStatus(on[j], "running") /\ pc' = [pc EXCEPT ![j] = "reading"] /\ UNCHANGED <<on, out>>
      BY <1>3 DEF MarkRunning, Step
    <2>2. CASE k = j
      BY <2>1, <2>2 DEF SetStatus, RowExists
    <2>3. CASE k # j
      <3>1. pc'[k] = pc[k] /\ (pc[k] # "idle" => status'[on[k]] = status[on[k]])
        BY <2>1, <2>3 DEF SetStatus
      <3> QED
        BY <2>1, <3>1
    <2> QED
      BY <2>2, <2>3
  <1>4. ASSUME NEW j \in Slots, ReadRow(j) \/ Grade(j) \/ Throw(j) PROVE InStep(k)'
    <2>1. UNCHANGED <<status, on>> /\ (k # j => pc'[k] = pc[k] /\ out'[k] = out[k])
      BY <1>4 DEF ReadRow, Grade, Throw, Step, rowVars
    <2>2. CASE k = j
      BY <1>4, <2>1, <2>2 DEF ReadRow, Grade, Throw, Step, RowExists
    <2> QED
      BY <2>1, <2>2
  <1>5. ASSUME NEW j \in Slots, Save(j) PROVE InStep(k)'
    <2>1. /\ on[j] \in Submissions /\ pc[j] = "saving"
          /\ SetStatus(on[j], StatusOf(out[j])) /\ pc' = [pc EXCEPT ![j] = "reporting"]
          /\ UNCHANGED <<on, out>>
      BY <1>5 DEF Save, Step
    <2>2. CASE k = j
      BY <2>1, <2>2
    <2>3. CASE k # j
      <3>1. pc'[k] = pc[k] /\ (pc[k] # "idle" => status'[on[k]] = status[on[k]])
        BY <2>1, <2>3 DEF SetStatus
      <3> QED
        BY <2>1, <3>1
    <2> QED
      BY <2>2, <2>3
  <1>6. ASSUME NEW j \in Slots, Complete(j) \/ ReportFailure(j) PROVE InStep(k)'
    <2>1. /\ pc' = [pc EXCEPT ![j] = "idle"] /\ UNCHANGED status
          /\ on' = [on EXCEPT ![j] = NoSub] /\ out' = [out EXCEPT ![j] = "none"]
      BY <1>6 DEF Complete, ReportFailure, FreeSlot, rowVars
    <2> QED
      BY <2>1
  <1>7. ASSUME NEW w \in Workers, NEW r \in Submissions, FailedHandler(w, r) PROVE InStep(k)'
    <2>1. job[r] = "failed"
      BY <1>7 DEF FailedHandler, DeliveryInv, FirstDelivery, Forward
    <2>2. /\ UNCHANGED <<on, pc, out>>
          /\ \A q \in Submissions : q # r => status'[q] = status[q]
      BY <1>7 DEF FailedHandler, SetStatus, slotVars
    <2> QED
      BY <2>1, <2>2
  <1>8. CASE UNCHANGED <<status, on, pc, out>>
    BY <1>8
  <1>9. ASSUME NEW r \in Submissions, StalledCheck(r) PROVE InStep(k)'
    BY <1>9 DEF StalledCheck, rowVars, workerVars, slotVars
  <1> QED
    BY <1>b, <1>1, <1>2, <1>3, <1>4, <1>5, <1>6, <1>7, <1>8, <1>9, NextCases
    DEF AddApplied, Accept, AddRejected, ApiDies, LockLapses, Sigterm, Exit, Restart,
        rowVars, queueVars, workerVars, slotVars, vars

(* What an undisturbed step does to the rows: nothing, or one step of       *)
(* SubmissionLifecycle.                                                    *)
LEMMA AdvanceStep ==
  ASSUME TypeInv, DeliveryInv, HoldsLock, CatchInv, ~Disturbed, ~Disturbed',
         \A s \in Submissions : Forward(s), \A k \in Slots : InStep(k),
         [Next]_vars
  PROVE  Lifecycle!Advance \/ UNCHANGED <<status, result>>
  <1> DEFINE Goal == Lifecycle!Advance \/ UNCHANGED <<status, result>>
  <1>a. \A k \in Slots : pc[k] # "idle" => on[k] \in Submissions
    BY InHand
  <1>b. (\A w \in Workers : ~Die(w)) /\ (\A s \in Submissions : ~EnqueueTimeout(s))
    BY NothingStrikes
  <1> USE DEF Lifecycle!Advance, Lifecycle!Move
  <1>1. ASSUME NEW s \in Submissions, Insert(s) PROVE Goal
    <2>1. Lifecycle!Submit(s)
      BY <1>1 DEF Insert, Forward, Lifecycle!Submit
    <2> QED
      BY <2>1
  <1>2. ASSUME NEW s \in Submissions, Refuse(s) PROVE Goal
    <2>1. Lifecycle!GiveUp(s) \/ UNCHANGED <<status, result>>
      BY <1>2 DEF Refuse, Forward, SetStatus, RowExists, Lifecycle!GiveUp
    <2> QED
      BY <2>1
  <1>3. ASSUME NEW s \in Submissions, RowDeleted(s) PROVE Goal
    <2>1. Lifecycle!Delete(s)
      BY <1>3 DEF RowDeleted, RowExists, TypeInv, TypeOK, Settled, Lifecycle!Delete
    <2> QED
      BY <2>1
  <1>4. ASSUME NEW k \in Slots, MarkRunning(k) PROVE Goal
    <2>1. on[k] \in Submissions /\ status[on[k]] \in {"absent", "queued"}
      BY <1>4, <1>a DEF MarkRunning, Step, InStep
    <2>2. Lifecycle!Begin(on[k]) \/ UNCHANGED <<status, result>>
      BY <1>4, <2>1 DEF MarkRunning, SetStatus, RowExists, Lifecycle!Begin
    <2> QED
      BY <2>1, <2>2
  <1>5. ASSUME NEW k \in Slots, Save(k) PROVE Goal
    <2>1. on[k] \in Submissions /\ status[on[k]] \in {"absent", "running"}
      BY <1>5, <1>a DEF Save, Step, InStep
    <2>2. CASE RowExists(on[k])
      <3>1. /\ status' = [status EXCEPT ![on[k]] = StatusOf(out[k])]
            /\ result' = [result EXCEPT ![on[k]] = out[k]]
        BY <1>5, <2>2 DEF Save, SetStatus
      <3>2. status[on[k]] = "running" /\ result[on[k]] = "none"
        BY <2>1, <2>2 DEF RowExists, Forward
      <3>3. out[k] \in Outcomes
        BY <1>5 DEF Save, Step, InStep
      <3>4. Lifecycle!Record(on[k], out[k])
        BY <3>1, <3>2 DEF StatusOf, Lifecycle!Record, Lifecycle!StatusOf
      <3> QED
        BY <2>1, <3>3, <3>4 DEF Outcomes, Lifecycle!Outcomes
    <2>3. CASE ~RowExists(on[k])
      BY <1>5, <2>3 DEF Save, SetStatus
    <2> QED
      BY <2>2, <2>3
  <1>6. ASSUME NEW w \in Workers, NEW s \in Submissions, FailedHandler(w, s) PROVE Goal
    <2>1. status[s] # "completed"
      BY <1>6 DEF FailedHandler, DeliveryInv, FirstDelivery, Forward
    <2>2. Lifecycle!GiveUp(s) \/ UNCHANGED <<status, result>>
      <3>1. CASE status[s] \in {"queued", "running"}
        BY <1>6, <3>1 DEF FailedHandler, SetStatus, RowExists, Lifecycle!GiveUp
      <3>2. CASE status[s] \in {"absent", "error"}
        BY <1>6, <3>2 DEF FailedHandler, SetStatus, RowExists, TypeInv, TypeOK
      <3> QED
        BY <2>1, <3>1, <3>2 DEF TypeInv, TypeOK, Settled
    <2> QED
      BY <2>2
  <1>7. CASE UNCHANGED <<status, result>>
    BY <1>7
  <1> QED
    BY <1>b, <1>1, <1>2, <1>3, <1>4, <1>5, <1>6, <1>7, NextCases
    DEF AddApplied, Accept, AddRejected, ApiDies, LockLapses, StalledCheck, Fetch, ReadRow, Grade,
        Complete, Throw, ReportFailure, Sigterm, Exit, Restart, rowVars, vars

(* The pipeline implements SubmissionLifecycle: until a process is cut      *)
(* short, a lock is lost or an enqueue times out, a row only moves forward *)
(* and is graded once, through every interleaving of the request, the      *)
(* queue, the slots and the 'failed' handlers, any number of failing       *)
(* queries and sandboxes, of graceful stops, and deaths of the API.        *)
THEOREM ImplementsLifecycle == Spec => FollowsLifecycle
  <1> DEFINE Orderly == /\ CatchInv
                        /\ \A s \in Submissions : Forward(s)
                        /\ \A k \in Slots : InStep(k)
             Inv == HoldsLock /\ (~Disturbed => Orderly)
             Base == TypeInv /\ DeliveryInv
  <1>1. Init => Inv
    <2>1. Init => CatchInv /\ HoldsLock
      BY PipelineAssumption DEF Init, CatchInv, HoldsLock
    <2>2. Init => \A s \in Submissions : Forward(s)
      BY DEF Init, Forward
    <2>3. Init => \A k \in Slots : InStep(k)
      BY DEF Init, InStep
    <2> QED
      BY <2>1, <2>2, <2>3
  <1>2. Base /\ [Next]_vars /\ Disturbed => Disturbed'
    BY StruckStays DEF Disturbed
  <1>3. Base /\ Inv /\ [Next]_vars => Inv'
    <2>1. SUFFICES ASSUME Base, Inv, [Next]_vars PROVE Inv'
      OBVIOUS
    <2>2. HoldsLock'
      BY <2>1, HoldsLockStep
    <2>3. ASSUME ~Disturbed' PROVE Orderly'
      <3>1. ~Disturbed /\ Orderly
        BY <1>2, <2>1, <2>3
      <3>2. ~Struck("timeout")'
        BY <2>3 DEF Disturbed
      <3>3. CatchInv'
        BY <2>1, <3>1, <3>2, CatchInvStep
      <3>4. ASSUME NEW s \in Submissions PROVE Forward(s)'
        BY <2>1, <2>3, <3>1, ForwardStep
      <3>5. ASSUME NEW k \in Slots PROVE InStep(k)'
        BY <2>1, <2>3, <3>1, InStepStep
      <3> QED
        BY <3>3, <3>4, <3>5
    <2> QED
      BY <2>2, <2>3
  <1>4. Init => Lifecycle!Init
    <2>1. Init => ~Disturbed
      BY DEF Init, Disturbed, Struck
    <2> QED
      BY <2>1 DEF Init, Disturbed, Lifecycle!Init
  <1>5. Base /\ Inv /\ [Next]_vars => [Lifecycle!Next]_<<status, result, Disturbed>>
    <2>1. SUFFICES ASSUME Base, Inv, [Next]_vars
                   PROVE  Lifecycle!Next \/ UNCHANGED <<status, result, Disturbed>>
      OBVIOUS
    <2>2. CASE Disturbed'
      BY <2>2 DEF Lifecycle!Next, Disturbed
    <2>3. CASE ~Disturbed'
      <3>1. ~Disturbed /\ Orderly
        BY <1>2, <2>1, <2>3
      <3>2. Lifecycle!Advance \/ UNCHANGED <<status, result>>
        BY <2>1, <2>3, <3>1, AdvanceStep
      <3>3. UNCHANGED Disturbed
        BY <2>3, <3>1 DEF Disturbed
      <3> QED
        BY <3>1, <3>2, <3>3 DEF Lifecycle!Next, Disturbed
    <2> QED
      BY <2>2, <2>3
  <1>6. Spec => Lifecycle!Spec
    BY <1>1, <1>3, <1>4, <1>5, TypeInvariance, Delivery, PTL DEF Spec, Lifecycle!Spec, Disturbed
  <1> QED
    BY <1>6 DEF FollowsLifecycle

=============================================================================
