------------------------ MODULE GraphExecutionProofs ------------------------
(***************************************************************************)
(* What holds of graph executions for any number of executions, pods and   *)
(* requests, and however often each kind of trouble strikes.               *)
(***************************************************************************)
EXTENDS GraphExecution, FiniteSetTheorems, TLAPS

-----------------------------------------------------------------------------
(* The types of what the steps assign. *)

LEMMA Defaults == AnyExec \in Execs /\ AnyPod \in Pods
BY StateConstants, ManagerConstants DEF AnyExec, AnyPod

LEMMA DefaultRecords == IdleHandler \in HandlerRecord /\ FreeRun \in RunRecord
BY Defaults DEF IdleHandler, FreeRun, HandlerRecord, RunRecord, HandlerStages,
   RunStages, Verdicts, Results

\* Whatever the table allows, an update leaves a status behind.
LEMMA UpdatedStatus ==
  ASSUME SharedTypeOK, NEW e \in Execs, NEW to \in Statuses, UpdateStatus(e, to)
  PROVE  status' \in [Execs -> Statuses \cup {Absent}]
BY DEF SharedTypeOK, UpdateStatus, Moved

LEMMA EnqueuedMessage ==
  ASSUME SharedTypeOK, NEW e \in Execs, Enqueue(e)
  PROVE  ready' \in [Execs -> Nat]
BY DEF SharedTypeOK, Enqueue

LEMMA SpentTrouble ==
  ASSUME SharedTypeOK, NEW f \in Faults, Spend(f)
  PROVE  spent' \in [Faults -> Nat]
BY DEF SharedTypeOK, Spend

LEMMA MovedCall ==
  ASSUME ApiTypeOK, NEW c \in Calls, NEW at \in CallStages, MoveCall(c, at)
  PROVE  call' \in [Calls -> CallRecord]
<1>1. \A r \in CallRecord : [r EXCEPT !.at = at] \in CallRecord
  BY DEF CallRecord
<1>2. QED  BY <1>1 DEF ApiTypeOK, MoveCall

LEMMA BegunCall ==
  ASSUME ApiTypeOK, NEW c \in Calls, NEW e \in Execs, NEW at \in CallStages,
         NEW picks \in SUBSET Nat, BeginCall(c, e, at, picks)
  PROVE  call' \in [Calls -> CallRecord]
<1>1. [at |-> at, exec |-> e, picks |-> picks] \in CallRecord
  BY DEF CallRecord
<1>2. QED  BY <1>1 DEF ApiTypeOK, BeginCall

LEMMA MovedStop ==
  ASSUME ApiTypeOK, NEW e \in Execs, NEW at \in StopStages, MoveStop(e, at)
  PROVE  stop' \in [Execs -> StopRecord]
<1>1. \A r \in StopRecord : [r EXCEPT !.at = at] \in StopRecord
  BY DEF StopRecord
<1>2. QED  BY <1>1 DEF ApiTypeOK, MoveStop

\* The types of what is not history.
StateTypeOK == SharedTypeOK /\ ApiTypeOK /\ ManagerTypeOK

LEMMA InitTypes == Init => TypeOK
<1>1. Init => SharedTypeOK
  BY StateConstants DEF Init, SharedInit, SharedTypeOK, NoReviews, ReviewRecord
<1>2. Init => ApiTypeOK
  BY Defaults DEF Init, ApiInit, ApiTypeOK, NoCall, NoStop, CallRecord, StopRecord,
     CallStages, StopStages, AnyExec
<1>3. Init => ManagerTypeOK
  BY DefaultRecords DEF Init, ManagerInit, ManagerTypeOK, NoSlots
<1>4. QED  BY <1>1, <1>2, <1>3 DEF Init, TypeOK

LEMMA FaultNames ==
  /\ {"crash", "drain", "grace", "lapse", "raise", "redis"} \subseteq Faults
  /\ {"db", "publish", "api", "review", "stop"} \subseteq Faults
BY DEF Faults

\* What the API servers do to the state.
LEMMA ApiTypes == TypeOK /\ ApiNext => StateTypeOK'
<1> SUFFICES ASSUME TypeOK, ApiNext PROVE SharedTypeOK' /\ ApiTypeOK'
  BY DEF TypeOK, StateTypeOK, ManagerTypeOK, ApiNext, mgrVars
<1> USE DEF TypeOK, SharedTypeOK, ApiTypeOK, Statuses, shared
<1>a. \A c \in Calls : call[c].exec \in Execs
  BY DEF CallRecord
<1>r. \A e \in Execs, w \in SUBSET Nat : [review[e] EXCEPT !.waiting = w] \in ReviewRecord
  BY DEF ReviewRecord
<1>w. \A e \in Execs : review[e].opened \in Nat /\ review[e].waiting \in SUBSET Nat
  BY DEF ReviewRecord
<1>1. ASSUME NEW c \in Calls, NEW e \in Execs, CreateExecution(c, e)
     PROVE  SharedTypeOK' /\ ApiTypeOK'
  BY <1>1, BegunCall DEF CreateExecution, CallStages
<1>2. ASSUME NEW c \in Calls, NEW e \in Execs, BeginReview(c, e)
     PROVE  SharedTypeOK' /\ ApiTypeOK'
  <2>1. PICK picks \in SUBSET (1..review[e].opened) \ {{}} : BeginCall(c, e, "decide", picks)
    BY <1>2 DEF BeginReview
  <2>2. picks \in SUBSET Nat
    BY <1>w
  <2>3. QED  BY <1>2, <2>1, <2>2, BegunCall DEF BeginReview, CallStages
<1>3. ASSUME NEW c \in Calls, QueueStatus(c) PROVE SharedTypeOK' /\ ApiTypeOK'
  BY <1>3, <1>a, MovedCall, UpdatedStatus DEF QueueStatus, CallStages
<1>4. ASSUME NEW c \in Calls, CheckQueued(c) PROVE SharedTypeOK' /\ ApiTypeOK'
  BY <1>4, <1>a, MovedCall DEF CheckQueued, CallStages
<1>5. ASSUME NEW c \in Calls, Publish(c) PROVE SharedTypeOK' /\ ApiTypeOK'
  BY <1>5, <1>a, MovedCall, EnqueuedMessage DEF Publish, CallStages
<1>6. ASSUME NEW c \in Calls, FailStatus(c) PROVE SharedTypeOK' /\ ApiTypeOK'
  BY <1>6, <1>a, MovedCall, UpdatedStatus DEF FailStatus, CallStages
<1>7. ASSUME NEW c \in Calls, DecideReviews(c) PROVE SharedTypeOK' /\ ApiTypeOK'
  <2> DEFINE e == call[c].exec
             w == review[e].waiting \ call[c].picks
  <2>1. e \in Execs /\ w \in SUBSET Nat
    BY <1>a, <1>w
  <2>2. \/ review' = [review EXCEPT ![e] = [review[e] EXCEPT !.waiting = w]]
        \/ review' = review
    BY <1>7, <2>1 DEF DecideReviews
  <2>3. review' \in [Execs -> ReviewRecord]
    <3>1. [review[e] EXCEPT !.waiting = w] \in ReviewRecord
      BY <1>r, <2>1
    <3>2. QED  BY <2>1, <2>2, <3>1
  <2>4. QED  BY <1>7, <2>3, MovedCall DEF DecideReviews, CallStages
<1>8. ASSUME NEW c \in Calls, ResumeAfterReview(c) PROVE SharedTypeOK' /\ ApiTypeOK'
  BY <1>8, <1>a, MovedCall DEF ResumeAfterReview, CallStages
<1>9. ASSUME NEW c \in Calls, PublishUnconfirmed(c) PROVE SharedTypeOK' /\ ApiTypeOK'
  BY <1>9, <1>a, MovedCall, EnqueuedMessage, SpentTrouble, FaultNames DEF PublishUnconfirmed, CallStages
<1>10. ASSUME NEW c \in Calls, QueueingFails(c) PROVE SharedTypeOK' /\ ApiTypeOK'
  BY <1>10, <1>a, MovedCall, SpentTrouble, FaultNames DEF QueueingFails, CallStages
<1>11. ASSUME NEW c \in Calls, ApiCrash(c) PROVE SharedTypeOK' /\ ApiTypeOK'
  BY <1>11, <1>a, MovedCall, SpentTrouble, FaultNames DEF ApiCrash, CallStages
<1>12. ASSUME NEW e \in Execs, StopChildren(e) PROVE SharedTypeOK' /\ ApiTypeOK'
  <2>1. \A x \in Execs : [stop[x] EXCEPT !.at = "enter"] \in StopRecord
    BY DEF StopRecord, StopStages
  <2>2. [at |-> "children", kids |-> Children(e)] \in StopRecord
    BY DEF StopRecord, StopStages, Children
  <2>3. QED  BY <1>12, <2>1, <2>2 DEF StopChildren
<1>13. ASSUME NEW e \in Execs, AwaitChildren(e) PROVE SharedTypeOK' /\ ApiTypeOK'
  BY <1>13, MovedStop DEF AwaitChildren, StopStages
<1>14. ASSUME NEW e \in Execs, PublishCancel(e) PROVE SharedTypeOK' /\ ApiTypeOK'
  BY <1>14, MovedStop DEF PublishCancel, StopStages
<1>15. ASSUME NEW e \in Execs, PollStatus(e) PROVE SharedTypeOK' /\ ApiTypeOK'
  BY <1>15, MovedStop DEF PollStatus, StopStages
<1>16. ASSUME NEW e \in Execs, CancelReviews(e) PROVE SharedTypeOK' /\ ApiTypeOK'
  <2>1. review' \in [Execs -> ReviewRecord]
    BY <1>16, <1>r DEF CancelReviews
  <2>2. QED  BY <1>16, <2>1, MovedStop DEF CancelReviews, StopStages
<1>17. ASSUME NEW e \in Execs, TerminateStatus(e) PROVE SharedTypeOK' /\ ApiTypeOK'
  BY <1>17, MovedStop, UpdatedStatus DEF TerminateStatus, StopStages
<1>18. ASSUME NEW e \in Execs, BeginStop(e) PROVE SharedTypeOK' /\ ApiTypeOK'
  BY <1>18, MovedStop, SpentTrouble, FaultNames DEF BeginStop, StopStages
<1>19. ASSUME NEW e \in Execs, StopTimeout(e) PROVE SharedTypeOK' /\ ApiTypeOK'
  BY <1>19, MovedStop DEF StopTimeout, StopStages
<1>20. QED
  BY <1>1, <1>2, <1>3, <1>4, <1>5, <1>6, <1>7, <1>8, <1>9, <1>10, <1>11, <1>12, <1>13, <1>14, <1>15, <1>16, <1>17, <1>18, <1>19
  DEF ApiNext, CallStep, StopStep

LEMMA MovedHandler ==
  ASSUME ManagerTypeOK, NEW p \in Pods, NEW at \in HandlerStages, MoveHandler(p, at)
  PROVE  handler' \in [Pods -> HandlerRecord]
<1>1. \A r \in HandlerRecord : [r EXCEPT !.at = at] \in HandlerRecord
  BY DEF HandlerRecord
<1>2. QED  BY <1>1 DEF ManagerTypeOK, MoveHandler

LEMMA MovedRun ==
  ASSUME ManagerTypeOK, NEW s \in Slots, NEW at \in RunStages, MoveRun(s, at)
  PROVE  run' \in [Slots -> RunRecord]
<1>1. \A r \in RunRecord : [r EXCEPT !.at = at] \in RunRecord
  BY DEF RunRecord
<1>2. QED  BY <1>1 DEF ManagerTypeOK, MoveRun

LEMMA RetiredRun == \A r \in RunRecord : Retired(r) \in RunRecord
BY DefaultRecords DEF Retired

LEMMA StillActiveRuns ==
  ASSUME ManagerTypeOK, NEW p \in Pods
  PROVE  StillActive(p) \in [Execs -> Slots \cup {NoSlot}]
BY DEF ManagerTypeOK, StillActive

LEMMA ReleasedKey ==
  ASSUME ManagerTypeOK, NEW e \in Execs, NEW stamped
  PROVE  KeyAfterRelease(e, stamped) \in [Execs -> Pods \cup {NoPod}]
BY DEF ManagerTypeOK, KeyAfterRelease

LEMMA CountedMessages ==
  ASSUME NEW p \in Pods, NEW e \in Execs
  PROVE  /\ UnsettledOf(p, e) \in Nat
         /\ OpenRunsOf(p, e) # {} => UnsettledOf(p, e) > 0
         /\ handler[p].at # "idle" /\ handler[p].exec = e => UnsettledOf(p, e) > 0
<1>1. IsFiniteSet(OpenRunsOf(p, e))
  BY ManagerConstants, FS_Subset DEF OpenRunsOf, OpenRuns
<1>2. Cardinality(OpenRunsOf(p, e)) \in Nat
  BY <1>1, FS_CardinalityType
<1>3. OpenRunsOf(p, e) # {} => Cardinality(OpenRunsOf(p, e)) # 0
  BY <1>1, FS_EmptySet
<1>4. QED  BY <1>2, <1>3 DEF UnsettledOf

\* What the pods, Redis and the broker do to the state.
LEMMA ManagerTypes == TypeOK /\ ManagerNext => StateTypeOK'
<1> SUFFICES ASSUME TypeOK, ManagerNext PROVE SharedTypeOK' /\ ManagerTypeOK'
  BY DEF TypeOK, StateTypeOK, ApiTypeOK, ManagerNext, apiVars
<1> USE DEF TypeOK, SharedTypeOK, ManagerTypeOK, shared
<1>h. \A p \in Pods : handler[p].exec \in Execs /\ handler[p].stamped \in BOOLEAN
  BY DEF HandlerRecord
<1>s. \A s \in Slots : run[s].exec \in Execs /\ run[s].pod \in Pods
  BY DEF RunRecord
<1>1. ASSUME NEW p \in Pods, NEW e \in Execs, Deliver(p, e) PROVE SharedTypeOK' /\ ManagerTypeOK'
  <2>1. \A at \in {"requeue", "root"} :
          [at |-> at, exec |-> e, stamped |-> FALSE] \in HandlerRecord
    BY DEF HandlerRecord, HandlerStages
  <2>2. handler' \in [Pods -> HandlerRecord]
    BY <1>1, <2>1 DEF Deliver
  <2>3. QED  BY <1>1, <2>2, StillActiveRuns DEF Deliver
<1>2. ASSUME NEW p \in Pods, CheckRoot(p) PROVE SharedTypeOK' /\ ManagerTypeOK'
  BY <1>2, <1>h, MovedHandler DEF CheckRoot, HandlerStages
<1>3. ASSUME NEW p \in Pods, SkipOrphan(p) PROVE SharedTypeOK' /\ ManagerTypeOK'
  BY <1>3, <1>h, MovedHandler, UpdatedStatus DEF SkipOrphan, HandlerStages, Statuses
<1>4. ASSUME NEW p \in Pods, CheckRate(p) PROVE SharedTypeOK' /\ ManagerTypeOK'
  BY <1>4, <1>h, MovedHandler DEF CheckRate, HandlerStages
<1>5. ASSUME NEW p \in Pods, RateUnknown(p) PROVE SharedTypeOK' /\ ManagerTypeOK'
  BY <1>5, <1>h, MovedHandler, SpentTrouble, FaultNames DEF RateUnknown, HandlerStages
<1>6. ASSUME NEW p \in Pods, RejectLocal(p) PROVE SharedTypeOK' /\ ManagerTypeOK'
  BY <1>6, <1>h, MovedHandler DEF RejectLocal, HandlerStages
<1>7. ASSUME NEW p \in Pods, TryLock(p) PROVE SharedTypeOK' /\ ManagerTypeOK'
  <2>1. \A r \in HandlerRecord :
          [r EXCEPT !.at = "submit", !.stamped = TRUE] \in HandlerRecord
    BY DEF HandlerRecord, HandlerStages
  <2>2. handler' \in [Pods -> HandlerRecord]
    <3>1. CASE MoveHandler(p, "owner")
      BY <3>1, MovedHandler DEF HandlerStages
    <3>2. CASE handler' = [handler EXCEPT ![p].at = "submit", ![p].stamped = TRUE]
      BY <2>1, <3>2
    <3>3. QED  BY <1>7, <3>1, <3>2 DEF TryLock
  <2>3. QED  BY <1>7, <1>h, <2>2 DEF TryLock
<1>8. ASSUME NEW p \in Pods, ReadLockOwner(p) PROVE SharedTypeOK' /\ ManagerTypeOK'
  BY <1>8, <1>h, MovedHandler DEF ReadLockOwner, HandlerStages
<1>9. ASSUME NEW p \in Pods, DropDuplicate(p) PROVE SharedTypeOK' /\ ManagerTypeOK'
  BY <1>9, <1>h, MovedHandler, DefaultRecords DEF DropDuplicate, HandlerStages
<1>10. ASSUME NEW p \in Pods, LockUnavailable(p) PROVE SharedTypeOK' /\ ManagerTypeOK'
  BY <1>10, <1>h, MovedHandler, SpentTrouble, FaultNames, SMTT(30) DEF LockUnavailable, HandlerStages
<1>11. ASSUME NEW p \in Pods, Submit(p) PROVE SharedTypeOK' /\ ManagerTypeOK'
  <2> DEFINE e == handler[p].exec
             r == [FreeRun EXCEPT !.at = "submitted", !.pod = p, !.exec = e,
                                  !.stamped = handler[p].stamped, !.verdict = "open"]
  <2>1. r \in RunRecord
    BY <1>h, DefaultRecords DEF RunRecord, RunStages, Verdicts
  <2>2. PICK s \in Slots : /\ run' = [run EXCEPT ![s] = r]
                           /\ active' = [active EXCEPT ![p][e] = s]
                           /\ held' = [held EXCEPT ![p][e] = s]
    BY <1>11 DEF Submit, FreeSlots
  <2> HIDE DEF r
  <2>3. QED  BY <1>11, <1>h, <2>1, <2>2, DefaultRecords DEF Submit
<1>12. ASSUME NEW p \in Pods, SubmitFails(p) PROVE SharedTypeOK' /\ ManagerTypeOK'
  BY <1>12, <1>h, MovedHandler, ReleasedKey DEF SubmitFails, HandlerStages
<1>13. ASSUME NEW p \in Pods, RepublishHandled(p) PROVE SharedTypeOK' /\ ManagerTypeOK'
  BY <1>13, <1>h, MovedHandler, EnqueuedMessage, DefaultRecords DEF RepublishHandled, HandlerStages
<1>14. ASSUME NEW p \in Pods, SettleHandled(p) PROVE SharedTypeOK' /\ ManagerTypeOK'
  BY <1>14, <1>h, MovedHandler, DefaultRecords DEF SettleHandled, HandlerStages
<1>15. ASSUME NEW s \in Slots, ReadMeta(s) PROVE SharedTypeOK' /\ ManagerTypeOK'
  BY <1>15, <1>s, MovedRun DEF ReadMeta, RunStages
<1>16. ASSUME NEW s \in Slots, StartTime(s) PROVE SharedTypeOK' /\ ManagerTypeOK'
  BY <1>16, <1>s, MovedRun DEF StartTime, RunStages, Statuses
<1>17. ASSUME NEW s \in Slots, ResumeStatus(s) PROVE SharedTypeOK' /\ ManagerTypeOK'
  BY <1>17, <1>s, MovedRun, UpdatedStatus DEF ResumeStatus, RunStages, Statuses
<1>18. ASSUME NEW s \in Slots, OpenReview(s) PROVE SharedTypeOK' /\ ManagerTypeOK'
  <2> DEFINE e == run[s].exec
             n == review[e].opened + 1
             w == review[e].waiting \cup {n}
  <2>1. [opened |-> n, waiting |-> w] \in ReviewRecord
    BY <1>s DEF ReviewRecord
  <2>2. review' = [review EXCEPT ![e] = [opened |-> n, waiting |-> w]]
    BY <1>18, <1>s DEF OpenReview
  <2> HIDE DEF n, w
  <2>3. review' \in [Execs -> ReviewRecord]
    BY <2>1, <2>2, <1>s
  <2>4. spent' \in [Faults -> Nat]
    BY <1>18, SpentTrouble, FaultNames DEF OpenReview
  <2>5. QED  BY <1>18, <2>3, <2>4 DEF OpenReview, mgrVars
<1>19. ASSUME NEW s \in Slots, PollLock(s) PROVE SharedTypeOK' /\ ManagerTypeOK'
  <2>1. \A r \in RunRecord, x \in BOOLEAN : [r EXCEPT !.stamped = x] \in RunRecord
    BY DEF RunRecord
  <2>2. (key[run[s].exec] = run[s].pod) \in BOOLEAN
    OBVIOUS
  <2>3. QED  BY <1>19, <2>1, <2>2 DEF PollLock
<1>20. ASSUME NEW s \in Slots, WriteResult(s) PROVE SharedTypeOK' /\ ManagerTypeOK'
  <2>1. run[s].result \in Statuses
    BY DEF RunRecord, Results, Statuses
  <2>2. QED  BY <1>20, <1>s, <2>1, MovedRun, UpdatedStatus DEF WriteResult, RunStages
<1>21. ASSUME NEW s \in Slots, ScheduleVerdict(s) PROVE SharedTypeOK' /\ ManagerTypeOK'
  <2>1. \A r \in RunRecord, v \in Verdicts :
          [r EXCEPT !.at = "release", !.verdict = v] \in RunRecord
    BY DEF RunRecord, RunStages
  <2>2. PICK v \in Verdicts : run' = [run EXCEPT ![s].at = "release", ![s].verdict = v]
    BY <1>21 DEF ScheduleVerdict, RunRecord, Verdicts
  <2>3. run' \in [Slots -> RunRecord]
    BY <2>1, <2>2
  <2>4. QED  BY <1>21, <2>3 DEF ScheduleVerdict
<1>22. ASSUME NEW s \in Slots, ReleaseLock(s) PROVE SharedTypeOK' /\ ManagerTypeOK'
  <2> DEFINE e == run[s].exec
             t == held[run[s].pod][e]
  <2>1. t \in Slots /\ e \in Execs
    <3>1. run[s].pod \in Pods /\ e \in Execs
      BY <1>s
    <3>2. t \in Slots \cup {NoSlot}
      BY <3>1
    <3>3. t # NoSlot
      BY <1>22 DEF ReleaseLock
    <3>4. QED  BY <3>1, <3>2, <3>3
  <2>2. run' = [run EXCEPT ![t].stamped = FALSE, ![s].at = "forget"]
    BY <1>22 DEF ReleaseLock
  <2>3. \A r \in RunRecord : /\ [r EXCEPT !.stamped = FALSE] \in RunRecord
                             /\ [r EXCEPT !.at = "forget"] \in RunRecord
    BY DEF RunRecord, RunStages
  <2>4. run' \in [Slots -> RunRecord]
    BY <2>1, <2>2, <2>3
  <2>5. QED  BY <1>22, <2>1, <2>4, ReleasedKey DEF ReleaseLock
<1>23. ASSUME NEW s \in Slots, ForgetRun(s) PROVE SharedTypeOK' /\ ManagerTypeOK'
  <2>1. \A r \in RunRecord : [r EXCEPT !.at = "gone"] \in RunRecord
    BY DEF RunRecord, RunStages
  <2>2. run' \in [Slots -> RunRecord]
    BY <1>23, <2>1, RetiredRun DEF ForgetRun
  <2>3. QED  BY <1>23, <1>s, <2>2, StillActiveRuns DEF ForgetRun
<1>24. ASSUME NEW s \in Slots, Settle(s) PROVE SharedTypeOK' /\ ManagerTypeOK'
  <2>1. \A r \in RunRecord, v \in Verdicts : [r EXCEPT !.verdict = v] \in RunRecord
    BY DEF RunRecord
  <2>2. /\ [run[s] EXCEPT !.verdict = "nack"] \in RunRecord
        /\ Retired([run[s] EXCEPT !.verdict = "settled"]) \in RunRecord
    BY <2>1, RetiredRun DEF Verdicts
  <2>3. run' \in [Slots -> RunRecord]
    BY <1>24, <2>2 DEF Settle
  <2>4. QED  BY <1>24, <1>s, <2>3, EnqueuedMessage DEF Settle
<1>25. ASSUME NEW p \in Pods, NEW e \in Execs, HandleCancel(p, e) PROVE SharedTypeOK' /\ ManagerTypeOK'
  <2>1. \A r \in RunRecord : [r EXCEPT !.cancel = TRUE] \in RunRecord
    BY DEF RunRecord
  <2>2. run' \in [Slots -> RunRecord]
    BY <1>25, <2>1 DEF HandleCancel
  <2>3. QED  BY <1>25, <2>2 DEF HandleCancel
<1>26. ASSUME NEW e \in Execs, LeaseExpires(e) PROVE SharedTypeOK' /\ ManagerTypeOK'
  BY <1>26, SpentTrouble, FaultNames DEF LeaseExpires
<1>27. ASSUME NEW p \in Pods, BeginShutdown(p) PROVE SharedTypeOK' /\ ManagerTypeOK'
  BY <1>27, SpentTrouble, FaultNames DEF BeginShutdown
<1>28. ASSUME NEW p \in Pods, FinishShutdown(p) PROVE SharedTypeOK' /\ ManagerTypeOK'
  <2>1. \A r \in RunRecord : /\ [r EXCEPT !.stamped = FALSE] \in RunRecord
                             /\ [r EXCEPT !.at = "gone", !.stamped = FALSE] \in RunRecord
    BY DEF RunRecord, RunStages
  <2>2. run' \in [Slots -> RunRecord]
    BY <1>28, <2>1 DEF FinishShutdown
  <2>3. NoSlots \in [Execs -> Slots \cup {NoSlot}]
    BY DEF NoSlots
  <2>4. QED
    BY <1>28, <2>2, <2>3, StillActiveRuns, SpentTrouble, FaultNames DEF FinishShutdown
<1>29. ASSUME NEW p \in Pods, Disconnect(p) PROVE SharedTypeOK' /\ ManagerTypeOK'
  <2>1. \A r \in RunRecord : [r EXCEPT !.verdict = "settled"] \in RunRecord
    BY DEF RunRecord, Verdicts
  <2>2. run' \in [Slots -> RunRecord]
    BY <1>29, <2>1, RetiredRun DEF Disconnect
  <2>3. NoSlots \in [Execs -> Slots \cup {NoSlot}]
    BY DEF NoSlots
  <2>4. ready' \in [Execs -> Nat]
    BY <1>29, CountedMessages DEF Disconnect, GiveBack
  <2>5. lost' \in SUBSET Execs
    BY <1>29, <1>s DEF Disconnect
  <2>6. QED  BY <1>29, <2>2, <2>3, <2>4, <2>5, DefaultRecords DEF Disconnect, GiveBack
<1>30. ASSUME NEW p \in Pods, Crash(p) PROVE SharedTypeOK' /\ ManagerTypeOK'
  <2>1. NoSlots \in [Execs -> Slots \cup {NoSlot}]
    BY DEF NoSlots
  <2>2. ready' \in [Execs -> Nat]
    BY <1>30, CountedMessages DEF Crash, GiveBack
  <2>3. QED
    BY <1>30, <2>1, <2>2, DefaultRecords, SpentTrouble, FaultNames DEF Crash, GiveBack
<1>31. QED
  BY <1>1, <1>2, <1>3, <1>4, <1>5, <1>6, <1>7, <1>8, <1>9, <1>10, <1>11, <1>12, <1>13, <1>14, <1>15, <1>16, <1>17, <1>18, <1>19, <1>20, <1>21, <1>22, <1>23, <1>24, <1>25, <1>26, <1>27, <1>28, <1>29, <1>30
  DEF ManagerNext, HandlerStep, RunStep

\* The end of the dispatch loop, with the blocks it interrupts.
LEMMA EndTypes == TypeOK /\ (\E s \in Slots : EndEngine(s)) => StateTypeOK'
<1> SUFFICES ASSUME TypeOK, NEW s \in Slots, EndEngine(s) PROVE StateTypeOK'
  OBVIOUS
<1> USE DEF TypeOK, SharedTypeOK, ApiTypeOK, ManagerTypeOK, shared
<1>1. \A r \in RunRecord, x \in Results, y \in BOOLEAN :
        [r EXCEPT !.at = "write", !.result = x, !.raised = y] \in RunRecord
  BY DEF RunRecord, RunStages
<1>2. EndStatuses(s) \subseteq Results
  BY DEF EndStatuses, Results
<1>3. PICK x \in Results, y \in BOOLEAN : EndRun(s, x, y)
  BY <1>2 DEF EndEngine, EngineEnds, EngineRaises, Results
<1>4. run' \in [Slots -> RunRecord]
  BY <1>1, <1>3 DEF EndRun
<1>5. SharedTypeOK' /\ ManagerTypeOK'
  BY <1>4, SpentTrouble, FaultNames DEF EndEngine, EngineEnds, EngineRaises
<1>6. \A r \in StopRecord : [r EXCEPT !.at = "enter"] \in StopRecord
  BY DEF StopRecord, StopStages
<1>7. \A r \in CallRecord : [r EXCEPT !.at = "fail"] \in CallRecord
  BY DEF CallRecord, CallStages
<1>8. ApiTypeOK'
  BY <1>6, <1>7 DEF EndEngine, Interrupt
<1>9. QED  BY <1>5, <1>8 DEF StateTypeOK

LEMMA TypesPreserved == TypeOK /\ [Next]_vars => TypeOK'
<1>1. CASE UNCHANGED vars
  BY <1>1 DEF vars, state, shared, apiVars, mgrVars, TypeOK, SharedTypeOK, ApiTypeOK,
     ManagerTypeOK
<1>2. ASSUME TypeOK, Next PROVE TypeOK'
  <2>1. StateTypeOK'
    BY <1>2, ApiTypes, ManagerTypes, EndTypes DEF Next
  <2>2. unlocked' \in SUBSET Execs /\ hasty' \in SUBSET Execs
    BY <1>2 DEF Next, TypeOK
  <2>3. QED  BY <2>1, <2>2 DEF TypeOK, StateTypeOK
<1>3. QED  BY <1>1, <1>2

\* Type correctness: whatever fails, statuses, messages, requests, pods, runs,
\* locks and registries stay what they are declared to be.
THEOREM TypeCorrect == Spec => []TypeOK
BY InitTypes, TypesPreserved, PTL DEF Spec


-----------------------------------------------------------------------------
(* Who is forgotten. *)

\* How far a run is, what became of its message, and whether its pod may still
\* begin it go together; a thread at work whose message was given back is known.
Ordered(r) ==
  /\ r.at = "free" => r.verdict = "settled"
  /\ r.at = "submitted" => r.verdict = "open" /\ mode[r.pod] \in {"up", "stopping"}
  /\ r.at \in {"start", "resume", "engine", "write"} =>
       r.verdict = "open" \/ (r.verdict = "settled" /\ r.exec \in lost)
  /\ r.at = "done" => r.verdict \in {"open", "settled"}
  /\ r.at = "write" /\ r.result = "RUNNING" => r.raised

RunsOrdered == \A s \in Slots : Ordered(run[s])

\* A pod without a connection has no message in its hands.
HandlersConnected == \A p \in Pods : Handling(p, "idle") \/ Connected(p)

Remembered(e) == Attended(e) \/ e \in lost

\* The inductive invariant.
Memory == RunsOrdered /\ HandlersConnected /\ OnlyDropsForget
IInv == TypeOK /\ Memory

\* An execution is remembered as long as it keeps its status, or is over, and
\* what attends to it is replaced by something else that does.
LEMMA Lasting ==
  ASSUME NEW e \in Execs, Remembered(e), lost \subseteq lost',
         status'[e] = status[e] \/ status'[e] \notin Live,
         Publishing(e) => Publishing(e)' \/ Delivered(e)',
         Delivered(e) => Delivered(e)',
         Executing(e) => Executing(e)' \/ Delivered(e)'
  PROVE  Remembered(e)'
BY DEF Remembered, Attended, Live

LEMMA InitInvariant == Init => IInv
<1> SUFFICES ASSUME Init PROVE IInv
  OBVIOUS
<1>1. TypeOK
  BY InitTypes
<1>2. RunsOrdered
  BY DEF Init, ManagerInit, RunsOrdered, Ordered, FreeRun
<1>3. HandlersConnected
  BY DEF Init, ManagerInit, HandlersConnected, Handling, IdleHandler
<1>4. OnlyDropsForget
  BY DEF Init, SharedInit, OnlyDropsForget, Attended, Absent
<1>5. QED  BY <1>1, <1>2, <1>3, <1>4 DEF IInv, Memory

\* Runs, handlers and pods as they were, and nobody found again.
LEMMA SameOrder ==
  ASSUME RunsOrdered, HandlersConnected, UNCHANGED <<mode, handler, run>>,
         lost \subseteq lost'
  PROVE  RunsOrdered' /\ HandlersConnected'
BY DEF RunsOrdered, Ordered, HandlersConnected, Handling, Connected

\* What the API servers do keeps every message and every thread.
LEMMA ApiRemembers == IInv /\ ApiNext => Memory'
<1> SUFFICES ASSUME IInv, ApiNext PROVE Memory'
  OBVIOUS
<1> USE DEF IInv, Memory, shared
<1>u. UNCHANGED <<mode, handler, run>>
  BY DEF ApiNext, mgrVars
<1>t. /\ status \in [Execs -> Statuses \cup {Absent}] /\ ready \in [Execs -> Nat]
      /\ call \in [Calls -> CallRecord] /\ \A c \in Calls : call[c].exec \in Execs
  BY DEF TypeOK, SharedTypeOK, ApiTypeOK, CallRecord
<1>m. \A e \in Execs : Remembered(e)
  BY DEF OnlyDropsForget, Remembered
<1>d. ASSUME NEW e \in Execs, ready[e] > 0 => ready'[e] > 0
      PROVE  /\ Delivered(e) => Delivered(e)'
             /\ Executing(e) => Executing(e)'
  BY <1>u, <1>d DEF Delivered, Executing
<1>p. ASSUME NEW e \in Execs, lost \subseteq lost', ready[e] > 0 => ready'[e] > 0,
             status'[e] = status[e] \/ status'[e] \notin Live,
             \A c \in Calls : call[c].exec = e /\ call[c].at \in {"check", "publish", "fail"}
                => call'[c].exec = e /\ call'[c].at \in {"check", "publish", "fail"}
      PROVE  Remembered(e)'
  BY <1>m, <1>d, <1>p, Lasting DEF Publishing
<1>g. SUFFICES lost \subseteq lost' /\ \A e \in Execs : Remembered(e)'
  BY <1>u, SameOrder DEF OnlyDropsForget, Remembered
<1>1. ASSUME NEW c \in Calls, NEW e \in Execs, CreateExecution(c, e) \/ BeginReview(c, e)
      PROVE  lost \subseteq lost' /\ \A x \in Execs : Remembered(x)'
  <2>1. PICK picks : BeginCall(c, e, "update", picks) \/ BeginCall(c, e, "decide", picks)
    BY <1>1 DEF CreateExecution, BeginReview
  <2>2. \A d \in Calls : d # c => call'[d] = call[d]
    BY <2>1, <1>t DEF BeginCall
  <2>3. call[c].at = "unused"
    BY <2>1 DEF BeginCall, CallAt
  <2>4. \A x \in Execs : status'[x] = status[x] \/ status'[x] = "INCOMPLETE"
    BY <1>1, <1>t DEF CreateExecution, BeginReview
  <2>5. lost' = lost /\ ready' = ready
    BY <1>1 DEF CreateExecution, BeginReview
  <2>6. QED  BY <1>p, <2>2, <2>3, <2>4, <2>5 DEF Live
<1>2. ASSUME NEW c \in Calls, QueueStatus(c)
      PROVE  lost \subseteq lost' /\ \A x \in Execs : Remembered(x)'
  <2>0. PICK e \in Execs : e = call[c].exec
    BY <1>t
  <2>1. /\ call' = [call EXCEPT ![c].at = "check"]
        /\ status' = [status EXCEPT ![e] = Moved(@, "QUEUED")]
        /\ lost' = lost /\ ready' = ready
    BY <2>0, <1>2 DEF QueueStatus, MoveCall, UpdateStatus
  <2>2. call'[c].exec = e /\ call'[c].at = "check"
    BY <2>0, <2>1, <1>t DEF CallRecord
  <2>3. ASSUME NEW x \in Execs, x # e PROVE Remembered(x)'
    BY <2>0, <2>1, <2>2, <2>3, <1>p, <1>t DEF CallRecord
  <2>4. Remembered(e)'
    <3>1. Publishing(e)'
      BY <2>0, <2>2 DEF Publishing
    <3>2. status'[e] = "QUEUED" \/ status'[e] = status[e]
      BY <2>0, <2>1, <1>t DEF Moved
    <3>3. CASE status'[e] = status[e]
      BY <2>0, <3>1, <3>3, <2>1, <1>m, <1>d, <1>t, Lasting
    <3>4. CASE status'[e] = "QUEUED"
      BY <2>0, <3>1, <3>4 DEF Remembered, Attended
    <3>5. QED  BY <2>0, <3>2, <3>3, <3>4
  <2>5. QED  BY <2>0, <2>1, <2>3, <2>4
<1>3. ASSUME NEW c \in Calls, CheckQueued(c)
      PROVE  lost \subseteq lost' /\ \A x \in Execs : Remembered(x)'
  <2>0. PICK e \in Execs : e = call[c].exec
    BY <1>t
  <2>1. /\ \A d \in Calls : d # c => call'[d] = call[d]
        /\ call'[c].exec = e
        /\ status[e] = "QUEUED" => call'[c].at = "publish"
        /\ UNCHANGED <<status, ready, lost>>
    BY <2>0, <1>3, <1>t DEF CheckQueued, MoveCall, CallRecord
  <2>2. ASSUME NEW x \in Execs, x # e \/ status[e] = "QUEUED" PROVE Remembered(x)'
    BY <2>0, <2>1, <2>2, <1>p
  <2>3. ASSUME status[e] # "QUEUED" PROVE Remembered(e)'
    BY <2>0, <2>1, <2>3, <1>m, <1>d, <1>t DEF Remembered, Attended
  <2>4. QED  BY <2>0, <2>1, <2>2, <2>3
<1>4. ASSUME NEW c \in Calls, Publish(c)
      PROVE  lost \subseteq lost' /\ \A x \in Execs : Remembered(x)'
  <2>0. PICK e \in Execs : e = call[c].exec
    BY <1>t
  <2>1. /\ \A d \in Calls : d # c => call'[d] = call[d]
        /\ ready' = [ready EXCEPT ![e] = @ + 1]
        /\ UNCHANGED <<status, lost>>
    BY <2>0, <1>4, <1>t DEF Publish, MoveCall, Enqueue, CallRecord
  <2>2. ready'[e] > 0 /\ \A x \in Execs : ready[x] > 0 => ready'[x] > 0
    BY <2>0, <2>1, <1>t
  <2>3. Delivered(e)'
    BY <2>0, <2>2 DEF Delivered
  <2>4. Remembered(e)'
    BY <2>0, <2>1, <2>3, <1>m, <1>t, Lasting
  <2>5. ASSUME NEW x \in Execs, x # e PROVE Remembered(x)'
    BY <2>0, <2>1, <2>2, <2>5, <1>p
  <2>6. QED  BY <2>0, <2>1, <2>4, <2>5
<1>5. ASSUME NEW c \in Calls, PublishUnconfirmed(c) \/ QueueingFails(c)
      PROVE  lost \subseteq lost' /\ \A x \in Execs : Remembered(x)'
  <2>0. PICK e \in Execs : e = call[c].exec
    BY <1>t
  <2>1. /\ \A d \in Calls : d # c => call'[d] = call[d]
        /\ call'[c].exec = e /\ call'[c].at \in {"publish", "fail"}
    BY <2>0, <1>5, <1>t DEF PublishUnconfirmed, QueueingFails, MoveCall, CallRecord
  <2>2. \A x \in Execs : ready[x] > 0 => ready'[x] > 0
    BY <2>0, <1>5, <1>t DEF PublishUnconfirmed, QueueingFails, Enqueue
  <2>3. UNCHANGED <<status, lost>>
    BY <2>0, <1>5 DEF PublishUnconfirmed, QueueingFails
  <2>4. QED  BY <2>0, <2>1, <2>2, <2>3, <1>p
<1>6. ASSUME NEW c \in Calls, FailStatus(c)
      PROVE  lost \subseteq lost' /\ \A x \in Execs : Remembered(x)'
  <2>0. PICK e \in Execs : e = call[c].exec
    BY <1>t
  <2>1. /\ \A d \in Calls : d # c => call'[d] = call[d]
        /\ status' = [status EXCEPT ![e] = Moved(@, "FAILED")]
        /\ UNCHANGED <<ready, lost>>
    BY <2>0, <1>6, <1>t DEF FailStatus, MoveCall, UpdateStatus, CallRecord
  <2>2. status'[e] \notin Live
    BY <2>0, <2>1, <1>t DEF Moved, AllowedFrom, Live
  <2>3. Remembered(e)'
    BY <2>0, <2>2 DEF Remembered, Attended, Live
  <2>4. ASSUME NEW x \in Execs, x # e PROVE Remembered(x)'
    BY <2>0, <2>1, <2>4, <1>p, <1>t
  <2>5. QED  BY <2>0, <2>1, <2>3, <2>4
<1>7. ASSUME NEW c \in Calls, ApiCrash(c)
      PROVE  lost \subseteq lost' /\ \A x \in Execs : Remembered(x)'
  <2>0. PICK e \in Execs : e = call[c].exec
    BY <1>t
  <2>1. /\ \A d \in Calls : d # c => call'[d] = call[d]
        /\ lost \subseteq lost'
        /\ UNCHANGED <<status, ready>>
    BY <2>0, <1>7, <1>t DEF ApiCrash, MoveCall, CallRecord
  <2>2. call[c].at \in {"check", "publish", "fail"} => e \in lost'
    BY <2>0, <1>7 DEF ApiCrash
  <2>3. ASSUME NEW x \in Execs, x # e \/ e \notin lost' PROVE Remembered(x)'
    BY <2>0, <2>1, <2>2, <2>3, <1>p
  <2>4. e \in lost' => Remembered(e)'
    BY <2>0 DEF Remembered
  <2>5. QED  BY <2>0, <2>1, <2>3, <2>4
<1>8. ASSUME NEW c \in Calls, DecideReviews(c) \/ ResumeAfterReview(c)
      PROVE  lost \subseteq lost' /\ \A x \in Execs : Remembered(x)'
  <2>1. /\ \A d \in Calls : d # c => call'[d] = call[d]
        /\ call[c].at \in {"decide", "pending"}
        /\ UNCHANGED <<status, ready, lost>>
    BY <1>8, <1>t DEF DecideReviews, ResumeAfterReview, MoveCall, CallAt, CallRecord
  <2>2. QED  BY <2>1, <1>p
<1>9. ASSUME NEW e \in Execs,
             \/ BeginStop(e) \/ StopChildren(e) \/ AwaitChildren(e) \/ PublishCancel(e)
             \/ PollStatus(e) \/ CancelReviews(e) \/ StopTimeout(e)
      PROVE  lost \subseteq lost' /\ \A x \in Execs : Remembered(x)'
  <2>1. UNCHANGED <<status, ready, lost, call>>
    BY <1>9 DEF BeginStop, StopChildren, AwaitChildren, PublishCancel, PollStatus,
       CancelReviews, StopTimeout
  <2>2. QED  BY <2>1, <1>p
<1>10. ASSUME NEW e \in Execs, TerminateStatus(e)
       PROVE  lost \subseteq lost' /\ \A x \in Execs : Remembered(x)'
  <2>1. status' = [status EXCEPT ![e] = Moved(@, "TERMINATED")]
    BY <1>10 DEF TerminateStatus, UpdateStatus
  <2>2. \A x \in Execs : status'[x] = status[x] \/ status'[x] = "TERMINATED"
    BY <2>1, <1>t DEF Moved
  <2>3. UNCHANGED <<ready, lost, call>>
    BY <1>10 DEF TerminateStatus
  <2>4. QED  BY <2>2, <2>3, <1>p DEF Live
<1>11. QED
  BY <1>1, <1>2, <1>3, <1>4, <1>5, <1>6, <1>7, <1>8, <1>9, <1>10 DEF ApiNext, CallStep, StopStep

\* A step of the handler of one pod that keeps the message in its hands.
LEMMA HandlerGoesOn ==
  ASSUME IInv, NEW p \in Pods, ~Handling(p, "idle"),
         handler'[p].exec = handler[p].exec, handler'[p].at \notin {"idle", "settle"},
         \A q \in Pods : q # p => handler'[q] = handler[q],
         UNCHANGED <<status, ready, lost, call, mode, run>>
  PROVE  Memory'
<1>1. RunsOrdered'
  BY DEF IInv, Memory, RunsOrdered, Ordered
<1>2. HandlersConnected'
  BY DEF IInv, Memory, HandlersConnected, Handling, Connected
<1>3. ASSUME NEW e \in Execs PROVE Remembered(e)'
  <2>1. Delivered(e) => Delivered(e)'
    BY DEF Delivered, Handling
  <2>2. QED
    BY <2>1, Lasting DEF IInv, Memory, OnlyDropsForget, Remembered, Publishing, Executing
<1>4. QED  BY <1>1, <1>2, <1>3 DEF Memory, OnlyDropsForget, Remembered

\* A step of one run.
RunMoves(s) ==
  /\ UNCHANGED <<lost, mode, handler>>
  /\ \A t \in Slots : t # s => run'[t] = run[t]
  /\ \A x \in Execs : /\ Publishing(x) => Publishing(x)'
                      /\ ready[x] > 0 => ready'[x] > 0
                      /\ x # run[s].exec => status'[x] = status[x]

\* Only its own execution can be forgotten then.
LEMMA RunGoesOn ==
  ASSUME IInv, NEW s \in Slots, NEW e \in Execs, e = run[s].exec, RunMoves(s),
         Ordered(run[s])', Remembered(e)'
  PROVE  Memory'
<1>1. RunsOrdered'
  BY DEF IInv, Memory, RunsOrdered, Ordered, RunMoves
<1>2. HandlersConnected'
  BY DEF IInv, Memory, HandlersConnected, Handling, Connected, RunMoves
<1>3. ASSUME NEW x \in Execs, x # e PROVE Remembered(x)'
  <2>1. Delivered(x) => Delivered(x)'
    BY <1>3 DEF Delivered, RunMoves
  <2>2. Executing(x) => Executing(x)'
    BY <1>3 DEF Executing, RunMoves
  <2>3. QED
    BY <1>3, <2>1, <2>2, Lasting DEF IInv, Memory, OnlyDropsForget, Remembered, RunMoves
<1>4. QED  BY <1>1, <1>2, <1>3 DEF Memory, OnlyDropsForget, Remembered

\* ... and is not, if the run is for it what it was, or its message is back.
LEMMA RunAttends ==
  ASSUME IInv, NEW s \in Slots, NEW e \in Execs, e = run[s].exec, RunMoves(s),
         status'[e] = status[e],
         Carries(run[s]) => (Carries(run'[s]) /\ run'[s].exec = e) \/ ready'[e] > 0,
         Works(run[s]) => Works(run'[s]) /\ run'[s].exec = e
  PROVE  Remembered(e)'
<1>1. Delivered(e) => Delivered(e)'
  BY DEF Delivered, RunMoves
<1>2. Executing(e) => Executing(e)'
  BY DEF Executing, RunMoves
<1>3. QED
  BY <1>1, <1>2, Lasting DEF IInv, Memory, OnlyDropsForget, Remembered, RunMoves

\* The steps of the handlers.
LEMMA HandlersRemember ==
  ASSUME IInv, NEW p \in Pods, UNCHANGED apiVars,
         \/ \E e \in Execs : Deliver(p, e)
         \/ HandlerStep(p) \/ RateUnknown(p) \/ LockUnavailable(p)
  PROVE  Memory'
<1> USE DEF shared, apiVars
<1>t. /\ status \in [Execs -> Statuses \cup {Absent}] /\ ready \in [Execs -> Nat]
      /\ handler \in [Pods -> HandlerRecord] /\ run \in [Slots -> RunRecord]
      /\ mode \in [Pods -> {"up", "stopping", "closing", "closed", "down"}]
  BY DEF IInv, TypeOK, SharedTypeOK, ManagerTypeOK
<1>h. handler[p].exec \in Execs
  BY <1>t DEF HandlerRecord
<1>m. \A e \in Execs : Remembered(e)
  BY DEF IInv, Memory, OnlyDropsForget, Remembered
<1>1. ASSUME NEW e \in Execs, Deliver(p, e) PROVE Memory'
  <2>1. /\ \A q \in Pods : q # p => handler'[q] = handler[q]
        /\ handler'[p].exec = e /\ handler'[p].at \in {"requeue", "root"}
        /\ handler[p].at = "idle" /\ Connected(p)
        /\ \A x \in Execs : x # e => ready'[x] = ready[x]
        /\ UNCHANGED <<status, lost, mode, run>>
    BY <1>1, <1>t DEF Deliver, Handling, HandlerRecord
  <2>2. RunsOrdered'
    BY <2>1 DEF IInv, Memory, RunsOrdered, Ordered
  <2>3. HandlersConnected'
    BY <2>1 DEF IInv, Memory, HandlersConnected, Handling, Connected
  <2>4. \A x \in Execs : Delivered(x) => Delivered(x)'
    BY <2>1 DEF Delivered
  <2>5. \A x \in Execs : Remembered(x)'
    BY <1>m, <2>1, <2>4, Lasting DEF Publishing, Executing
  <2>6. QED  BY <2>2, <2>3, <2>5 DEF Memory, OnlyDropsForget, Remembered
<1>2. ASSUME \/ CheckRoot(p) \/ CheckRate(p) \/ RateUnknown(p) \/ RejectLocal(p)
             \/ TryLock(p) \/ ReadLockOwner(p) \/ LockUnavailable(p) \/ SubmitFails(p)
      PROVE  Memory'
  <2>1. /\ \A q \in Pods : q # p => handler'[q] = handler[q]
        /\ handler'[p].exec = handler[p].exec
        /\ handler'[p].at \notin {"idle", "settle"}
    BY <1>2, <1>t DEF CheckRoot, CheckRate, RateUnknown, RejectLocal, TryLock,
       ReadLockOwner, LockUnavailable, SubmitFails, MoveHandler, HandlerRecord
  <2>2. UNCHANGED <<status, ready, lost, mode, run>> /\ ~Handling(p, "idle")
    BY <1>2 DEF CheckRoot, CheckRate, RateUnknown, RejectLocal, TryLock,
       ReadLockOwner, LockUnavailable, SubmitFails, Handling
  <2>3. QED  BY <2>1, <2>2, HandlerGoesOn
<1>3. ASSUME SkipOrphan(p) \/ SettleHandled(p) \/ DropDuplicate(p) \/ RepublishHandled(p)
      PROVE  Memory'
  <2>0. PICK e \in Execs : e = handler[p].exec
    BY <1>h
  <2>1. /\ \A q \in Pods : q # p => handler'[q] = handler[q]
        /\ handler'[p].at \in {"idle", "settle"}
        /\ lost \subseteq lost' /\ UNCHANGED <<mode, run>>
        /\ \A x \in Execs : x # e => status'[x] = status[x] /\ ready'[x] = ready[x]
        /\ ready[e] > 0 => ready'[e] > 0
    BY <1>3, <1>t, <2>0 DEF SkipOrphan, SettleHandled, DropDuplicate, RepublishHandled,
       MoveHandler, UpdateStatus, Enqueue, HandlerRecord, IdleHandler
  <2>2. ~Handling(p, "idle")
    BY <1>3 DEF SkipOrphan, SettleHandled, DropDuplicate, RepublishHandled, Handling
  <2>3. RunsOrdered'
    BY <2>1 DEF IInv, Memory, RunsOrdered, Ordered
  <2>4. HandlersConnected'
    BY <2>1, <2>2 DEF IInv, Memory, HandlersConnected, Handling, Connected
  <2>5. ASSUME NEW x \in Execs, x # e PROVE Remembered(x)'
    <3>1. Delivered(x) => Delivered(x)'
      BY <2>0, <2>1, <2>5 DEF Delivered
    <3>2. QED  BY <1>m, <2>1, <2>5, <3>1, Lasting DEF Publishing, Executing
  <2>6. Remembered(e)'
    <3>1. CASE SkipOrphan(p)
      <4>1. status'[e] \notin Live
        BY <1>t, <2>0, <3>1 DEF SkipOrphan, UpdateStatus, Moved, AllowedFrom, Live
      <4>2. QED  BY <4>1 DEF Remembered, Attended, Live
    <3>2. CASE SettleHandled(p)
      <4>1. Delivered(e) => Delivered(e)'
        BY <2>0, <2>1, <3>2 DEF Delivered, SettleHandled, Handling
      <4>2. UNCHANGED status
        BY <3>2 DEF SettleHandled
      <4>3. QED  BY <1>m, <2>1, <4>1, <4>2, Lasting DEF Publishing, Executing
    <3>3. CASE DropDuplicate(p)
      BY <2>0, <3>3 DEF DropDuplicate, Remembered
    <3>4. CASE RepublishHandled(p)
      <4>1. ready'[e] > 0 /\ UNCHANGED status
        BY <1>t, <2>0, <3>4 DEF RepublishHandled, Enqueue
      <4>2. Delivered(e)'
        BY <4>1 DEF Delivered
      <4>3. QED  BY <1>m, <2>1, <4>1, <4>2, Lasting DEF Publishing
    <3>5. QED  BY <1>3, <3>1, <3>2, <3>3, <3>4
  <2>7. QED  BY <2>3, <2>4, <2>5, <2>6 DEF Memory, OnlyDropsForget, Remembered
<1>4. ASSUME Submit(p) PROVE Memory'
  <2>0. PICK e \in Execs : e = handler[p].exec
    BY <1>h
  <2>1. PICK s \in Slots : /\ RunAt(s, "free")
                           /\ run' = [run EXCEPT ![s] =
                                [FreeRun EXCEPT !.at = "submitted", !.pod = p, !.exec = e,
                                   !.stamped = handler[p].stamped, !.verdict = "open"]]
    BY <1>4, <2>0 DEF Submit, FreeSlots
  <2>2. /\ handler[p].at = "submit" /\ mode[p] # "closing"
        /\ handler' = [handler EXCEPT ![p] = IdleHandler]
        /\ UNCHANGED <<status, ready, lost, mode>>
    BY <1>4 DEF Submit, Handling
  <2>3. /\ run'[s].at = "submitted" /\ run'[s].exec = e /\ run'[s].verdict = "open"
        /\ run'[s].pod = p /\ \A t \in Slots : t # s => run'[t] = run[t]
    BY <1>t, <2>1 DEF FreeRun
  <2>4. mode[p] \in {"up", "stopping"}
    BY <1>t, <2>2 DEF IInv, Memory, HandlersConnected, Handling, Connected
  <2>5. RunsOrdered'
    BY <2>2, <2>3, <2>4 DEF IInv, Memory, RunsOrdered, Ordered
  <2>6. HandlersConnected'
    BY <1>t, <2>2 DEF IInv, Memory, HandlersConnected, Handling, Connected, IdleHandler
  <2>7. Delivered(e)'
    BY <2>3 DEF Delivered, Carries
  <2>8. ~Carries(run[s]) /\ ~Works(run[s])
    BY <2>1 DEF IInv, Memory, RunsOrdered, Ordered, RunAt, Carries, Works
  <2>9. \A x \in Execs : Delivered(x) => Delivered(x)'
    BY <1>t, <2>0, <2>2, <2>3, <2>7, <2>8 DEF Delivered
  <2>10. \A x \in Execs : Executing(x) => Executing(x)'
    BY <2>3, <2>8 DEF Executing
  <2>11. \A x \in Execs : Remembered(x)'
    BY <1>m, <2>2, <2>9, <2>10, Lasting DEF Publishing
  <2>12. QED  BY <2>5, <2>6, <2>11 DEF Memory, OnlyDropsForget, Remembered
<1>5. QED  BY <1>1, <1>2, <1>3, <1>4 DEF HandlerStep

\* The steps of the runs, and of the connection that settles their messages.
LEMMA RunsRemember ==
  ASSUME IInv, NEW s \in Slots, UNCHANGED apiVars,
         RunStep(s) \/ OpenReview(s) \/ PollLock(s) \/ Settle(s)
  PROVE  Memory'
<1> USE DEF shared, apiVars, mgrVars
<1>t. /\ status \in [Execs -> Statuses \cup {Absent}] /\ ready \in [Execs -> Nat]
      /\ run \in [Slots -> RunRecord] /\ held \in [Pods -> [Execs -> Slots \cup {NoSlot}]]
  BY DEF IInv, TypeOK, SharedTypeOK, ManagerTypeOK
<1>m. \A x \in Execs : Remembered(x)
  BY DEF IInv, Memory, OnlyDropsForget, Remembered
<1>o. \A t \in Slots : Ordered(run[t])
  BY DEF IInv, Memory, RunsOrdered
<1>e. PICK e \in Execs : e = run[s].exec
  BY <1>t DEF RunRecord
<1>p. \A x \in Execs : Publishing(x) => Publishing(x)'
  BY DEF Publishing
<1>1. CASE ReadMeta(s)
  <2>1. PICK at \in {"start", "resume", "engine", "done"} :
          /\ run' = [run EXCEPT ![s].at = at]
          /\ at = "start" => status[e] \in {"QUEUED", "INCOMPLETE"}
          /\ at = "engine" => status[e] = "RUNNING"
          /\ at \in {"resume", "done"} => status[e] \notin Live
    BY <1>1, <1>e DEF ReadMeta, MoveRun, Live
  <2>2. UNCHANGED <<status, ready, lost, mode, handler>> /\ run[s].at = "submitted"
    BY <1>1 DEF ReadMeta, RunAt
  <2>3. /\ run'[s].exec = e /\ run'[s].verdict = "open" /\ run'[s].at = at
        /\ \A t \in Slots : t # s => run'[t] = run[t]
    BY <1>t, <1>e, <1>o, <2>1, <2>2 DEF RunRecord, Ordered
  <2>4. RunMoves(s)
    BY <1>p, <2>2, <2>3 DEF RunMoves
  <2>5. Ordered(run[s])'
    BY <2>1, <2>3 DEF Ordered
  <2>6. Remembered(e)'
    <3>1. CASE at = "start"
      BY <1>e, <2>2, <2>3, <2>4, <3>1, RunAttends DEF Carries, Works
    <3>2. CASE at = "engine"
      BY <2>1, <2>2, <2>3, <3>2 DEF Remembered, Attended, Executing, Works
    <3>3. CASE at \in {"resume", "done"}
      BY <2>1, <2>2, <3>3 DEF Remembered, Attended, Live
    <3>4. QED  BY <3>1, <3>2, <3>3
  <2>7. QED  BY <1>e, <2>4, <2>5, <2>6, RunGoesOn
<1>2. CASE StartTime(s) \/ ResumeStatus(s)
  <2>1. /\ run' = [run EXCEPT ![s].at = "engine"]
        /\ run[s].at \in {"start", "resume"}
        /\ UNCHANGED <<ready, lost, mode, handler>>
    BY <1>2 DEF StartTime, ResumeStatus, MoveRun, RunAt
  <2>2. /\ \A x \in Execs : x # e => status'[x] = status[x]
        /\ StartTime(s) => status'[e] = "RUNNING"
        /\ ResumeStatus(s) => status'[e] = status[e] \/ status'[e] = "RUNNING"
    BY <1>t, <1>e, <1>2 DEF StartTime, ResumeStatus, UpdateStatus, Moved
  <2>3. /\ run'[s].exec = e /\ run'[s].verdict = run[s].verdict /\ run'[s].at = "engine"
        /\ \A t \in Slots : t # s => run'[t] = run[t]
    BY <1>t, <1>e, <2>1 DEF RunRecord
  <2>4. RunMoves(s)
    BY <1>e, <1>p, <2>1, <2>2, <2>3 DEF RunMoves
  <2>5. run[s].verdict = "open" \/ (e \in lost /\ run[s].verdict = "settled")
    BY <1>e, <1>o, <2>1 DEF Ordered
  <2>6. Ordered(run[s])'
    BY <2>1, <2>3, <2>5 DEF Ordered
  <2>7. Remembered(e)'
    <3>1. CASE e \in lost
      BY <2>1, <3>1 DEF Remembered
    <3>2. CASE run[s].verdict = "open" /\ status'[e] = "RUNNING"
      BY <2>3, <3>2 DEF Remembered, Attended, Executing, Works
    <3>3. CASE run[s].verdict = "open" /\ ResumeStatus(s) /\ status'[e] = status[e]
      <4>1. run[s].at = "resume"
        BY <3>3 DEF ResumeStatus, RunAt
      <4>2. QED  BY <1>e, <2>3, <2>4, <3>3, <4>1, RunAttends DEF Carries, Works
    <3>4. QED  BY <1>2, <2>2, <2>5, <3>1, <3>2, <3>3
  <2>8. QED  BY <1>e, <2>4, <2>6, <2>7, RunGoesOn
<1>3. CASE OpenReview(s) \/ PollLock(s)
  <2>1. /\ run'[s].at = run[s].at /\ run'[s].exec = run[s].exec
        /\ run'[s].verdict = run[s].verdict /\ run'[s].raised = run[s].raised
        /\ run'[s].result = run[s].result
        /\ run[s].at = "engine"
        /\ \A t \in Slots : t # s => run'[t] = run[t]
    BY <1>t, <1>3 DEF OpenReview, PollLock, RunRecord, RunAt
  <2>2. UNCHANGED <<status, ready, lost, mode, handler>>
    BY <1>3 DEF OpenReview, PollLock
  <2>3. RunMoves(s)
    BY <1>p, <2>1, <2>2 DEF RunMoves
  <2>4. Ordered(run[s])'
    BY <1>o, <2>1, <2>2 DEF Ordered
  <2>5. Remembered(e)'
    BY <1>e, <2>1, <2>2, <2>3, RunAttends DEF Carries, Works
  <2>6. QED  BY <1>e, <2>3, <2>4, <2>5, RunGoesOn
<1>4. CASE WriteResult(s)
  <2>1. /\ run' = [run EXCEPT ![s].at = "done"]
        /\ run[s].at = "write"
        /\ status' = [status EXCEPT ![e] = Moved(@, run[s].result)]
        /\ UNCHANGED <<ready, lost, mode, handler>>
    BY <1>4, <1>e DEF WriteResult, MoveRun, RunAt, UpdateStatus
  <2>2. /\ run'[s].exec = e /\ run'[s].verdict = run[s].verdict /\ run'[s].at = "done"
        /\ run'[s].raised = run[s].raised
        /\ \A t \in Slots : t # s => run'[t] = run[t]
        /\ \A x \in Execs : x # e => status'[x] = status[x]
    BY <1>t, <1>e, <2>1 DEF RunRecord
  <2>3. RunMoves(s)
    BY <1>e, <1>p, <2>1, <2>2 DEF RunMoves
  <2>4. run[s].verdict = "open" \/ (e \in lost /\ run[s].verdict = "settled")
    BY <1>e, <1>o, <2>1 DEF Ordered
  <2>5. Ordered(run[s])'
    BY <2>2, <2>4 DEF Ordered
  <2>6. Remembered(e)'
    <3>1. CASE e \in lost
      BY <2>1, <3>1 DEF Remembered
    <3>2. CASE run[s].verdict = "open" /\ run[s].raised
      <4>1. Delivered(e)'
        BY <2>2, <3>2 DEF Delivered, Carries
      <4>2. QED  BY <4>1 DEF Remembered, Attended
    <3>3. CASE run[s].verdict = "open" /\ ~run[s].raised
      <4>1. run[s].result \in {"COMPLETED", "FAILED", "TERMINATED", "REVIEW"}
        BY <1>t, <1>o, <2>1, <3>3 DEF Ordered, RunRecord, Results
      <4>2. status[e] = "RUNNING" => status'[e] \notin Live
        BY <1>t, <2>1, <4>1 DEF Moved, AllowedFrom, Live
      <4>3. status'[e] = status[e] \/ status'[e] \notin Live
        BY <1>t, <2>1, <4>1 DEF Moved, Live
      <4>4. CASE status'[e] \notin Live
        BY <4>4 DEF Remembered, Attended, Live
      <4>5. CASE status'[e] = status[e] /\ status[e] # "RUNNING"
        <5>1. ~Carries(run[s])
          BY <2>1, <3>3 DEF Carries
        <5>2. Delivered(e) => Delivered(e)'
          BY <1>e, <2>1, <2>2, <5>1 DEF Delivered
        <5>3. QED  BY <1>m, <1>p, <2>1, <4>5, <5>2 DEF Remembered, Attended
      <4>6. QED  BY <4>2, <4>3, <4>4, <4>5
    <3>4. QED  BY <2>4, <3>1, <3>2, <3>3
  <2>7. QED  BY <1>e, <2>3, <2>5, <2>6, RunGoesOn
<1>5. CASE ScheduleVerdict(s)
  <2>1. PICK v \in Verdicts :
          /\ run' = [run EXCEPT ![s].at = "release", ![s].verdict = v]
          /\ v = IF run[s].verdict = "settled" THEN "settled"
                 ELSE IF run[s].raised THEN "requeue" ELSE "ack"
    BY <1>t, <1>5 DEF ScheduleVerdict, Verdicts, RunRecord
  <2>2. run[s].at = "done" /\ UNCHANGED <<status, ready, lost, mode, handler>>
    BY <1>5 DEF ScheduleVerdict, RunAt
  <2>3. /\ run'[s].exec = e /\ run'[s].verdict = v /\ run'[s].at = "release"
        /\ \A t \in Slots : t # s => run'[t] = run[t]
    BY <1>t, <1>e, <2>1 DEF RunRecord
  <2>4. RunMoves(s)
    BY <1>p, <2>2, <2>3 DEF RunMoves
  <2>5. Ordered(run[s])'
    BY <2>3 DEF Ordered
  <2>6. run[s].verdict \in {"open", "settled"}
    BY <1>o, <2>2 DEF Ordered
  <2>7. Remembered(e)'
    BY <1>e, <2>1, <2>2, <2>3, <2>4, <2>6, RunAttends DEF Carries, Works
  <2>8. QED  BY <1>e, <2>4, <2>5, <2>7, RunGoesOn
<1>6. CASE ReleaseLock(s)
  <2>1. PICK t \in Slots : run' = [run EXCEPT ![t].stamped = FALSE, ![s].at = "forget"]
    <3>1. held[run[s].pod][run[s].exec] \in Slots
      <4>1. run[s].pod \in Pods /\ run[s].exec \in Execs
        BY <1>t DEF RunRecord
      <4>2. held[run[s].pod][run[s].exec] \in Slots \cup {NoSlot}
        BY <1>t, <4>1
      <4>3. QED  BY <1>6, <4>2 DEF ReleaseLock
    <3>2. QED  BY <1>6, <3>1 DEF ReleaseLock
  <2>2. run[s].at = "release" /\ UNCHANGED <<status, ready, lost, mode, handler, call>>
    BY <1>6 DEF ReleaseLock, RunAt
  <2>3. /\ \A x \in Slots : /\ run'[x].exec = run[x].exec /\ run'[x].pod = run[x].pod
                            /\ run'[x].verdict = run[x].verdict
                            /\ run'[x].raised = run[x].raised
                            /\ run'[x].result = run[x].result
                            /\ x # s => run'[x].at = run[x].at
        /\ run'[s].at = "forget"
    BY <1>t, <2>1 DEF RunRecord
  <2>4. RunsOrdered'
    BY <1>o, <2>2, <2>3 DEF RunsOrdered, Ordered
  <2>5. HandlersConnected'
    BY <2>2 DEF IInv, Memory, HandlersConnected, Handling, Connected
  <2>6. \A x \in Slots : /\ Carries(run[x]) => Carries(run'[x])
                         /\ Works(run[x]) => Works(run'[x])
    BY <2>2, <2>3 DEF Carries, Works
  <2>7. \A x \in Execs : /\ Delivered(x) => Delivered(x)'
                         /\ Executing(x) => Executing(x)'
    BY <2>2, <2>3, <2>6 DEF Delivered, Executing
  <2>8. \A x \in Execs : Remembered(x)'
    BY <1>m, <1>p, <2>2, <2>7, Lasting
  <2>9. QED  BY <2>4, <2>5, <2>8 DEF Memory, OnlyDropsForget, Remembered
<1>7. CASE ForgetRun(s)
  <2>1. /\ run' = [run EXCEPT ![s] = Retired([@ EXCEPT !.at = "gone"])]
        /\ run[s].at \in {"release", "forget"}
        /\ UNCHANGED <<status, ready, lost, mode, handler>>
    BY <1>7 DEF ForgetRun, RunAt
  <2>2. /\ run'[s] = Retired([run[s] EXCEPT !.at = "gone"])
        /\ \A t \in Slots : t # s => run'[t] = run[t]
    BY <1>t, <2>1
  <2>3. RunMoves(s)
    BY <1>p, <2>1, <2>2 DEF RunMoves
  <2>4. \/ run'[s] = FreeRun /\ run[s].verdict = "settled"
        \/ run'[s].at = "gone" /\ run'[s].verdict = run[s].verdict /\ run'[s].exec = e
    BY <1>t, <1>e, <2>2 DEF Retired, RunRecord
  <2>5. Ordered(run[s])'
    BY <2>4 DEF Ordered, FreeRun
  <2>6. Remembered(e)'
    BY <1>e, <2>1, <2>3, <2>4, RunAttends DEF Carries, Works
  <2>7. QED  BY <1>e, <2>3, <2>5, <2>6, RunGoesOn
<1>8. CASE Settle(s)
  <2>1. PICK v \in {"nack", "settled"} :
          /\ \/ run' = [run EXCEPT ![s].verdict = v]
             \/ run' = [run EXCEPT ![s] = Retired([@ EXCEPT !.verdict = v])]
          /\ v = "nack" => run[s].verdict = "requeue"
    BY <1>8 DEF Settle
  <2>2. /\ run[s].verdict \in {"ack", "requeue", "nack"}
        /\ UNCHANGED <<status, lost, mode, handler>>
        /\ \A x \in Execs : ready[x] > 0 => ready'[x] > 0
        /\ run[s].verdict = "requeue" => ready'[e] > 0
    BY <1>t, <1>e, <1>8 DEF Settle, Enqueue
  <2>3. \A t \in Slots : t # s => run'[t] = run[t]
    BY <1>t, <2>1
  <2>4. run'[s] = FreeRun \/ run'[s].at = run[s].at
    BY <1>t, <2>1 DEF Retired, RunRecord
  <2>5. RunMoves(s)
    BY <1>p, <2>2, <2>3 DEF RunMoves
  <2>6. run[s].at \notin {"free", "submitted", "start", "resume", "engine", "write", "done"}
    BY <1>o, <2>2 DEF Ordered
  <2>7. Ordered(run[s])'
    BY <2>4, <2>6 DEF Ordered, FreeRun
  <2>8. Remembered(e)'
    BY <1>e, <2>2, <2>5, RunAttends DEF Carries, Works
  <2>9. QED  BY <1>e, <2>5, <2>7, <2>8, RunGoesOn
<1>9. QED  BY <1>1, <1>2, <1>3, <1>4, <1>5, <1>6, <1>7, <1>8 DEF RunStep

\* The end of a dispatch loop: the thread goes on to write the result.
LEMMA EndRemembers == IInv /\ (\E s \in Slots : EndEngine(s)) => Memory'
<1> SUFFICES ASSUME IInv, NEW s \in Slots, EndEngine(s) PROVE Memory'
  OBVIOUS
<1> USE DEF shared
<1>t. /\ run \in [Slots -> RunRecord] /\ Ordered(run[s])
      /\ call \in [Calls -> CallRecord]
  BY DEF IInv, TypeOK, ApiTypeOK, ManagerTypeOK, Memory, RunsOrdered
<1>e. PICK e \in Execs : e = run[s].exec
  BY <1>t DEF RunRecord
<1>1. PICK x, y : /\ EndRun(s, x, y)
                  /\ x = "RUNNING" => y
  BY DEF EndEngine, EngineEnds, EngineRaises, EndStatuses
<1>2. run[s].at = "engine" /\ UNCHANGED <<status, ready, lost, mode, handler>>
  BY DEF EndEngine, EngineEnds, EngineRaises, RunAt
<1>3. /\ run'[s].exec = e /\ run'[s].verdict = run[s].verdict /\ run'[s].at = "write"
      /\ run'[s].result = x /\ run'[s].raised = y
      /\ \A t \in Slots : t # s => run'[t] = run[t]
  BY <1>t, <1>e, <1>1 DEF EndRun, RunRecord
<1>4. \A c \in Calls :
        /\ call'[c].exec = call[c].exec
        /\ call'[c].at \in {call[c].at, "fail"}
  BY <1>t DEF EndEngine, Interrupt, CallRecord
<1>5. \A c \in Calls : call[c].at = "fail" => call'[c].at = "fail"
  BY <1>4
<1>6. \A z \in Execs : Publishing(z) => Publishing(z)'
  BY <1>4, <1>5 DEF Publishing
<1>7. RunMoves(s)
  BY <1>2, <1>3, <1>6 DEF RunMoves
<1>8. Ordered(run[s])'
  BY <1>t, <1>1, <1>2, <1>3, <1>e DEF Ordered
<1>9. Remembered(e)'
  BY <1>e, <1>2, <1>3, <1>7, RunAttends DEF Carries, Works
<1>10. QED  BY <1>e, <1>7, <1>8, <1>9, RunGoesOn

\* A pod that loses its connection gives its messages back, and whatever its
\* threads attended to has a message again.
LEMMA GivenBack ==
  ASSUME IInv, NEW p \in Pods, UNCHANGED apiVars, GiveBack(p), UNCHANGED status,
         lost \subseteq lost',
         \A s \in Slots : run[s].pod # p => run'[s] = run[s]
  PROVE  OnlyDropsForget'
<1>t. /\ ready \in [Execs -> Nat] /\ handler \in [Pods -> HandlerRecord]
  BY DEF IInv, TypeOK, SharedTypeOK, ManagerTypeOK
<1> SUFFICES ASSUME NEW e \in Execs PROVE Remembered(e)'
  BY DEF OnlyDropsForget, Remembered
<1>1. UnsettledOf(p, e) \in Nat /\ ready'[e] = ready[e] + UnsettledOf(p, e)
  BY CountedMessages DEF GiveBack
<1>2. ready[e] > 0 \/ UnsettledOf(p, e) > 0 => ready'[e] > 0
  BY <1>1, <1>t
<1>3. ready'[e] > 0 => Delivered(e)'
  BY DEF Delivered
<1>4. ASSUME NEW s \in Slots, run[s].exec = e, run[s].verdict # "settled", run[s].pod = p
      PROVE  Delivered(e)'
  <2>1. s \in OpenRunsOf(p, e)
    BY <1>4 DEF OpenRunsOf, OpenRuns
  <2>2. QED  BY <2>1, <1>2, <1>3, CountedMessages
<1>5. ASSUME handler[p].exec = e, handler[p].at # "idle" PROVE Delivered(e)'
  BY <1>5, <1>2, <1>3, CountedMessages
<1>6. \A q \in Pods : q # p => handler'[q] = handler[q]
  BY <1>t DEF GiveBack
<1>7. ASSUME NEW s \in Slots, run[s].exec = e, Carries(run[s]) PROVE Delivered(e)'
  <2>1. run[s].verdict # "settled"
    BY <1>7 DEF Carries
  <2>2. CASE run[s].pod = p
    BY <1>4, <1>7, <2>1, <2>2
  <2>3. CASE run[s].pod # p
    BY <1>7, <2>3 DEF Delivered
  <2>4. QED  BY <2>2, <2>3
<1>8. Delivered(e) => Delivered(e)'
  <2>1. ASSUME NEW q \in Pods, handler[q].exec = e, handler[q].at \notin {"idle", "settle"}
        PROVE  Delivered(e)'
    <3>1. CASE q = p
      BY <1>5, <2>1, <3>1
    <3>2. CASE q # p
      BY <1>6, <2>1, <3>2 DEF Delivered
    <3>3. QED  BY <3>1, <3>2
  <2>2. QED  BY <1>2, <1>3, <1>7, <2>1 DEF Delivered
<1>9. ASSUME NEW s \in Slots, run[s].exec = e, Works(run[s])
      PROVE  Executing(e)' \/ Delivered(e)'
  <2>1. CASE run[s].pod = p
    BY <1>4, <1>9, <2>1 DEF Works
  <2>2. CASE run[s].pod # p
    BY <1>9, <2>2 DEF Executing
  <2>3. QED  BY <2>1, <2>2
<1>10. Executing(e) => Executing(e)' \/ Delivered(e)'
  BY <1>9 DEF Executing
<1>11. QED
  BY <1>8, <1>10, Lasting
  DEF IInv, Memory, OnlyDropsForget, Remembered, Publishing, apiVars

\* Cancel messages, leases, shutdown and crashes.
LEMMA PodsRemember ==
  ASSUME IInv, TypeOK', UNCHANGED apiVars,
         \/ \E p \in Pods, e \in Execs : HandleCancel(p, e)
         \/ \E p \in Pods : BeginShutdown(p) \/ FinishShutdown(p) \/ Disconnect(p) \/ Crash(p)
         \/ \E e \in Execs : LeaseExpires(e)
  PROVE  Memory'
<1> USE DEF shared, apiVars
<1>t. /\ run \in [Slots -> RunRecord] /\ handler \in [Pods -> HandlerRecord]
      /\ mode \in [Pods -> {"up", "stopping", "closing", "closed", "down"}]
      /\ active \in [Pods -> [Execs -> Slots \cup {NoSlot}]]
  BY DEF IInv, TypeOK, ManagerTypeOK
<1>o. (\A s \in Slots : Ordered(run[s])) /\ HandlersConnected
  BY DEF IInv, Memory, RunsOrdered
<1>m. \A x \in Execs : Remembered(x)
  BY DEF IInv, Memory, OnlyDropsForget, Remembered
<1>p. \A x \in Execs : Publishing(x) => Publishing(x)'
  BY DEF Publishing
<1>1. ASSUME NEW p \in Pods, NEW e \in Execs, HandleCancel(p, e) PROVE Memory'
  <2>1. \A s \in Slots : /\ run'[s].at = run[s].at /\ run'[s].exec = run[s].exec
                         /\ run'[s].pod = run[s].pod /\ run'[s].result = run[s].result
                         /\ run'[s].verdict = run[s].verdict
                         /\ run'[s].raised = run[s].raised
    BY <1>1, <1>t DEF HandleCancel, RunRecord
  <2>2. UNCHANGED <<status, ready, lost, mode, handler>>
    BY <1>1 DEF HandleCancel
  <2>3. RunsOrdered' /\ HandlersConnected'
    BY <1>o, <2>1, <2>2 DEF RunsOrdered, Ordered, HandlersConnected, Handling, Connected
  <2>4. \A x \in Execs : /\ Delivered(x) => Delivered(x)'
                         /\ Executing(x) => Executing(x)'
    BY <2>1, <2>2 DEF Delivered, Executing, Carries, Works
  <2>5. QED
    BY <1>m, <1>p, <2>2, <2>3, <2>4, Lasting DEF Memory, OnlyDropsForget, Remembered
<1>2. ASSUME NEW e \in Execs, LeaseExpires(e) PROVE Memory'
  <2>1. UNCHANGED <<status, ready, lost, mode, handler, run>>
    BY <1>2 DEF LeaseExpires
  <2>2. \A x \in Execs : Remembered(x)'
    BY <1>m, <1>p, <2>1, Lasting DEF Delivered, Executing
  <2>3. QED  BY <1>o, <2>1, <2>2, SameOrder DEF IInv, Memory, OnlyDropsForget, Remembered
<1>3. ASSUME NEW p \in Pods, BeginShutdown(p) PROVE Memory'
  <2>1. /\ UNCHANGED <<status, ready, lost, handler, run>>
        /\ mode[p] = "up" /\ mode' = [mode EXCEPT ![p] = "stopping"]
    BY <1>3 DEF BeginShutdown
  <2>2. \A q \in Pods : /\ mode[q] \in {"up", "stopping"} => mode'[q] \in {"up", "stopping"}
                        /\ Connected(q) => Connected(q)'
    BY <1>t, <2>1 DEF Connected
  <2>3. \A s \in Slots : run[s].pod \in Pods
    BY <1>t DEF RunRecord
  <2>4. RunsOrdered' /\ HandlersConnected'
    BY <1>o, <2>1, <2>2, <2>3 DEF RunsOrdered, Ordered, HandlersConnected, Handling
  <2>5. \A x \in Execs : Remembered(x)'
    BY <1>m, <1>p, <2>1, Lasting DEF Delivered, Executing
  <2>6. QED  BY <2>4, <2>5 DEF Memory, OnlyDropsForget, Remembered
<1>4. ASSUME NEW p \in Pods, FinishShutdown(p) PROVE Memory'
  <2>1. /\ UNCHANGED <<status, ready, lost, handler>>
        /\ mode[p] = "stopping" /\ mode' = [mode EXCEPT ![p] = "closing"]
    BY <1>4 DEF FinishShutdown
  <2>2. \A s \in Slots :
          /\ run'[s].exec = run[s].exec /\ run'[s].pod = run[s].pod
          /\ run'[s].result = run[s].result /\ run'[s].verdict = run[s].verdict
          /\ run'[s].raised = run[s].raised
          /\ IF run[s].pod = p /\ run[s].at = "submitted"
             THEN run'[s].at = "gone" ELSE run'[s].at = run[s].at
    <3> TAKE s \in Slots
    <3>1. run[s] \in RunRecord
      BY <1>t
    <3>2. \/ /\ run[s].pod = p /\ run[s].at = "submitted"
             /\ run'[s] = [run[s] EXCEPT !.at = "gone", !.stamped = FALSE]
          \/ /\ ~(run[s].pod = p /\ run[s].at = "submitted")
             /\ run'[s] = [run[s] EXCEPT !.stamped = FALSE] \/ run'[s] = run[s]
      BY <1>4 DEF FinishShutdown, RunAt
    <3>3. QED
      BY <3>1, <3>2 DEF RunRecord
  <2>3. \A q \in Pods : /\ q # p => mode'[q] = mode[q]
                        /\ Connected(q) => Connected(q)'
    BY <1>t, <2>1 DEF Connected
  <2>4. RunsOrdered' /\ HandlersConnected'
    <3>1. \A s \in Slots : run[s].pod \in Pods
      BY <1>t DEF RunRecord
    <3>2. \A s \in Slots : Ordered(run[s])'
      BY <1>o, <2>1, <2>2, <2>3, <3>1 DEF Ordered
    <3>3. QED
      BY <1>o, <2>1, <2>3, <3>2 DEF RunsOrdered, HandlersConnected, Handling
  <2>5. \A x \in Execs : /\ Delivered(x) => Delivered(x)'
                         /\ Executing(x) => Executing(x)'
    <3>1. \A s \in Slots : /\ Carries(run[s]) => Carries(run'[s])
                           /\ Works(run[s]) => Works(run'[s])
      BY <2>2 DEF Carries, Works
    <3>2. QED  BY <2>1, <2>2, <3>1 DEF Delivered, Executing
  <2>6. \A x \in Execs : Remembered(x)'
    BY <1>m, <1>p, <2>1, <2>5, Lasting
  <2>7. QED  BY <2>4, <2>6 DEF Memory, OnlyDropsForget, Remembered
<1>5. ASSUME NEW p \in Pods, Disconnect(p) PROVE Memory'
  <2>1. /\ UNCHANGED status /\ GiveBack(p)
        /\ mode[p] = "closing" /\ mode' = [mode EXCEPT ![p] = "closed"]
        /\ lost \subseteq lost'
        /\ \A s \in Slots : run[s].pod = p /\ Working(s) => run[s].exec \in lost'
    BY <1>5 DEF Disconnect
  <2>2. \A s \in Slots :
          run'[s] = IF run[s].pod = p THEN Retired([run[s] EXCEPT !.verdict = "settled"])
                    ELSE run[s]
    BY <1>5 DEF Disconnect
  <2>3. RunsOrdered'
    <3>1. ASSUME NEW s \in Slots, run[s].pod = p PROVE Ordered(run[s])'
      <4>1. \/ run'[s] = FreeRun
            \/ /\ run'[s].at = run[s].at /\ run'[s].exec = run[s].exec
               /\ run'[s].result = run[s].result /\ run'[s].raised = run[s].raised
               /\ run'[s].verdict = "settled"
        BY <1>t, <2>2, <3>1 DEF Retired, RunRecord
      <4>2. Ordered(run[s]) /\ run[s].at # "submitted"
        BY <1>o, <2>1, <3>1 DEF Ordered
      <4>3. run[s].at \in {"start", "resume", "engine", "write"} => run[s].exec \in lost'
        BY <2>1, <3>1 DEF Working
      <4>4. QED  BY <4>1, <4>2, <4>3 DEF Ordered, FreeRun
    <3>2. ASSUME NEW s \in Slots, run[s].pod # p PROVE Ordered(run[s])'
      <4>1. Ordered(run[s]) /\ run[s].pod \in Pods
        BY <1>o, <1>t DEF RunRecord
      <4>2. run'[s] = run[s] /\ mode'[run[s].pod] = mode[run[s].pod]
        BY <1>t, <2>1, <2>2, <3>2, <4>1
      <4>3. QED  BY <2>1, <4>1, <4>2 DEF Ordered
    <3>3. QED  BY <3>1, <3>2 DEF RunsOrdered
  <2>4. HandlersConnected'
    BY <1>o, <1>t, <2>1 DEF HandlersConnected, Handling, Connected, GiveBack, IdleHandler
  <2>5. OnlyDropsForget'
    BY <2>1, <2>2, GivenBack
  <2>6. QED  BY <2>3, <2>4, <2>5 DEF Memory
<1>6. ASSUME NEW p \in Pods, Crash(p) PROVE Memory'
  <2>1. /\ UNCHANGED <<status, lost>> /\ GiveBack(p)
        /\ mode' = [mode EXCEPT ![p] = "down"]
    BY <1>6 DEF Crash
  <2>2. \A s \in Slots : run'[s] = IF run[s].pod = p THEN FreeRun ELSE run[s]
    BY <1>6 DEF Crash
  <2>3. RunsOrdered'
    <3>1. ASSUME NEW s \in Slots, run[s].pod = p PROVE Ordered(run[s])'
      BY <2>2, <3>1 DEF Ordered, FreeRun
    <3>2. ASSUME NEW s \in Slots, run[s].pod # p PROVE Ordered(run[s])'
      <4>1. Ordered(run[s]) /\ run[s].pod \in Pods
        BY <1>o, <1>t DEF RunRecord
      <4>2. run'[s] = run[s] /\ mode'[run[s].pod] = mode[run[s].pod]
        BY <1>t, <2>1, <2>2, <3>2, <4>1
      <4>3. QED  BY <2>1, <4>1, <4>2 DEF Ordered
    <3>3. QED  BY <3>1, <3>2 DEF RunsOrdered
  <2>4. HandlersConnected'
    BY <1>o, <1>t, <2>1 DEF HandlersConnected, Handling, Connected, GiveBack, IdleHandler
  <2>5. OnlyDropsForget'
    BY <2>1, <2>2, GivenBack
  <2>6. QED  BY <2>3, <2>4, <2>5 DEF Memory
<1>7. QED  BY <1>1, <1>2, <1>3, <1>4, <1>5, <1>6

LEMMA InvariantPreserved == IInv /\ [Next]_vars => IInv'
<1> SUFFICES ASSUME IInv, [Next]_vars PROVE IInv'
  OBVIOUS
<1>1. TypeOK'
  BY TypesPreserved DEF IInv
<1>2. CASE ApiNext
  BY <1>1, <1>2, ApiRemembers DEF IInv
<1>3. CASE ManagerNext
  <2>1. UNCHANGED apiVars
    BY <1>3 DEF ManagerNext
  <2>2. Memory'
    BY <1>1, <1>3, <2>1, HandlersRemember, RunsRemember, PodsRemember DEF ManagerNext
  <2>3. QED  BY <1>1, <2>2 DEF IInv
<1>4. CASE \E s \in Slots : EndEngine(s)
  BY <1>1, <1>4, EndRemembers DEF IInv
<1>5. CASE UNCHANGED vars
  <2>1. RunsOrdered' /\ HandlersConnected'
    BY <1>5, SameOrder DEF vars, state, shared, mgrVars, IInv, Memory
  <2>2. \A e \in Execs : Remembered(e)'
    BY <1>5, Lasting DEF vars, state, shared, apiVars, mgrVars, IInv, Memory, OnlyDropsForget,
       Remembered, Publishing, Delivered, Executing
  <2>3. QED  BY <1>1, <2>1, <2>2 DEF IInv, Memory, OnlyDropsForget, Remembered
<1>6. QED  BY <1>2, <1>3, <1>4, <1>5 DEF Next

\* Whatever fails, as often as it may: the only executions that are left QUEUED
\* or RUNNING with nobody to attend to them are those whose message a pod dropped
\* as a duplicate, whose API server died, or whose pod outlived its grace period.
THEOREM OnlyDropsAreForgotten == Spec => []OnlyDropsForget
<1>1. IInv => OnlyDropsForget
  BY DEF IInv, Memory
<1>2. QED  BY InitInvariant, InvariantPreserved, <1>1, PTL DEF Spec


-----------------------------------------------------------------------------
(* One engine: the owner's pod, and one run of it. *)

\* A run that counts on the lock, from its submission to its last write.
Relying(r) == r.at \in {"submitted", "start", "resume", "engine", "write"}

\* Who counts on the lock of an execution has it, unless it was deleted or has
\* expired once: the runs, and the handlers about to submit one.
RunsOwn ==
  \A s \in Slots :
    Relying(run[s]) /\ run[s].exec \notin unlocked => key[run[s].exec] = run[s].pod
HandlersOwn ==
  \A p \in Pods :
    Handling(p, "submit") /\ handler[p].exec \notin unlocked => key[handler[p].exec] = p

\* A connected pod has its runs registered, submits no execution that it has
\* registered, and so runs none twice; it submits nothing once it is disconnected.
RunsActive ==
  \A s \in Slots :
    Relying(run[s]) /\ Connected(run[s].pod) => active[run[s].pod][run[s].exec] = s
SubmitsFresh ==
  \A p \in Pods : handler[p].at \in {"owner", "submit"} => active[p][handler[p].exec] = NoSlot
RunsAlone ==
  \A s, t \in Slots :
    Relying(run[s]) /\ Relying(run[t]) /\ run[s].pod = run[t].pod /\ run[s].exec = run[t].exec
    => s = t

Locking == RunsOwn /\ HandlersOwn /\ RunsActive /\ SubmitsFresh /\ RunsAlone

\* What every step but a submission keeps: no run begins to count on a lock, no
\* lock in use goes to somebody else, and a table of active runs loses only the
\* entries of runs that are over, or all of them with the connection.
RunsGoOn ==
  \A s \in Slots : Relying(run'[s]) =>
    Relying(run[s]) /\ run'[s].pod = run[s].pod /\ run'[s].exec = run[s].exec
SubmitsOwned ==
  \A p \in Pods : handler'[p].at = "submit" =>
    \/ handler[p].at = "submit" /\ handler'[p].exec = handler[p].exec
    \/ key'[handler'[p].exec] = p
KeysKept == \A e \in Execs : key'[e] \in {key[e], NoPod} \/ key[e] = NoPod
TablesKept ==
  \A p \in Pods, e \in Execs :
    \/ active'[p][e] = active[p][e]
    \/ /\ active'[p][e] = NoSlot
       /\ Connected(p)' => active[p][e] = NoSlot \/ ~Relying(run[active[p][e]])
FreshKept ==
  \A p \in Pods : handler'[p].at \in {"owner", "submit"} =>
    \/ handler[p].at \in {"owner", "submit"} /\ handler'[p].exec = handler[p].exec
    \/ active[p][handler'[p].exec] = NoSlot
Steady ==
  /\ RunsGoOn /\ SubmitsOwned /\ KeysKept /\ TablesKept /\ FreshKept
  /\ \A p \in Pods : Connected(p)' => Connected(p)

LEMMA Recorded ==
  ASSUME TypeOK
  PROVE  /\ \A s \in Slots : run[s].exec \in Execs /\ run[s].pod \in Pods
         /\ \A p \in Pods : handler[p].exec \in Execs
BY DEF TypeOK, ManagerTypeOK, RunRecord, HandlerRecord

\* A lock goes to somebody else only when nobody counts on it, or it is known
\* to have been deleted.
LEMMA SteadyLocks ==
  ASSUME TypeOK, TypeOK', Locking, Steady,
         unlocked' = unlocked \cup {e \in Execs : Unlocks(e)}
  PROVE  Locking'
<1>r. /\ \A s \in Slots : run[s].exec \in Execs /\ run[s].pod \in Pods
      /\ \A p \in Pods : handler[p].exec \in Execs
  BY Recorded
<1>w. /\ \A s \in Slots : run'[s].exec \in Execs /\ run'[s].pod \in Pods
      /\ \A p \in Pods : handler'[p].exec \in Execs
  BY DEF TypeOK, ManagerTypeOK, RunRecord, HandlerRecord
<1>1. RunsOwn'
  <2> SUFFICES ASSUME NEW s \in Slots, Relying(run'[s]), run'[s].exec \notin unlocked'
               PROVE  key'[run'[s].exec] = run'[s].pod
    BY DEF RunsOwn
  <2>1. PICK e \in Execs : e = run'[s].exec
    BY <1>w
  <2>2. Relying(run[s]) /\ run'[s].pod = run[s].pod /\ run[s].exec = e /\ e \notin unlocked
    BY <2>1 DEF Steady, RunsGoOn
  <2>3. key[e] = run'[s].pod /\ key[e] # NoPod
    BY <1>r, <2>2, ManagerConstants DEF Locking, RunsOwn
  <2>4. ~Unlocks(e)
    BY <2>1
  <2>5. key'[e] # NoPod
    BY <2>1, <2>3, <2>4 DEF Unlocks, Relying
  <2>6. QED  BY <2>1, <2>3, <2>5 DEF Steady, KeysKept
<1>2. HandlersOwn'
  <2> SUFFICES ASSUME NEW p \in Pods, handler'[p].at = "submit", handler'[p].exec \notin unlocked'
               PROVE  key'[handler'[p].exec] = p
    BY DEF HandlersOwn, Handling
  <2>1. PICK e \in Execs : e = handler'[p].exec
    BY <1>w
  <2>2. CASE key'[e] = p
    BY <2>1, <2>2
  <2>3. CASE handler[p].at = "submit" /\ handler[p].exec = e
    <3>1. key[e] = p /\ key[e] # NoPod
      BY <2>1, <2>3, ManagerConstants DEF Locking, HandlersOwn, Handling
    <3>2. ~Unlocks(e)
      BY <2>1
    <3>3. key'[e] # NoPod
      BY <2>1, <3>1, <3>2 DEF Unlocks
    <3>4. QED  BY <2>1, <3>1, <3>3 DEF Steady, KeysKept
  <2>4. QED  BY <2>1, <2>2, <2>3 DEF Steady, SubmitsOwned
<1>3. RunsActive'
  <2> SUFFICES ASSUME NEW s \in Slots, Relying(run'[s]),
                      mode'[run'[s].pod] \notin {"closed", "down"}
               PROVE  active'[run'[s].pod][run'[s].exec] = s
    BY DEF RunsActive, Connected
  <2>1. Relying(run[s]) /\ run'[s].pod = run[s].pod /\ run'[s].exec = run[s].exec
    BY DEF Steady, RunsGoOn
  <2>2. PICK p \in Pods : p = run[s].pod
    BY <1>r
  <2>3. PICK e \in Execs : e = run[s].exec
    BY <1>r
  <2>4. Connected(p)' /\ Connected(p)
    BY <2>1, <2>2 DEF Steady, Connected
  <2>5. active[p][e] = s
    BY <2>1, <2>2, <2>3, <2>4 DEF Locking, RunsActive
  <2>6. s # NoSlot
    BY ManagerConstants
  <2>7. active'[p][e] = s
    BY <2>1, <2>4, <2>5, <2>6 DEF Steady, TablesKept
  <2>8. QED  BY <2>1, <2>2, <2>3, <2>7
<1>4. SubmitsFresh'
  <2> SUFFICES ASSUME NEW p \in Pods, handler'[p].at \in {"owner", "submit"}
               PROVE  active'[p][handler'[p].exec] = NoSlot
    BY DEF SubmitsFresh
  <2>1. active[p][handler'[p].exec] = NoSlot
    BY DEF Steady, FreshKept, Locking, SubmitsFresh
  <2>2. QED  BY <1>w, <2>1 DEF Steady, TablesKept
<1>5. RunsAlone'
  BY DEF RunsAlone, Locking, Steady, RunsGoOn
<1>6. QED  BY <1>1, <1>2, <1>3, <1>4, <1>5 DEF Locking

\* A submission: the handler has the lock, and its pod no run of the execution.
LEMMA SubmitLocks ==
  ASSUME TypeOK, HandlersConnected, Locking, NEW p \in Pods, Submit(p), unlocked \subseteq unlocked'
  PROVE  Locking'
<1>t. /\ run \in [Slots -> RunRecord] /\ handler \in [Pods -> HandlerRecord]
      /\ active \in [Pods -> [Execs -> Slots \cup {NoSlot}]]
  BY DEF TypeOK, ManagerTypeOK
<1>r. /\ \A s \in Slots : run[s].exec \in Execs /\ run[s].pod \in Pods
      /\ \A q \in Pods : handler[q].exec \in Execs
  BY Recorded
<1>0. PICK e \in Execs : e = handler[p].exec
  BY <1>r
<1>1. PICK s \in Slots : /\ RunAt(s, "free")
                         /\ run' = [run EXCEPT ![s] =
                              [FreeRun EXCEPT !.at = "submitted", !.pod = p, !.exec = e,
                                 !.stamped = handler[p].stamped, !.verdict = "open"]]
                         /\ active' = [active EXCEPT ![p][e] = s]
  BY <1>0 DEF Submit, FreeSlots
<1>2. /\ handler[p].at = "submit"
      /\ handler' = [handler EXCEPT ![p] = IdleHandler]
      /\ mode' = mode /\ key' = key
  BY DEF Submit, Handling
<1>3. /\ run'[s].at = "submitted" /\ run'[s].exec = e /\ run'[s].pod = p
      /\ \A t \in Slots : t # s => run'[t] = run[t]
  BY <1>t, <1>1 DEF FreeRun
<1>4. /\ \A q \in Pods : q # p => handler'[q] = handler[q]
      /\ handler'[p].at = "idle"
  BY <1>t, <1>2 DEF IdleHandler
<1>5. /\ active'[p][e] = s
      /\ \A q \in Pods, x \in Execs : q # p \/ x # e => active'[q][x] = active[q][x]
  BY <1>t, <1>1
<1>6. Connected(p)
  BY <1>2 DEF HandlersConnected, Handling
<1>7. active[p][e] = NoSlot
  BY <1>0, <1>2 DEF Locking, SubmitsFresh
<1>8. ASSUME NEW t \in Slots, t # s, Relying(run[t]) PROVE run[t].pod # p \/ run[t].exec # e
  <2>1. SUFFICES ASSUME run[t].pod = p, run[t].exec = e PROVE FALSE
    OBVIOUS
  <2>2. active[p][e] = t
    BY <1>6, <1>8, <2>1 DEF Locking, RunsActive
  <2>3. QED  BY <1>7, <2>2, ManagerConstants
<1>9. RunsOwn'
  <2>1. e \notin unlocked => key[e] = p
    BY <1>0, <1>2 DEF Locking, HandlersOwn, Handling
  <2>2. QED  BY <1>2, <1>3, <2>1 DEF Locking, RunsOwn
<1>10. HandlersOwn'
  BY <1>2, <1>4 DEF Locking, HandlersOwn, Handling
<1>11. RunsActive'
  BY <1>r, <1>2, <1>3, <1>5, <1>8 DEF Locking, RunsActive, Connected
<1>12. SubmitsFresh'
  BY <1>r, <1>4, <1>5 DEF Locking, SubmitsFresh
<1>13. RunsAlone'
  BY <1>3, <1>8 DEF Locking, RunsAlone
<1>14. QED  BY <1>9, <1>10, <1>11, <1>12, <1>13 DEF Locking


\* The API servers touch no lock, and the end of a dispatch loop none either.
LEMMA ApiSteady == UNCHANGED mgrVars => Steady
BY DEF mgrVars, Steady, RunsGoOn, SubmitsOwned, KeysKept, TablesKept, FreshKept, Connected

\* Handlers, pods, locks and tables as they were, and runs that go on or end.
LEMMA RunSteady ==
  ASSUME UNCHANGED <<mode, handler, active, key>>, RunsGoOn
  PROVE  Steady
BY DEF Steady, SubmitsOwned, KeysKept, TablesKept, FreshKept, Connected

\* _cleanup_completed_runs drops entries of runs that are done.
LEMMA CleanedTable ==
  ASSUME NEW p \in Pods, NEW e \in Execs
  PROVE  \/ StillActive(p)[e] = active[p][e]
         \/ StillActive(p)[e] = NoSlot /\ ~Relying(run[active[p][e]])
BY DEF StillActive, Done, Relying

\* A DELETE frees one key, or none.
LEMMA DeletedKey ==
  ASSUME TypeOK, NEW e \in Execs, NEW stamped, NEW x \in Execs
  PROVE  KeyAfterRelease(e, stamped)[x] \in {key[x], NoPod}
BY DEF TypeOK, ManagerTypeOK, KeyAfterRelease

LEMMA EndSteady == TypeOK /\ (\E s \in Slots : EndEngine(s)) => Steady
<1> SUFFICES ASSUME TypeOK, NEW s \in Slots, EndEngine(s) PROVE Steady
  OBVIOUS
<1>1. PICK x, y : EndRun(s, x, y)
  BY DEF EndEngine, EngineEnds, EngineRaises
<1>2. run[s].at = "engine" /\ UNCHANGED <<mode, handler, active, key>>
  BY DEF EndEngine, EngineEnds, EngineRaises, RunAt
<1>3. run \in [Slots -> RunRecord]
  BY DEF TypeOK, ManagerTypeOK
<1>4. RunsGoOn
  BY <1>1, <1>2, <1>3 DEF EndRun, RunRecord, RunsGoOn, Relying
<1>5. QED  BY <1>2, <1>4, RunSteady

\* The handlers before and after the submission.
LEMMA HandlersSteady ==
  ASSUME TypeOK, NEW p \in Pods,
         \/ \E e \in Execs : Deliver(p, e)
         \/ (HandlerStep(p) /\ ~Submit(p)) \/ RateUnknown(p) \/ LockUnavailable(p)
  PROVE  Steady
<1>t. /\ handler \in [Pods -> HandlerRecord]
      /\ active \in [Pods -> [Execs -> Slots \cup {NoSlot}]]
      /\ key \in [Execs -> Pods \cup {NoPod}]
  BY DEF TypeOK, ManagerTypeOK
<1>r. \A q \in Pods : handler[q].exec \in Execs
  BY Recorded
<1>1. ASSUME NEW e \in Execs, Deliver(p, e) PROVE Steady
  <2>1. /\ \A q \in Pods : q # p => handler'[q] = handler[q]
        /\ handler'[p].at \in {"requeue", "root"}
        /\ UNCHANGED <<mode, run, key>>
        /\ \A q \in Pods, x \in Execs :
             active'[q][x] = active[q][x] \/ (q = p /\ active'[q][x] = StillActive(p)[x])
    BY <1>1, <1>t DEF Deliver
  <2>2. TablesKept
    BY <2>1, CleanedTable DEF TablesKept
  <2>3. QED
    BY <2>1, <2>2 DEF Steady, RunsGoOn, SubmitsOwned, KeysKept, FreshKept, Connected
<1>2. ASSUME \/ CheckRoot(p) \/ SkipOrphan(p) \/ CheckRate(p) \/ RateUnknown(p)
             \/ RejectLocal(p) \/ DropDuplicate(p) \/ RepublishHandled(p)
             \/ SettleHandled(p) \/ LockUnavailable(p) \/ SubmitFails(p)
      PROVE  Steady
  <2>1. /\ \A q \in Pods : q # p => handler'[q] = handler[q]
        /\ handler'[p].at \notin {"owner", "submit"}
        /\ UNCHANGED <<mode, run, active>>
    BY <1>2, <1>t DEF CheckRoot, SkipOrphan, CheckRate, RateUnknown, RejectLocal,
       DropDuplicate, RepublishHandled, SettleHandled, LockUnavailable, SubmitFails,
       MoveHandler, HandlerRecord, IdleHandler
  <2>2. KeysKept
    <3>1. CASE LockUnavailable(p)
      BY <1>t, <1>r, <3>1 DEF LockUnavailable, KeysKept
    <3>2. CASE SubmitFails(p)
      BY <1>r, <3>2, DeletedKey DEF SubmitFails, KeysKept
    <3>3. CASE ~LockUnavailable(p) /\ ~SubmitFails(p)
      BY <1>2, <3>3 DEF CheckRoot, SkipOrphan, CheckRate, RateUnknown, RejectLocal,
         DropDuplicate, RepublishHandled, SettleHandled, KeysKept
    <3>4. QED  BY <3>1, <3>2, <3>3
  <2>3. QED
    BY <2>1, <2>2 DEF Steady, RunsGoOn, SubmitsOwned, TablesKept, FreshKept, Connected
<1>3. ASSUME TryLock(p) PROVE Steady
  <2>1. PICK e \in Execs : e = handler[p].exec
    BY <1>r
  <2>2. /\ \A q \in Pods : q # p => handler'[q] = handler[q]
        /\ handler'[p].exec = e /\ handler'[p].at \in {"owner", "submit"}
        /\ UNCHANGED <<mode, run, active>> /\ active[p][e] = NoSlot
        /\ handler'[p].at = "submit" => key'[e] = p
        /\ \A x \in Execs : key'[x] = key[x] \/ key[x] = NoPod
    BY <1>3, <1>t, <2>1 DEF TryLock, MoveHandler, HandlerRecord
  <2>3. QED
    BY <2>2 DEF Steady, RunsGoOn, SubmitsOwned, KeysKept, TablesKept, FreshKept, Connected
<1>4. ASSUME ReadLockOwner(p) PROVE Steady
  <2>1. PICK e \in Execs : e = handler[p].exec
    BY <1>r
  <2>2. /\ \A q \in Pods : q # p => handler'[q] = handler[q]
        /\ handler[p].at = "owner" /\ handler'[p].exec = e
        /\ UNCHANGED <<mode, run, active, key>>
        /\ handler'[p].at = "submit" => key'[e] = p
    BY <1>4, <1>t, <2>1 DEF ReadLockOwner, MoveHandler, HandlerRecord, Handling
  <2>3. QED
    BY <2>1, <2>2 DEF Steady, RunsGoOn, SubmitsOwned, KeysKept, TablesKept, FreshKept, Connected
<1>5. QED  BY <1>1, <1>2, <1>3, <1>4 DEF HandlerStep

\* The runs, which count on the lock until they have written their result.
LEMMA RunsSteady ==
  ASSUME TypeOK, NEW s \in Slots, RunStep(s) \/ OpenReview(s) \/ PollLock(s) \/ Settle(s)
  PROVE  Steady
<1>t. /\ run \in [Slots -> RunRecord]
      /\ active \in [Pods -> [Execs -> Slots \cup {NoSlot}]]
      /\ held \in [Pods -> [Execs -> Slots \cup {NoSlot}]]
  BY DEF TypeOK, ManagerTypeOK
<1>r. \A t \in Slots : run[t].exec \in Execs /\ run[t].pod \in Pods
  BY Recorded
<1>1. ASSUME \/ ReadMeta(s) \/ StartTime(s) \/ ResumeStatus(s) \/ OpenReview(s)
             \/ PollLock(s) \/ WriteResult(s) \/ ScheduleVerdict(s)
      PROVE  Steady
  <2>1. /\ UNCHANGED <<mode, handler, active, key>>
        /\ \A t \in Slots : t # s => run'[t] = run[t]
    BY <1>1, <1>t DEF ReadMeta, StartTime, ResumeStatus, OpenReview, PollLock, WriteResult,
       ScheduleVerdict, MoveRun, mgrVars
  <2>2. /\ run'[s].pod = run[s].pod /\ run'[s].exec = run[s].exec
        /\ Relying(run'[s]) => Relying(run[s])
    BY <1>1, <1>t DEF ReadMeta, StartTime, ResumeStatus, OpenReview, PollLock, WriteResult,
       ScheduleVerdict, MoveRun, mgrVars, RunAt, RunRecord, Relying
  <2>3. QED  BY <2>1, <2>2, RunSteady DEF RunsGoOn
<1>2. ASSUME ReleaseLock(s) PROVE Steady
  <2>1. PICK t \in Slots : /\ run' = [run EXCEPT ![t].stamped = FALSE, ![s].at = "forget"]
                           /\ key' = KeyAfterRelease(run[s].exec, run[t].stamped)
    <3>1. held[run[s].pod][run[s].exec] \in Slots \cup {NoSlot}
      BY <1>t, <1>r
    <3>2. QED  BY <1>2, <3>1 DEF ReleaseLock
  <2>2. UNCHANGED <<mode, handler, active>>
    BY <1>2 DEF ReleaseLock
  <2>3. \A x \in Slots : /\ run'[x].exec = run[x].exec /\ run'[x].pod = run[x].pod
                         /\ x # s => run'[x].at = run[x].at
                         /\ run'[s].at = "forget"
    BY <1>t, <2>1 DEF RunRecord
  <2>4. RunsGoOn
    BY <2>3 DEF RunsGoOn, Relying
  <2>5. KeysKept
    BY <1>r, <2>1, DeletedKey DEF KeysKept
  <2>6. QED
    BY <2>2, <2>4, <2>5 DEF Steady, SubmitsOwned, TablesKept, FreshKept, Connected
<1>3. ASSUME ForgetRun(s) PROVE Steady
  <2>1. PICK p \in Pods : p = run[s].pod
    BY <1>r
  <2>2. /\ run'[s] = Retired([run[s] EXCEPT !.at = "gone"])
        /\ \A t \in Slots : t # s => run'[t] = run[t]
        /\ UNCHANGED <<mode, handler, key>>
        /\ active' = [active EXCEPT ![p] = StillActive(p)]
    BY <1>3, <1>t, <2>1 DEF ForgetRun
  <2>3. ~Relying(run'[s])
    BY <1>t, <2>2 DEF Retired, FreeRun, RunRecord, Relying
  <2>4. RunsGoOn
    BY <2>2, <2>3 DEF RunsGoOn
  <2>5. TablesKept
    BY <1>t, <2>2, CleanedTable DEF TablesKept
  <2>6. QED
    BY <2>2, <2>4, <2>5 DEF Steady, SubmitsOwned, KeysKept, FreshKept, Connected
<1>4. ASSUME Settle(s) PROVE Steady
  <2>1. PICK v \in {"nack", "settled"} :
          \/ run' = [run EXCEPT ![s].verdict = v]
          \/ run' = [run EXCEPT ![s] = Retired([@ EXCEPT !.verdict = v])]
    BY <1>4 DEF Settle
  <2>2. UNCHANGED <<mode, handler, active, key>>
    BY <1>4 DEF Settle
  <2>3. \A t \in Slots : t # s => run'[t] = run[t]
    BY <1>t, <2>1
  <2>4. \/ run'[s] = FreeRun
        \/ /\ run'[s].at = run[s].at /\ run'[s].exec = run[s].exec
           /\ run'[s].pod = run[s].pod
    BY <1>t, <2>1 DEF Retired, RunRecord
  <2>5. RunsGoOn
    BY <2>3, <2>4 DEF RunsGoOn, Relying, FreeRun
  <2>6. QED  BY <2>2, <2>5, RunSteady
<1>5. QED  BY <1>1, <1>2, <1>3, <1>4 DEF RunStep

\* Cancel messages, leases, shutdown and crashes.
LEMMA PodsSteady ==
  ASSUME TypeOK,
         \/ \E p \in Pods, e \in Execs : HandleCancel(p, e)
         \/ \E p \in Pods : BeginShutdown(p) \/ FinishShutdown(p) \/ Disconnect(p) \/ Crash(p)
         \/ \E e \in Execs : LeaseExpires(e)
  PROVE  Steady
<1>t. /\ run \in [Slots -> RunRecord] /\ handler \in [Pods -> HandlerRecord]
      /\ mode \in [Pods -> {"up", "stopping", "closing", "closed", "down"}]
      /\ active \in [Pods -> [Execs -> Slots \cup {NoSlot}]]
      /\ key \in [Execs -> Pods \cup {NoPod}]
  BY DEF TypeOK, ManagerTypeOK
<1>1. ASSUME NEW p \in Pods, NEW e \in Execs, HandleCancel(p, e) PROVE Steady
  <2>1. UNCHANGED <<mode, handler, active, key>>
    BY <1>1 DEF HandleCancel
  <2>2. \A s \in Slots : /\ run'[s].at = run[s].at /\ run'[s].exec = run[s].exec
                         /\ run'[s].pod = run[s].pod
    BY <1>1, <1>t DEF HandleCancel, RunRecord
  <2>3. QED  BY <2>1, <2>2, RunSteady DEF RunsGoOn, Relying
<1>2. ASSUME NEW e \in Execs, LeaseExpires(e) PROVE Steady
  <2>1. UNCHANGED <<mode, handler, active, run>> /\ KeysKept
    BY <1>2, <1>t DEF LeaseExpires, KeysKept
  <2>2. QED
    BY <2>1 DEF Steady, RunsGoOn, SubmitsOwned, TablesKept, FreshKept, Connected
<1>3. ASSUME NEW p \in Pods, BeginShutdown(p) PROVE Steady
  <2>1. UNCHANGED <<handler, active, key, run>>
    BY <1>3 DEF BeginShutdown
  <2>2. \A q \in Pods : Connected(q)' => Connected(q)
    BY <1>3, <1>t DEF BeginShutdown, Connected
  <2>3. QED
    BY <2>1, <2>2 DEF Steady, RunsGoOn, SubmitsOwned, KeysKept, TablesKept, FreshKept
<1>4. ASSUME NEW p \in Pods, FinishShutdown(p) PROVE Steady
  <2>1. UNCHANGED handler /\ \A q \in Pods : Connected(q)' => Connected(q)
    BY <1>4, <1>t DEF FinishShutdown, Connected
  <2>2. \A s \in Slots :
          /\ run'[s].exec = run[s].exec /\ run'[s].pod = run[s].pod
          /\ run'[s].at = run[s].at \/ run'[s].at = "gone"
    <3> TAKE s \in Slots
    <3>1. run[s] \in RunRecord
      BY <1>t
    <3>2. \/ run'[s] = [run[s] EXCEPT !.at = "gone", !.stamped = FALSE]
          \/ run'[s] = [run[s] EXCEPT !.stamped = FALSE] \/ run'[s] = run[s]
      BY <1>4 DEF FinishShutdown
    <3>3. QED  BY <3>1, <3>2 DEF RunRecord
  <2>3. RunsGoOn
    BY <2>2 DEF RunsGoOn, Relying
  <2>4. KeysKept
    BY <1>4 DEF FinishShutdown, KeysKept
  <2>5. TablesKept
    BY <1>4, <1>t, CleanedTable DEF FinishShutdown, TablesKept
  <2>6. QED  BY <2>1, <2>3, <2>4, <2>5 DEF Steady, SubmitsOwned, FreshKept
<1>5. ASSUME NEW p \in Pods, Disconnect(p) \/ Crash(p) PROVE Steady
  <2>1. /\ GiveBack(p) /\ UNCHANGED key
        /\ mode'[p] \in {"closed", "down"}
        /\ \A q \in Pods : q # p => mode'[q] = mode[q]
    BY <1>5, <1>t DEF Disconnect, Crash
  <2>2. \A s \in Slots :
          \/ run'[s] = FreeRun
          \/ run'[s] = [run[s] EXCEPT !.verdict = "settled"] \/ run'[s] = run[s]
    BY <1>5 DEF Disconnect, Crash, Retired
  <2>3. \A s \in Slots :
          \/ run'[s] = FreeRun
          \/ /\ run'[s].at = run[s].at /\ run'[s].exec = run[s].exec
             /\ run'[s].pod = run[s].pod
    BY <1>t, <2>2 DEF RunRecord
  <2>4. RunsGoOn
    BY <2>3 DEF RunsGoOn, Relying, FreeRun
  <2>5. \A q \in Pods : Connected(q)' => q # p /\ Connected(q)
    BY <2>1 DEF Connected
  <2>6. /\ \A q \in Pods : q # p => handler'[q] = handler[q] /\ active'[q] = active[q]
        /\ handler'[p].at = "idle" /\ \A x \in Execs : active'[p][x] = NoSlot
    BY <1>t, <2>1 DEF GiveBack, IdleHandler, NoSlots
  <2>7. TablesKept
    BY <2>5, <2>6 DEF TablesKept
  <2>8. QED
    BY <2>1, <2>4, <2>5, <2>6, <2>7 DEF Steady, SubmitsOwned, KeysKept, FreshKept
<1>6. QED  BY <1>1, <1>2, <1>3, <1>4, <1>5


LEMMA InitLocks == Init => Locking
BY DEF Init, ManagerInit, Locking, RunsOwn, HandlersOwn, RunsActive, SubmitsFresh, RunsAlone,
   Handling, Relying, FreeRun, IdleHandler

LEMMA LocksPreserved == IInv /\ Locking /\ [Next]_vars => Locking'
<1> SUFFICES ASSUME IInv, Locking, [Next]_vars PROVE Locking'
  OBVIOUS
<1>1. TypeOK /\ TypeOK'
  BY TypesPreserved DEF IInv
<1>2. ASSUME Next, Steady PROVE Locking'
  BY <1>1, <1>2, SteadyLocks DEF Next
<1>3. ASSUME ManagerNext, Next PROVE Locking'
  <2>1. CASE \E p \in Pods : Submit(p)
    <3>1. unlocked \subseteq unlocked' /\ HandlersConnected
      BY <1>3 DEF Next, IInv, Memory
    <3>2. QED  BY <1>1, <2>1, <3>1, SubmitLocks
  <2>2. CASE ~ \E p \in Pods : Submit(p)
    <3>1. Steady
      BY <1>1, <1>3, <2>2, HandlersSteady, RunsSteady, PodsSteady DEF ManagerNext
    <3>2. QED  BY <1>2, <1>3, <3>1
  <2>3. QED  BY <2>1, <2>2
<1>4. CASE UNCHANGED vars
  BY <1>4 DEF vars, state, mgrVars, Locking, RunsOwn, HandlersOwn, RunsActive, SubmitsFresh,
     RunsAlone, Handling, Connected
<1>5. ASSUME Next, ApiNext \/ \E s \in Slots : EndEngine(s) PROVE Locking'
  <2>1. ApiNext => UNCHANGED mgrVars
    BY DEF ApiNext
  <2>2. Steady
    BY <1>1, <1>5, <2>1, ApiSteady, EndSteady
  <2>3. QED  BY <1>2, <1>5, <2>2
<1>6. QED  BY <1>3, <1>4, <1>5 DEF Next

LEMMA LocksExclude == TypeOK /\ Locking => OneEngine
<1> SUFFICES ASSUME TypeOK, Locking, NEW s \in Slots, NEW t \in Slots, Working(s), Working(t),
                    run[s].exec = run[t].exec, run[s].exec \notin unlocked
             PROVE  s = t
  BY DEF OneEngine
<1>1. Relying(run[s]) /\ Relying(run[t])
  BY DEF Working, Relying
<1>2. run[s].pod = run[t].pod
  BY <1>1 DEF Locking, RunsOwn
<1>3. QED  BY <1>1, <1>2 DEF Locking, RunsAlone

\* However many pods consume the queue, and however many messages there are for
\* one execution: no two threads work on it, unless its lock was deleted, or has
\* expired, while a run or a handler counted on it.
THEOREM OneAtWork == Spec => []OneEngine
<1>1. IInv /\ Locking => OneEngine
  BY LocksExclude DEF IInv
<1>2. Init => IInv /\ Locking
  BY InitInvariant, InitLocks
<1>3. IInv /\ Locking /\ [Next]_vars => (IInv /\ Locking)'
  BY InvariantPreserved, LocksPreserved
<1>4. QED  BY <1>1, <1>2, <1>3, PTL DEF Spec


-----------------------------------------------------------------------------
(* Pauses and completions. *)

\* A run that is about to set RUNNING has not been overtaken by a completion.
StartsOpen ==
  \A s \in Slots :
    RunAt(s, "start") /\ run[s].exec \notin unlocked => status[run[s].exec] # "COMPLETED"

\* Requests decide reviews that have been opened, and none that waits while an
\* execution goes on: the ones it waited for were all decided before.
PicksKnown ==
  \A c \in Calls : CallAt(c, "decide") => call[c].picks \subseteq 1..review[call[c].exec].opened
Undecided ==
  \A e \in Execs \ hasty, c \in Calls :
    status[e] \in Live /\ CallAt(c, "decide") /\ call[c].exec = e
    => call[c].picks \cap review[e].waiting = {}

\* A run that is about to pause its execution still has a reason to.
AboutToPause ==
  \A s \in Slots, e \in Execs \ (unlocked \cup hasty) :
    RunAt(s, "write") /\ run[s].result = "REVIEW" /\ run[s].exec = e /\ status[e] = "RUNNING"
    => review[e].waiting # {} \/ StopAt(e, "terminate")

Deciding == StartsOpen /\ PicksKnown /\ Undecided /\ AboutToPause /\ PausedHasReason

\* What a step makes of the status and of the reviews of an execution, and when
\* those who are to move it on may stop doing so.
StatusStep(e) ==
  \/ status'[e] = status[e]
  \/ status[e] # "COMPLETED" /\ status'[e] \in {"INCOMPLETE", "QUEUED", "FAILED", "TERMINATED"}
  \/ \E s \in Slots : /\ run[s].exec = e /\ run[s].at \in {"start", "resume"}
                      /\ status'[e] = "RUNNING"
                      /\ status[e] = "COMPLETED" => RunAt(s, "start")
  \/ \E s \in Slots : /\ run[s].exec = e /\ RunAt(s, "write")
                      /\ status'[e] = run[s].result
                      /\ status[e] \in AllowedFrom(run[s].result)
ReviewStep(e) ==
  \/ review'[e] = review[e]
  \/ /\ review'[e].opened = review[e].opened + 1
     /\ review'[e].waiting = review[e].waiting \cup {review[e].opened + 1}
  \/ /\ review'[e].opened = review[e].opened
     /\ \/ \E c \in Calls : /\ CallAt(c, "decide") /\ call[c].exec = e
                            /\ review'[e].waiting = review[e].waiting \ call[c].picks
                            /\ call'[c].exec = e /\ call'[c].at = "pending"
        \/ review'[e].waiting = {} /\ StopAt(e, "terminate")'
StopStands(e) ==
  StopAt(e, "terminate") => StopAt(e, "terminate")' \/ status'[e] \notin {"RUNNING", "REVIEW"}
CallsStand(e) ==
  \A c \in Calls : call[c].exec = e /\ call[c].at \in {"pending", "update", "fail"} =>
    \/ call'[c].exec = e /\ call'[c].at \in {"pending", "update", "fail"}
    \/ status'[e] # "REVIEW" \/ review'[e].waiting # {} \/ e \in lost'
PicksStep ==
  \A c \in Calls : call'[c].at = "decide" =>
    \/ call'[c] = call[c]
    \/ /\ call'[c].picks \subseteq 1..review'[call'[c].exec].opened
       /\ status'[call'[c].exec] \notin Live
StartsStep ==
  \A s \in Slots : run'[s].at = "start" =>
    /\ run'[s].exec = run[s].exec
    /\ RunAt(s, "start") \/ status'[run[s].exec] # "COMPLETED"
PausesStep ==
  \A s \in Slots : run'[s].at = "write" /\ run'[s].result = "REVIEW" =>
    /\ run'[s].exec = run[s].exec
    /\ \/ RunAt(s, "write") /\ run[s].result = "REVIEW"
       \/ review'[run[s].exec].waiting # {}

Proceeds ==
  /\ PicksStep /\ StartsStep /\ PausesStep
  /\ \A e \in Execs : StatusStep(e) /\ ReviewStep(e) /\ StopStands(e) /\ CallsStand(e)

LEMMA ProceedingDecides ==
  ASSUME TypeOK, TypeOK', OneEngine, Deciding, Proceeds, unlocked \subseteq unlocked',
         lost \subseteq lost', hasty' = hasty \cup {e \in Execs : Hurries(e)}
  PROVE  Deciding'
<1>t. /\ call \in [Calls -> CallRecord] /\ review \in [Execs -> ReviewRecord]
      /\ \A c \in Calls : call[c].exec \in Execs /\ call'[c].exec \in Execs
      /\ \A s \in Slots : run[s].exec \in Execs /\ run'[s].exec \in Execs
      /\ \A e \in Execs : review[e].opened \in Nat /\ review'[e].opened \in Nat
  BY DEF TypeOK, SharedTypeOK, ApiTypeOK, ManagerTypeOK, CallRecord, ReviewRecord, RunRecord
<1>o. ASSUME NEW s \in Slots, NEW t \in Slots, Working(s), Working(t),
             run[s].exec = run[t].exec, run[s].exec \notin unlocked
      PROVE  s = t
  BY <1>o DEF OneEngine
<1>g. \A e \in Execs : review'[e].opened \in {review[e].opened, review[e].opened + 1}
  BY DEF Proceeds, ReviewStep
<1>1. StartsOpen'
  <2> SUFFICES ASSUME NEW s \in Slots, run'[s].at = "start", run'[s].exec \notin unlocked',
                      status'[run'[s].exec] = "COMPLETED"
               PROVE  FALSE
    BY DEF StartsOpen, RunAt
  <2>1. PICK e \in Execs : e = run[s].exec
    BY <1>t
  <2>2. RunAt(s, "start") /\ e \notin unlocked /\ status'[e] = "COMPLETED"
    BY <2>1 DEF Proceeds, StartsStep
  <2>3. status[e] # "COMPLETED"
    BY <2>1, <2>2 DEF Deciding, StartsOpen
  <2>4. PICK t \in Slots : run[t].exec = e /\ RunAt(t, "write")
    BY <2>2, <2>3 DEF Proceeds, StatusStep
  <2>5. s = t
    BY <1>o, <2>1, <2>2, <2>4 DEF Working, RunAt
  <2>6. QED  BY <2>2, <2>4, <2>5 DEF RunAt
<1>2. PicksKnown'
  <2> SUFFICES ASSUME NEW c \in Calls, call'[c].at = "decide"
               PROVE  call'[c].picks \subseteq 1..review'[call'[c].exec].opened
    BY DEF PicksKnown, CallAt
  <2>1. CASE call'[c] = call[c]
    <3>1. PICK e \in Execs : e = call[c].exec
      BY <1>t
    <3>2. call[c].picks \subseteq 1..review[e].opened
      BY <2>1, <3>1 DEF Deciding, PicksKnown, CallAt
    <3>3. 1..review[e].opened \subseteq 1..review'[e].opened
      BY <1>t, <1>g
    <3>4. QED  BY <2>1, <3>1, <3>2, <3>3
  <2>2. QED  BY <2>1 DEF Proceeds, PicksStep
<1>3. Undecided'
  <2> SUFFICES ASSUME NEW e \in Execs, e \notin hasty', NEW c \in Calls, status'[e] \in Live,
                      call'[c].at = "decide", call'[c].exec = e
               PROVE  call'[c].picks \cap review'[e].waiting = {}
    BY DEF Undecided, CallAt
  <2>1. call'[c] = call[c]
    BY DEF Proceeds, PicksStep
  <2>2. call[c].picks \subseteq 1..review[e].opened
    BY <2>1 DEF Deciding, PicksKnown, CallAt
  <2>3. review[e].opened + 1 \notin call[c].picks
    BY <1>t, <2>2
  <2>4. call[c].picks \cap review[e].waiting = {}
    <3>1. CASE status[e] \in Live
      BY <2>1, <3>1 DEF Deciding, Undecided, CallAt
    <3>2. CASE status[e] \notin Live
      BY <3>2 DEF Hurries
    <3>3. QED  BY <3>1, <3>2
  <2>5. ReviewStep(e)
    BY DEF Proceeds
  <2>6. QED  BY <2>1, <2>3, <2>4, <2>5 DEF ReviewStep
<1>4. AboutToPause'
  <2> SUFFICES ASSUME NEW s \in Slots, NEW e \in Execs, e \notin unlocked', e \notin hasty',
                      run'[s].at = "write", run'[s].result = "REVIEW", run'[s].exec = e,
                      status'[e] = "RUNNING"
               PROVE  review'[e].waiting # {} \/ StopAt(e, "terminate")'
    BY DEF AboutToPause, RunAt
  <2>1. /\ run[s].exec = e
        /\ \/ RunAt(s, "write") /\ run[s].result = "REVIEW"
           \/ review'[e].waiting # {}
    BY DEF Proceeds, PausesStep
  <2>2. SUFFICES ASSUME RunAt(s, "write"), run[s].result = "REVIEW"
                 PROVE  review'[e].waiting # {} \/ StopAt(e, "terminate")'
    BY <2>1
  <2>3. e \notin unlocked /\ e \notin hasty
    OBVIOUS
  <2>4. status[e] = "RUNNING"
    <3>1. ASSUME NEW t \in Slots, run[t].exec = e, Working(t) PROVE t = s
      BY <1>o, <2>1, <2>2, <2>3, <3>1 DEF Working, RunAt
    <3>2. ASSUME NEW t \in Slots, run[t].exec = e, run[t].at \in {"start", "resume"}
          PROVE  FALSE
      BY <2>2, <3>1, <3>2 DEF Working, RunAt
    <3>3. ASSUME NEW t \in Slots, run[t].exec = e, RunAt(t, "write"), run[t].result = "RUNNING"
          PROVE  FALSE
      BY <2>2, <3>1, <3>3 DEF Working, RunAt
    <3>4. StatusStep(e)
      BY DEF Proceeds
    <3>5. QED  BY <3>2, <3>3, <3>4 DEF StatusStep
  <2>5. review[e].waiting # {} \/ StopAt(e, "terminate")
    BY <2>1, <2>2, <2>3, <2>4 DEF Deciding, AboutToPause
  <2>6. StopAt(e, "terminate") => StopAt(e, "terminate")'
    BY DEF Proceeds, StopStands
  <2>7. ASSUME NEW c \in Calls, CallAt(c, "decide"), call[c].exec = e
        PROVE  review[e].waiting \ call[c].picks = review[e].waiting
    BY <2>3, <2>4, <2>7 DEF Deciding, Undecided, Live
  <2>8. ReviewStep(e)
    BY DEF Proceeds
  <2>9. QED  BY <2>5, <2>6, <2>7, <2>8 DEF ReviewStep
<1>5. PausedHasReason'
  <2> SUFFICES ASSUME NEW e \in Execs, status'[e] = "REVIEW",
                      e \notin lost', e \notin unlocked', e \notin hasty'
               PROVE  \/ review'[e].waiting # {}
                      \/ \E c \in Calls : /\ call'[c].exec = e
                                          /\ call'[c].at \in {"pending", "update", "fail"}
                      \/ StopAt(e, "terminate")'
    BY DEF PausedHasReason
  <2>1. ReviewStep(e) /\ StatusStep(e) /\ StopStands(e) /\ CallsStand(e)
    BY DEF Proceeds
  <2>2. StopAt(e, "terminate") => StopAt(e, "terminate")'
    BY <2>1 DEF StopStands
  <2>3. CASE review[e].waiting # {}
    BY <2>1, <2>3 DEF ReviewStep
  <2>4. CASE status[e] = "REVIEW"
    <3>1. CASE \E c \in Calls : call[c].exec = e /\ call[c].at \in {"pending", "update", "fail"}
      BY <2>1, <3>1 DEF CallsStand
    <3>2. QED  BY <2>2, <2>3, <2>4, <3>1 DEF Deciding, PausedHasReason
  <2>5. CASE status[e] # "REVIEW"
    <3>1. PICK t \in Slots : /\ run[t].exec = e /\ RunAt(t, "write") /\ run[t].result = "REVIEW"
                             /\ status[e] \in AllowedFrom("REVIEW")
      BY <2>1, <2>5 DEF StatusStep
    <3>2. status[e] = "RUNNING"
      BY <3>1 DEF AllowedFrom
    <3>3. QED  BY <2>2, <2>3, <3>1, <3>2 DEF Deciding, AboutToPause
  <2>6. QED  BY <2>4, <2>5
<1>6. QED  BY <1>1, <1>2, <1>3, <1>4, <1>5 DEF Deciding

\* No step but the start of a run takes back a completion, and that not this one.
LEMMA ProceedingCompletes ==
  ASSUME Deciding, Proceeds, NEW e \in Execs \ unlocked, status[e] = "COMPLETED"
  PROVE  status'[e] = "COMPLETED"
<1>1. ASSUME NEW s \in Slots, run[s].exec = e, RunAt(s, "start") PROVE FALSE
  BY <1>1 DEF Deciding, StartsOpen
<1>2. \A to : "COMPLETED" \notin AllowedFrom(to)
  BY DEF AllowedFrom
<1>3. StatusStep(e)
  BY DEF Proceeds
<1>4. QED  BY <1>1, <1>2, <1>3 DEF StatusStep


\* An update by the table to one of these statuses.
LEMMA TableStep ==
  ASSUME TypeOK, NEW e \in Execs, NEW to \in {"QUEUED", "FAILED", "TERMINATED"},
         UpdateStatus(e, to)
  PROVE  /\ \A x \in Execs : StatusStep(x)
         /\ \A x \in Execs : x # e => status'[x] = status[x]
         /\ status'[e] = Moved(status[e], to)
<1>1. status \in [Execs -> Statuses \cup {Absent}]
  BY DEF TypeOK, SharedTypeOK
<1>2. /\ \A x \in Execs : x # e => status'[x] = status[x]
      /\ status'[e] = Moved(status[e], to)
  BY <1>1 DEF UpdateStatus
<1>3. "COMPLETED" \notin AllowedFrom(to)
  BY DEF AllowedFrom
<1>4. QED  BY <1>2, <1>3 DEF StatusStep, Moved

\* Those who do not move stand by what they do.
LEMMA Standing ==
  /\ UNCHANGED run => StartsStep /\ PausesStep
  /\ UNCHANGED call => PicksStep /\ \A e \in Execs : CallsStand(e)
  /\ UNCHANGED stop => \A e \in Execs : StopStands(e)
  /\ UNCHANGED status => \A e \in Execs : StatusStep(e)
  /\ UNCHANGED review => \A e \in Execs : ReviewStep(e)
BY DEF StartsStep, PausesStep, PicksStep, CallsStand, StopStands, StatusStep, ReviewStep,
   RunAt, StopAt

\* A step of one request is about one execution.
LEMMA CallProceeds ==
  ASSUME NEW c \in Calls, NEW e \in Execs, UNCHANGED <<stop, run>>,
         \A d \in Calls : d # c => call'[d] = call[d],
         call[c].exec = e, call'[c].exec = e, call'[c].at # "decide",
         \A x \in Execs : StatusStep(x) /\ ReviewStep(x),
         \/ call'[c].at \in {"pending", "update", "fail"}
         \/ call[c].at \notin {"pending", "update", "fail"}
         \/ status'[e] # "REVIEW" \/ review'[e].waiting # {} \/ e \in lost'
  PROVE  Proceeds
<1>1. PicksStep
  BY DEF PicksStep
<1>2. \A x \in Execs : CallsStand(x)
  BY DEF CallsStand
<1>3. QED  BY <1>1, <1>2, Standing DEF Proceeds

\* What the API servers do.
LEMMA ApiProceeds == TypeOK /\ ApiNext => Proceeds
<1> SUFFICES ASSUME TypeOK, ApiNext PROVE Proceeds
  OBVIOUS
<1> USE DEF shared
<1>t. /\ status \in [Execs -> Statuses \cup {Absent}] /\ review \in [Execs -> ReviewRecord]
      /\ call \in [Calls -> CallRecord] /\ stop \in [Execs -> StopRecord]
      /\ lost \subseteq Execs /\ \A c \in Calls : call[c].exec \in Execs
  BY DEF TypeOK, SharedTypeOK, ApiTypeOK, CallRecord
<1>u. run' = run
  BY DEF ApiNext, mgrVars
<1>1. ASSUME NEW c \in Calls, NEW e \in Execs, CreateExecution(c, e) PROVE Proceeds
  <2>1. /\ \A d \in Calls : d # c => call'[d] = call[d]
        /\ call'[c].at = "update" /\ call[c].at = "unused"
        /\ UNCHANGED <<review, lost, stop>>
    BY <1>1, <1>t DEF CreateExecution, BeginCall, CallAt
  <2>2. \A x \in Execs : StatusStep(x)
    BY <1>1, <1>t DEF CreateExecution, StatusStep, Absent
  <2>3. PicksStep
    BY <2>1 DEF PicksStep
  <2>4. \A x \in Execs : CallsStand(x)
    BY <2>1 DEF CallsStand
  <2>5. QED  BY <1>u, <2>1, <2>2, <2>3, <2>4, Standing DEF Proceeds
<1>2. ASSUME NEW c \in Calls, NEW e \in Execs, BeginReview(c, e) PROVE Proceeds
  <2>1. PICK picks \in SUBSET (1..review[e].opened) : BeginCall(c, e, "decide", picks)
    BY <1>2 DEF BeginReview
  <2>2. /\ \A d \in Calls : d # c => call'[d] = call[d]
        /\ call'[c].picks = picks /\ call'[c].exec = e /\ call[c].at = "unused"
    BY <1>t, <2>1 DEF BeginCall, CallAt
  <2>3. UNCHANGED <<status, review, lost, stop>> /\ status[e] \notin Live
    BY <1>2 DEF BeginReview, Live
  <2>4. PicksStep
    BY <2>1, <2>2, <2>3 DEF PicksStep
  <2>5. \A x \in Execs : CallsStand(x)
    BY <2>2 DEF CallsStand
  <2>6. QED  BY <1>u, <2>3, <2>4, <2>5, Standing DEF Proceeds
<1>3. ASSUME NEW c \in Calls, QueueStatus(c) \/ FailStatus(c) PROVE Proceeds
  <2>0. PICK e \in Execs : e = call[c].exec
    <3>1. call[c].exec \in Execs
      BY <1>t
    <3>2. QED  BY <3>1
  <2>1. PICK to \in {"QUEUED", "FAILED"} : UpdateStatus(e, to)
    BY <1>3, <2>0 DEF QueueStatus, FailStatus
  <2>2. /\ \A d \in Calls : d # c => call'[d] = call[d]
        /\ call'[c].exec = e /\ call'[c].at # "decide"
        /\ UNCHANGED <<review, stop>>
    BY <1>3, <1>t, <2>0 DEF QueueStatus, FailStatus, MoveCall, CallRecord
  <2>3. (\A x \in Execs : StatusStep(x)) /\ status'[e] = Moved(status[e], to)
    BY <2>1, TableStep
  <2>4. status'[e] # "REVIEW"
    BY <2>3 DEF Moved, AllowedFrom
  <2>5. QED  BY <1>u, <2>0, <2>2, <2>3, <2>4, CallProceeds, Standing
<1>4. ASSUME NEW c \in Calls,
             \/ CheckQueued(c) \/ Publish(c) \/ PublishUnconfirmed(c) \/ QueueingFails(c)
             \/ ResumeAfterReview(c) \/ ApiCrash(c)
      PROVE  Proceeds
  <2>0. PICK e \in Execs : e = call[c].exec
    <3>1. call[c].exec \in Execs
      BY <1>t
    <3>2. QED  BY <3>1
  <2>1. /\ \A d \in Calls : d # c => call'[d] = call[d]
        /\ call'[c].exec = e /\ call'[c].at # "decide"
        /\ UNCHANGED <<status, review, stop>>
    BY <1>4, <1>t, <2>0 DEF CheckQueued, Publish, PublishUnconfirmed, QueueingFails,
       ResumeAfterReview, ApiCrash, MoveCall, CallRecord
  <2>2. \/ call'[c].at \in {"pending", "update", "fail"}
        \/ call[c].at \notin {"pending", "update", "fail"}
        \/ review'[e].waiting # {} \/ e \in lost'
    BY <1>4, <1>t, <2>0, <2>1 DEF CheckQueued, Publish, PublishUnconfirmed, QueueingFails,
       ResumeAfterReview, ApiCrash, MoveCall, CallAt, CallRecord
  <2>3. QED  BY <1>u, <2>0, <2>1, <2>2, CallProceeds, Standing
<1>5. ASSUME NEW c \in Calls, DecideReviews(c) PROVE Proceeds
  <2>0. PICK e \in Execs : e = call[c].exec
    <3>1. call[c].exec \in Execs
      BY <1>t
    <3>2. QED  BY <3>1
  <2>1. /\ \A d \in Calls : d # c => call'[d] = call[d]
        /\ call'[c].exec = e /\ call'[c].at \in {"pending", "done"} /\ call[c].at = "decide"
        /\ UNCHANGED <<status, stop>>
    BY <1>5, <1>t, <2>0 DEF DecideReviews, MoveCall, CallAt, CallRecord
  <2>2. \A x \in Execs : ReviewStep(x)
    <3>1. CASE review' = review
      BY <3>1, Standing
    <3>2. CASE /\ review' = [review EXCEPT ![e].waiting = @ \ call[c].picks]
               /\ call'[c].at = "pending"
      <4>1. /\ review'[e].waiting = review[e].waiting \ call[c].picks
            /\ review'[e].opened = review[e].opened
            /\ \A x \in Execs : x # e => review'[x] = review[x]
        BY <1>t, <3>2 DEF ReviewRecord
      <4>2. QED  BY <2>0, <2>1, <3>2, <4>1 DEF ReviewStep, CallAt
    <3>3. QED
      BY <1>5, <1>t, <2>0, <3>1, <3>2 DEF DecideReviews, MoveCall, CallRecord
  <2>3. QED  BY <1>u, <2>0, <2>1, <2>2, CallProceeds, Standing
<1>6. ASSUME NEW e \in Execs,
             \/ BeginStop(e) \/ StopChildren(e) \/ AwaitChildren(e) \/ PublishCancel(e)
             \/ PollStatus(e) \/ CancelReviews(e) \/ StopTimeout(e)
      PROVE  Proceeds
  <2>1. UNCHANGED <<status, call>>
    BY <1>6 DEF BeginStop, StopChildren, AwaitChildren, PublishCancel, PollStatus,
       CancelReviews, StopTimeout
  <2>2. \A x \in Execs : StopAt(x, "terminate") => StopAt(x, "terminate")'
    <3>1. CASE StopChildren(e)
      BY <3>1, <1>t DEF StopChildren, StopAt, StopIdle
    <3>2. CASE ~StopChildren(e)
      BY <1>6, <1>t, <3>2 DEF BeginStop, AwaitChildren, PublishCancel, PollStatus,
         CancelReviews, StopTimeout, MoveStop, StopAt, StopIdle, StopRecord
    <3>3. QED  BY <3>1, <3>2
  <2>3. \A x \in Execs : ReviewStep(x)
    <3>1. CASE CancelReviews(e)
      <4>1. /\ review'[e].waiting = {} /\ review'[e].opened = review[e].opened
            /\ \A x \in Execs : x # e => review'[x] = review[x]
            /\ stop'[e].at = "terminate"
        BY <1>t, <3>1 DEF CancelReviews, MoveStop, ReviewRecord, StopRecord
      <4>2. QED  BY <4>1 DEF ReviewStep, StopAt
    <3>2. CASE ~CancelReviews(e)
      <4>1. UNCHANGED review
        BY <1>6, <3>2 DEF BeginStop, StopChildren, AwaitChildren, PublishCancel, PollStatus,
           StopTimeout
      <4>2. QED  BY <4>1, Standing
    <3>3. QED  BY <3>1, <3>2
  <2>4. QED  BY <1>u, <2>1, <2>2, <2>3, Standing DEF Proceeds, StopStands
<1>7. ASSUME NEW e \in Execs, TerminateStatus(e) PROVE Proceeds
  <2>1. /\ UNCHANGED <<review, call>>
        /\ \A x \in Execs : x # e => stop'[x] = stop[x]
        /\ UpdateStatus(e, "TERMINATED")
    BY <1>7, <1>t DEF TerminateStatus, MoveStop
  <2>2. /\ \A x \in Execs : StatusStep(x)
        /\ status'[e] = Moved(status[e], "TERMINATED")
    BY <2>1, TableStep
  <2>3. status'[e] \notin {"RUNNING", "REVIEW"}
    BY <2>2 DEF Moved, AllowedFrom
  <2>4. \A x \in Execs : StopStands(x)
    BY <2>1, <2>3 DEF StopStands, StopAt
  <2>5. QED  BY <1>u, <2>1, <2>2, <2>4, Standing DEF Proceeds
<1>8. QED
  BY <1>1, <1>2, <1>3, <1>4, <1>5, <1>6, <1>7 DEF ApiNext, CallStep, StopStep

\* The pods, as far as they do not touch the rows.
LEMMA PodProceeds ==
  ASSUME UNCHANGED <<apiVars, status, review>>,
         \A s \in Slots : \/ run'[s].at \notin {"start", "write"}
                          \/ /\ run'[s].at = run[s].at /\ run'[s].exec = run[s].exec
                             /\ run'[s].result = run[s].result
  PROVE  Proceeds
<1>1. StartsStep /\ PausesStep
  BY DEF StartsStep, PausesStep, RunAt
<1>2. QED  BY <1>1, Standing DEF Proceeds, apiVars

LEMMA HandlersProceed ==
  ASSUME TypeOK, NEW p \in Pods, UNCHANGED apiVars,
         \/ \E e \in Execs : Deliver(p, e)
         \/ HandlerStep(p) \/ RateUnknown(p) \/ LockUnavailable(p)
  PROVE  Proceeds
<1>t. run \in [Slots -> RunRecord] /\ \A q \in Pods : handler[q].exec \in Execs
  BY Recorded DEF TypeOK, ManagerTypeOK
<1>1. CASE SkipOrphan(p)
  <2>1. PICK e \in Execs : UpdateStatus(e, "TERMINATED")
    BY <1>1, <1>t DEF SkipOrphan
  <2>2. UNCHANGED <<review, run>>
    BY <1>1 DEF SkipOrphan
  <2>3. QED  BY <2>1, <2>2, TableStep, Standing DEF Proceeds, apiVars
<1>2. CASE Submit(p)
  <2>1. UNCHANGED <<status, review>>
    BY <1>2 DEF Submit, shared
  <2>2. PICK s \in Slots :
          run' = [run EXCEPT ![s] =
                   [FreeRun EXCEPT !.at = "submitted", !.pod = p, !.exec = handler[p].exec,
                      !.stamped = handler[p].stamped, !.verdict = "open"]]
    BY <1>2 DEF Submit, FreeSlots
  <2>3. run'[s].at = "submitted" /\ \A t \in Slots : t # s => run'[t] = run[t]
    BY <1>t, <2>2 DEF FreeRun
  <2>4. QED  BY <2>1, <2>3, PodProceeds
<1>3. CASE ~SkipOrphan(p) /\ ~Submit(p)
  <2>1. UNCHANGED <<status, review, run>>
    BY <1>3 DEF Deliver, HandlerStep, CheckRoot, CheckRate, RateUnknown, RejectLocal, TryLock,
       ReadLockOwner, DropDuplicate, LockUnavailable, SubmitFails, RepublishHandled,
       SettleHandled, shared
  <2>2. QED  BY <2>1, PodProceeds
<1>4. QED  BY <1>1, <1>2, <1>3

LEMMA RunsProceed ==
  ASSUME TypeOK, NEW s \in Slots, UNCHANGED apiVars,
         RunStep(s) \/ OpenReview(s) \/ PollLock(s) \/ Settle(s)
  PROVE  Proceeds
<1>t. /\ status \in [Execs -> Statuses \cup {Absent}] /\ review \in [Execs -> ReviewRecord]
      /\ run \in [Slots -> RunRecord]
      /\ held \in [Pods -> [Execs -> Slots \cup {NoSlot}]]
  BY DEF TypeOK, SharedTypeOK, ManagerTypeOK
<1>r. \A t \in Slots : run[t].exec \in Execs /\ run[t].pod \in Pods
  BY Recorded
<1>e. PICK e \in Execs : e = run[s].exec
  BY <1>r
<1>1. CASE ReadMeta(s)
  <2>1. /\ \A t \in Slots : t # s => run'[t] = run[t]
        /\ run'[s].exec = e /\ run'[s].at # "write"
        /\ run'[s].at = "start" => status[e] # "COMPLETED"
        /\ UNCHANGED <<status, review>>
    BY <1>1, <1>t, <1>e DEF ReadMeta, MoveRun, RunRecord, shared
  <2>2. StartsStep /\ PausesStep
    BY <1>e, <2>1 DEF StartsStep, PausesStep, RunAt
  <2>3. QED  BY <2>1, <2>2, Standing DEF Proceeds, apiVars
<1>2. CASE StartTime(s) \/ ResumeStatus(s)
  <2>1. /\ \A t \in Slots : t # s => run'[t] = run[t]
        /\ run'[s].at = "engine" /\ run[s].at \in {"start", "resume"}
        /\ \A x \in Execs : x # e => status'[x] = status[x]
        /\ UNCHANGED review
    BY <1>2, <1>t, <1>e DEF StartTime, ResumeStatus, UpdateStatus, MoveRun, RunAt, RunRecord
  <2>2. status'[e] = status[e] \/ (status'[e] = "RUNNING" /\ (RunAt(s, "start") \/ status[e] # "COMPLETED"))
    BY <1>2, <1>t, <1>e DEF StartTime, ResumeStatus, UpdateStatus, Moved, AllowedFrom
  <2>3. \A x \in Execs : StatusStep(x)
    BY <1>e, <2>1, <2>2 DEF StatusStep
  <2>4. StartsStep /\ PausesStep
    BY <2>1 DEF StartsStep, PausesStep, RunAt
  <2>5. QED  BY <2>1, <2>3, <2>4, Standing DEF Proceeds, apiVars
<1>3. CASE WriteResult(s)
  <2>1. /\ \A t \in Slots : t # s => run'[t] = run[t]
        /\ run'[s].at = "done" /\ RunAt(s, "write")
        /\ \A x \in Execs : x # e => status'[x] = status[x]
        /\ status'[e] = Moved(status[e], run[s].result)
        /\ UNCHANGED review
    BY <1>3, <1>t, <1>e DEF WriteResult, UpdateStatus, MoveRun, RunAt, RunRecord
  <2>2. \A x \in Execs : StatusStep(x)
    BY <1>e, <2>1 DEF StatusStep, Moved
  <2>3. StartsStep /\ PausesStep
    BY <2>1 DEF StartsStep, PausesStep, RunAt
  <2>4. QED  BY <2>1, <2>2, <2>3, Standing DEF Proceeds, apiVars
<1>4. CASE OpenReview(s)
  <2> DEFINE n == review[e].opened + 1
             w == review[e].waiting \cup {n}
  <2>1. review' = [review EXCEPT ![e] = [opened |-> n, waiting |-> w]]
    BY <1>4, <1>e, <1>t DEF OpenReview
  <2>2. /\ review'[e].opened = n /\ review'[e].waiting = w
        /\ \A x \in Execs : x # e => review'[x] = review[x]
    BY <1>t, <2>1
  <2>3. \A x \in Execs : ReviewStep(x)
    BY <2>2 DEF ReviewStep
  <2>4. UNCHANGED <<status, run>>
    BY <1>4 DEF OpenReview, mgrVars
  <2>5. QED  BY <2>3, <2>4, Standing DEF Proceeds, apiVars
<1>5. CASE PollLock(s) \/ ScheduleVerdict(s)
  <2>1. /\ \A t \in Slots : t # s => run'[t] = run[t]
        /\ run'[s].at \notin {"start", "write"}
        /\ UNCHANGED <<status, review>>
    BY <1>5, <1>t DEF PollLock, ScheduleVerdict, RunAt, RunRecord, shared
  <2>2. QED  BY <2>1, PodProceeds
<1>6. CASE ReleaseLock(s)
  <2>1. PICK t \in Slots : run' = [run EXCEPT ![t].stamped = FALSE, ![s].at = "forget"]
    <3>1. held[run[s].pod][run[s].exec] \in Slots \cup {NoSlot}
      BY <1>t, <1>r
    <3>2. QED  BY <1>6, <3>1 DEF ReleaseLock
  <2>2. \A x \in Slots : /\ run'[x].exec = run[x].exec /\ run'[x].result = run[x].result
                         /\ x # s => run'[x].at = run[x].at
                         /\ run'[s].at = "forget"
    BY <1>t, <2>1 DEF RunRecord
  <2>3. UNCHANGED <<status, review>>
    BY <1>6 DEF ReleaseLock, shared
  <2>4. QED  BY <2>2, <2>3, PodProceeds
<1>7. CASE ForgetRun(s)
  <2>1. /\ run'[s] = Retired([run[s] EXCEPT !.at = "gone"])
        /\ \A t \in Slots : t # s => run'[t] = run[t]
        /\ UNCHANGED <<status, review>>
    BY <1>7, <1>t DEF ForgetRun, shared
  <2>2. run'[s].at \in {"free", "gone"}
    BY <1>t, <2>1 DEF Retired, FreeRun, RunRecord
  <2>3. QED  BY <2>1, <2>2, PodProceeds
<1>8. CASE Settle(s)
  <2>1. PICK v \in {"nack", "settled"} :
          \/ run' = [run EXCEPT ![s].verdict = v]
          \/ run' = [run EXCEPT ![s] = Retired([@ EXCEPT !.verdict = v])]
    BY <1>8 DEF Settle
  <2>2. UNCHANGED <<status, review>>
    BY <1>8 DEF Settle
  <2>3. \A t \in Slots : t # s => run'[t] = run[t]
    BY <1>t, <2>1
  <2>4. \/ run'[s] = FreeRun
        \/ /\ run'[s].at = run[s].at /\ run'[s].exec = run[s].exec
           /\ run'[s].result = run[s].result
    BY <1>t, <2>1 DEF Retired, RunRecord
  <2>5. QED  BY <2>2, <2>3, <2>4, PodProceeds DEF FreeRun
<1>9. QED  BY <1>1, <1>2, <1>3, <1>4, <1>5, <1>6, <1>7, <1>8 DEF RunStep

LEMMA PodsProceed ==
  ASSUME TypeOK, UNCHANGED apiVars,
         \/ \E p \in Pods, e \in Execs : HandleCancel(p, e)
         \/ \E p \in Pods : BeginShutdown(p) \/ FinishShutdown(p) \/ Disconnect(p) \/ Crash(p)
         \/ \E e \in Execs : LeaseExpires(e)
  PROVE  Proceeds
<1>t. run \in [Slots -> RunRecord]
  BY DEF TypeOK, ManagerTypeOK
<1>1. UNCHANGED <<status, review>>
  BY DEF HandleCancel, BeginShutdown, FinishShutdown, Disconnect, Crash, LeaseExpires
<1>2. SUFFICES ASSUME NEW s \in Slots
               PROVE  \/ run'[s].at \notin {"start", "write"}
                      \/ /\ run'[s].at = run[s].at /\ run'[s].exec = run[s].exec
                         /\ run'[s].result = run[s].result
  BY <1>1, PodProceeds
<1>3. run[s] \in RunRecord
  BY <1>t
<1>4. \/ run'[s] = run[s] \/ run'[s] = [run[s] EXCEPT !.cancel = TRUE]
      \/ run'[s] = [run[s] EXCEPT !.at = "gone", !.stamped = FALSE]
      \/ run'[s] = [run[s] EXCEPT !.stamped = FALSE]
      \/ run'[s] = FreeRun \/ run'[s] = [run[s] EXCEPT !.verdict = "settled"]
  <2>1. CASE \E p \in Pods, e \in Execs : HandleCancel(p, e)
    BY <1>t, <2>1 DEF HandleCancel
  <2>2. CASE \E p \in Pods : FinishShutdown(p)
    BY <2>2 DEF FinishShutdown
  <2>3. CASE \E p \in Pods : Disconnect(p) \/ Crash(p)
    BY <2>3 DEF Disconnect, Crash, Retired
  <2>4. CASE (\E p \in Pods : BeginShutdown(p)) \/ \E e \in Execs : LeaseExpires(e)
    BY <2>4 DEF BeginShutdown, LeaseExpires
  <2>5. QED  BY <2>1, <2>2, <2>3, <2>4
<1>5. CASE run'[s] = [run[s] EXCEPT !.at = "gone", !.stamped = FALSE]
  BY <1>3, <1>5 DEF RunRecord
<1>6. CASE run'[s] = FreeRun
  BY <1>6 DEF FreeRun
<1>7. CASE \/ run'[s] = run[s] \/ run'[s] = [run[s] EXCEPT !.cancel = TRUE]
           \/ run'[s] = [run[s] EXCEPT !.stamped = FALSE]
           \/ run'[s] = [run[s] EXCEPT !.verdict = "settled"]
  BY <1>3, <1>7 DEF RunRecord
<1>8. QED  BY <1>4, <1>5, <1>6, <1>7


\* The end of a dispatch loop: the reviews found waiting decide on a pause.
LEMMA EndProceeds == TypeOK /\ (\E s \in Slots : EndEngine(s)) => Proceeds
<1> SUFFICES ASSUME TypeOK, NEW s \in Slots, EndEngine(s) PROVE Proceeds
  OBVIOUS
<1>t. /\ run \in [Slots -> RunRecord] /\ call \in [Calls -> CallRecord]
      /\ stop \in [Execs -> StopRecord]
  BY DEF TypeOK, ApiTypeOK, ManagerTypeOK
<1>1. PICK x, y : /\ EndRun(s, x, y)
                  /\ x = "REVIEW" => review[run[s].exec].waiting # {}
  BY DEF EndEngine, EngineEnds, EngineRaises, EndStatuses
<1>2. run[s].at = "engine" /\ UNCHANGED <<status, review>>
  BY DEF EndEngine, EngineEnds, EngineRaises, RunAt, shared
<1>3. /\ run'[s].exec = run[s].exec /\ run'[s].at = "write" /\ run'[s].result = x
      /\ \A t \in Slots : t # s => run'[t] = run[t]
  BY <1>t, <1>1 DEF EndRun, RunRecord
<1>4. StartsStep /\ PausesStep
  BY <1>1, <1>2, <1>3 DEF StartsStep, PausesStep, RunAt
<1>5. \A c \in Calls :
        \/ call'[c] = call[c]
        \/ call'[c].at = "fail" /\ call'[c].exec = call[c].exec
  BY <1>t DEF EndEngine, Interrupt, CallRecord
<1>6. PicksStep /\ \A e \in Execs : CallsStand(e)
  BY <1>5 DEF PicksStep, CallsStand
<1>7. \A e \in Execs : StopAt(e, "terminate") => StopAt(e, "terminate")'
  BY <1>t DEF EndEngine, Interrupt, StopAt, StopIdle
<1>8. QED  BY <1>2, <1>4, <1>6, <1>7, Standing DEF Proceeds, StopStands

\* What is lost is not taken back.
LEMMA LostStay == [Next]_vars => lost \subseteq lost'
<1> SUFFICES ASSUME [Next]_vars PROVE lost \subseteq lost'
  OBVIOUS
<1> USE DEF shared
<1>1. CASE ApiNext
  BY <1>1 DEF ApiNext, CallStep, StopStep, CreateExecution, BeginReview, QueueStatus,
     CheckQueued, Publish, FailStatus, DecideReviews, ResumeAfterReview, PublishUnconfirmed,
     QueueingFails, ApiCrash, BeginStop, StopChildren, AwaitChildren, PublishCancel,
     PollStatus, CancelReviews, TerminateStatus, StopTimeout
<1>2. CASE ManagerNext
  <2>1. CASE \E p \in Pods : HandlerStep(p) \/ RateUnknown(p) \/ LockUnavailable(p)
    BY <2>1 DEF HandlerStep, CheckRoot, SkipOrphan, CheckRate, RateUnknown, RejectLocal,
       TryLock, ReadLockOwner, DropDuplicate, LockUnavailable, Submit, SubmitFails,
       RepublishHandled, SettleHandled
  <2>2. CASE \E s \in Slots : RunStep(s) \/ OpenReview(s) \/ PollLock(s) \/ Settle(s)
    BY <2>2 DEF RunStep, ReadMeta, StartTime, ResumeStatus, WriteResult, ScheduleVerdict,
       ReleaseLock, ForgetRun, OpenReview, PollLock, Settle
  <2>3. QED
    BY <1>2, <2>1, <2>2 DEF ManagerNext, Deliver, HandleCancel, BeginShutdown, FinishShutdown,
       Disconnect, Crash, LeaseExpires
<1>3. CASE \E s \in Slots : EndEngine(s)
  BY <1>3 DEF EndEngine, EngineEnds, EngineRaises
<1>4. QED  BY <1>1, <1>2, <1>3 DEF Next, vars, state

LEMMA StepsProceed == TypeOK /\ [Next]_vars => Proceeds
<1> SUFFICES ASSUME TypeOK, [Next]_vars PROVE Proceeds
  OBVIOUS
<1>1. CASE ManagerNext
  <2>1. UNCHANGED apiVars
    BY <1>1 DEF ManagerNext
  <2>2. QED  BY <1>1, <2>1, HandlersProceed, RunsProceed, PodsProceed DEF ManagerNext
<1>2. CASE UNCHANGED vars
  BY <1>2, Standing DEF Proceeds, vars, state, shared, apiVars, mgrVars
<1>3. QED  BY <1>1, <1>2, ApiProceeds, EndProceeds DEF Next

LEMMA InitDecides == Init => Deciding
BY DEF Init, SharedInit, ApiInit, ManagerInit, Deciding, StartsOpen, PicksKnown, Undecided,
   AboutToPause, PausedHasReason, RunAt, CallAt, FreeRun, NoCall, Absent, Live

LEMMA DecisionsPreserved ==
  IInv /\ Locking /\ Deciding /\ [Next]_vars => Deciding'
<1> SUFFICES ASSUME IInv, Locking, Deciding, [Next]_vars PROVE Deciding'
  OBVIOUS
<1>1. TypeOK /\ TypeOK' /\ OneEngine /\ Proceeds
  BY TypesPreserved, LocksExclude, StepsProceed DEF IInv
<1>2. lost \subseteq lost'
  BY LostStay
<1>3. CASE Next
  <2>1. unlocked \subseteq unlocked' /\ hasty' = hasty \cup {e \in Execs : Hurries(e)}
    BY <1>3 DEF Next
  <2>2. QED  BY <1>1, <1>2, <2>1, ProceedingDecides
<1>4. CASE UNCHANGED vars
  <2>1. UNCHANGED <<run, call, stop, status, review, unlocked, hasty, lost>>
    BY <1>4 DEF vars, state, shared, apiVars, mgrVars
  <2>2. QED
    BY <2>1 DEF Deciding, StartsOpen, PicksKnown, Undecided, AboutToPause, PausedHasReason,
       RunAt, CallAt, StopAt
<1>5. QED  BY <1>3, <1>4


\* All that holds of every state.
Safety == IInv /\ Locking /\ Deciding

LEMMA InitSafe == Init => Safety
BY InitInvariant, InitLocks, InitDecides DEF Safety

LEMMA SafetyPreserved == Safety /\ [Next]_vars => Safety'
BY InvariantPreserved, LocksPreserved, DecisionsPreserved DEF Safety

\* Whoever decides, stops or fails: a paused execution waits for a review, or a
\* request is about to move it on, unless that request died, the lock went from
\* under a run, or the execution was queued or resumed with a review waiting.
THEOREM PausesAreReasoned == Spec => []PausedHasReason
<1>1. Safety => PausedHasReason
  BY DEF Safety, Deciding
<1>2. QED  BY InitSafe, SafetyPreserved, <1>1, PTL DEF Spec

\* However often the message of a completed execution is delivered, and to whom,
\* nothing sets its status any more, while its lock is left to the runs that
\* count on it.
THEOREM CompletionsLast == Spec => CompletedIsFinal
<1>1. Safety /\ [Next]_vars =>
        [\A e \in Execs \ unlocked : status[e] = "COMPLETED" => status'[e] = "COMPLETED"]_vars
  BY StepsProceed, ProceedingCompletes DEF Safety, IInv
<1>2. QED  BY InitSafe, SafetyPreserved, <1>1, PTL DEF Spec, CompletedIsFinal

=============================================================================
