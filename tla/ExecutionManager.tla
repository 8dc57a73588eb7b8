-------------------------- MODULE ExecutionManager --------------------------
(***************************************************************************)
(* executor/manager.py: the executor pods.  Each pod consumes the run      *)
(* queue in one thread (the handler), runs executions on a thread pool     *)
(* (the runs), and acknowledges a message when its run is done.  A lock in *)
(* Redis keeps an execution on one pod.  Every access to the database,     *)
(* Redis or the broker is a step of its own, and the callback that ends a  *)
(* run interleaves with the handler of the same pod.                       *)
(***************************************************************************)
EXTENDS ExecutionState

CONSTANTS
  Pods,        \* executor ids: a pod that restarts is a new one
  NoPod,       \* no owner in Redis
  Slots,       \* the runs there can be at a time, numbered
  NoSlot,
  PoolSize,    \* num_graph_workers, and the prefetch count
  MaxRunning   \* max_concurrent_graph_executions_per_user

ASSUME ManagerConstants ==
  /\ Pods # {} /\ NoPod \notin Pods
  /\ Slots \subseteq Nat /\ IsFiniteSet(Slots) /\ NoSlot \notin Slots
  /\ PoolSize \in Nat \ {0}
  /\ MaxRunning \in Nat \ {0}

VARIABLES
  mode,      \* [Pods -> up, stopping, closing, closed or down]
  handler,   \* [Pods -> the message in the hands of the consumer thread]
  run,       \* [Slots -> a call of on_graph_execution, with its message]
  active,    \* [Pods -> [Execs -> slot]]: active_graph_runs
  held,      \* [Pods -> [Execs -> slot]]: _execution_locks, by their run
  key        \* [Execs -> owner of the lock in Redis]

mgrVars == <<mode, handler, run, active, held, key>>

HandlerStages == {"idle", "root", "rate", "lock", "owner", "submit",
                  "requeue", "settle"}
RunStages == {"free", "submitted", "start", "resume", "engine", "write",
              "done", "release", "forget", "gone"}
Verdicts == {"open", "ack", "requeue", "nack", "settled"}
Results == {"COMPLETED", "FAILED", "TERMINATED", "REVIEW", "RUNNING"}

AnyExec == CHOOSE e \in Execs : TRUE
AnyPod == CHOOSE p \in Pods : TRUE
IdleHandler == [at |-> "idle", exec |-> AnyExec, stamped |-> FALSE]
FreeRun == [at |-> "free", pod |-> AnyPod, exec |-> AnyExec, cancel |-> FALSE,
            stamped |-> FALSE, result |-> "RUNNING", raised |-> FALSE,
            verdict |-> "settled"]

HandlerRecord == [at : HandlerStages, exec : Execs, stamped : BOOLEAN]
RunRecord == [at : RunStages, pod : Pods, exec : Execs, cancel : BOOLEAN,
              stamped : BOOLEAN, result : Results, raised : BOOLEAN, verdict : Verdicts]

ManagerTypeOK ==
  /\ mode \in [Pods -> {"up", "stopping", "closing", "closed", "down"}]
  /\ handler \in [Pods -> HandlerRecord]
  /\ run \in [Slots -> RunRecord]
  /\ active \in [Pods -> [Execs -> Slots \cup {NoSlot}]]
  /\ held \in [Pods -> [Execs -> Slots \cup {NoSlot}]]
  /\ key \in [Execs -> Pods \cup {NoPod}]

NoSlots == [e \in Execs |-> NoSlot]

ManagerInit ==
  /\ mode = [p \in Pods |-> "up"]
  /\ handler = [p \in Pods |-> IdleHandler]
  /\ run = [s \in Slots |-> FreeRun]
  /\ active = [p \in Pods |-> NoSlots]
  /\ held = [p \in Pods |-> NoSlots]
  /\ key = [e \in Execs |-> NoPod]

-----------------------------------------------------------------------------
(* helpers *)

Handling(p, at) == handler[p].at = at
Connected(p) == mode[p] \notin {"closed", "down"}
MoveHandler(p, at) == handler' = [handler EXCEPT ![p].at = at]
RunAt(s, at) == run[s].at = at
MoveRun(s, at) == run' = [run EXCEPT ![s].at = at]

Working(s) == run[s].at \in {"start", "resume", "engine", "write"}

\* future.done()
Done(s) == run[s].at \in {"done", "release", "forget", "gone"}

\* _cleanup_completed_runs: the entries of active_graph_runs that stay.
StillActive(p) ==
  [e \in Execs |-> IF active[p][e] # NoSlot /\ Done(active[p][e])
                   THEN NoSlot ELSE active[p][e]]
Occupied(slots) == {e \in Execs : slots[e] # NoSlot}

\* The messages a pod has not settled with the broker.
OpenRuns(p) == {s \in Slots : run[s].pod = p /\ run[s].verdict # "settled"}
Unsettled(p) == Cardinality(OpenRuns(p)) + (IF handler[p].at = "idle" THEN 0 ELSE 1)
OpenRunsOf(p, e) == {s \in OpenRuns(p) : run[s].exec = e}

UnsettledOf(p, e) ==
  Cardinality(OpenRunsOf(p, e))
  + (IF handler[p].at # "idle" /\ handler[p].exec = e THEN 1 ELSE 0)

\* A run that has ended and is settled with the broker leaves nothing behind.
Retired(r) == IF r.at = "gone" /\ r.verdict = "settled" THEN FreeRun ELSE r
FreeSlots == {s \in Slots : RunAt(s, "free")}

\* ClusterLock.release: nothing to do without a timestamp, else a DELETE that
\* does not look at the owner.
KeyAfterRelease(e, stamped) == IF stamped THEN [key EXCEPT ![e] = NoPod] ELSE key

(* _handle_run_message *)

\* A message arrives.  A pod that shuts down or is full sends it back.
Deliver(p, e) ==
  /\ Connected(p) /\ Handling(p, "idle")
  /\ ready[e] > 0 /\ Unsettled(p) < PoolSize
  /\ ready' = [ready EXCEPT ![e] = @ - 1]
  /\ active' = IF mode[p] = "up" THEN [active EXCEPT ![p] = StillActive(p)] ELSE active
  /\ LET busy == mode[p] # "up" \/ Cardinality(Occupied(StillActive(p))) >= PoolSize
     IN handler' = [handler EXCEPT ![p] =
          [at |-> IF busy THEN "requeue" ELSE "root", exec |-> e, stamped |-> FALSE]]
  /\ UNCHANGED <<status, review, cancels, lost, spent, mode, run, held, key>>

\* The root of a child execution is looked up; the message of a resumed one
\* names no root.
RootTerminated(e) ==
  RootOf[e] # e /\ status[RootOf[e]] = "TERMINATED"

CheckRoot(p) ==
  LET e == handler[p].exec IN
  /\ Handling(p, "root")
  /\ ~RootTerminated(e) \/ review[e].opened > 0
  /\ MoveHandler(p, "rate")
  /\ UNCHANGED <<shared, mode, run, active, held, key>>

\* A child of a terminated root is terminated, its message then acknowledged.
SkipOrphan(p) ==
  LET e == handler[p].exec IN
  /\ Handling(p, "root")
  /\ RootTerminated(e)
  /\ UpdateStatus(e, "TERMINATED")
  /\ MoveHandler(p, "settle")
  /\ UNCHANGED <<review, ready, cancels, lost, spent, mode, run, active, held, key>>

\* Mutant: the queued executions count too.
CountWithQueued == Cardinality({e \in Execs : status[e] \in Live})

RunningCount == Cardinality({e \in Execs : status[e] = "RUNNING"})

\* The rate limit counts the RUNNING rows and sends the message back at the limit.
CheckRate(p) ==
  /\ Handling(p, "rate")
  /\ MoveHandler(p, IF RunningCount >= MaxRunning THEN "requeue" ELSE "lock")
  /\ UNCHANGED <<shared, mode, run, active, held, key>>

\* A failed query does not keep an execution from starting.
RateUnknown(p) ==
  /\ Handling(p, "rate")
  /\ Spend("db")
  /\ MoveHandler(p, "lock")
  /\ UNCHANGED <<status, review, ready, cancels, lost, mode, run, active, held, key>>

\* An execution this pod already runs is sent back.
RejectLocal(p) ==
  /\ Handling(p, "lock") /\ active[p][handler[p].exec] # NoSlot
  /\ MoveHandler(p, "requeue")
  /\ UNCHANGED <<shared, mode, run, active, held, key>>

\* try_acquire: SET NX takes a free key; otherwise the owner has to be read.
TryLock(p) ==
  LET e == handler[p].exec IN
  /\ Handling(p, "lock") /\ active[p][e] = NoSlot
  /\ IF key[e] = NoPod
     THEN /\ key' = [key EXCEPT ![e] = p]
          /\ handler' = [handler EXCEPT ![p].at = "submit", ![p].stamped = TRUE]
     ELSE MoveHandler(p, "owner") /\ UNCHANGED key
  /\ UNCHANGED <<shared, mode, run, active, held>>

\* ... by a GET: the pod's own id passes for success.
ReadLockOwner(p) ==
  LET e == handler[p].exec IN
  /\ Handling(p, "owner") /\ key[e] \in {p, NoPod}
  /\ MoveHandler(p, IF key[e] = p THEN "submit" ELSE "requeue")
  /\ UNCHANGED <<shared, mode, run, active, held, key>>

\* Another pod owns the lock: the message will be rejected without requeueing.
DropDuplicate(p) ==
  LET e == handler[p].exec IN
  /\ Handling(p, "owner") /\ key[e] \notin {p, NoPod}
  /\ MoveHandler(p, "settle")
  /\ lost' = lost \cup {e}
  /\ UNCHANGED <<status, review, ready, cancels, spent, mode, run, active, held, key>>

\* Mutant: without Redis the execution goes ahead.
LockIgnored(p) ==
  /\ handler[p].at \in {"lock", "owner"}
  /\ active[p][handler[p].exec] = NoSlot
  /\ Spend("redis")
  /\ MoveHandler(p, "submit")
  /\ UNCHANGED <<status, review, ready, cancels, lost, mode, run, active, held, key>>

\* Redis does not answer; a SET may have been carried out.
LockUnavailable(p) ==
  LET e == handler[p].exec IN
  /\ handler[p].at \in {"lock", "owner"}
  /\ active[p][e] = NoSlot
  /\ Spend("redis")
  /\ MoveHandler(p, "requeue")
  /\ \/ handler[p].at = "lock" /\ key[e] = NoPod /\ key' = [key EXCEPT ![e] = p]
     \/ UNCHANGED key
  /\ UNCHANGED <<status, review, ready, cancels, lost, mode, run, active, held>>

\* The execution is handed to the thread pool and registered.
Submit(p) ==
  LET e == handler[p].exec IN
  /\ Handling(p, "submit") /\ mode[p] # "closing"
  /\ \E s \in FreeSlots :
       /\ \A t \in FreeSlots : s <= t
       /\ run' = [run EXCEPT ![s] =
            [FreeRun EXCEPT !.at = "submitted", !.pod = p, !.exec = e,
                            !.stamped = handler[p].stamped, !.verdict = "open"]]
       /\ active' = [active EXCEPT ![p][e] = s]
       /\ held' = [held EXCEPT ![p][e] = s]
  /\ handler' = [handler EXCEPT ![p] = IdleHandler]
  /\ UNCHANGED <<shared, mode, key>>

\* A thread pool that is shut down takes no work: the lock is given back.
SubmitFails(p) ==
  LET e == handler[p].exec IN
  /\ Handling(p, "submit") /\ mode[p] = "closing"
  /\ key' = KeyAfterRelease(e, handler[p].stamped)
  /\ held' = [held EXCEPT ![p][e] = NoSlot]
  /\ MoveHandler(p, "requeue")
  /\ UNCHANGED <<shared, mode, run, active>>

\* _ack_message(reject, requeue): the message is published again behind the
\* others and then rejected, or, failing that, requeued in one go.
RepublishHandled(p) ==
  /\ Handling(p, "requeue")
  /\ Enqueue(handler[p].exec)
  /\ MoveHandler(p, "settle") \/ handler' = [handler EXCEPT ![p] = IdleHandler]
  /\ UNCHANGED <<status, review, cancels, lost, spent, mode, run, active, held, key>>

\* The acknowledgement, or the rejection of what was published again.
SettleHandled(p) ==
  /\ Handling(p, "settle")
  /\ handler' = [handler EXCEPT ![p] = IdleHandler]
  /\ UNCHANGED <<shared, mode, run, active, held, key>>

-----------------------------------------------------------------------------
(* on_graph_execution, on a thread of the pool *)

\* Mutant: whatever is not RUNNING is started.
ReadMetaStartsAny(s) ==
  /\ RunAt(s, "submitted")
  /\ MoveRun(s, IF status[run[s].exec] = "RUNNING" THEN "engine" ELSE "start")
  /\ UNCHANGED <<shared, mode, handler, active, held, key>>

\* The status found decides: start, continue, resume, or skip.
ReadMeta(s) ==
  /\ RunAt(s, "submitted")
  /\ MoveRun(s, CASE status[run[s].exec] \in {"QUEUED", "INCOMPLETE"} -> "start"
                  [] status[run[s].exec] = "RUNNING" -> "engine"
                  [] status[run[s].exec] \in {"REVIEW", "FAILED"} -> "resume"
                  [] OTHER -> "done")
  /\ UNCHANGED <<shared, mode, handler, active, held, key>>

\* update_graph_execution_start_time sets RUNNING whatever the status is by now.
StartTime(s) ==
  /\ RunAt(s, "start")
  /\ status' = [status EXCEPT ![run[s].exec] = "RUNNING"]
  /\ MoveRun(s, "engine")
  /\ UNCHANGED <<review, ready, cancels, lost, spent, mode, handler, active, held, key>>

\* The conditional update; a FAILED row stays FAILED, and the run goes on.
ResumeStatus(s) ==
  /\ RunAt(s, "resume")
  /\ UpdateStatus(run[s].exec, "RUNNING")
  /\ MoveRun(s, "engine")
  /\ UNCHANGED <<review, ready, cancels, lost, spent, mode, handler, active, held, key>>

\* A block that needs a human opens a review.
OpenReview(s) ==
  LET n == review[run[s].exec].opened + 1 IN
  /\ RunAt(s, "engine")
  /\ Spend("review")
  /\ review' = [review EXCEPT ![run[s].exec] = [opened |-> n, waiting |-> @.waiting \cup {n}]]
  /\ UNCHANGED <<status, ready, cancels, lost, mgrVars>>

\* cluster_lock.refresh() in the dispatch loop, its result ignored.
PollLock(s) ==
  LET mine == key[run[s].exec] = run[s].pod IN
  /\ RunAt(s, "engine") /\ run[s].stamped # mine
  /\ run' = [run EXCEPT ![s].stamped = mine]
  /\ UNCHANGED <<shared, mode, handler, active, held, key>>

\* Mutant: any review ever opened pauses the execution.
EndStatusesAnyReview(s) ==
  {"FAILED", IF run[s].cancel THEN "TERMINATED"
             ELSE IF review[run[s].exec].opened > 0 THEN "REVIEW" ELSE "COMPLETED"}

\* Mutant: an execution that did not fail is queued again.
EndStatusesQueued(s) == {"FAILED", IF run[s].cancel THEN "TERMINATED" ELSE "QUEUED"}

EndStatuses(s) ==
  {"FAILED", IF run[s].cancel THEN "TERMINATED"
             ELSE IF review[run[s].exec].waiting # {} THEN "REVIEW" ELSE "COMPLETED"}
EndRun(s, result, raised) ==
  run' = [run EXCEPT ![s].at = "write", ![s].result = result, ![s].raised = raised]

\* The dispatch loop is over and the final status is known.
EngineEnds(s) ==
  /\ RunAt(s, "engine")
  /\ \E result \in EndStatuses(s) : EndRun(s, result, FALSE)
  /\ UNCHANGED <<shared, mode, handler, active, held, key>>

\* An unexpected exception in the loop, or one in the summary made after it: the
\* status the row is about to get is still RUNNING, or already the final one.
EngineRaises(s) ==
  /\ RunAt(s, "engine")
  /\ Spend("raise")
  /\ \E result \in {"RUNNING"} \cup (EndStatuses(s) \cap {"COMPLETED", "FAILED"}) :
       EndRun(s, result, TRUE)
  /\ UNCHANGED <<status, review, ready, cancels, lost, mode, handler, active, held, key>>

\* The finally clause writes the status, if the table allows it.
WriteResult(s) ==
  /\ RunAt(s, "write")
  /\ UpdateStatus(run[s].exec, run[s].result)
  /\ MoveRun(s, "done")
  /\ UNCHANGED <<review, ready, cancels, lost, spent, mode, handler, active, held, key>>

-----------------------------------------------------------------------------
(* _on_run_done, still on the thread of the run *)

ScheduleVerdict(s) ==
  /\ RunAt(s, "done")
  /\ run' = [run EXCEPT ![s].at = "release",
                        ![s].verdict = IF @ = "settled" THEN @
                                       ELSE IF run[s].raised THEN "requeue" ELSE "ack"]
  /\ UNCHANGED <<shared, mode, handler, active, held, key>>

\* The lock released is the one registered for the execution by now.
ReleaseLock(s) ==
  LET p == run[s].pod
      e == run[s].exec
      t == held[p][e]
  IN /\ RunAt(s, "release") /\ t # NoSlot
     /\ key' = KeyAfterRelease(e, run[t].stamped)
     /\ run' = [run EXCEPT ![t].stamped = FALSE, ![s].at = "forget"]
     /\ UNCHANGED <<shared, mode, handler, active, held>>

ForgetRun(s) ==
  LET p == run[s].pod IN
  /\ \/ RunAt(s, "forget")
     \/ RunAt(s, "release") /\ held[p][run[s].exec] = NoSlot
  /\ held' = [held EXCEPT ![p][run[s].exec] = NoSlot]
  /\ active' = [active EXCEPT ![p] = StillActive(p)]
  /\ run' = [run EXCEPT ![s] = Retired([@ EXCEPT !.at = "gone"])]
  /\ UNCHANGED <<shared, mode, handler, key>>

\* The verdict is carried out later, by the thread of the connection.
Settle(s) ==
  /\ run[s].verdict \in {"ack", "requeue", "nack"}
  /\ \/ /\ run[s].verdict # "requeue"
        /\ run' = [run EXCEPT ![s] = Retired([@ EXCEPT !.verdict = "settled"])]
        /\ UNCHANGED ready
     \/ /\ run[s].verdict = "requeue"
        /\ Enqueue(run[s].exec)
        /\ \/ run' = [run EXCEPT ![s].verdict = "nack"]
           \/ run' = [run EXCEPT ![s] = Retired([@ EXCEPT !.verdict = "settled"])]
  /\ UNCHANGED <<status, review, cancels, lost, spent, mode, handler, active, held, key>>

-----------------------------------------------------------------------------
(* cancel messages, leases, shutdown and crashes *)

\* A cancel message reaches one pod only, and is lost on a pod that does not
\* run the execution.
HandleCancel(p, e) ==
  /\ Connected(p) /\ cancels[e] > 0
  /\ cancels' = [cancels EXCEPT ![e] = @ - 1]
  /\ run' = IF active[p][e] = NoSlot THEN run
            ELSE [run EXCEPT ![active[p][e]].cancel = TRUE]
  /\ UNCHANGED <<status, review, ready, lost, spent, mode, handler, active, held, key>>

\* Somebody on the owner's pod is busy under the lock.
LockInUse(e) ==
  \/ \E s \in Slots : /\ run[s].exec = e /\ run[s].pod = key[e]
                      /\ run[s].at \notin {"free", "gone"}
  \/ \E p \in Pods : p = key[e] /\ handler[p].exec = e /\ Handling(p, "submit")

\* The time to live runs out: always for a leftover key, rarely for one in use.
LeaseExpires(e) ==
  /\ key[e] # NoPod
  /\ IF LockInUse(e) THEN Spend("lapse") ELSE UNCHANGED spent
  /\ key' = [key EXCEPT ![e] = NoPod]
  /\ UNCHANGED <<status, review, ready, cancels, lost, mode, handler, run, active, held>>

\* cleanup(): no new messages are taken.
BeginShutdown(p) ==
  /\ mode[p] = "up"
  /\ Spend("drain")
  /\ mode' = [mode EXCEPT ![p] = "stopping"]
  /\ UNCHANGED <<status, review, ready, cancels, lost, handler, run, active, held, key>>

\* Mutant: the runs that are cancelled count as done, and are acknowledged.
FinishShutdownAcks(p) ==
  /\ mode[p] = "stopping"
  /\ IF Occupied(StillActive(p)) = {} THEN UNCHANGED spent ELSE Spend("grace")
  /\ mode' = [mode EXCEPT ![p] = "closing"]
  /\ active' = [active EXCEPT ![p] = StillActive(p)]
  /\ held' = [held EXCEPT ![p] = NoSlots]
  /\ UNCHANGED key
  /\ run' = [s \in Slots |-> IF run[s].pod = p /\ RunAt(s, "submitted")
                            THEN [run[s] EXCEPT !.at = "gone", !.verdict = "ack"] ELSE run[s]]
  /\ UNCHANGED <<status, review, ready, cancels, lost, handler>>

\* When the executions are over, or the grace period is, the thread pool is shut
\* down, which cancels the runs it has not begun, and every lock is released.
FinishShutdown(p) ==
  /\ mode[p] = "stopping"
  /\ IF Occupied(StillActive(p)) = {} THEN UNCHANGED spent ELSE Spend("grace")
  /\ mode' = [mode EXCEPT ![p] = "closing"]
  /\ active' = [active EXCEPT ![p] = StillActive(p)]
  /\ held' = [held EXCEPT ![p] = NoSlots]
  /\ key' = [e \in Execs |->
       IF held[p][e] # NoSlot /\ run[held[p][e]].stamped THEN NoPod ELSE key[e]]
  /\ run' = [s \in Slots |->
       IF run[s].pod = p /\ RunAt(s, "submitted")
       THEN [run[s] EXCEPT !.at = "gone", !.stamped = FALSE]
       ELSE IF \E e \in Execs : held[p][e] = s
            THEN [run[s] EXCEPT !.stamped = FALSE] ELSE run[s]]
  /\ UNCHANGED <<status, review, ready, cancels, lost, handler>>

\* The broker takes back every message the pod has not settled.
GiveBack(p) ==
  /\ ready' = [e \in Execs |-> ready[e] + UnsettledOf(p, e)]
  /\ handler' = [handler EXCEPT ![p] = IdleHandler]
  /\ active' = [active EXCEPT ![p] = NoSlots]
  /\ held' = [held EXCEPT ![p] = NoSlots]

\* The connections are closed last.  The process does not end before its threads
\* do, which work on without their messages and their locks.
Disconnect(p) ==
  /\ mode[p] = "closing"
  /\ mode' = [mode EXCEPT ![p] = "closed"]
  /\ GiveBack(p)
  /\ run' = [s \in Slots |-> IF run[s].pod = p
                            THEN Retired([run[s] EXCEPT !.verdict = "settled"]) ELSE run[s]]
  /\ lost' = lost \cup {run[s].exec : s \in {t \in Slots : run[t].pod = p /\ Working(t)}}
  /\ UNCHANGED <<status, review, cancels, spent, key>>

\* The process is killed: its threads stop where they are, its locks stay.
Crash(p) ==
  /\ mode[p] # "down"
  /\ Spend("crash")
  /\ mode' = [mode EXCEPT ![p] = "down"]
  /\ GiveBack(p)
  /\ run' = [s \in Slots |-> IF run[s].pod = p THEN FreeRun ELSE run[s]]
  /\ UNCHANGED <<status, review, cancels, lost, key>>

HandlerStep(p) ==
  \/ CheckRoot(p) \/ SkipOrphan(p) \/ CheckRate(p) \/ RejectLocal(p) \/ TryLock(p)
  \/ ReadLockOwner(p) \/ DropDuplicate(p) \/ Submit(p) \/ SubmitFails(p)
  \/ RepublishHandled(p) \/ SettleHandled(p)
RunStep(s) ==
  \/ ReadMeta(s) \/ StartTime(s) \/ ResumeStatus(s)
  \/ WriteResult(s) \/ ScheduleVerdict(s) \/ ReleaseLock(s) \/ ForgetRun(s)

=============================================================================
