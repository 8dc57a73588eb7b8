----------------------------- MODULE CopilotChat -----------------------------
(***************************************************************************)
(* The turns of one chat session: the routes of                            *)
(* api/features/chat/routes.py that post a turn, resume its answer and     *)
(* cancel it, over the registry of CopilotStreams and the pods of          *)
(* CopilotExecutor.                                                        *)
(***************************************************************************)
EXTENDS CopilotExecutor

VARIABLES
  post,       \* [Turns -> where the request that posts it is]
  mortal,     \* the session's hash exists and has a time to live
  cancel      \* [Cancels -> where it is, and the turn it found running]

chatVars == <<post, mortal, cancel>>
vars == <<sharedVars, execVars, chatVars>>

PostStages == {"new", "expire", "enqueue", "sent"}
CancelRecord == [at : {"idle", "poll", "force", "done", "failed"},
                 turn : Turns \cup {NoTurn}]

ChatTypeOK ==
  /\ post \in [Turns -> PostStages]
  /\ mortal \in BOOLEAN
  /\ cancel \in [Cancels -> CancelRecord]

TypeOK == StreamsTypeOK /\ ExecutorTypeOK /\ ChatTypeOK

Init ==
  /\ StreamsInit
  /\ ExecutorInit
  /\ post = [t \in Turns |-> "new"]
  /\ mortal = FALSE
  /\ cancel = [c \in Cancels |-> [at |-> "idle", turn |-> NoTurn]]

PostAt(t, at) == post[t] = at
Posting(t) == post[t] \in {"expire", "enqueue"}
MovePost(t, at) == post' = [post EXCEPT ![t] = at]
CancelAt(c, at) == cancel[c].at = at
MoveCancel(c, at) == cancel' = [cancel EXCEPT ![c].at = at]

-----------------------------------------------------------------------------
(* stream_chat_post *)

\* create_session: the new turn takes the place of the last one, running or not.
\* HSET leaves the hash the time to live it has, which is none if it is new.
CreateSession(t) ==
  /\ PostAt(t, "new") /\ \A u \in Turns : u < t => PostAt(u, "sent")
  /\ meta' = [turn |-> t, status |-> "running"]
  /\ MovePost(t, "expire")
  /\ UNCHANGED <<ended, mark, reader, ready, cancels, lost, spent, execVars, mortal, cancel>>

\* EXPIRE, if the hash is still there.
ExpireSession(t) ==
  /\ PostAt(t, "expire")
  /\ mortal' = (meta # NoSession)
  /\ MovePost(t, "enqueue")
  /\ UNCHANGED <<sharedVars, execVars, cancel>>

\* enqueue_copilot_turn
EnqueueTurn(t) ==
  /\ PostAt(t, "enqueue")
  /\ ready' = [ready EXCEPT ![t] = @ + 1]
  /\ MovePost(t, "sent")
  /\ UNCHANGED <<meta, ended, mark, reader, cancels, lost, spent, execVars, mortal, cancel>>

\* EXPIRE fails, the broker does not confirm the message, which it may have, or the
\* API server dies: the request fails, and the session is left as it is.
PostFails(t) ==
  /\ Posting(t)
  /\ Spend("request")
  /\ \/ PostAt(t, "enqueue") /\ ready' = [ready EXCEPT ![t] = @ + 1] /\ UNCHANGED lost
     \/ lost' = lost \cup {t} /\ UNCHANGED ready
  /\ MovePost(t, "sent")
  /\ UNCHANGED <<meta, ended, mark, reader, cancels, execVars, mortal, cancel>>

(* the generators of stream_chat_post and of resume_session_stream *)

\* Once a turn is posted its answer is read, by session: from whichever turn is
\* the last by now.  A browser that comes back does so while one is running.
Subscribe(r) ==
  /\ ReaderAt(r, "idle") /\ \E t \in Turns : PostAt(t, "sent")
  /\ reader' = [reader EXCEPT ![r].at = "meta"]
  /\ UNCHANGED <<meta, ended, mark, ready, cancels, lost, spent, execVars, chatVars>>

(* cancel_session_task *)

\* get_active_session: without a running turn there is nothing to cancel.  The
\* message may take its time in the queue, as the request may before it is sent.
BeginCancel(c) ==
  /\ CancelAt(c, "idle") /\ Running
  /\ cancel' = [cancel EXCEPT ![c] = [at |-> "poll", turn |-> meta.turn]]
  /\ cancels' = cancels + 1
  /\ UNCHANGED <<meta, ended, mark, reader, ready, lost, spent, execVars, post, mortal>>

\* A hash without a time to live: the request that was to set it has failed.
Immortal == Running /\ ~mortal /\ PostAt(meta.turn, "sent")

\* ... or the turn is older than a hash with a time to live can be, and is completed.
FindStale(c) ==
  /\ CancelAt(c, "idle") /\ Immortal
  /\ MarkRead(c, "failed")
  /\ cancel' = [cancel EXCEPT ![c] = [at |-> "force", turn |-> meta.turn]]
  /\ UNCHANGED <<meta, ended, reader, ready, cancels, lost, spent, execVars, post, mortal>>

EndCancel(c, how) == cancel' = [cancel EXCEPT ![c] = [at |-> how, turn |-> NoTurn]]

\* Mutant: after five seconds the request gives up.
GiveUpPolling(c) ==
  /\ CancelAt(c, "poll")
  /\ EndCancel(c, "done")
  /\ UNCHANGED <<sharedVars, execVars, post, mortal>>

\* Polling: the session is seen to be idle.
SeeStopped(c) ==
  /\ CancelAt(c, "poll") /\ ~Running
  /\ EndCancel(c, "done")
  /\ UNCHANGED <<sharedVars, execVars, post, mortal>>

\* After five seconds the request completes the session itself.
ForceStop(c) ==
  /\ CancelAt(c, "poll")
  /\ MarkRead(c, "failed")
  /\ MoveCancel(c, "force")
  /\ UNCHANGED <<meta, ended, reader, ready, cancels, lost, spent, execVars, post, mortal>>

Forced(c) ==
  /\ CancelAt(c, "force") /\ MarkAt(c, "over")
  /\ mark' = [mark EXCEPT ![c] = NoMark]
  /\ EndCancel(c, "done")
  /\ UNCHANGED <<meta, ended, reader, ready, cancels, lost, spent, execVars, post, mortal>>

\* Redis fails, or the API server dies.
CancelFails(c) ==
  /\ cancel[c].at \in {"poll", "force"}
  /\ Spend("request")
  /\ mark' = [mark EXCEPT ![c] = NoMark]
  /\ EndCancel(c, "failed")
  /\ UNCHANGED <<meta, ended, reader, ready, cancels, lost, execVars, post, mortal>>

CancelStep(c) == SeeStopped(c) \/ ForceStop(c) \/ Forced(c)

(* the time to live of the session's hash *)

\* An hour after a turn was posted.  Fair only when nobody works on it any more.
ForgetSession ==
  /\ Running => meta.turn \in lost
  /\ mortal
  /\ PostAt(meta.turn, "sent")
  /\ meta' = NoSession /\ mortal' = FALSE
  /\ UNCHANGED <<ended, mark, reader, ready, cancels, lost, spent, execVars, post, cancel>>

\* The turn takes longer than that, or is posted when the time of the last one
\* runs out.
OutliveSession ==
  /\ Running
  /\ mortal
  /\ PostAt(meta.turn, "sent") \/ PostAt(meta.turn, "expire")
  /\ Spend("hour")
  /\ meta' = NoSession /\ mortal' = FALSE
  /\ lost' = lost \cup {meta.turn}
  /\ UNCHANGED <<ended, mark, reader, ready, cancels, execVars, post, cancel>>

-----------------------------------------------------------------------------

RequestNext ==
  \/ \E t \in Turns : CreateSession(t) \/ ExpireSession(t) \/ EnqueueTurn(t)
                    \/ PostFails(t)
  \/ \E r \in Readers : Subscribe(r)
  \/ \E c \in Cancels : BeginCancel(c) \/ FindStale(c) \/ CancelStep(c) \/ CancelFails(c)
  \/ ForgetSession \/ OutliveSession

StreamNext ==
  /\ \/ \E w \in Completers : MarkStep(w) \/ MarkPublishFails(w)
     \/ \E r \in Readers : ReaderStep(r) \/ ReaderFails(r) \/ Unsubscribe(r)
  /\ UNCHANGED <<execVars, chatVars>>

ExecutorNext ==
  /\ \/ \E p \in Pods, t \in Turns : Deliver(p, t) \/ DropLocal(p, t)
     \/ \E p \in Pods : \/ HandlerStep(p) \/ LockUnavailable(p) \/ HandleCancel(p)
                        \/ Disconnect(p) \/ BeginShutdown(p) \/ GraceExpires(p)
                        \/ Exit(p) \/ Crash(p)
     \/ \E s \in Slots : RunStep(s) \/ MarkLost(s)
     \/ KeyExpires \/ KeyLapses
  /\ UNCHANGED chatVars

Next == RequestNext \/ StreamNext \/ ExecutorNext

Spec == Init /\ [][Next]_vars

\* The steps of a run, of its thread and of its coroutine.
RunGoesOn(s) ==
  /\ RunStep(s) \/ (MarkStep(s) /\ UNCHANGED execVars)
  /\ UNCHANGED chatVars

\* Requests and coroutines go on while their process lives, the model's answer
\* ends, the broker delivers what pods can take again and again, and what is left
\* of an old turn expires.
Fairness ==
  /\ WF_vars(\E t \in Turns : ExpireSession(t) \/ EnqueueTurn(t))
  /\ \A t \in Turns : SF_vars(/\ \E p \in Pods : Deliver(p, t) \/ DropLocal(p, t)
                              /\ UNCHANGED chatVars)
  /\ \A r \in Readers : WF_vars(ReaderStep(r) /\ UNCHANGED <<execVars, chatVars>>)
  /\ \A p \in Pods : WF_vars((HandlerStep(p) \/ Exit(p)) /\ UNCHANGED chatVars)
  /\ \A s \in Slots : WF_vars(RunGoesOn(s))
  /\ WF_vars(ForgetSession)

FairSpec == Spec /\ Fairness

-----------------------------------------------------------------------------
(* Properties *)

\* StreamFinish is not in the stream of a turn before the status is set: a turn whose
\* stream has ended is not the one the session is working on.  This is about the
\* stream; what a reader is handed when Redis fails is below.
FinishMeansOver == \A t \in ended : ~Current(t)

\* A connection that the server closed while it could read the stream and the session
\* was for a turn that is over: replay, silence, expiry and new turns do not end it
\* early.  One that it closed because Redis failed is ReaderAt(r, "failed").
ClosedMeansOver == \A r \in Readers : ReaderAt(r, "closed") => ~Current(reader[r].turn)

\* A request to cancel returns only after the turn it found running has stopped
\* running, whoever ended it.
CancelEndsTurn ==
  [][\A c \in Cancels : ~CancelAt(c, "done") /\ cancel'[c].at = "done"
                        => ~(meta'.turn = cancel[c].turn /\ meta'.status = "running")]_vars

\* How a turn ended is settled once: a later completion, a cancellation or a
\* second execution does not change it.
EndsOnce ==
  [][\A t \in Turns : meta.turn = t /\ ~Running => meta' = meta \/ meta'.turn # t]_vars

\* While no lock has vanished under a run, one worker at a time has a turn of
\* the session.
OneWorker ==
  keyLost \/ \A s, r \in Slots : Supervised(s) /\ Supervised(r) => s = r

\* What the session is working on is about to be queued, in the queue, in the
\* hands of a pod, or of a run that will end it, unless it is known to be lost.
Attended(t) ==
  \/ Posting(t)
  \/ ready[t] > 0
  \/ \E p \in Pods : ~Handling(p, "idle") /\ handler[p].turn = t
  \/ \E s \in Slots : Serves(s, t)

OnlyDropsStrand == \A t \in Turns : Current(t) => Attended(t) \/ t \in lost

\* The session does not stay at work: its last turn is ended, unless the turn is
\* lost or no pod is left to execute it.
TurnsEnd ==
  Running ~> ~Running \/ meta.turn \in lost \/ \A p \in Pods : mode[p] # "up"

\* Every connection is closed in the end, whatever becomes of the turn, unless the
\* session's hash was left without a time to live: until somebody asks for it again,
\* its readers wait.
ReadersEnd == \A r \in Readers : ReaderAt(r, "meta") ~> ~Connected(r) \/ Immortal

\* mark_session_completed's docstring has it that no reader sees StreamFinish before
\* the status is set: "ensuring status is set before StreamFinish reaches the
\* frontend".  Not satisfied: a reader under whom Redis fails is handed one.
FinishHeardMeansOver ==
  \A r \in Readers : reader[r].at \in {"closed", "failed"} => ~Current(reader[r].turn)

\* A run ends its own turn only.  The session's hash does not say so: a run that
\* is late ends the turn that has taken the place of its own.  Not satisfied.
RunsEndOwnTurn ==
  [][\A s \in Slots : mark[s].at = "swap" /\ mark'[s].at = "publish"
                      => meta.turn = run[s].turn]_vars

\* A message is rejected for good only as the duplicate of another one of its
\* turn.  Not satisfied: the table and the lock do not know the turn.
OnlyDuplicatesDropped ==
  [][\A p \in Pods, t \in Turns : DropLocal(p, t) => \E s \in Slots : Serves(s, t)]_vars

=============================================================================
