------------------------ MODULE CopilotExecutorProofs ------------------------
(***************************************************************************)
(* Proofs about the pods of CopilotChat, for any number of turns, pods,    *)
(* executions and troubles: the types, that no turn is left unattended but *)
(* those known to be lost, and that one worker at a time has a turn of the *)
(* session while no lock has vanished under a run.                         *)
(***************************************************************************)
EXTENDS CopilotChatProofs, FiniteSetTheorems

-----------------------------------------------------------------------------
(* Types. *)

PoolTypeOK ==
  /\ ready \in [Turns -> Nat]
  /\ cancels \in Nat
  /\ lost \in SUBSET Turns
  /\ spent \in [Troubles -> Nat]
  /\ ExecutorTypeOK

LEMMA Records ==
  /\ AnyTurn \in Turns /\ AnyPod \in Pods
  /\ IdleHandler \in HandlerRecord
  /\ FreeRun \in RunRecord
  /\ \A h \in HandlerRecord : \A at \in HandlerStages : [h EXCEPT !.at = at] \in HandlerRecord
  /\ \A x \in RunRecord :
       /\ \A at \in RunStages : [x EXCEPT !.at = at] \in RunRecord
       /\ [x EXCEPT !.cancel = TRUE] \in RunRecord
       /\ [x EXCEPT !.stamped = FALSE] \in RunRecord
       /\ [x EXCEPT !.message = "gone"] \in RunRecord
<1>1. AnyTurn \in Turns /\ AnyPod \in Pods
  BY ExecutorConstants DEF AnyTurn, AnyPod
<1> QED
  BY <1>1 DEF IdleHandler, FreeRun, HandlerRecord, RunRecord, HandlerStages, RunStages

\* What a pod that leaves gives back.
LEMMA ReturnGivesBack ==
  ASSUME PoolTypeOK, NEW p \in Pods, NEW open \in Unacknowledged(p), Return(p, open)
  PROVE  /\ ready' \in [Turns -> Nat]
         /\ \A t \in Turns :
              /\ ready[t] > 0 => ready'[t] > 0
              /\ (\E s \in open : run[s].turn = t) => ready'[t] > 0
              /\ ~Handling(p, "idle") /\ handler[p].turn = t => ready'[t] > 0
<1> DEFINE Of(t) == {s \in open : run[s].turn = t}
<1>1. \A t \in Turns :
        /\ Cardinality(Of(t)) \in Nat
        /\ Of(t) # {} => Cardinality(Of(t)) > 0
  <2> TAKE t \in Turns
  <2>1. Of(t) \subseteq Slots
    BY DEF Unacknowledged, OpenRuns, RunsOf
  <2>2. IsFiniteSet(Of(t))
    BY <2>1, StreamConstants, FS_Subset
  <2>3. Cardinality(Of(t)) \in Nat /\ (Cardinality(Of(t)) = 0 <=> Of(t) = {})
    BY <2>2, FS_CardinalityType, FS_EmptySet
  <2> QED
    BY <2>3
<1> DEFINE Held(t) == IF ~Handling(p, "idle") /\ handler[p].turn = t THEN 1 ELSE 0
<1>2. ready' = [t \in Turns |-> ready[t] + Cardinality(Of(t)) + Held(t)]
  BY DEF Return
<1>3. \A t \in Turns : Held(t) \in Nat /\ (~Handling(p, "idle") /\ handler[p].turn = t => Held(t) = 1)
  OBVIOUS
<1>4. \A t \in Turns : (\E s \in open : run[s].turn = t) => Of(t) # {}
  OBVIOUS
<1> HIDE DEF Of, Held
<1>5. \A t \in Turns : ready[t] \in Nat
  BY DEF PoolTypeOK
<1>6. \A t \in Turns : ready[t] + Cardinality(Of(t)) + Held(t) \in Nat
  BY <1>1, <1>3, <1>5
<1>7. ready' \in [Turns -> Nat]
  BY <1>2, <1>6
<1> QED
  BY <1>1, <1>2, <1>3, <1>4, <1>5, <1>7

\* The requests and the completions use the queues and the budget only.
LEMMA SharedTypes ==
  ASSUME IInv, PoolTypeOK, RequestNext \/ StreamNext
  PROVE  PoolTypeOK'
<1> USE DEF PoolTypeOK
<1>1. \A k \in Troubles : Spend(k) => spent' \in [Troubles -> Nat]
  BY DEF Spend
<1>2. \A t \in Turns : ready' = [ready EXCEPT ![t] = @ + 1] => ready' \in [Turns -> Nat]
  OBVIOUS
<1>3. Running => meta.turn \in Turns
  BY DEF IInv, SessionTypeOK, Running, NoSession
<1>4. {"redis", "request", "hour"} \subseteq Troubles
  BY DEF Troubles
<1>5. UNCHANGED execVars => ExecutorTypeOK'
  BY DEF execVars, ExecutorTypeOK
<1>6. ASSUME NEW t \in Turns, CreateSession(t) \/ ExpireSession(t) \/ EnqueueTurn(t) \/ PostFails(t)
      PROVE  PoolTypeOK'
  BY <1>1, <1>2, <1>4, <1>5, <1>6 DEF CreateSession, ExpireSession, sharedVars, EnqueueTurn, PostFails
<1>7. ASSUME NEW r \in Readers, Subscribe(r)
      PROVE  PoolTypeOK'
  BY <1>5, <1>7 DEF Subscribe
<1>8. ASSUME NEW c \in Cancels, BeginCancel(c) \/ FindStale(c) \/ CancelStep(c) \/ CancelFails(c)
      PROVE  PoolTypeOK'
  BY <1>1, <1>4, <1>5, <1>8 DEF BeginCancel, FindStale, CancelStep, SeeStopped, ForceStop, Forced,
     CancelFails, sharedVars
<1>9. CASE ForgetSession \/ OutliveSession
  BY <1>1, <1>3, <1>4, <1>5, <1>9 DEF ForgetSession, OutliveSession
<1>10. CASE StreamNext
  BY <1>1, <1>4, <1>5, <1>10 DEF StreamNext, MarkStep, MarkSwap, MarkPublish, MarkPublishFails,
     ReaderStep, ReadSession, SessionNotFound, Replay, HearFinish, CheckSession, ReaderFails, Unsubscribe,
     MoveReader
<1> QED
  BY <1>6, <1>7, <1>8, <1>9, <1>10 DEF RequestNext

LEMMA HandlerTypes ==
  ASSUME PoolTypeOK, NEW p \in Pods,
         \/ \E t \in Turns : Deliver(p, t) \/ DropLocal(p, t)
         \/ HandlerStep(p) \/ LockUnavailable(p) \/ HandleCancel(p)
  PROVE  PoolTypeOK'
<1> USE Records DEF PoolTypeOK, ExecutorTypeOK
<1>1. handler[p] \in HandlerRecord /\ handler[p].turn \in Turns /\ handler[p].stamped \in BOOLEAN
  BY DEF HandlerRecord
<1>2. ASSUME NEW t \in Turns, Deliver(p, t)
      PROVE  PoolTypeOK'
  <2>1. ready[t] \in Nat /\ ready[t] > 0
    BY <1>2 DEF Deliver
  <2>2. [at |-> IF key = NoPod THEN "submit" ELSE "owner", turn |-> t, stamped |-> key = NoPod]
        \in HandlerRecord
    BY DEF HandlerRecord, HandlerStages
  <2>3. ready' \in [Turns -> Nat] /\ handler' \in [Pods -> HandlerRecord]
        /\ active' \in [Pods -> Slots \cup {NoSlot}] /\ key' \in Pods \cup {NoPod}
    BY <1>2, <2>1, <2>2 DEF Deliver
  <2> QED
    BY <1>2, <2>3 DEF Deliver
<1>3. ASSUME NEW t \in Turns, DropLocal(p, t)
      PROVE  PoolTypeOK'
  BY <1>3 DEF DropLocal, GiveUp, execVars
<1>4. CASE ReadOwner(p)
  BY <1>1, <1>4 DEF ReadOwner, MoveHandler, HandlerStages, sharedVars
<1>5. CASE OwnerGone(p) \/ LockUnavailable(p)
  <2>1. ready' \in [Turns -> Nat] /\ handler' \in [Pods -> HandlerRecord]
    BY <1>1, <1>5 DEF OwnerGone, LockUnavailable, SendBack
  <2>2. spent' \in [Troubles -> Nat]
    BY <1>5 DEF OwnerGone, LockUnavailable, Spend, Troubles
  <2> QED
    BY <1>5, <2>1, <2>2 DEF OwnerGone, LockUnavailable
<1>6. CASE DropLocked(p)
  BY <1>1, <1>6 DEF DropLocked, GiveUp
<1>7. CASE Submit(p)
  <2> DEFINE new == [at |-> "wait", pod |-> p, turn |-> handler[p].turn, cancel |-> FALSE,
                     stamped |-> handler[p].stamped, message |-> "open"]
  <2>1. PICK s \in Slots :
          /\ run' = [run EXCEPT ![s] = new]
          /\ active' = [active EXCEPT ![p] = s]
          /\ held' = [held EXCEPT ![p] = s]
    BY <1>7 DEF Submit
  <2>2. new \in RunRecord
    BY <1>1 DEF RunRecord, RunStages
  <2> HIDE DEF new
  <2>4. run' \in [Slots -> RunRecord] /\ active' \in [Pods -> Slots \cup {NoSlot}]
        /\ held' \in [Pods -> Slots \cup {NoSlot}]
    BY <2>1, <2>2
  <2>5. handler' \in [Pods -> HandlerRecord]
    BY <1>7 DEF Submit
  <2>6. UNCHANGED <<ready, cancels, lost, spent, mode, key, keyLost>>
    BY <1>7 DEF Submit, sharedVars
  <2> QED
    BY <2>4, <2>5, <2>6
<1>8. CASE HandleCancel(p)
  <2>1. run' \in [Slots -> RunRecord]
    BY <1>8 DEF HandleCancel
  <2> QED
    BY <1>8, <2>1 DEF HandleCancel
<1> QED
  BY <1>2, <1>3, <1>4, <1>5, <1>6, <1>7, <1>8 DEF HandlerStep

LEMMA RunTypes ==
  ASSUME PoolTypeOK, NEW s \in Slots, RunStep(s) \/ MarkLost(s)
  PROVE  PoolTypeOK'
<1> USE Records DEF PoolTypeOK, ExecutorTypeOK
<1>1. run[s] \in RunRecord /\ run[s].turn \in Turns /\ run[s].pod \in Pods
  BY DEF RunRecord
<1>2. {"release", "forget", "gone"} \subseteq RunStages
  BY DEF RunStages
<1>3. \A at \in RunStages : MoveRun(s, at) => run' \in [Slots -> RunRecord]
  BY <1>1 DEF MoveRun
<1>4. CASE EndStream(s)
  BY <1>4 DEF EndStream, execVars
<1>5. CASE Interrupt(s)
  <2>1. lost' \in SUBSET Turns
    BY <1>1, <1>5 DEF Interrupt
  <2> QED
    BY <1>2, <1>3, <1>5, <2>1 DEF Interrupt
<1>6. CASE Finish(s)
  BY <1>2, <1>3, <1>6 DEF Finish, sharedVars
<1>7. CASE Release(s)
  <2>1. run' \in [Slots -> RunRecord]
    <3>1. CASE MoveRun(s, "forget")
      BY <1>2, <1>3, <3>1
    <3>2. CASE /\ held[run[s].pod] # NoSlot
               /\ run' = [run EXCEPT ![held[run[s].pod]].stamped = FALSE, ![s].at = "forget"]
      <4> DEFINE h == held[run[s].pod]
                 x == [run EXCEPT ![h].stamped = FALSE]
      <4>1. h \in Slots
        BY <1>1, <3>2
      <4>2. run[h] \in RunRecord
        BY <4>1
      <4>3. x = [run EXCEPT ![h] = [run[h] EXCEPT !.stamped = FALSE]]
        BY <4>1
      <4>4. x \in [Slots -> RunRecord]
        BY <4>1, <4>2, <4>3
      <4>5. run' = [x EXCEPT ![s] = [x[s] EXCEPT !.at = "forget"]]
        BY <3>2, <4>4
      <4> HIDE DEF x
      <4> QED
        BY <1>2, <4>4, <4>5
    <3> QED
      BY <1>7, <3>1, <3>2 DEF Release
  <2>2. key' \in Pods \cup {NoPod} /\ keyLost' \in BOOLEAN
    BY <1>7 DEF Release, Relied
  <2> QED
    BY <1>7, <2>1, <2>2 DEF Release, sharedVars
<1>8. CASE Forget(s)
  <2>1. StillActive(run[s].pod) \in Slots \cup {NoSlot}
    BY <1>1 DEF StillActive
  <2> QED
    BY <1>1, <1>2, <1>3, <1>8, <2>1 DEF Forget, sharedVars
<1>9. CASE Clear(s)
  BY <1>9 DEF Clear
<1>10. CASE MarkLost(s)
  <2>1. spent' \in [Troubles -> Nat]
    BY <1>10 DEF MarkLost, Spend, Troubles
  <2> QED
    BY <1>1, <1>10, <2>1 DEF MarkLost, execVars
<1> QED
  BY <1>4, <1>5, <1>6, <1>7, <1>8, <1>9, <1>10 DEF RunStep

LEMMA PodTypes ==
  ASSUME PoolTypeOK,
         \/ \E p \in Pods : Disconnect(p) \/ BeginShutdown(p) \/ GraceExpires(p)
                             \/ Exit(p) \/ Crash(p)
         \/ KeyExpires \/ KeyLapses
  PROVE  PoolTypeOK'
<1> USE Records DEF PoolTypeOK, ExecutorTypeOK
<1>1. \A k \in Troubles : Spend(k) => spent' \in [Troubles -> Nat]
  BY DEF Spend
<1>2. {"net", "drain", "crash", "lapse"} \subseteq Troubles
  BY DEF Troubles
<1>3. ASSUME NEW p \in Pods, Disconnect(p) \/ GraceExpires(p)
      PROVE  PoolTypeOK'
  <2>1. ready' \in [Turns -> Nat]
    BY <1>3, ReturnGivesBack DEF Disconnect, GraceExpires
  <2>2. run' \in [Slots -> RunRecord]
    <3>1. run' = [s \in Slots |-> IF s \in RunsOf(p) THEN [run[s] EXCEPT !.message = "gone"]
                                                    ELSE run[s]]
      BY <1>3 DEF Disconnect, GraceExpires
    <3> QED
      BY <3>1
  <2>3. spent' \in [Troubles -> Nat]
    BY <1>1, <1>2, <1>3 DEF Disconnect, GraceExpires
  <2>4. mode' \in [Pods -> {"up", "stopping", "closing", "down"}]
    BY <1>3 DEF Disconnect, GraceExpires
  <2> QED
    BY <1>3, <2>1, <2>2, <2>3, <2>4 DEF Disconnect, GraceExpires
<1>4. ASSUME NEW p \in Pods, BeginShutdown(p)
      PROVE  PoolTypeOK'
  <2>1. mode' \in [Pods -> {"up", "stopping", "closing", "down"}] /\ spent' \in [Troubles -> Nat]
    BY <1>1, <1>2, <1>4 DEF BeginShutdown
  <2> QED
    BY <1>4, <2>1 DEF BeginShutdown
<1>5. ASSUME NEW p \in Pods, Die(p)
      PROVE  /\ ready' \in [Turns -> Nat] /\ lost' \in SUBSET Turns
             /\ mode' \in [Pods -> {"up", "stopping", "closing", "down"}]
             /\ handler' \in [Pods -> HandlerRecord]
             /\ run' \in [Slots -> RunRecord]
             /\ active' \in [Pods -> Slots \cup {NoSlot}]
             /\ held' \in [Pods -> Slots \cup {NoSlot}]
  <2>1. PICK open \in Unacknowledged(p) :
          Return(p, open)
          /\ lost' = lost \cup {t \in Turns : \E s \in RunsOf(p) \ open : Serves(s, t)}
    BY <1>5 DEF Die
  <2>2. ready' \in [Turns -> Nat]
    BY <2>1, ReturnGivesBack
  <2>3. run' \in [Slots -> RunRecord]
    BY <1>5 DEF Die
  <2> QED
    BY <1>5, <2>1, <2>2, <2>3 DEF Die
<1>6. ASSUME NEW p \in Pods, Exit(p)
      PROVE  PoolTypeOK'
  <2>1. key' \in Pods \cup {NoPod}
    BY <1>6 DEF Exit
  <2> QED
    BY <1>5, <1>6, <2>1 DEF Exit
<1>7. ASSUME NEW p \in Pods, Crash(p)
      PROVE  PoolTypeOK'
  BY <1>1, <1>2, <1>5, <1>7 DEF Crash
<1>8. CASE KeyExpires \/ KeyLapses
  BY <1>1, <1>2, <1>8 DEF KeyExpires, KeyLapses, sharedVars
<1> QED
  BY <1>3, <1>4, <1>6, <1>7, <1>8

LEMMA TypesKept == IInv /\ PoolTypeOK /\ [Next]_vars => PoolTypeOK'
<1> SUFFICES ASSUME IInv, PoolTypeOK, [Next]_vars
             PROVE  PoolTypeOK'
  OBVIOUS
<1>1. CASE ExecutorNext
  BY <1>1, HandlerTypes, RunTypes, PodTypes DEF ExecutorNext
<1>2. CASE UNCHANGED vars
  BY <1>2 DEF vars, sharedVars, execVars, PoolTypeOK, ExecutorTypeOK
<1> QED
  BY <1>1, <1>2, SharedTypes DEF Next

LEMMA InitTypes == Init => PoolTypeOK
<1> SUFFICES ASSUME Init
             PROVE  PoolTypeOK
  OBVIOUS
<1>1. ready \in [Turns -> Nat] /\ cancels \in Nat /\ lost \in SUBSET Turns
      /\ spent \in [Troubles -> Nat]
  BY DEF Init, StreamsInit
<1>2. ExecutorTypeOK
  BY Records DEF Init, ExecutorInit, ExecutorTypeOK
<1> QED
  BY <1>1, <1>2 DEF PoolTypeOK

\* The registry, the queues, the pods' tables and the requests hold what they are
\* declared to hold, whatever fails and however often.
THEOREM TypeCorrect == Spec => []TypeOK
<1>1. IInv /\ PoolTypeOK => TypeOK
  BY DEF IInv, SessionTypeOK, PoolTypeOK, TypeOK, StreamsTypeOK
<1> QED
  BY <1>1, InitTypes, TypesKept, IInvAlways, PTL DEF Spec

-----------------------------------------------------------------------------
(* No turn is left unattended. *)

\* A slot that is free has no completion under way.
FreeQuiet == \A s \in Slots : RunAt(s, "free") => MarkAt(s, "none")

Tended == PoolTypeOK /\ FreeQuiet /\ OnlyDropsStrand

\* It is enough that whoever attends to a turn is followed by another who does, or
\* that the turn is known to be lost.
LEMMA Successors ==
  ASSUME OnlyDropsStrand, lost \subseteq lost', UNCHANGED meta,
         \A t \in Turns : Attended(t) => Attended(t)' \/ t \in lost'
  PROVE  OnlyDropsStrand'
BY DEF OnlyDropsStrand, Current, Running

\* A run goes on serving its turn as long as nobody touches it.
LEMMA RunsServe ==
  ASSUME Tended, NEW t \in Turns, NEW s \in Slots, Serves(s, t),
         run'[s].turn = run[s].turn, run'[s].at # "free", mark'[s] = mark[s]
  PROVE  Serves(s, t)'
BY DEF Tended, FreeQuiet, Serves, Streams, RunAt, MarkAt

LEMMA RequestsAttend ==
  ASSUME IInv, Tended, RequestNext
  PROVE  FreeQuiet' /\ OnlyDropsStrand'
<1> USE StreamConstants DEF Tended
<1>1. UNCHANGED <<handler, run>>
  BY DEF RequestNext, CreateSession, ExpireSession, EnqueueTurn, PostFails, Subscribe,
     BeginCancel, FindStale, CancelStep,
     SeeStopped, ForceStop, Forced, CancelFails, ForgetSession, OutliveSession, execVars
<1>2. \A s \in Slots : mark'[s] = mark[s]
  <2>1. mark' = mark \/ \E c \in Cancels, m \in MarkRecord : mark' = [mark EXCEPT ![c] = m]
    <3>1. NoMark \in MarkRecord /\ meta.turn \in Turns \cup {NoTurn}
      BY DEF NoMark, MarkRecord, IInv, SessionTypeOK, NoSession
    <3>2. \A c \in Cancels : MarkRead(c, "failed") =>
            \E m \in MarkRecord : mark' = [mark EXCEPT ![c] = m]
      <4> TAKE c \in Cancels
      <4>1. [at |-> "swap", turn |-> meta.turn, to |-> "failed"] \in MarkRecord
        BY <3>1 DEF MarkRecord
      <4> QED
        BY <4>1 DEF MarkRead
    <3> QED
      BY <3>1, <3>2 DEF RequestNext, CreateSession, ExpireSession, EnqueueTurn, PostFails, Subscribe,
     BeginCancel, FindStale,
         CancelStep, SeeStopped, ForceStop, Forced, CancelFails, ForgetSession, OutliveSession,
         sharedVars
  <2> QED
    BY <2>1 DEF IInv, SessionTypeOK, Completers
<1>3. FreeQuiet'
  BY <1>1, <1>2 DEF FreeQuiet, RunAt, MarkAt
<1>4. \A t \in Turns : \A s \in Slots : Serves(s, t)' <=> Serves(s, t)
  BY <1>1, <1>2 DEF Serves, Streams, RunAt, MarkAt
<1>5. \A t \in Turns : Attended(t) =>
        \/ Attended(t)'
        \/ Posting(t) /\ ~Posting(t)'
        \/ ready[t] > 0 /\ ~(ready'[t] > 0)
  BY <1>1, <1>4 DEF Attended, Handling
<1>6. ASSUME NEW t \in Turns, CreateSession(t)
      PROVE  OnlyDropsStrand'
  <2>1. Posting(t)'
    BY <1>6 DEF CreateSession, MovePost, Posting, IInv, SessionTypeOK, ChatTypeOK
  <2>2. \A u : Current(u)' => u = t
    BY <1>6 DEF CreateSession, Current
  <2> QED
    BY <2>1, <2>2 DEF OnlyDropsStrand, Attended
<1>7. ASSUME NEW t \in Turns, ExpireSession(t) \/ EnqueueTurn(t) \/ PostFails(t)
      PROVE  OnlyDropsStrand'
  <2>1. post \in [Turns -> PostStages] /\ ready \in [Turns -> Nat]
    BY DEF IInv, SessionTypeOK, ChatTypeOK, PoolTypeOK
  <2>2. \A u \in Turns : ready[u] > 0 => ready'[u] > 0
    BY <1>7, <2>1 DEF ExpireSession, EnqueueTurn, PostFails, sharedVars
  <2>3. \A u \in Turns \ {t} : Posting(u) => Posting(u)'
    BY <1>7, <2>1 DEF ExpireSession, EnqueueTurn, PostFails, MovePost, Posting
  <2>4. Posting(t)' \/ ready'[t] > 0 \/ t \in lost'
    BY <1>7, <2>1 DEF ExpireSession, EnqueueTurn, PostFails, MovePost, Posting
  <2>5. lost \subseteq lost' /\ UNCHANGED meta
    BY <1>7 DEF ExpireSession, EnqueueTurn, PostFails, sharedVars
  <2>6. \A u \in Turns : Attended(u) => Attended(u)' \/ u \in lost'
    BY <1>5, <2>2, <2>3, <2>4 DEF Attended
  <2> QED
    BY <2>5, <2>6, Successors
<1>8. CASE \/ \E r \in Readers : Subscribe(r)
           \/ \E c \in Cancels : BeginCancel(c) \/ FindStale(c) \/ CancelStep(c) \/ CancelFails(c)
  <2>1. UNCHANGED <<meta, ready, lost, post>>
    BY <1>8 DEF Subscribe, BeginCancel, FindStale, CancelStep, SeeStopped, ForceStop, Forced, CancelFails,
       sharedVars, chatVars
  <2>2. \A u \in Turns : Attended(u) => Attended(u)'
    BY <1>5, <2>1 DEF Posting
  <2> QED
    BY <1>3, <2>1, <2>2, Successors
<1>9. CASE ForgetSession \/ OutliveSession
  <2>1. \A u : ~Current(u)'
    BY <1>9 DEF ForgetSession, OutliveSession, Current, Running, NoSession
  <2> QED
    BY <1>3, <2>1 DEF OnlyDropsStrand
<1> QED
  BY <1>3, <1>6, <1>7, <1>8, <1>9 DEF RequestNext

LEMMA StreamsAttend ==
  ASSUME IInv, Tended, StreamNext
  PROVE  FreeQuiet' /\ OnlyDropsStrand'
<1> USE StreamConstants DEF Tended
<1>1. UNCHANGED <<handler, run, post, ready, lost>>
  BY DEF StreamNext, MarkStep, MarkSwap, MarkPublish, MarkPublishFails, ReaderStep, ReadSession,
     SessionNotFound, Replay, HearFinish, CheckSession, ReaderFails, Unsubscribe, MoveReader, execVars, chatVars
<1>2. ASSUME NEW w \in Completers, MarkStep(w) \/ MarkPublishFails(w)
      PROVE  FreeQuiet' /\ OnlyDropsStrand'
  <2>1. \A v \in Completers \ {w} : mark'[v] = mark[v]
    BY <1>2 DEF MarkStep, MarkSwap, MarkPublish, MarkPublishFails, IInv, SessionTypeOK
  <2>2. ~MarkAt(w, "none")
    BY <1>2 DEF MarkStep, MarkSwap, MarkPublish, MarkPublishFails, MarkAt
  <2>3. FreeQuiet'
    BY <1>1, <2>1, <2>2 DEF FreeQuiet, RunAt, MarkAt, Completers
  <2>4. CASE MarkSwap(w)
    <3>1. ~Running'
      BY <2>4 DEF MarkSwap, Running, IInv, SessionTypeOK, MarkRecord, NoSession
    <3> QED
      BY <2>3, <3>1 DEF OnlyDropsStrand, Current
  <2>5. CASE MarkPublish(w) \/ MarkPublishFails(w)
    <3>1. MarkAt(w, "publish") /\ UNCHANGED meta
      BY <2>5 DEF MarkPublish, MarkPublishFails
    <3>2. \A s \in Slots : \A t \in Turns : Serves(s, t) => Serves(s, t)'
      BY <1>1, <2>1, <3>1 DEF Serves, Streams, RunAt, MarkAt, Completers
    <3>3. \A t \in Turns : Attended(t) => Attended(t)'
      BY <1>1, <3>2 DEF Attended, Posting, Handling
    <3> QED
      BY <1>1, <2>3, <3>1, <3>3, Successors
  <2> QED
    BY <1>2, <2>4, <2>5 DEF MarkStep
<1>3. ASSUME NEW r \in Readers, ReaderStep(r) \/ ReaderFails(r) \/ Unsubscribe(r)
      PROVE  FreeQuiet' /\ OnlyDropsStrand'
  <2>1. UNCHANGED <<meta, mark>>
    BY <1>3 DEF ReaderStep, ReadSession, SessionNotFound, Replay, HearFinish, CheckSession, ReaderFails,
       Unsubscribe, MoveReader
  <2>2. FreeQuiet'
    BY <1>1, <2>1 DEF FreeQuiet, RunAt, MarkAt
  <2>3. \A t \in Turns : Attended(t) => Attended(t)'
    BY <1>1, <2>1 DEF Attended, Posting, Handling, Serves, Streams, RunAt, MarkAt
  <2> QED
    BY <1>1, <2>1, <2>2, <2>3, Successors
<1> QED
  BY <1>2, <1>3 DEF StreamNext

\* The queue and the consumer threads hand a turn on, or drop it and say so.
LEMMA HandlerAttend ==
  ASSUME IInv, Tended, UNCHANGED chatVars, NEW p \in Pods,
         \/ \E t \in Turns : Deliver(p, t) \/ DropLocal(p, t)
         \/ HandlerStep(p) \/ LockUnavailable(p) \/ HandleCancel(p)
  PROVE  FreeQuiet' /\ OnlyDropsStrand'
<1> USE StreamConstants DEF Tended
<1>1. /\ handler \in [Pods -> HandlerRecord] /\ run \in [Slots -> RunRecord]
      /\ ready \in [Turns -> Nat] /\ handler[p].turn \in Turns
  BY DEF PoolTypeOK, ExecutorTypeOK, HandlerRecord
<1>2. UNCHANGED <<meta, mark, post>> /\ lost \subseteq lost'
  BY DEF Deliver, DropLocal, GiveUp, HandlerStep, ReadOwner, OwnerGone, DropLocked, Submit,
     LockUnavailable, HandleCancel, sharedVars, chatVars
<1> SUFFICES FreeQuiet' /\ \A t \in Turns : Attended(t) => Attended(t)' \/ t \in lost'
  BY <1>2, Successors
<1>3. ASSUME UNCHANGED run
      PROVE  FreeQuiet' /\ \A t \in Turns : \A s \in Slots : Serves(s, t) => Serves(s, t)'
  BY <1>2, <1>3 DEF FreeQuiet, Serves, Streams, RunAt, MarkAt
<1>4. ASSUME NEW t \in Turns, Deliver(p, t)
      PROVE  FreeQuiet' /\ \A u \in Turns : Attended(u) => Attended(u)' \/ u \in lost'
  <2>1. UNCHANGED run
    BY <1>4 DEF Deliver
  <2>2. \A u \in Turns \ {t} : ready'[u] = ready[u]
    BY <1>1, <1>4 DEF Deliver
  <2>3. ~Handling(p, "idle")' /\ handler'[p].turn = t
    BY <1>1, <1>4 DEF Deliver, Handling
  <2>4. \A q \in Pods \ {p} : handler'[q] = handler[q]
    BY <1>1, <1>4 DEF Deliver
  <2>5. Handling(p, "idle")
    BY <1>4 DEF Deliver
  <2> QED
    BY <1>2, <1>3, <2>1, <2>2, <2>3, <2>4, <2>5 DEF Attended, Posting, Handling
<1>5. ASSUME NEW t \in Turns, DropLocal(p, t)
      PROVE  FreeQuiet' /\ \A u \in Turns : Attended(u) => Attended(u)' \/ u \in lost'
  <2>1. UNCHANGED <<run, handler>>
    BY <1>5 DEF DropLocal, execVars
  <2>2. \A u \in Turns \ {t} : ready'[u] = ready[u]
    BY <1>1, <1>5 DEF DropLocal
  <2>3. (\E s \in Slots : Serves(s, t)) \/ t \in lost'
    BY <1>5 DEF DropLocal, GiveUp
  <2> QED
    BY <1>2, <1>3, <2>1, <2>2, <2>3 DEF Attended, Posting, Handling
<1>6. CASE ReadOwner(p)
  <2>1. UNCHANGED <<run, ready>>
    BY <1>6 DEF ReadOwner, sharedVars
  <2>2. \A q \in Pods : handler'[q].turn = handler[q].turn
                        /\ (~Handling(q, "idle") => ~Handling(q, "idle")')
    BY <1>1, <1>6 DEF ReadOwner, MoveHandler, Handling, HandlerRecord
  <2> QED
    BY <1>2, <1>3, <2>1, <2>2 DEF Attended, Posting
<1>7. CASE OwnerGone(p) \/ LockUnavailable(p)
  <2>1. UNCHANGED run
    BY <1>7 DEF OwnerGone, LockUnavailable
  <2>2. \A q \in Pods \ {p} : handler'[q] = handler[q]
    BY <1>1, <1>7 DEF OwnerGone, LockUnavailable, SendBack
  <2>3. PICK t \in Turns : t = handler[p].turn /\ ready' = [ready EXCEPT ![t] = @ + 1]
    BY <1>1, <1>7 DEF OwnerGone, LockUnavailable, SendBack
  <2>4. ready'[t] > 0 /\ \A u \in Turns : ready[u] > 0 => ready'[u] > 0
    BY <1>1, <2>3
  <2> QED
    BY <1>2, <1>3, <2>1, <2>2, <2>3, <2>4 DEF Attended, Posting, Handling
<1>8. CASE DropLocked(p)
  <2>1. UNCHANGED <<run, ready>>
    BY <1>8 DEF DropLocked
  <2>2. \A q \in Pods \ {p} : handler'[q] = handler[q]
    BY <1>1, <1>8 DEF DropLocked
  <2>3. (\E s \in Slots : Serves(s, handler[p].turn)) \/ handler[p].turn \in lost'
    BY <1>1, <1>8 DEF DropLocked, GiveUp
  <2> QED
    BY <1>2, <1>3, <2>1, <2>2, <2>3 DEF Attended, Posting, Handling
<1>9. CASE Submit(p)
  <2>1. UNCHANGED ready
    BY <1>9 DEF Submit, sharedVars
  <2>2. \A q \in Pods \ {p} : handler'[q] = handler[q]
    BY <1>1, <1>9 DEF Submit
  <2>3. PICK s \in Slots :
          /\ RunAt(s, "free")
          /\ run' = [run EXCEPT ![s] =
               [at |-> "wait", pod |-> p, turn |-> handler[p].turn, cancel |-> FALSE,
                stamped |-> handler[p].stamped, message |-> "open"]]
    BY <1>9 DEF Submit
  <2>4. run'[s].at = "wait" /\ run'[s].turn = handler[p].turn
        /\ \A r \in Slots \ {s} : run'[r] = run[r]
    BY <1>1, <2>3
  <2>5. MarkAt(s, "none")
    BY <2>3 DEF FreeQuiet
  <2>6. \A t \in Turns : t = handler[p].turn => Serves(s, t)'
    BY <1>2, <2>4, <2>5 DEF Serves, Streams, RunAt, MarkAt
  <2>7. \A t \in Turns : \A r \in Slots : Serves(r, t) => Serves(r, t)'
    BY <1>2, <2>3, <2>4, <2>5 DEF Serves, Streams, RunAt, MarkAt
  <2>8. FreeQuiet'
    BY <1>2, <2>4, <2>5 DEF FreeQuiet, RunAt, MarkAt
  <2> QED
    BY <1>2, <2>1, <2>2, <2>6, <2>7, <2>8 DEF Attended, Posting, Handling
<1>10. CASE HandleCancel(p)
  <2>1. UNCHANGED <<ready, handler>>
    BY <1>10 DEF HandleCancel
  <2>2. \A s \in Slots : run'[s].at = run[s].at /\ run'[s].turn = run[s].turn
    BY <1>1, <1>10 DEF HandleCancel, RunRecord
  <2>3. FreeQuiet' /\ \A t \in Turns : \A s \in Slots : Serves(s, t) => Serves(s, t)'
    BY <1>2, <2>2 DEF FreeQuiet, Serves, Streams, RunAt, MarkAt
  <2> QED
    BY <1>2, <2>1, <2>3 DEF Attended, Posting, Handling
<1> QED
  BY <1>4, <1>5, <1>6, <1>7, <1>8, <1>9, <1>10 DEF HandlerStep

\* A run ends its turn, or is known to fail to.
LEMMA RunAttend ==
  ASSUME IInv, Tended, UNCHANGED chatVars, NEW s \in Slots, RunStep(s) \/ MarkLost(s)
  PROVE  FreeQuiet' /\ OnlyDropsStrand'
<1> USE StreamConstants DEF Tended
<1>1. /\ run \in [Slots -> RunRecord] /\ mark \in [Completers -> MarkRecord] /\ s \in Completers
      /\ held \in [Pods -> Slots \cup {NoSlot}] /\ run[s].pod \in Pods
  BY DEF PoolTypeOK, ExecutorTypeOK, RunRecord, IInv, SessionTypeOK, Completers
<1>2. UNCHANGED <<meta, post, ready, handler>> /\ lost \subseteq lost'
  BY DEF RunStep, EndStream, Interrupt, Finish, Release, Forget, Clear, MarkLost, sharedVars,
     execVars, chatVars
<1> SUFFICES /\ FreeQuiet'
             /\ \A r \in Slots, t \in Turns : Serves(r, t) => Serves(r, t)' \/ t \in lost'
  BY <1>2, Successors DEF Attended, Posting, Handling
<1>3. \A r \in Slots \ {s} : mark'[r] = mark[r]
  BY <1>1 DEF RunStep, EndStream, MarkRead, Interrupt, Finish, Release, Forget, Clear, MarkLost,
     sharedVars, Completers
<1>4. \A r \in Slots \ {s} : run'[r].at = run[r].at /\ run'[r].turn = run[r].turn
  <2>1. CASE Release(s)
    <3>1. CASE MoveRun(s, "forget")
      BY <1>1, <3>1 DEF MoveRun
    <3>2. CASE /\ held[run[s].pod] # NoSlot
               /\ run' = [run EXCEPT ![held[run[s].pod]].stamped = FALSE, ![s].at = "forget"]
      <4> DEFINE h == held[run[s].pod]
                 x == [run EXCEPT ![h].stamped = FALSE]
      <4>1. h \in Slots /\ run[h] \in RunRecord
        BY <1>1, <3>2
      <4>2. x = [run EXCEPT ![h] = [run[h] EXCEPT !.stamped = FALSE]]
        BY <4>1
      <4>3. \A r \in Slots : x[r].at = run[r].at /\ x[r].turn = run[r].turn
        BY <1>1, <4>1, <4>2 DEF RunRecord
      <4>4. x \in [Slots -> RunRecord]
        BY <1>1, <4>1, <4>2, Records
      <4>5. run' = [x EXCEPT ![s] = [x[s] EXCEPT !.at = "forget"]]
        BY <3>2, <4>4
      <4> HIDE DEF x
      <4> QED
        BY <4>3, <4>4, <4>5
    <3> QED
      BY <2>1, <3>1, <3>2 DEF Release
  <2>2. CASE ~Release(s)
    BY <1>1, <2>2 DEF RunStep, EndStream, Interrupt, Finish, Forget, Clear, MarkLost, MoveRun,
       execVars
  <2> QED
    BY <2>1, <2>2
<1>5. \A r \in Slots \ {s} : (RunAt(r, "free")' => MarkAt(r, "none")')
                             /\ \A t \in Turns : Serves(r, t) => Serves(r, t)'
  BY <1>3, <1>4 DEF FreeQuiet, Serves, Streams, RunAt, MarkAt
<1> SUFFICES (RunAt(s, "free")' => MarkAt(s, "none")')
             /\ \A t \in Turns : Serves(s, t) => Serves(s, t)' \/ t \in lost'
  BY <1>5 DEF FreeQuiet
<1>6. CASE EndStream(s)
  <2>1. UNCHANGED run /\ MarkAt(s, "swap")' /\ ~RunAt(s, "free")
    BY <1>1, <1>6 DEF EndStream, MarkRead, MarkAt, Streams, execVars
  <2> QED
    BY <2>1 DEF Serves, RunAt
<1>7. CASE Interrupt(s)
  <2>1. run'[s].at = "release" /\ run'[s].turn = run[s].turn
    BY <1>1, <1>7 DEF Interrupt, MoveRun, RunRecord
  <2>2. CASE Streams(s)
    <3>1. UNCHANGED mark /\ MarkAt(s, "none")
      BY <1>7, <2>2 DEF Interrupt, Streams
    <3> QED
      BY <2>1, <3>1 DEF Serves, Streams, RunAt, MarkAt
  <2>3. CASE ~Streams(s)
    BY <1>7, <2>1, <2>3 DEF Interrupt, Serves, RunAt
  <2> QED
    BY <2>2, <2>3
<1>8. CASE Finish(s)
  <2>1. run'[s].at = "release" /\ CoroutineOver(s)
    BY <1>1, <1>8 DEF Finish, MoveRun
  <2> QED
    BY <2>1 DEF Serves, Streams, CoroutineOver, RunAt, MarkAt
<1>9. CASE Release(s) \/ Forget(s)
  <2>1. run'[s].at \in {"forget", "gone"} /\ run'[s].turn = run[s].turn
    <3>1. CASE MoveRun(s, "forget") \/ MoveRun(s, "gone")
      BY <1>1, <3>1 DEF MoveRun, RunRecord
    <3>2. CASE /\ held[run[s].pod] # NoSlot
               /\ run' = [run EXCEPT ![held[run[s].pod]].stamped = FALSE, ![s].at = "forget"]
      <4> DEFINE h == held[run[s].pod]
                 x == [run EXCEPT ![h].stamped = FALSE]
      <4>1. h \in Slots /\ run[h] \in RunRecord
        BY <1>1, <3>2
      <4>2. x = [run EXCEPT ![h] = [run[h] EXCEPT !.stamped = FALSE]]
        BY <4>1
      <4>3. x[s].turn = run[s].turn
        BY <1>1, <4>1, <4>2 DEF RunRecord
      <4>4. x \in [Slots -> RunRecord]
        BY <1>1, <4>1, <4>2, Records
      <4>5. run' = [x EXCEPT ![s] = [x[s] EXCEPT !.at = "forget"]]
        BY <3>2, <4>4
      <4>6. x[s] \in RunRecord
        BY <4>4
      <4> HIDE DEF x
      <4> QED
        BY <4>3, <4>4, <4>5, <4>6 DEF RunRecord
    <3> QED
      BY <1>9, <3>1, <3>2 DEF Release, Forget
  <2>2. UNCHANGED mark
    BY <1>9 DEF Release, Forget, sharedVars
  <2> QED
    BY <2>1, <2>2 DEF Serves, Streams, RunAt, MarkAt
<1>10. CASE Clear(s)
  <2>1. ~MarkAt(s, "none") /\ ~MarkAt(s, "swap")
    BY <1>10 DEF Clear, CoroutineOver, MarkAt
  <2>2. MarkAt(s, "none")'
    BY <1>1, <1>10 DEF Clear, MarkAt, NoMark
  <2> QED
    BY <2>1, <2>2 DEF Serves, Streams
<1>11. CASE MarkLost(s)
  <2>1. run[s].turn \in lost' /\ UNCHANGED run
    BY <1>11 DEF MarkLost, execVars
  <2>2. ~RunAt(s, "free")
    BY <1>11 DEF MarkLost, FreeQuiet, MarkAt
  <2> QED
    BY <2>1, <2>2 DEF Serves, RunAt
<1> QED
  BY <1>6, <1>7, <1>8, <1>9, <1>10, <1>11 DEF RunStep

\* What a pod has in hand when it leaves goes back to the queue, or is lost with it.
LEMMA PodsAttend ==
  ASSUME IInv, Tended, UNCHANGED chatVars,
         \/ \E p \in Pods : Disconnect(p) \/ BeginShutdown(p) \/ GraceExpires(p)
                             \/ Exit(p) \/ Crash(p)
         \/ KeyExpires \/ KeyLapses
  PROVE  FreeQuiet' /\ OnlyDropsStrand'
<1> USE StreamConstants DEF Tended
<1>1. /\ handler \in [Pods -> HandlerRecord] /\ run \in [Slots -> RunRecord]
      /\ mark \in [Completers -> MarkRecord] /\ Slots \subseteq Completers
  BY DEF PoolTypeOK, ExecutorTypeOK, IInv, SessionTypeOK, Completers
<1>2. UNCHANGED <<meta, post>> /\ lost \subseteq lost'
  BY DEF Disconnect, BeginShutdown, GraceExpires, Exit, Crash, Die, KeyExpires, KeyLapses,
     sharedVars, chatVars
<1> SUFFICES FreeQuiet' /\ \A t \in Turns : Attended(t) => Attended(t)' \/ t \in lost'
  BY <1>2, Successors
<1>3. ASSUME NEW p \in Pods, Disconnect(p) \/ GraceExpires(p)
      PROVE  FreeQuiet' /\ \A t \in Turns : Attended(t) => Attended(t)' \/ t \in lost'
  <2>1. UNCHANGED <<handler, mark>>
    BY <1>3 DEF Disconnect, GraceExpires
  <2>2. \A s \in Slots : run'[s].at = run[s].at /\ run'[s].turn = run[s].turn
    BY <1>1, <1>3 DEF Disconnect, GraceExpires, RunRecord
  <2>3. FreeQuiet' /\ \A t \in Turns : \A s \in Slots : Serves(s, t) => Serves(s, t)'
    BY <2>1, <2>2 DEF FreeQuiet, Serves, Streams, RunAt, MarkAt
  <2>4. \A t \in Turns : ready[t] > 0 => ready'[t] > 0
    BY <1>3, ReturnGivesBack DEF Disconnect, GraceExpires
  <2> QED
    BY <1>2, <2>1, <2>3, <2>4 DEF Attended, Posting, Handling
<1>4. ASSUME NEW p \in Pods, Die(p)
      PROVE  FreeQuiet' /\ \A t \in Turns : Attended(t) => Attended(t)' \/ t \in lost'
  <2>1. PICK open \in Unacknowledged(p) :
          Return(p, open)
          /\ lost' = lost \cup {t \in Turns : \E s \in RunsOf(p) \ open : Serves(s, t)}
    BY <1>4 DEF Die
  <2>2. \A t \in Turns :
          /\ ready[t] > 0 => ready'[t] > 0
          /\ (\E s \in open : run[s].turn = t) => ready'[t] > 0
          /\ ~Handling(p, "idle") /\ handler[p].turn = t => ready'[t] > 0
    BY <2>1, ReturnGivesBack
  <2>3. \A q \in Pods \ {p} : handler'[q] = handler[q]
    BY <1>1, <1>4 DEF Die
  <2>4. \A s \in RunsOf(p) : MarkAt(s, "none")'
    BY <1>1, <1>4 DEF Die, MarkAt, NoMark, RunsOf
  <2>5. \A s \in Slots \ RunsOf(p) : run'[s] = run[s] /\ mark'[s] = mark[s]
    BY <1>1, <1>4 DEF Die
  <2>6. FreeQuiet'
    BY <2>4, <2>5 DEF FreeQuiet, RunAt, MarkAt
  <2>7. \A t \in Turns : \A s \in Slots \ RunsOf(p) : Serves(s, t) => Serves(s, t)'
    BY <2>5 DEF Serves, Streams, RunAt, MarkAt
  <2>8. \A t \in Turns : \A s \in RunsOf(p) : Serves(s, t) => ready'[t] > 0 \/ t \in lost'
    BY <2>1, <2>2 DEF Serves
  <2> QED
    BY <1>2, <2>2, <2>3, <2>6, <2>7, <2>8 DEF Attended, Posting, Handling
<1>5. CASE (\E p \in Pods : BeginShutdown(p)) \/ KeyExpires \/ KeyLapses
  <2>1. UNCHANGED <<handler, mark, run, ready>>
    BY <1>5 DEF BeginShutdown, KeyExpires, KeyLapses, sharedVars
  <2> QED
    BY <1>2, <2>1 DEF FreeQuiet, Attended, Serves, Streams, RunAt, MarkAt, Posting, Handling
<1> QED
  BY <1>3, <1>4, <1>5 DEF Exit, Crash

LEMMA TendedKept == IInv /\ Tended /\ [Next]_vars => Tended'
<1> SUFFICES ASSUME IInv, Tended, [Next]_vars
             PROVE  Tended'
  OBVIOUS
<1>1. PoolTypeOK'
  BY TypesKept DEF Tended
<1>2. CASE ExecutorNext
  BY <1>1, <1>2, HandlerAttend, RunAttend, PodsAttend DEF ExecutorNext, Tended
<1>3. CASE UNCHANGED vars
  BY <1>1, <1>3 DEF vars, sharedVars, execVars, chatVars, Tended, FreeQuiet, OnlyDropsStrand,
     Current, Running, Attended, Serves, Streams, RunAt, MarkAt, Posting, Handling
<1> QED
  BY <1>1, <1>2, <1>3, RequestsAttend, StreamsAttend DEF Next, Tended

LEMMA InitTended == Init => Tended
<1> SUFFICES ASSUME Init
             PROVE  Tended
  OBVIOUS
<1>1. FreeQuiet
  BY DEF Init, StreamsInit, FreeQuiet, MarkAt, NoMark, Completers
<1>2. ~Running
  BY DEF Init, StreamsInit, Running, NoSession
<1> QED
  BY <1>1, <1>2, InitTypes DEF Tended, OnlyDropsStrand, Current

\* A turn the session says it is working on is on its way to a run that will end
\* it, unless a handler has dropped it or Redis has failed its completion: pods may
\* crash, be drained and lose their connection at any step.
THEOREM OnlyDropsAreStranded == Spec => []OnlyDropsStrand
<1>1. Tended => OnlyDropsStrand
  BY DEF Tended
<1> QED
  BY <1>1, InitTended, TendedKept, IInvAlways, PTL DEF Spec

-----------------------------------------------------------------------------
(* One worker at a time. *)

\* A pod has one worker at work, the one in its table, and none while its consumer
\* thread has a message in hand.
OnePerPod ==
  \A s \in Slots : Supervised(s) => active[run[s].pod] = s /\ Handling(run[s].pod, "idle")

\* The lock that is registered is that of a run which has not been forgotten.
HeldAlive ==
  \A p \in Pods : held[p] # NoSlot => /\ run[held[p]].pod = p
                                      /\ run[held[p]].at \in {"wait", "release", "forget"}

\* Nothing is left of a pod that is down.
DownIsEmpty ==
  \A p \in Pods : mode[p] = "down" => /\ Handling(p, "idle")
                                      /\ held[p] = NoSlot
                                      /\ \A s \in Slots : RunAt(s, "free") \/ run[s].pod # p

\* Whoever is about to take a turn, has one, or has a lock to release that is
\* stamped, owns the key.
KeyOwned ==
  /\ \A s \in Slots : Supervised(s) => key = run[s].pod
  /\ \A p \in Pods : Handling(p, "submit") => key = p
  /\ \A p \in Pods : held[p] # NoSlot /\ run[held[p]].stamped
                     => key = p /\ run[held[p]].at \in {"wait", "release"}

Exclusion == OnePerPod /\ HeldAlive /\ DownIsEmpty /\ (keyLost \/ KeyOwned)

Guarded == PoolTypeOK /\ Exclusion

LEMMA HandlerExcludes ==
  ASSUME Guarded, NEW p \in Pods,
         \/ \E t \in Turns : Deliver(p, t) \/ DropLocal(p, t)
         \/ HandlerStep(p) \/ LockUnavailable(p) \/ HandleCancel(p)
  PROVE  Exclusion'
<1> USE ExecutorConstants DEF Guarded
<1>1. /\ handler \in [Pods -> HandlerRecord] /\ run \in [Slots -> RunRecord]
      /\ active \in [Pods -> Slots \cup {NoSlot}] /\ held \in [Pods -> Slots \cup {NoSlot}]
      /\ \A s \in Slots : run[s].pod \in Pods
  BY DEF PoolTypeOK, ExecutorTypeOK, RunRecord
<1>2. ASSUME NEW t \in Turns, Deliver(p, t)
      PROVE  Exclusion'
  <2>1. UNCHANGED <<mode, run, held, keyLost>> /\ mode[p] = "up" /\ Handling(p, "idle")
    BY <1>2 DEF Deliver
  <2>2. \A q \in Pods \ {p} : handler'[q] = handler[q] /\ active'[q] = active[q]
    BY <1>1, <1>2 DEF Deliver
  <2>3. handler'[p].at = IF key = NoPod THEN "submit" ELSE "owner"
    BY <1>1, <1>2 DEF Deliver
  <2>4. key' = IF key = NoPod THEN p ELSE key
    BY <1>2 DEF Deliver
  <2>5. \A s \in Slots : Supervised(s) => run[s].pod # p
    <3>1. active[p] # NoSlot => Done(active[p])
      BY <1>2 DEF Deliver, StillActive
    <3> QED
      BY <3>1 DEF Exclusion, OnePerPod, Supervised, Done, RunAt
  <2>6. OnePerPod'
    BY <1>1, <2>1, <2>2, <2>5 DEF Exclusion, OnePerPod, Supervised, RunAt, Handling
  <2>7. HeldAlive' /\ DownIsEmpty'
    BY <2>1, <2>2 DEF Exclusion, HeldAlive, DownIsEmpty, RunAt, Handling
  <2>8. KeyOwned => KeyOwned'
    BY <1>1, <2>1, <2>2, <2>3, <2>4 DEF KeyOwned, Supervised, RunAt, Handling
  <2> QED
    BY <2>1, <2>6, <2>7, <2>8 DEF Exclusion
<1>3. CASE \E t \in Turns : DropLocal(p, t)
  BY <1>3 DEF DropLocal, execVars, Exclusion, OnePerPod, HeldAlive, DownIsEmpty, KeyOwned,
     Supervised, RunAt, Handling
<1>4. CASE ReadOwner(p)
  <2>1. UNCHANGED <<mode, run, active, held, key, keyLost>> /\ key = p /\ Handling(p, "owner")
    BY <1>4 DEF ReadOwner
  <2>2. Handling(p, "submit")' /\ \A q \in Pods \ {p} : handler'[q] = handler[q]
    BY <1>1, <1>4 DEF ReadOwner, MoveHandler, Handling, HandlerRecord
  <2>3. ~Handling(p, "idle") /\ mode[p] # "down"
    BY <2>1 DEF Handling, Exclusion, DownIsEmpty
  <2> QED
    BY <1>1, <2>1, <2>2, <2>3 DEF Exclusion, OnePerPod, HeldAlive, DownIsEmpty, KeyOwned,
       Supervised, RunAt, Handling
<1>5. CASE OwnerGone(p) \/ LockUnavailable(p) \/ DropLocked(p)
  <2>1. UNCHANGED <<mode, run, active, held, key, keyLost>>
    BY <1>5 DEF OwnerGone, LockUnavailable, DropLocked
  <2>2. Handling(p, "idle")' /\ \A q \in Pods \ {p} : handler'[q] = handler[q]
    BY <1>1, <1>5 DEF OwnerGone, LockUnavailable, DropLocked, SendBack, Handling, IdleHandler
  <2> QED
    BY <1>1, <2>1, <2>2 DEF Exclusion, OnePerPod, HeldAlive, DownIsEmpty, KeyOwned,
       Supervised, RunAt, Handling
<1>6. CASE Submit(p)
  <2>1. UNCHANGED <<mode, key, keyLost>> /\ Handling(p, "submit")
    BY <1>6 DEF Submit
  <2>2. PICK s \in Slots :
          /\ run' = [run EXCEPT ![s] =
               [at |-> "wait", pod |-> p, turn |-> handler[p].turn, cancel |-> FALSE,
                stamped |-> handler[p].stamped, message |-> "open"]]
          /\ active' = [active EXCEPT ![p] = s] /\ held' = [held EXCEPT ![p] = s]
          /\ RunAt(s, "free")
    BY <1>6 DEF Submit
  <2>3. run'[s].at = "wait" /\ run'[s].pod = p /\ active'[p] = s /\ held'[p] = s
    BY <1>1, <2>2
  <2>4. \A r \in Slots \ {s} : run'[r] = run[r]
    BY <1>1, <2>2
  <2>5. \A q \in Pods \ {p} : active'[q] = active[q] /\ held'[q] = held[q]
                              /\ handler'[q] = handler[q]
    BY <1>1, <1>6, <2>2 DEF Submit
  <2>6. Handling(p, "idle")'
    BY <1>1, <1>6 DEF Submit, Handling, IdleHandler
  <2>7. mode[p] # "down" /\ \A r \in Slots : Supervised(r) => run[r].pod # p
    BY <2>1 DEF Exclusion, OnePerPod, DownIsEmpty, Handling
  <2>8. \A q \in Pods : held[q] # s \/ s = NoSlot
    BY <2>2 DEF Exclusion, HeldAlive, RunAt
  <2>9. OnePerPod'
    BY <1>1, <2>3, <2>4, <2>5, <2>6, <2>7 DEF Exclusion, OnePerPod, Supervised, RunAt, Handling
  <2>10. HeldAlive'
    BY <1>1, <2>3, <2>4, <2>5, <2>8 DEF Exclusion, HeldAlive
  <2>11. DownIsEmpty'
    BY <2>1, <2>3, <2>4, <2>5, <2>7 DEF Exclusion, DownIsEmpty, RunAt, Handling
  <2>12. KeyOwned => KeyOwned'
    BY <1>1, <2>1, <2>3, <2>4, <2>5, <2>6, <2>8 DEF KeyOwned, Supervised, RunAt, Handling
  <2> QED
    BY <2>1, <2>9, <2>10, <2>11, <2>12 DEF Exclusion
<1>7. CASE HandleCancel(p)
  <2>1. UNCHANGED <<mode, handler, active, held, key, keyLost>>
    BY <1>7 DEF HandleCancel
  <2>2. \A s \in Slots : /\ run'[s].at = run[s].at /\ run'[s].pod = run[s].pod
                         /\ run'[s].stamped = run[s].stamped
    BY <1>1, <1>7 DEF HandleCancel, RunRecord
  <2> QED
    BY <1>1, <2>1, <2>2 DEF Exclusion, OnePerPod, HeldAlive, DownIsEmpty, KeyOwned,
       Supervised, RunAt, Handling
<1> QED
  BY <1>2, <1>3, <1>4, <1>5, <1>6, <1>7 DEF HandlerStep

\* A release empties the registered lock's stamp and forgets what relied on it.
LEMMA ReleaseExcludes ==
  ASSUME Guarded, NEW s \in Slots, Release(s)
  PROVE  Exclusion'
<1> USE ExecutorConstants DEF Guarded
<1> DEFINE p == run[s].pod
           h == held[p]
<1>1. /\ run \in [Slots -> RunRecord] /\ held \in [Pods -> Slots \cup {NoSlot}]
      /\ p \in Pods /\ \A r \in Slots : run[r].pod \in Pods /\ run[r].stamped \in BOOLEAN
  BY DEF PoolTypeOK, ExecutorTypeOK, RunRecord
<1>2. UNCHANGED <<mode, handler, active, held>> /\ RunAt(s, "release")
  BY DEF Release
<1>3. CASE MoveRun(s, "forget") /\ UNCHANGED <<key, keyLost>> /\ (h # NoSlot => FALSE \in Stamps(h))
  <2>1. /\ \A r \in Slots : run'[r].pod = run[r].pod /\ run'[r].stamped = run[r].stamped
        /\ \A r \in Slots \ {s} : run'[r].at = run[r].at
        /\ run'[s].at = "forget"
    BY <1>1, <1>3 DEF MoveRun, RunRecord
  <2>2. OnePerPod' /\ HeldAlive' /\ DownIsEmpty'
    BY <1>1, <1>2, <2>1 DEF Exclusion, OnePerPod, HeldAlive, DownIsEmpty, Supervised, RunAt, Handling
  <2>3. ASSUME KeyOwned
        PROVE  KeyOwned'
    <3>1. h # NoSlot => ~run[h].stamped
      <4>1. FALSE \in Stamps(h) => ~run[h].stamped \/ key # run[h].pod
        BY Zenon DEF Stamps
      <4>2. h # NoSlot /\ run[h].stamped => key = p /\ run[h].pod = p
        BY <1>1, <2>3 DEF Exclusion, HeldAlive, KeyOwned
      <4> QED
        BY <1>3, <4>1, <4>2
    <3>2. \A q \in Pods : held[q] = s => q = p
      BY <1>1 DEF Exclusion, HeldAlive
    <3> QED
      BY <1>1, <1>2, <1>3, <2>1, <2>3, <3>1, <3>2 DEF KeyOwned, Supervised, RunAt, Handling
  <2> QED
    BY <1>3, <2>2, <2>3 DEF Exclusion
<1>4. CASE /\ h # NoSlot /\ TRUE \in Stamps(h)
           /\ key' = NoPod
           /\ keyLost' = (keyLost \/ Relied(s))
           /\ run' = [run EXCEPT ![h].stamped = FALSE, ![s].at = "forget"]
  <2> DEFINE x == [run EXCEPT ![h].stamped = FALSE]
  <2>1. h \in Slots /\ run[h] \in RunRecord
    BY <1>1, <1>4
  <2>2. x = [run EXCEPT ![h] = [run[h] EXCEPT !.stamped = FALSE]]
    BY <2>1
  <2>3. x \in [Slots -> RunRecord]
    BY <1>1, <2>1, <2>2, Records
  <2>4. /\ \A r \in Slots : x[r].at = run[r].at /\ x[r].pod = run[r].pod
        /\ \A r \in Slots \ {h} : x[r].stamped = run[r].stamped
        /\ ~x[h].stamped
    BY <1>1, <2>1, <2>2 DEF RunRecord
  <2>5. run' = [x EXCEPT ![s] = [x[s] EXCEPT !.at = "forget"]]
    BY <1>4, <2>3
  <2>6. x[s] \in RunRecord
    BY <2>3
  <2> HIDE DEF x
  <2>7. /\ \A r \in Slots : run'[r].pod = run[r].pod
        /\ \A r \in Slots \ {h} : run'[r].stamped = run[r].stamped
        /\ ~run'[h].stamped
        /\ \A r \in Slots \ {s} : run'[r].at = run[r].at
        /\ run'[s].at = "forget"
    BY <2>1, <2>3, <2>4, <2>5, <2>6 DEF RunRecord
  <2>8. OnePerPod' /\ HeldAlive' /\ DownIsEmpty'
    BY <1>1, <1>2, <2>7 DEF Exclusion, OnePerPod, HeldAlive, DownIsEmpty, Supervised, RunAt, Handling
  <2>9. ASSUME KeyOwned, ~Relied(s)
        PROVE  KeyOwned'
    <3>1. key = p
      BY <1>1, <1>4, <2>1, <2>9 DEF Stamps, Exclusion, HeldAlive, KeyOwned
    <3>2. \A r \in Slots : ~Supervised(r)'
      BY <1>1, <1>2, <2>7, <2>9, <3>1 DEF KeyOwned, Relied, Supervised, RunAt
    <3>3. \A q \in Pods : ~Handling(q, "submit")'
      BY <1>1, <1>2, <2>9, <3>1 DEF KeyOwned, Relied, Handling
    <3>4. \A q \in Pods : held[q] # NoSlot => ~run'[held[q]].stamped
      <4> TAKE q \in Pods
      <4>1. CASE q = p
        BY <2>7, <4>1
      <4>2. CASE q # p
        <5>1. held[q] # NoSlot => held[q] \in Slots /\ held[q] # h /\ ~run[held[q]].stamped
          BY <1>1, <2>1, <2>9, <3>1, <4>2 DEF Exclusion, HeldAlive, KeyOwned
        <5> QED
          BY <2>7, <5>1
      <4> QED
        BY <4>1, <4>2
    <3> QED
      BY <1>2, <3>2, <3>3, <3>4 DEF KeyOwned
  <2> QED
    BY <1>4, <2>8, <2>9 DEF Exclusion
<1> QED
  BY <1>3, <1>4 DEF Release

LEMMA RunExcludes ==
  ASSUME Guarded, NEW s \in Slots, RunStep(s) \/ MarkLost(s)
  PROVE  Exclusion'
<1> USE ExecutorConstants DEF Guarded
<1>1. /\ run \in [Slots -> RunRecord] /\ held \in [Pods -> Slots \cup {NoSlot}]
      /\ active \in [Pods -> Slots \cup {NoSlot}]
      /\ \A r \in Slots : run[r].pod \in Pods /\ run[r].stamped \in BOOLEAN
  BY DEF PoolTypeOK, ExecutorTypeOK, RunRecord
<1>2. CASE EndStream(s) \/ MarkLost(s)
  BY <1>2 DEF EndStream, MarkLost, execVars, Exclusion, OnePerPod, HeldAlive, DownIsEmpty,
     KeyOwned, Supervised, RunAt, Handling
<1>3. CASE Interrupt(s) \/ Finish(s)
  <2>1. /\ \A r \in Slots : run'[r].pod = run[r].pod /\ run'[r].stamped = run[r].stamped
        /\ \A r \in Slots \ {s} : run'[r].at = run[r].at
        /\ run'[s].at = "release" /\ run[s].at = "wait"
    BY <1>1, <1>3 DEF Interrupt, Finish, MoveRun, RunAt, RunRecord
  <2>2. UNCHANGED <<mode, handler, active, held, key, keyLost>>
    BY <1>3 DEF Interrupt, Finish
  <2> QED
    BY <1>1, <2>1, <2>2 DEF Exclusion, OnePerPod, HeldAlive, DownIsEmpty, KeyOwned,
       Supervised, RunAt, Handling
<1>4. CASE Forget(s)
  <2> DEFINE p == run[s].pod
  <2>1. /\ \A r \in Slots : run'[r].pod = run[r].pod /\ run'[r].stamped = run[r].stamped
        /\ \A r \in Slots \ {s} : run'[r].at = run[r].at
        /\ run'[s].at = "gone" /\ run[s].at = "forget"
    BY <1>1, <1>4 DEF Forget, MoveRun, RunAt, RunRecord
  <2>2. UNCHANGED <<mode, handler, key, keyLost>>
    BY <1>4 DEF Forget
  <2>3. held'[p] = NoSlot /\ \A q \in Pods \ {p} : held'[q] = held[q] /\ active'[q] = active[q]
    BY <1>1, <1>4 DEF Forget
  <2>4. \A r \in Slots : Supervised(r) /\ run[r].pod = p => active'[p] = r
    <3>1. active'[p] = StillActive(p)
      BY <1>1, <1>4 DEF Forget
    <3> QED
      BY <3>1 DEF Exclusion, OnePerPod, Supervised, StillActive, Done, RunAt
  <2>5. \A q \in Pods : held[q] = s => q = p \/ s = NoSlot
    BY DEF Exclusion, HeldAlive
  <2>6. OnePerPod'
    BY <1>1, <2>1, <2>2, <2>3, <2>4 DEF Exclusion, OnePerPod, Supervised, RunAt, Handling
  <2>7. HeldAlive' /\ DownIsEmpty'
    BY <1>1, <2>1, <2>2, <2>3, <2>5 DEF Exclusion, HeldAlive, DownIsEmpty, RunAt, Handling
  <2>8. KeyOwned => KeyOwned'
    BY <1>1, <2>1, <2>2, <2>3, <2>5 DEF KeyOwned, Supervised, RunAt, Handling
  <2> QED
    BY <2>2, <2>6, <2>7, <2>8 DEF Exclusion
<1>5. CASE Clear(s)
  <2>1. run'[s].at = "free" /\ run[s].at = "gone" /\ \A r \in Slots \ {s} : run'[r] = run[r]
    BY <1>1, <1>5 DEF Clear, RunAt, FreeRun
  <2>2. UNCHANGED <<mode, handler, active, held, key, keyLost>>
    BY <1>5 DEF Clear
  <2>3. \A q \in Pods : held[q] # s \/ s = NoSlot
    BY <2>1 DEF Exclusion, HeldAlive
  <2> QED
    BY <1>1, <2>1, <2>2, <2>3 DEF Exclusion, OnePerPod, HeldAlive, DownIsEmpty, KeyOwned,
       Supervised, RunAt, Handling
<1> QED
  BY <1>2, <1>3, <1>4, <1>5, ReleaseExcludes DEF RunStep

LEMMA PodsExclude ==
  ASSUME Guarded,
         \/ \E p \in Pods : Disconnect(p) \/ BeginShutdown(p) \/ GraceExpires(p)
                             \/ Exit(p) \/ Crash(p)
         \/ KeyExpires \/ KeyLapses
  PROVE  Exclusion'
<1> USE ExecutorConstants DEF Guarded
<1>1. /\ mode \in [Pods -> {"up", "stopping", "closing", "down"}]
      /\ handler \in [Pods -> HandlerRecord] /\ run \in [Slots -> RunRecord]
      /\ active \in [Pods -> Slots \cup {NoSlot}] /\ held \in [Pods -> Slots \cup {NoSlot}]
      /\ key \in Pods \cup {NoPod}
      /\ \A s \in Slots : run[s].pod \in Pods
  BY DEF PoolTypeOK, ExecutorTypeOK, RunRecord
<1>2. ASSUME NEW p \in Pods, Disconnect(p) \/ GraceExpires(p)
      PROVE  Exclusion'
  <2>1. UNCHANGED <<handler, active, held, key, keyLost>>
    BY <1>2 DEF Disconnect, GraceExpires
  <2>2. \A s \in Slots : /\ run'[s].at = run[s].at /\ run'[s].pod = run[s].pod
                         /\ run'[s].stamped = run[s].stamped
    BY <1>1, <1>2 DEF Disconnect, GraceExpires, RunRecord
  <2>3. \A q \in Pods : mode'[q] = "down" => mode[q] = "down"
    BY <1>1, <1>2 DEF Disconnect, GraceExpires
  <2> QED
    BY <1>1, <2>1, <2>2, <2>3 DEF Exclusion, OnePerPod, HeldAlive, DownIsEmpty, KeyOwned,
       Supervised, RunAt, Handling
<1>3. ASSUME NEW p \in Pods, BeginShutdown(p)
      PROVE  Exclusion'
  <2>1. UNCHANGED <<handler, run, active, held, key, keyLost>>
    BY <1>3 DEF BeginShutdown
  <2>2. \A q \in Pods : mode'[q] = "down" => mode[q] = "down"
    BY <1>1, <1>3 DEF BeginShutdown
  <2> QED
    BY <2>1, <2>2 DEF Exclusion, OnePerPod, HeldAlive, DownIsEmpty, KeyOwned,
       Supervised, RunAt, Handling
<1>4. ASSUME NEW p \in Pods, Die(p), UNCHANGED keyLost,
             key' = key \/ (key' = NoPod /\ (KeyOwned => key = p))
      PROVE  Exclusion'
  <2>1. \A s \in RunsOf(p) : run'[s].at = "free"
    BY <1>1, <1>4 DEF Die, RunsOf, FreeRun
  <2>2. \A s \in Slots \ RunsOf(p) : run'[s] = run[s]
    BY <1>1, <1>4 DEF Die
  <2>3. Handling(p, "idle")' /\ held'[p] = NoSlot
    BY <1>1, <1>4 DEF Die, Handling, IdleHandler
  <2>4. \A q \in Pods \ {p} : /\ mode'[q] = mode[q] /\ handler'[q] = handler[q]
                              /\ active'[q] = active[q] /\ held'[q] = held[q]
    BY <1>1, <1>4 DEF Die
  <2>5. \A s \in Slots : ~RunAt(s, "free")' => run[s].pod # p
    BY <2>1, <2>2 DEF RunsOf, RunAt
  <2>6. OnePerPod'
    BY <1>1, <2>1, <2>2, <2>4, <2>5 DEF Exclusion, OnePerPod, Supervised, RunAt, Handling
  <2>7. \A q \in Pods \ {p} : held[q] # NoSlot => held[q] \in Slots \ RunsOf(p)
    BY <1>1 DEF Exclusion, HeldAlive, RunsOf
  <2>8. HeldAlive'
    BY <2>2, <2>3, <2>4, <2>7 DEF Exclusion, HeldAlive
  <2>9. DownIsEmpty'
    BY <2>1, <2>2, <2>3, <2>4, <2>5 DEF Exclusion, DownIsEmpty, RunAt, Handling
  <2>10. ASSUME KeyOwned
         PROVE  KeyOwned'
    <3>1. \A s \in Slots : Supervised(s)' => Supervised(s) /\ run'[s] = run[s] /\ run[s].pod # p
      BY <2>1, <2>2, <2>5 DEF Supervised, RunAt
    <3>2. \A q \in Pods : Handling(q, "submit")' => q # p /\ Handling(q, "submit")
      BY <2>3, <2>4 DEF Handling
    <3>3. \A q \in Pods : held'[q] # NoSlot => q # p /\ held'[q] = held[q]
                                               /\ run'[held[q]] = run[held[q]]
      BY <2>2, <2>3, <2>4, <2>7
    <3> QED
      BY <1>4, <2>10, <3>1, <3>2, <3>3 DEF KeyOwned
  <2> QED
    BY <1>4, <2>6, <2>8, <2>9, <2>10 DEF Exclusion
<1>5. ASSUME NEW p \in Pods, Exit(p)
      PROVE  Exclusion'
  <2>1. held[p] # NoSlot /\ TRUE \in Stamps(held[p]) /\ KeyOwned => key = p
    BY <1>1 DEF Exclusion, HeldAlive, KeyOwned, Stamps
  <2> QED
    BY <1>4, <1>5, <2>1 DEF Exit
<1>6. ASSUME NEW p \in Pods, Crash(p)
      PROVE  Exclusion'
  BY <1>4, <1>6 DEF Crash
<1>7. CASE KeyExpires
  <2>1. UNCHANGED <<mode, handler, run, active, held, keyLost>> /\ key' = NoPod
        /\ key \in Pods /\ ~KeyInUse(key)
    BY <1>1, <1>7 DEF KeyExpires
  <2>2. OnePerPod' /\ HeldAlive' /\ DownIsEmpty'
    BY <2>1 DEF Exclusion, OnePerPod, HeldAlive, DownIsEmpty, Supervised, RunAt, Handling
  <2>3. ASSUME KeyOwned
        PROVE  KeyOwned'
    <3>1. ~Handling(key, "submit") /\ \A s \in Slots : run[s].at \in {"wait", "release"}
                                                       => run[s].pod # key
      BY <2>1 DEF KeyInUse, Exclusion, DownIsEmpty, RunsOf, RunAt, Handling
    <3>2. \A s \in Slots : ~Supervised(s)
      BY <2>3, <3>1 DEF KeyOwned, Supervised, RunAt
    <3>3. \A q \in Pods : ~Handling(q, "submit")
      BY <2>3, <3>1 DEF KeyOwned
    <3>4. \A q \in Pods : held[q] # NoSlot => ~run[held[q]].stamped
      BY <1>1, <2>3, <3>1 DEF KeyOwned, Exclusion, HeldAlive
    <3> QED
      BY <2>1, <3>2, <3>3, <3>4 DEF KeyOwned, Supervised, RunAt, Handling
  <2> QED
    BY <2>1, <2>2, <2>3 DEF Exclusion
<1>8. CASE KeyLapses
  BY <1>8 DEF KeyLapses, Exclusion, OnePerPod, HeldAlive, DownIsEmpty, Supervised, RunAt, Handling
<1> QED
  BY <1>2, <1>3, <1>5, <1>6, <1>7, <1>8

LEMMA GuardedKept == IInv /\ Guarded /\ [Next]_vars => Guarded'
<1> SUFFICES ASSUME IInv, Guarded, [Next]_vars
             PROVE  Guarded'
  OBVIOUS
<1>1. PoolTypeOK'
  BY TypesKept DEF Guarded
<1>2. CASE ExecutorNext
  BY <1>1, <1>2, HandlerExcludes, RunExcludes, PodsExclude DEF ExecutorNext, Guarded
<1>3. CASE UNCHANGED execVars
  BY <1>1, <1>3 DEF execVars, Guarded, Exclusion, OnePerPod, HeldAlive, DownIsEmpty, KeyOwned,
     Supervised, RunAt, Handling
<1>4. RequestNext \/ StreamNext => UNCHANGED execVars
  BY DEF RequestNext, CreateSession, ExpireSession, EnqueueTurn, PostFails, Subscribe,
     BeginCancel, FindStale, CancelStep,
     SeeStopped, ForceStop, Forced, CancelFails, ForgetSession, OutliveSession, StreamNext
<1> QED
  BY <1>2, <1>3, <1>4 DEF Next, vars

LEMMA InitGuarded == Init => Guarded
<1> SUFFICES ASSUME Init
             PROVE  Exclusion
  BY InitTypes DEF Guarded
<1>1. \A s \in Slots : run[s].at = "free"
  BY DEF Init, ExecutorInit, FreeRun
<1>2. \A p \in Pods : mode[p] = "up" /\ handler[p].at = "idle" /\ held[p] = NoSlot
  BY DEF Init, ExecutorInit, IdleHandler
<1> QED
  BY <1>1, <1>2 DEF Exclusion, OnePerPod, HeldAlive, DownIsEmpty, KeyOwned, Supervised, RunAt,
     Handling

\* While no lock has vanished under a run, one worker at a time has a turn of the
\* session, on whichever pod: although the table and the lock of a pod are those of
\* the session, and a run that ends releases and forgets those of a later one.
THEOREM WorkersExclude == Spec => []OneWorker
<1>1. Guarded => OneWorker
  BY DEF Guarded, Exclusion, OnePerPod, KeyOwned, OneWorker
<1> QED
  BY <1>1, InitGuarded, GuardedKept, IInvAlways, PTL DEF Spec

=============================================================================
