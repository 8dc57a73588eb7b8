-------------------------- MODULE CopilotChatProofs --------------------------
(***************************************************************************)
(* Proofs about CopilotChat, for any number of turns, pods, executions,    *)
(* readers and cancellations, and any number of crashes and failures: the  *)
(* status of a session is settled before anybody hears of it, and once;    *)
(* and what was closed or cancelled has stopped.                           *)
(*                                                                         *)
(* None of it depends on who executes a turn: of the executor only what it *)
(* does to the completions (ExecutorMoves) matters.                        *)
(***************************************************************************)
EXTENDS CopilotChat, TLAPS

-----------------------------------------------------------------------------
(* The inductive invariant. *)

SessionTypeOK ==
  /\ \/ meta = NoSession
     \/ meta \in [turn : Turns, status : {"running", "completed", "failed"}]
  /\ ended \in SUBSET Turns
  /\ mark \in [Completers -> MarkRecord]
  /\ reader \in [Readers -> ReaderRecord]
  /\ ChatTypeOK

\* Nobody knows of a turn that is not posted yet.
FreshTurns ==
  \A t \in Turns : PostAt(t, "new") =>
    /\ meta.turn # t
    /\ t \notin ended
    /\ \A w \in Completers : mark[w].turn # t
    /\ \A r \in Readers : reader[r].turn # t
    /\ \A c \in Cancels : cancel[c].turn # t

\* Whoever publishes has settled the status, of that turn or of a later one.
PublishedOver == \A w \in Completers : MarkAt(w, "publish") => ~Current(mark[w].turn)

\* What a reader closes for, or will close for.
ClosingOver ==
  \A r \in Readers :
    ReaderAt(r, "closed") \/ (ReaderAt(r, "replay") /\ ~reader[r].live)
    => ~Current(reader[r].turn)

\* A cancellation that has settled the status itself.
ForcedOver ==
  \A c \in Cancels : CancelAt(c, "force") /\ mark[c].at \in {"publish", "over"}
                     => ~Current(cancel[c].turn)

IInv ==
  /\ SessionTypeOK
  /\ FreshTurns
  /\ FinishMeansOver
  /\ PublishedOver
  /\ ClosingOver
  /\ ForcedOver

-----------------------------------------------------------------------------
(* What the executor does to the session: completions of its runs begin,   *)
(* are given up or forgotten.                                              *)

ExecutorMoves ==
  /\ UNCHANGED <<meta, ended, reader, chatVars>>
  /\ mark' \in [Completers -> MarkRecord]
  /\ \A c \in Cancels : mark'[c] = mark[c]
  /\ \A w \in Completers :
       \/ mark'[w] = mark[w]
       \/ mark'[w].at # "publish" /\ mark'[w].turn \in {meta.turn, NoTurn}

\* Only the coroutines of its runs, and their end, touch the completions.
LEMMA ExecutorOnlyCompletes ==
  ASSUME SessionTypeOK, ExecutorNext
  PROVE  ExecutorMoves
<1> USE StreamConstants DEF SessionTypeOK, Completers
<1> DEFINE Aside == UNCHANGED <<meta, ended, mark, reader, chatVars>>
<1>1. Aside => ExecutorMoves
  BY DEF ExecutorMoves
<1>2. meta.turn \in Turns \cup {NoTurn}
  BY DEF NoSession
<1>3. UNCHANGED chatVars
  BY DEF ExecutorNext
<1>4. NoMark \in MarkRecord /\ OverMark \in MarkRecord /\ NoMark.at # "publish"
      /\ OverMark.at # "publish" /\ NoMark.turn = NoTurn /\ OverMark.turn = NoTurn
  BY DEF NoMark, OverMark, MarkRecord
\* One run's completion is replaced.
<1>5. ASSUME NEW s \in Slots, NEW m \in MarkRecord,
             m.at # "publish", m.turn \in {meta.turn, NoTurn},
             mark' = [mark EXCEPT ![s] = m], UNCHANGED <<meta, ended, reader>>
      PROVE  ExecutorMoves
  <2>1. s \in Completers /\ s \notin Cancels
    OBVIOUS
  <2>2. mark' \in [Completers -> MarkRecord]
    BY <1>5, <2>1
  <2>3. \A w \in Completers : mark'[w] = IF w = s THEN m ELSE mark[w]
    BY <1>5
  <2> QED
    BY <1>3, <1>5, <2>1, <2>2, <2>3 DEF ExecutorMoves
<1>6. ASSUME NEW p \in Pods, NEW t \in Turns, Deliver(p, t) \/ DropLocal(p, t)
      PROVE  ExecutorMoves
  BY <1>1, <1>3, <1>6 DEF Deliver, DropLocal, execVars
<1>7. ASSUME NEW p \in Pods, HandlerStep(p) \/ LockUnavailable(p) \/ HandleCancel(p)
      PROVE  ExecutorMoves
  BY <1>1, <1>3, <1>7 DEF HandlerStep, ReadOwner, OwnerGone, DropLocked, Submit,
     LockUnavailable, HandleCancel, sharedVars
<1>8. ASSUME NEW p \in Pods, Disconnect(p) \/ BeginShutdown(p) \/ GraceExpires(p)
      PROVE  ExecutorMoves
  BY <1>1, <1>3, <1>8 DEF Disconnect, BeginShutdown, GraceExpires
<1>9. ASSUME NEW p \in Pods, Exit(p) \/ Crash(p)
      PROVE  ExecutorMoves
  <2>1. UNCHANGED <<meta, ended, reader>> /\ Die(p)
    BY <1>9 DEF Exit, Crash
  <2>2. mark' = [w \in Completers |-> IF w \in RunsOf(p) THEN NoMark ELSE mark[w]]
    BY <2>1 DEF Die
  <2>3. \A w \in Completers : mark'[w] \in {NoMark, mark[w]} /\ mark'[w] \in MarkRecord
    BY <1>4, <2>2
  <2>4. \A c \in Cancels : mark'[c] = mark[c]
    BY <2>2 DEF RunsOf
  <2>5. mark' \in [Completers -> MarkRecord]
    BY <2>2, <2>3
  <2> QED
    BY <1>3, <1>4, <2>1, <2>3, <2>4, <2>5 DEF ExecutorMoves
<1>10. ASSUME NEW s \in Slots, NEW to \in {"completed", "failed"}, MarkRead(s, to),
              UNCHANGED <<meta, ended, reader>>
       PROVE  ExecutorMoves
  <2> DEFINE m == [at |-> "swap", turn |-> meta.turn, to |-> to]
  <2>1. m \in MarkRecord /\ m.at # "publish" /\ m.turn = meta.turn
    BY <1>2 DEF MarkRecord
  <2>2. mark' = [mark EXCEPT ![s] = m]
    BY <1>10 DEF MarkRead
  <2> HIDE DEF m
  <2> QED
    BY <1>5, <1>10, <2>1, <2>2
<1>11. ASSUME NEW s \in Slots, EndStream(s) \/ Interrupt(s) \/ MarkLost(s) \/ Clear(s)
       PROVE  ExecutorMoves
  <2>1. CASE EndStream(s)
    BY <1>10, <2>1 DEF EndStream
  <2>2. CASE Interrupt(s)
    <3>1. CASE Streams(s)
      BY <1>1, <1>3, <2>2, <3>1 DEF Interrupt
    <3>2. CASE ~Streams(s)
      BY <1>4, <1>5, <2>2, <3>2 DEF Interrupt
    <3> QED
      BY <3>1, <3>2
  <2>3. CASE MarkLost(s)
    BY <1>4, <1>5, <2>3 DEF MarkLost
  <2>4. CASE Clear(s)
    BY <1>4, <1>5, <2>4 DEF Clear
  <2> QED
    BY <1>11, <2>1, <2>2, <2>3, <2>4
<1>12. ASSUME NEW s \in Slots, Finish(s) \/ Release(s) \/ Forget(s)
       PROVE  ExecutorMoves
  BY <1>1, <1>3, <1>12 DEF Finish, Release, Forget, sharedVars
<1>13. ASSUME KeyExpires \/ KeyLapses
       PROVE  ExecutorMoves
  BY <1>1, <1>3, <1>13 DEF KeyExpires, KeyLapses, sharedVars
<1> QED
  BY <1>6, <1>7, <1>8, <1>9, <1>11, <1>12, <1>13 DEF ExecutorNext, RunStep

LEMMA ExecutorKeepsInvariant ==
  ASSUME IInv, ExecutorMoves
  PROVE  IInv'
<1> USE StreamConstants
<1>1. UNCHANGED <<meta, ended, reader, post, mortal, cancel>>
  BY DEF ExecutorMoves, chatVars
<1>2. SessionTypeOK'
  BY <1>1 DEF IInv, SessionTypeOK, ChatTypeOK, ExecutorMoves, NoSession
<1>3. FreshTurns'
  BY <1>1 DEF IInv, FreshTurns, ExecutorMoves, PostAt
<1>4. FinishMeansOver'
  BY <1>1 DEF IInv, FinishMeansOver, Current, Running
<1>5. PublishedOver'
  BY <1>1 DEF IInv, PublishedOver, ExecutorMoves, MarkAt, Current, Running
<1>6. ClosingOver'
  BY <1>1 DEF IInv, ClosingOver, ReaderAt, Current, Running
<1>7. ForcedOver'
  BY <1>1 DEF IInv, ForcedOver, ExecutorMoves, CancelAt, Current, Running
<1> QED
  BY <1>2, <1>3, <1>4, <1>5, <1>6, <1>7 DEF IInv

-----------------------------------------------------------------------------
(* The completions themselves, and the readers. *)

\* A completion goes on: its turn stays what it read, or is forgotten; it comes
\* to publish by settling the status; what it ends is the turn it publishes to.
LEMMA CompletionKeepsInvariant ==
  ASSUME IInv, NEW w \in Completers, MarkStep(w) \/ MarkPublishFails(w),
         UNCHANGED chatVars
  PROVE  IInv'
<1> USE StreamConstants DEF IInv, Completers
<1>1. UNCHANGED <<reader, post, mortal, cancel>>
  BY DEF MarkStep, MarkSwap, MarkPublish, MarkPublishFails, chatVars
<1>2. meta'.turn = meta.turn /\ (Running' => Running) /\ SessionTypeOK'
  <2>1. OverMark \in MarkRecord
    BY DEF OverMark, NoMark, MarkRecord
  <2>2. CASE MarkSwap(w)
    <3>1. CASE Running
      <4>1. meta \in [turn : Turns, status : {"running", "completed", "failed"}]
        BY <3>1 DEF SessionTypeOK, Running, NoSession
      <4>2. meta' = [meta EXCEPT !.status = mark[w].to]
            /\ mark' = [mark EXCEPT ![w].at = "publish"]
        BY <2>2, <3>1 DEF MarkSwap
      <4>3. mark[w] \in MarkRecord /\ mark[w].to \in {"completed", "failed"}
        BY DEF SessionTypeOK, MarkRecord
      <4>4. meta'.turn = meta.turn /\ meta'.status = mark[w].to
            /\ meta' \in [turn : Turns, status : {"running", "completed", "failed"}]
        BY <4>1, <4>2, <4>3
      <4>5. mark' \in [Completers -> MarkRecord]
        BY <4>2, <4>3 DEF SessionTypeOK, MarkRecord
      <4> QED
        BY <1>1, <2>2, <3>1, <4>4, <4>5 DEF MarkSwap, SessionTypeOK, ChatTypeOK, Running
    <3>2. CASE ~Running
      BY <1>1, <2>1, <2>2, <3>2 DEF MarkSwap, SessionTypeOK, ChatTypeOK, Running, NoSession
    <3> QED
      BY <3>1, <3>2
  <2>3. CASE MarkPublish(w)
    <3>1. mark[w].turn \in Turns \cup {NoTurn}
      BY DEF SessionTypeOK, MarkRecord
    <3> QED
      BY <1>1, <2>1, <2>3, <3>1 DEF MarkPublish, SessionTypeOK, ChatTypeOK, Running, NoSession
  <2>4. CASE MarkPublishFails(w)
    BY <1>1, <2>1, <2>4 DEF MarkPublishFails, SessionTypeOK, ChatTypeOK, Running, NoSession
  <2> QED
    BY <2>2, <2>3, <2>4 DEF MarkStep
<1>3. \A t : Current(t)' => Current(t)
  BY <1>2 DEF Current
\* What becomes of the completions, and of the streams.
<1>4. \A v \in Completers :
        /\ mark'[v].turn \in {mark[v].turn, NoTurn}
        /\ v # w => mark'[v] = mark[v]
  BY DEF MarkStep, MarkSwap, MarkPublish, MarkPublishFails, SessionTypeOK, OverMark, NoMark,
         MarkRecord
<1>5. ended' \subseteq ended \cup ({mark[w].turn} \ {NoTurn})
      /\ (ended' # ended => MarkAt(w, "publish"))
  BY DEF MarkStep, MarkSwap, MarkPublish, MarkPublishFails
<1>6. MarkAt(w, "publish")' => ~Running'
  <2>1. CASE MarkSwap(w)
    BY <2>1 DEF MarkSwap, MarkAt, Running, OverMark, NoMark, SessionTypeOK, MarkRecord, NoSession
  <2>2. CASE MarkPublish(w) \/ MarkPublishFails(w)
    BY <2>2 DEF MarkPublish, MarkPublishFails, MarkAt, OverMark, NoMark, SessionTypeOK
  <2> QED
    BY <2>1, <2>2 DEF MarkStep
<1>7. FreshTurns'
  BY <1>1, <1>2, <1>4, <1>5 DEF FreshTurns, PostAt
<1>8. FinishMeansOver'
  BY <1>3, <1>5 DEF FinishMeansOver, PublishedOver
<1>9. PublishedOver'
  <2> SUFFICES ASSUME NEW v \in Completers, MarkAt(v, "publish")'
               PROVE  ~Current(mark[v].turn)'
    BY DEF PublishedOver
  <2>1. CASE v = w
    BY <1>6, <2>1 DEF Current
  <2>2. CASE v # w
    BY <1>3, <1>4, <2>2 DEF PublishedOver, MarkAt, Current
  <2> QED
    BY <2>1, <2>2
<1>10. ClosingOver'
  BY <1>1, <1>3 DEF ClosingOver, ReaderAt, Current
<1>11. ForcedOver'
  <2> SUFFICES ASSUME NEW c \in Cancels, CancelAt(c, "force"),
                      mark'[c].at \in {"publish", "over"}
               PROVE  ~Current(cancel[c].turn)'
    BY <1>1 DEF ForcedOver, CancelAt
  <2>1. CASE c # w
    BY <1>1, <1>3, <1>4, <2>1 DEF ForcedOver, Current
  <2>2. CASE c = w
    <3>1. CASE MarkSwap(w)
      <4>1. ~Running'
        BY <3>1, <2>2 DEF MarkSwap, Running, SessionTypeOK, MarkRecord, NoSession
      <4> QED
        BY <4>1 DEF Current
    <3>2. CASE MarkPublish(w) \/ MarkPublishFails(w)
      BY <1>1, <1>3, <2>2, <3>2 DEF ForcedOver, Current, MarkPublish, MarkPublishFails, MarkAt
    <3> QED
      BY <3>1, <3>2 DEF MarkStep
  <2> QED
    BY <2>1, <2>2
<1> QED
  BY <1>2, <1>7, <1>8, <1>9, <1>10, <1>11

\* A reader learns the last turn; it closes when it has heard the end of its turn
\* or has seen that the session is not running.
LEMMA ReaderKeepsInvariant ==
  ASSUME IInv, UNCHANGED chatVars,
         NEW r \in Readers, ReaderStep(r) \/ ReaderFails(r) \/ Unsubscribe(r)
  PROVE  IInv'
<1> USE StreamConstants DEF IInv
<1>1. UNCHANGED <<meta, ended, mark, post, mortal, cancel>>
  BY DEF ReaderStep, ReadSession, SessionNotFound, Replay, HearFinish, CheckSession,
         Unsubscribe, ReaderFails, MoveReader, chatVars
<1>2. \A q \in Readers \ {r} : reader'[q] = reader[q]
  BY DEF ReaderStep, ReadSession, SessionNotFound, Replay, HearFinish, CheckSession,
         Unsubscribe, ReaderFails, MoveReader, SessionTypeOK
<1>3. /\ reader'[r].turn \in {reader[r].turn, meta.turn}
      /\ reader'[r] \in ReaderRecord
      /\ reader' \in [Readers -> ReaderRecord]
  <2>1. reader[r] \in ReaderRecord /\ meta.turn \in Turns \cup {NoTurn} /\ Running \in BOOLEAN
    BY DEF SessionTypeOK, NoSession, Running
  <2>2. CASE ReadSession(r)
    BY <2>1, <2>2 DEF ReadSession, SessionTypeOK, ReaderRecord
  <2>3. ASSUME NEW at \in {"closed", "listen", "failed", "gone"}, MoveReader(r, at)
        PROVE  reader'[r].turn = reader[r].turn /\ reader'[r] \in ReaderRecord
               /\ reader' \in [Readers -> ReaderRecord]
    BY <2>1, <2>3 DEF MoveReader, SessionTypeOK, ReaderRecord
  <2>4. CASE SessionNotFound(r) \/ HearFinish(r) \/ CheckSession(r)
           \/ ReaderFails(r) \/ Unsubscribe(r)
    BY <2>3, <2>4 DEF SessionNotFound, HearFinish, CheckSession, ReaderFails, Unsubscribe
  <2>5. CASE Replay(r)
    BY <2>3, <2>5 DEF Replay
  <2> QED
    BY <2>2, <2>4, <2>5 DEF ReaderStep
<1>4. SessionTypeOK'
  BY <1>1, <1>3 DEF SessionTypeOK, ChatTypeOK, NoSession
<1>5. FreshTurns'
  BY <1>1, <1>2, <1>3 DEF FreshTurns, PostAt
<1>6. FinishMeansOver' /\ PublishedOver' /\ ForcedOver'
  BY <1>1 DEF FinishMeansOver, PublishedOver, ForcedOver, Current, Running, MarkAt, CancelAt
<1>7. ReaderAt(r, "closed")' \/ (ReaderAt(r, "replay")' /\ ~reader'[r].live)
      => ~Current(reader[r].turn)'
  <2>1. reader[r] \in ReaderRecord
    BY DEF SessionTypeOK
  <2>2. CASE ReadSession(r)
    BY <1>1, <2>2 DEF ReadSession, SessionTypeOK, ReaderAt, Current, Running
  <2>3. CASE SessionNotFound(r) \/ CheckSession(r)
    BY <1>1, <2>3 DEF SessionNotFound, CheckSession, Current, Running, NoSession
  <2>4. CASE HearFinish(r)
    <3>1. ~Current(reader[r].turn)
      BY <2>4 DEF HearFinish, FinishMeansOver, SessionTypeOK
    <3> QED
      BY <1>1, <2>1, <2>4, <3>1 DEF HearFinish, MoveReader, SessionTypeOK, ReaderRecord,
         Current, Running
  <2>5. CASE Replay(r)
    <3>1. CASE reader[r].live /\ reader[r].turn \notin ended
      BY <2>1, <2>5, <3>1 DEF Replay, MoveReader, SessionTypeOK, ReaderAt, ReaderRecord
    <3>2. CASE ~(reader[r].live /\ reader[r].turn \notin ended)
      <4>1. ~Current(reader[r].turn)
        BY <2>5, <3>2 DEF Replay, FinishMeansOver, ClosingOver, SessionTypeOK
      <4> QED
        BY <1>1, <2>1, <2>5, <4>1 DEF Replay, MoveReader, SessionTypeOK, ReaderRecord,
           Current, Running
    <3> QED
      BY <3>1, <3>2
  <2>6. CASE ReaderFails(r) \/ Unsubscribe(r)
    BY <2>1, <2>6 DEF Unsubscribe, ReaderFails, MoveReader, SessionTypeOK, ReaderAt, ReaderRecord
  <2> QED
    BY <2>2, <2>3, <2>4, <2>5, <2>6 DEF ReaderStep
<1>8. ClosingOver'
  BY <1>1, <1>2, <1>7 DEF ClosingOver, ReaderAt, Current, Running
<1> QED
  BY <1>4, <1>5, <1>6, <1>8

-----------------------------------------------------------------------------
(* The requests. *)

\* A new turn replaces the last one; as nobody knows of it, nobody has announced
\* its end.
LEMMA CreateKeepsInvariant ==
  ASSUME IInv, NEW t \in Turns, CreateSession(t)
  PROVE  IInv'
<1> USE StreamConstants DEF IInv
<1>1. UNCHANGED <<ended, mark, reader, mortal, cancel>> /\ PostAt(t, "new")
      /\ meta' = [turn |-> t, status |-> "running"]
      /\ post' = [post EXCEPT ![t] = "expire"]
  BY DEF CreateSession, MovePost, execVars
<1>2. post' \in [Turns -> PostStages] /\ \A u \in Turns : PostAt(u, "new")' => PostAt(u, "new") /\ u # t
  BY <1>1 DEF SessionTypeOK, ChatTypeOK, PostStages, PostAt
<1>3. \A u : Current(u)' => u = t
  BY <1>1 DEF Current, Running
<1>4. SessionTypeOK'
  BY <1>1, <1>2 DEF SessionTypeOK, ChatTypeOK
<1>5. FreshTurns'
  BY <1>1, <1>2 DEF FreshTurns
<1>6. FinishMeansOver'
  BY <1>1, <1>3 DEF FreshTurns, FinishMeansOver
<1>7. PublishedOver'
  BY <1>1, <1>3 DEF FreshTurns, PublishedOver, MarkAt
<1>8. ClosingOver'
  BY <1>1, <1>3 DEF FreshTurns, ClosingOver, ReaderAt
<1>9. ForcedOver'
  BY <1>1, <1>3 DEF FreshTurns, ForcedOver, CancelAt
<1> QED
  BY <1>4, <1>5, <1>6, <1>7, <1>8, <1>9

\* The hash is forgotten, in time or not: nothing is running then.
LEMMA ForgettingKeepsInvariant ==
  ASSUME IInv, ForgetSession \/ OutliveSession
  PROVE  IInv'
<1> USE StreamConstants DEF IInv
<1>1. UNCHANGED <<ended, mark, reader, post, cancel>> /\ meta' = NoSession /\ mortal' = FALSE
  BY DEF ForgetSession, OutliveSession
<1>2. \A u : ~Current(u)'
  BY <1>1 DEF Current, Running, NoSession
<1>3. SessionTypeOK'
  BY <1>1 DEF SessionTypeOK, ChatTypeOK, NoSession
<1>4. FreshTurns'
  BY <1>1 DEF FreshTurns, PostAt, NoSession
<1>5. FinishMeansOver' /\ PublishedOver' /\ ClosingOver' /\ ForcedOver'
  BY <1>2 DEF FinishMeansOver, PublishedOver, ClosingOver, ForcedOver, Current, Running
<1> QED
  BY <1>3, <1>4, <1>5

\* The time to live, posting the message and subscribing leave alone what the invariant is about.
LEMMA PostingKeepsInvariant ==
  ASSUME IInv,
         \/ \E t \in Turns : ExpireSession(t) \/ EnqueueTurn(t) \/ PostFails(t)
         \/ \E r \in Readers : Subscribe(r)
  PROVE  IInv'
<1> USE StreamConstants DEF IInv
<1>1. UNCHANGED <<meta, ended, mark, cancel>>
  BY DEF ExpireSession, EnqueueTurn, PostFails, Subscribe, chatVars, sharedVars
<1>2. /\ post' \in [Turns -> PostStages] /\ mortal' \in BOOLEAN
      /\ \A u \in Turns : PostAt(u, "new")' => PostAt(u, "new")
  BY DEF ExpireSession, EnqueueTurn, PostFails, Subscribe, chatVars, MovePost, PostAt, SessionTypeOK, ChatTypeOK,
         PostStages
<1>3. reader' \in [Readers -> ReaderRecord]
      /\ \A r \in Readers : /\ reader'[r].turn = reader[r].turn
                            /\ reader'[r] = reader[r] \/ reader'[r].at = "meta"
  <2>1. CASE \E t \in Turns : ExpireSession(t) \/ EnqueueTurn(t) \/ PostFails(t)
    BY <2>1 DEF ExpireSession, EnqueueTurn, PostFails, SessionTypeOK, sharedVars
  <2>2. ASSUME NEW r \in Readers, Subscribe(r)
        PROVE  <1>3!1 /\ <1>3!2
    <3>1. reader' = [reader EXCEPT ![r].at = "meta"] /\ reader[r] \in ReaderRecord
          /\ reader \in [Readers -> ReaderRecord]
      BY <2>2 DEF Subscribe, SessionTypeOK
    <3> QED
      BY <3>1 DEF ReaderRecord
  <2> QED
    BY <2>1, <2>2
<1>4. SessionTypeOK'
  BY <1>1, <1>2, <1>3 DEF SessionTypeOK, ChatTypeOK, NoSession
<1>5. FreshTurns'
  BY <1>1, <1>2, <1>3 DEF FreshTurns
<1>6. FinishMeansOver' /\ PublishedOver' /\ ForcedOver'
  BY <1>1 DEF FinishMeansOver, PublishedOver, ForcedOver, Current, Running, MarkAt, CancelAt
<1>7. ClosingOver'
  BY <1>1, <1>3 DEF ClosingOver, ReaderAt, Current, Running
<1> QED
  BY <1>4, <1>5, <1>6, <1>7

\* A cancellation remembers the turn it found, or forgets it; it settles nothing
\* before its completion does.
LEMMA CancelKeepsInvariant ==
  ASSUME IInv, NEW c \in Cancels, BeginCancel(c) \/ FindStale(c) \/ CancelStep(c) \/ CancelFails(c)
  PROVE  IInv'
<1> USE StreamConstants DEF IInv, Completers
<1>1. UNCHANGED <<meta, ended, reader, post, mortal>>
  BY DEF BeginCancel, FindStale, CancelStep, SeeStopped, ForceStop, Forced, CancelFails, sharedVars
<1>2. NoMark \in MarkRecord /\ NoMark.at = "none" /\ NoMark.turn = NoTurn
      /\ meta.turn \in Turns \cup {NoTurn}
  BY DEF NoMark, MarkRecord, SessionTypeOK, NoSession
<1>3. cancel' \in [Cancels -> CancelRecord]
      /\ cancel'[c].turn \in {cancel[c].turn, meta.turn, NoTurn}
      /\ \A d \in Cancels : d # c => cancel'[d] = cancel[d]
  <2>1. cancel \in [Cancels -> CancelRecord]
    BY DEF SessionTypeOK, ChatTypeOK
  <2>2. CASE BeginCancel(c) \/ FindStale(c)
    BY <1>2, <2>1, <2>2 DEF BeginCancel, FindStale, CancelRecord
  <2>3. CASE SeeStopped(c) \/ Forced(c) \/ CancelFails(c)
    BY <2>1, <2>3 DEF SeeStopped, Forced, CancelFails, EndCancel, CancelRecord
  <2>4. CASE ForceStop(c)
    <3>1. cancel' = [cancel EXCEPT ![c].at = "force"] /\ cancel[c] \in CancelRecord
      BY <2>1, <2>4 DEF ForceStop, MoveCancel
    <3> QED
      BY <2>1, <3>1 DEF CancelRecord
  <2> QED
    BY <2>2, <2>3, <2>4 DEF CancelStep
<1>4. /\ mark' \in [Completers -> MarkRecord]
      /\ mark'[c] = mark[c] \/ (mark'[c].at \in {"none", "swap"}
                                /\ mark'[c].turn \in {meta.turn, NoTurn})
      /\ \A w \in Completers : w # c => mark'[w] = mark[w]
  <2>1. mark \in [Completers -> MarkRecord]
    BY DEF SessionTypeOK
  <2>2. CASE BeginCancel(c) \/ SeeStopped(c)
    BY <2>1, <2>2 DEF BeginCancel, SeeStopped, sharedVars
  <2>3. CASE Forced(c) \/ CancelFails(c)
    BY <1>2, <2>1, <2>3 DEF Forced, CancelFails
  <2>4. CASE ForceStop(c) \/ FindStale(c)
    BY <1>2, <2>1, <2>4 DEF ForceStop, FindStale, MarkRead, MarkRecord
  <2> QED
    BY <2>2, <2>3, <2>4 DEF CancelStep
<1>5. SessionTypeOK'
  BY <1>1, <1>3, <1>4 DEF SessionTypeOK, ChatTypeOK, NoSession
<1>6. FreshTurns'
  <2> SUFFICES ASSUME NEW t \in Turns, PostAt(t, "new")
               PROVE  /\ meta.turn # t /\ t \notin ended
                      /\ \A w \in Completers : mark'[w].turn # t
                      /\ \A r \in Readers : reader[r].turn # t
                      /\ \A d \in Cancels : cancel'[d].turn # t
    BY <1>1 DEF FreshTurns, PostAt
  <2>1. /\ meta.turn # t /\ t \notin ended /\ NoTurn # t
        /\ \A w \in Completers : mark[w].turn # t
        /\ \A r \in Readers : reader[r].turn # t
        /\ \A d \in Cancels : cancel[d].turn # t
    BY DEF FreshTurns
  <2>2. \A w \in Completers : mark'[w].turn # t
    BY <1>4, <2>1
  <2>3. \A d \in Cancels : cancel'[d].turn # t
    BY <1>3, <2>1
  <2> QED
    BY <2>1, <2>2, <2>3
<1>7. FinishMeansOver' /\ ClosingOver'
  BY <1>1 DEF FinishMeansOver, ClosingOver, ReaderAt, Current, Running
<1>8. PublishedOver'
  BY <1>1, <1>4 DEF PublishedOver, MarkAt, Current, Running
<1>9. ForcedOver'
  <2>1. CancelAt(c, "force")' => mark'[c].at \notin {"publish", "over"}
    <3>1. CASE ForceStop(c) \/ FindStale(c)
      BY <3>1 DEF ForceStop, FindStale, MarkRead, SessionTypeOK
    <3>2. CASE BeginCancel(c) \/ SeeStopped(c) \/ Forced(c) \/ CancelFails(c)
      BY <3>2 DEF BeginCancel, SeeStopped, Forced, CancelFails, EndCancel, CancelAt, SessionTypeOK,
         ChatTypeOK
    <3> QED
      BY <3>1, <3>2 DEF CancelStep
  <2> QED
    BY <1>1, <1>3, <1>4, <2>1 DEF ForcedOver, CancelAt, Current, Running
<1> QED
  BY <1>5, <1>6, <1>7, <1>8, <1>9

-----------------------------------------------------------------------------
(* The invariant, and what follows. *)

LEMMA InitIInv == Init => IInv
<1> SUFFICES ASSUME Init
             PROVE  IInv
  OBVIOUS
<1> USE StreamConstants DEF Init, StreamsInit
<1>1. SessionTypeOK
  BY DEF SessionTypeOK, ChatTypeOK, NoMark, NoReader, MarkRecord, ReaderRecord, CancelRecord,
         PostStages
<1>2. FreshTurns
  BY DEF FreshTurns, NoSession, NoMark, NoReader
<1>3. FinishMeansOver /\ PublishedOver /\ ClosingOver /\ ForcedOver
  BY DEF FinishMeansOver, PublishedOver, ClosingOver, ForcedOver, Current, Running, NoSession
<1> QED
  BY <1>1, <1>2, <1>3 DEF IInv

LEMMA StepIInv == IInv /\ [Next]_vars => IInv'
<1> SUFFICES ASSUME IInv, [Next]_vars
             PROVE  IInv'
  OBVIOUS
<1>1. CASE RequestNext
  BY <1>1, CreateKeepsInvariant, PostingKeepsInvariant, CancelKeepsInvariant,
     ForgettingKeepsInvariant DEF RequestNext
<1>2. CASE StreamNext
  BY <1>2, CompletionKeepsInvariant, ReaderKeepsInvariant DEF StreamNext
<1>3. CASE ExecutorNext
  BY <1>3, ExecutorOnlyCompletes, ExecutorKeepsInvariant DEF IInv
<1>4. CASE UNCHANGED vars
  BY <1>4 DEF vars, sharedVars, chatVars, IInv, SessionTypeOK, ChatTypeOK, FreshTurns, PostAt,
     FinishMeansOver, PublishedOver, ClosingOver, ForcedOver, Current, Running, ReaderAt, MarkAt,
     CancelAt
<1> QED
  BY <1>1, <1>2, <1>3, <1>4 DEF Next

LEMMA IInvAlways == Spec => []IInv
  BY InitIInv, StepIInv, PTL DEF Spec

\* Whoever reads StreamFinish, and then the session, finds that the turn is not
\* running: mark_session_completed sets the status before it publishes, and only
\* the caller whose COMPLETE_SESSION_SCRIPT has set it publishes.
THEOREM SettledBeforeFinish == Spec => []FinishMeansOver
  BY IInvAlways, PTL DEF IInv

\* As long as Redis does not fail under it, the server closes a connection only for a
\* turn that is over, however replay, silence, the expiry of the hash and new turns
\* interleave with completions.  A connection that ends because Redis failed, whose
\* reader is told the same, is not meant: there the turn may be running.
THEOREM ClosedAreOver == Spec => []ClosedMeansOver
<1>1. IInv => ClosedMeansOver
  BY DEF IInv, ClosingOver, ClosedMeansOver
<1> QED
  BY <1>1, IInvAlways, PTL

\* The end of a turn is settled once, by whichever of its executions and
\* cancellations comes first.
THEOREM SettledOnce == Spec => EndsOnce
<1>1. ASSUME IInv, [Next]_vars, NEW t \in Turns, meta.turn = t, ~Running
      PROVE  meta' = meta \/ meta'.turn # t
  <2> USE <1>1, StreamConstants
  <2>1. CASE RequestNext
    BY <2>1 DEF RequestNext, CreateSession, IInv, FreshTurns, ExpireSession, EnqueueTurn, PostFails,
       Subscribe, BeginCancel, FindStale, CancelStep, SeeStopped, ForceStop, Forced, CancelFails, ForgetSession,
       OutliveSession, NoSession, sharedVars
  <2>2. CASE StreamNext
    BY <2>2 DEF StreamNext, MarkStep, MarkSwap, MarkPublish, MarkPublishFails, ReaderStep,
       ReadSession, SessionNotFound, Replay, HearFinish, CheckSession, Unsubscribe, ReaderFails, MoveReader
  <2>3. CASE ExecutorNext
    BY <2>3, ExecutorOnlyCompletes DEF IInv, ExecutorMoves
  <2>4. CASE UNCHANGED vars
    BY <2>4 DEF vars, sharedVars
  <2> QED
    BY <2>1, <2>2, <2>3, <2>4 DEF Next
<1>2. IInv /\ [Next]_vars
      => [\A t \in Turns : meta.turn = t /\ ~Running => meta' = meta \/ meta'.turn # t]_vars
  BY <1>1
<1> QED
  BY <1>2, IInvAlways, PTL DEF Spec, EndsOnce

\* cancel_session_task answers only when the turn it was asked to cancel is not
\* running any more: it has seen so, or has completed the session itself.
THEOREM CancelledHasStopped == Spec => CancelEndsTurn
<1>1. ASSUME IInv, [Next]_vars, NEW c \in Cancels, ~CancelAt(c, "done"), cancel'[c].at = "done"
      PROVE  ~(meta'.turn = cancel[c].turn /\ meta'.status = "running")
  <2> USE <1>1, StreamConstants
  <2>1. cancel' # cancel
    BY DEF CancelAt
  <2>2. ~StreamNext /\ ~ExecutorNext /\ ~UNCHANGED vars
    BY <2>1 DEF StreamNext, ExecutorNext, vars, chatVars
  <2>3. PICK d \in Cancels : BeginCancel(d) \/ FindStale(d) \/ CancelStep(d) \/ CancelFails(d)
    BY <2>1, <2>2 DEF Next, RequestNext, CreateSession, ExpireSession, EnqueueTurn, PostFails, Subscribe,
       ForgetSession, OutliveSession, chatVars
  <2>4. SeeStopped(c) \/ Forced(c)
    <3>1. cancel \in [Cancels -> CancelRecord]
      BY DEF IInv, SessionTypeOK, ChatTypeOK
    <3>2. CASE BeginCancel(d) \/ FindStale(d) \/ CancelFails(d)
      BY <3>1, <3>2 DEF BeginCancel, FindStale, CancelFails, EndCancel, CancelAt
    <3>3. CASE ForceStop(d)
      <4>1. cancel' = [cancel EXCEPT ![d].at = "force"]
        BY <3>3 DEF ForceStop, MoveCancel
      <4>2. cancel'[c].at = cancel[c].at \/ cancel'[c].at = "force"
        BY <3>1, <4>1 DEF CancelRecord
      <4> QED
        BY <4>2 DEF CancelAt
    <3>4. CASE SeeStopped(d) \/ Forced(d)
      <4>1. c # d => cancel'[c] = cancel[c]
        BY <3>1, <3>4 DEF SeeStopped, Forced, EndCancel
      <4> QED
        BY <3>4, <4>1 DEF CancelAt
    <3> QED
      BY <2>3, <3>2, <3>3, <3>4 DEF CancelStep
  <2>5. CASE SeeStopped(c)
    BY <2>5 DEF SeeStopped, sharedVars, Running
  <2>6. CASE Forced(c)
    BY <2>6 DEF Forced, IInv, ForcedOver, MarkAt, Current, Running
  <2> QED
    BY <2>4, <2>5, <2>6
<1>2. IInv /\ [Next]_vars
      => [\A c \in Cancels : ~CancelAt(c, "done") /\ cancel'[c].at = "done"
            => ~(meta'.turn = cancel[c].turn /\ meta'.status = "running")]_vars
  BY <1>1
<1> QED
  BY <1>2, IInvAlways, PTL DEF Spec, CancelEndsTurn

=============================================================================
