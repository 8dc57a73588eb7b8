--------------------------- MODULE CopilotStreams ---------------------------
(***************************************************************************)
(* copilot/stream_registry.py: what the API servers and the executor pods  *)
(* of the copilot share about one chat session.                            *)
(*                                                                         *)
(* A message of the user is a turn, with an id of its own.  The registry   *)
(* keeps one hash per session, which every new turn overwrites, and one    *)
(* stream of chunks per turn.  Of a stream only the last chunk is          *)
(* modelled, StreamFinish; what the model writes before it is text.        *)
(***************************************************************************)
EXTENDS Naturals, FiniteSets

CONSTANTS
  Turns,      \* the turns of the session, numbered as they are posted
  NoTurn,     \* no turn: the session has no hash
  Slots,      \* the executions of a turn there can be at a time
  Cancels,    \* requests to cancel what the session is doing
  Readers,    \* connections of the user's browser that read the answer
  Budget      \* [Troubles -> Nat]: how often each kind of trouble strikes

Troubles == {"crash",     \* an executor pod dies
             "drain",     \* an executor pod is told to shut down
             "net",       \* an executor pod loses its connection to RabbitMQ
             "redis",     \* a Redis command fails
             "lapse",     \* a lock expires although its holder is at work
             "request",   \* a request fails midway, or its API server dies
             "hour"}      \* a turn takes longer than its session's hash lives

ASSUME StreamConstants ==
  /\ Turns \subseteq Nat /\ NoTurn \notin Turns
  /\ Slots \cap Cancels = {}
  /\ Slots \subseteq Nat /\ IsFiniteSet(Slots)
  /\ Budget \in [Troubles -> Nat]

VARIABLES
  meta,       \* the hash of the session: its last turn and its status
  ended,      \* the turns whose stream has its StreamFinish
  mark,       \* calls of mark_session_completed, by an execution or a request
  reader,     \* subscriptions to the session
  ready,      \* run messages in the queue, per turn
  cancels,    \* messages in the cancel queue; they name the session only
  lost,       \* history: turns given up without being ended
  spent       \* troubles so far

sharedVars == <<meta, ended, mark, reader, ready, cancels, lost, spent>>

NoSession == [turn |-> NoTurn, status |-> "absent"]
NoMark == [at |-> "none", turn |-> NoTurn, to |-> "failed"]
OverMark == [NoMark EXCEPT !.at = "over"]
NoReader == [at |-> "idle", turn |-> NoTurn, live |-> FALSE]

Completers == Slots \cup Cancels
MarkRecord == [at : {"none", "swap", "publish", "over"},
               turn : Turns \cup {NoTurn}, to : {"completed", "failed"}]
ReaderRecord == [at : {"idle", "meta", "replay", "listen", "closed", "failed", "gone"},
                 turn : Turns \cup {NoTurn}, live : BOOLEAN]

StreamsTypeOK ==
  /\ \/ meta = NoSession
     \/ meta \in [turn : Turns, status : {"running", "completed", "failed"}]
  /\ ended \in SUBSET Turns
  /\ mark \in [Completers -> MarkRecord]
  /\ reader \in [Readers -> ReaderRecord]
  /\ ready \in [Turns -> Nat]
  /\ cancels \in Nat
  /\ lost \in SUBSET Turns
  /\ spent \in [Troubles -> Nat]

StreamsInit ==
  /\ meta = NoSession
  /\ ended = {}
  /\ mark = [w \in Completers |-> NoMark]
  /\ reader = [r \in Readers |-> NoReader]
  /\ ready = [t \in Turns |-> 0]
  /\ cancels = 0
  /\ lost = {}
  /\ spent = [k \in Troubles |-> 0]

Spend(k) == spent[k] < Budget[k] /\ spent' = [spent EXCEPT ![k] = @ + 1]

Running == meta.status = "running"

\* The session says that it is working on this turn.
Current(t) == meta.turn = t /\ Running

-----------------------------------------------------------------------------
(* mark_session_completed, called for the session, not for a turn *)

MarkAt(w, at) == mark[w].at = at

\* A caller reads the hash to learn the turn to publish to.
MarkRead(w, to) == mark' = [mark EXCEPT ![w] = [at |-> "swap", turn |-> meta.turn, to |-> to]]

\* Mutant: the status is set whatever it was.
MarkSwapAlways(w) ==
  /\ MarkAt(w, "swap") /\ meta # NoSession
  /\ meta' = [meta EXCEPT !.status = mark[w].to]
  /\ mark' = [mark EXCEPT ![w].at = "publish"]
  /\ UNCHANGED <<ended, reader, ready, cancels, lost, spent>>

\* Mutant: StreamFinish is published before the status is set.
MarkFinishFirst(w) ==
  /\ MarkAt(w, "swap")
  /\ ended' = ended \cup ({mark[w].turn} \ {NoTurn})
  /\ mark' = [mark EXCEPT ![w].at = "publish"]
  /\ UNCHANGED <<meta, reader, ready, cancels, lost, spent>>

\* COMPLETE_SESSION_SCRIPT: whatever turn is running now is ended; if none is,
\* the call is over.
MarkSwap(w) ==
  /\ MarkAt(w, "swap")
  /\ IF Running
     THEN /\ meta' = [meta EXCEPT !.status = mark[w].to]
          /\ mark' = [mark EXCEPT ![w].at = "publish"]
     ELSE /\ mark' = [mark EXCEPT ![w] = OverMark]
          /\ UNCHANGED meta
  /\ UNCHANGED <<ended, reader, ready, cancels, lost, spent>>

\* StreamFinish goes to the stream of the turn that was read.  Without a hash
\* that was the session's own id, under which there is no reader.
MarkPublish(w) ==
  /\ MarkAt(w, "publish")
  /\ ended' = ended \cup ({mark[w].turn} \ {NoTurn})
  /\ mark' = [mark EXCEPT ![w] = OverMark]
  /\ UNCHANGED <<meta, reader, ready, cancels, lost, spent>>

\* A chunk that cannot be published is not tried again.
MarkPublishFails(w) ==
  /\ MarkAt(w, "publish")
  /\ Spend("redis")
  /\ mark' = [mark EXCEPT ![w] = OverMark]
  /\ UNCHANGED <<meta, ended, reader, ready, cancels, lost>>

MarkStep(w) == MarkSwap(w) \/ MarkPublish(w)

-----------------------------------------------------------------------------
(* subscribe_to_session, _stream_listener and the generator that reads them *)

ReaderAt(r, at) == reader[r].at = at
MoveReader(r, at) ==
  /\ reader' = [reader EXCEPT ![r].at = at]
  /\ UNCHANGED <<meta, ended, mark, ready, cancels, lost, spent>>

\* The turn and the status of the session are read.
ReadSession(r) ==
  /\ ReaderAt(r, "meta") /\ meta # NoSession
  /\ reader' = [reader EXCEPT ![r] =
       [at |-> "replay", turn |-> meta.turn, live |-> Running]]
  /\ UNCHANGED <<meta, ended, mark, ready, cancels, lost, spent>>

\* The session is not found, at the second try at the latest.
SessionNotFound(r) ==
  /\ ReaderAt(r, "meta") /\ meta = NoSession
  /\ MoveReader(r, "closed")

\* The stream is replayed.  Its StreamFinish closes the connection, as does the
\* one that is added when the session was not running.
Replay(r) ==
  /\ ReaderAt(r, "replay")
  /\ MoveReader(r, IF reader[r].live /\ reader[r].turn \notin ended
                   THEN "listen" ELSE "closed")

\* StreamFinish arrives.
HearFinish(r) ==
  /\ ReaderAt(r, "listen") /\ reader[r].turn \in ended
  /\ MoveReader(r, "closed")

\* Mutant: the listener goes on when the session's hash has expired.
CheckSessionForever(r) ==
  /\ ReaderAt(r, "listen") /\ ~Running /\ meta # NoSession
  /\ MoveReader(r, "closed")

\* Mutant: the listener closes after a silence.
CheckSessionNever(r) ==
  /\ ReaderAt(r, "listen")
  /\ MoveReader(r, "closed")

\* Nothing arrives for five seconds: the listener looks at the status of the
\* session, and goes on while it is running.
CheckSession(r) ==
  /\ ReaderAt(r, "listen") /\ ~Running
  /\ MoveReader(r, "closed")

Connected(r) == reader[r].at \in {"meta", "replay", "listen"}

\* Redis fails under the subscription, the listener or the generator, as often as
\* it likes: the reader is handed a StreamFinish all the same and the response ends.
ReaderFails(r) == Connected(r) /\ MoveReader(r, "failed")

\* The browser goes away.
Unsubscribe(r) == Connected(r) /\ MoveReader(r, "gone")

ReaderStep(r) == ReadSession(r) \/ SessionNotFound(r) \/ Replay(r)
                 \/ HearFinish(r) \/ CheckSession(r)

=============================================================================
