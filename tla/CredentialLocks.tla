--------------------------- MODULE CredentialLocks ---------------------------
(***************************************************************************)
(* integrations/creds_manager.py on top of autogpt_libs' keyed mutex: how  *)
(* one user's credentials are read, refreshed, used by blocks and deleted. *)
(*                                                                         *)
(* Every credential has three locks in Redis: "main" while it is in use,   *)
(* "refresh" around the question whether its tokens are about to expire,   *)
(* and a "queue" in front of the main lock for blocks, which can wait.     *)
(*                                                                         *)
(* A lock in Redis is a key that holds a random token and expires.  In a   *)
(* process, AsyncRedisKeyedMutex hands ONE redis.Lock object per key to    *)
(* all coroutines, and the object remembers only the last token that was   *)
(* set through it: whoever has the object passes its test of ownership     *)
(* while anyone's token of that object is in Redis.  The object is dropped *)
(* from the mutex as many seconds after it was made as a key lives.        *)
(***************************************************************************)
EXTENDS Naturals, Sequences, FiniteSets

CONSTANTS
  Tasks,        \* coroutines that use the credentials manager
  Managers,     \* instances of the manager, each with a mutex of its own
  ManagerOf,    \* whose coroutine a task is
  NoTask,       \* a task with nothing to do
  Creds,        \* the user's credentials
  OAuth,        \* those whose tokens expire
  Lists,        \* credentials of a node's fields, or of a graph's nodes
  Free,         \* no key in Redis
  MaxRequests,  \* how many requests are served
  MaxFaults,    \* how many processes die, replies of a provider are lost, 
                \* credentials are replaced without a lock, or a mutex makes
                \* a second object for a lock
  MaxAges       \* how often tokens come close to their expiry

ASSUME CredentialConstants ==
  /\ ManagerOf \in [Tasks -> Managers]
  /\ OAuth \subseteq Creds
  /\ Lists \subseteq Seq(Creds) \ {<< >>}
  /\ IsFiniteSet(Tasks)
  /\ MaxRequests \in Nat /\ MaxFaults \in Nat /\ MaxAges \in Nat

Locks == Creds \X {"queue", "main", "refresh"}

\* redis.Lock objects of one manager and one lock; more than that are never
\* referred to at once.
NoObject == 0
Objects == 1..(2 * Cardinality(Tasks) + 3)

VARIABLES
  key,        \* Redis: whose token each lock's key has, set through which object
  mutex,      \* AsyncRedisKeyedMutex.locks of each manager
  task,       \* what each task is doing
  held,       \* the locks a task has acquired, and their objects
  stored,     \* the tokens in the database: how often they were renewed, or 0
  issued,     \* the newest tokens the provider has issued
  aged,       \* tokens up to this one are about to expire
  begun,      \* requests so far
  faults,     \* faults so far
  ages,       \* how often tokens have aged so far
  lapsed,     \* history variable: locks that expired in their holder's hands,
              \* until all who hold them then have let go
  leaked,     \* history variable: locks whose holder ended without releasing
  strayed,    \* history variable: credentials deleted without the main lock,
              \* or whose newest tokens are not those in the database
  bypassed    \* history variable: credentials renewed without the main lock
              \* since it was last taken

redis == <<key, mutex, held, lapsed, leaked>>
tokens == <<stored, issued, aged, ages, strayed, bypassed>>
vars == <<redis, tokens, task, begun, faults>>

-----------------------------------------------------------------------------
(* Keyed mutex. *)

Idle(t) == task[t] = NoTask
At(t, stage) == ~Idle(t) /\ task[t].at = stage
Cred(t) == Head(task[t].creds)
Main(c) == <<c, "main">>
Holds(t, l) == held[t][l] # NoObject
Held(t) == {l \in Locks : Holds(t, l)}

\* The lock a task waits for, by its stage.
Awaited(t) ==
  <<Cred(t), CASE task[t].at = "queue" -> "queue"
               [] task[t].at = "refresh" -> "refresh"
               [] OTHER -> "main">>

Awaits(t, l) == ~Idle(t) /\ task[t].via # NoObject /\ Awaited(t) = l

\* Somebody holds, awaits or has left a key with this object of his manager.
Refers(t, l, o) ==
  held[t][l] = o \/ (~Idle(t) /\ task[t].via = o) \/ key[l] = [by |-> t, via |-> o]

Referred(m, l, o) == \E t \in Tasks : ManagerOf[t] = m /\ Refers(t, l, o)

ReferredByOthers(t, l, o) ==
  \E u \in Tasks \ {t} : ManagerOf[u] = ManagerOf[t] /\ Refers(u, l, o)

\* An object nobody has, and no key in Redis was set through.
Fresh(m, l) == CHOOSE o \in Objects : mutex[m][l] # o /\ ~Referred(m, l, o)

\* The task's copies of credentials: it reads one in the database, or, for a
\* graph, all of them once.
Known(t) ==
  LET c == Cred(t) copy == task[t].copy IN
  CASE task[t].at = "read" /\ task[t].op # "cached" -> [copy EXCEPT ![c] = stored[c]]
    [] task[t].at = "read" /\ task[t].op = "cached" /\ \A d \in Creds : copy[d] = 0 ->
         stored
    [] OTHER -> copy

\* acquire(): the object is looked up or made, and the task starts to wait.  Where
\* somebody still refers to an object that has lived its 60 seconds, there are
\* two from now on.  (Else the new one makes no difference.)
Ask(t, l, stage) ==
  LET m == ManagerOf[t] IN
  \E o \in {mutex[m][l], Fresh(m, l)} \ {NoObject} :
    /\ task' = [task EXCEPT ![t].at = stage, ![t].via = o, ![t].copy = Known(t)]
    /\ mutex' = [mutex EXCEPT ![m][l] = o]
    /\ IF mutex[m][l] \in {NoObject, o} THEN faults' = faults
       ELSE /\ Referred(m, l, mutex[m][l])
            /\ faults < MaxFaults /\ faults' = faults + 1

\* Mutant of Take: SET without NX.
TakeAnyway(t, l) ==
  /\ key' = [key EXCEPT ![l] = [by |-> t, via |-> task[t].via]]
  /\ held' = [held EXCEPT ![t][l] = task[t].via]

\* SET NX succeeds; the object remembers the token.
Take(t, l) ==
  /\ key[l] = Free
  /\ key' = [key EXCEPT ![l] = [by |-> t, via |-> task[t].via]]
  /\ held' = [held EXCEPT ![t][l] = task[t].via]

\* Mutant of Owned: the object is looked up in the mutex again.
OwnedByMutex(t, l) ==
  /\ key[l] # Free
  /\ ManagerOf[key[l].by] = ManagerOf[t]
  /\ key[l].via = mutex[ManagerOf[t]][l]

\* lock.locked() and lock.owned(), of the object the task was given.
Owned(t, l) ==
  /\ key[l] # Free
  /\ ManagerOf[key[l].by] = ManagerOf[t]
  /\ key[l].via = held[t][l]

\* Somebody else holds the lock, too.
HeldByOthers(t, l) == \E u \in Tasks \ {t} : Holds(u, l)

\* The release at the end of a `finally`.  If the key expires between the
\* question and the release, the script that deletes it refuses.
Release(t, l) ==
  /\ key' = IF Owned(t, l) THEN [key EXCEPT ![l] = Free] ELSE key
  /\ held' = [held EXCEPT ![t][l] = NoObject]
  /\ leaked' = IF Owned(t, l) THEN leaked \ {l} ELSE leaked
  /\ lapsed' = {k \in lapsed : k = l => HeldByOthers(t, k)}
  /\ mutex' = [mutex EXCEPT ![ManagerOf[t]][l] =
                 IF ReferredByOthers(t, l, @) THEN @ ELSE NoObject]

\* Mutant of Expire: the mutex is made with timeout=None.
ExpireNever(l) == FALSE /\ UNCHANGED vars

\* Where a task may spend 60 seconds: in a block, at the provider, and waiting.
Slow == {"using", "renew", "queue", "main", "refresh", "claim"}

\* The key has lived its 60 seconds, and so has the object it was set through.
\* (It makes no difference before somebody waits for the lock.)
Expire(l) ==
  /\ key[l] # Free
  /\ \E t \in Tasks : Awaits(t, l)
  /\ Holds(key[l].by, l) => task[key[l].by].at \in Slow
  /\ key' = [key EXCEPT ![l] = Free]
  /\ mutex' = [mutex EXCEPT ![ManagerOf[key[l].by]][l] =
                 IF @ = key[l].via THEN NoObject ELSE @]
  /\ lapsed' = IF Holds(key[l].by, l) THEN lapsed \cup {l} ELSE lapsed
  /\ leaked' = leaked \ {l}
  /\ UNCHANGED <<held, tokens, task, begun, faults>>

-----------------------------------------------------------------------------
(* Requests. *)

Go(t, stage) == task' = [task EXCEPT ![t].at = stage, ![t].via = NoObject]

HoldsNothing == [l \in Locks |-> NoObject]

\* Locks are left to expire.
Leave(t, locks) ==
  /\ held' = [held EXCEPT ![t] = [l \in Locks |-> IF l \in locks THEN NoObject ELSE @[l]]]
  /\ leaked' = leaked \cup {l \in locks : key[l] # Free /\ key[l].by = t}
  /\ lapsed' = {l \in lapsed : l \in locks => HeldByOthers(t, l)}
  /\ UNCHANGED <<key, mutex>>

\* The request ends, whatever it still holds.
End(t) == task' = [task EXCEPT ![t] = NoTask] /\ Leave(t, Held(t))

\* The coroutines of one manager are alike: it does not matter which begins.
Begin(t) ==
  /\ Idle(t) /\ begun < MaxRequests
  /\ t = CHOOSE u \in Tasks : ManagerOf[u] = ManagerOf[t] /\ Idle(u)
  /\ begun' = begun + 1
  /\ UNCHANGED <<redis, tokens, faults>>

Request(op, creds, at) ==
  [op |-> op, creds |-> creds, at |-> at, via |-> NoObject,
   copy |-> [c \in Creds |-> 0], fresh |-> 0]

\* A node is executed: it acquires the credentials of its fields one by one.  No
\* two fields name the same credential here.
ExecuteNode(t, list) ==
  /\ \A i, j \in DOMAIN list : list[i] = list[j] => i = j
  /\ Begin(t)
  /\ task' = [task EXCEPT ![t] = Request("use", list, "next")]

\* get() of one credential, without using it here.
Get(t, c) ==
  /\ Begin(t)
  /\ task' = [task EXCEPT ![t] = Request("get", <<c>>, "read")]

\* get(lock=False): the copilot fetches a credential for a command or a block of
\* its own, which works on the copy under no lock.
Peek(t, c) ==
  /\ Begin(t)
  /\ task' = [task EXCEPT ![t] = Request("peek", <<c>>, "read")]

\* A graph is saved or deactivated: its nodes' credentials, from one snapshot.
Activate(t, list) ==
  /\ Begin(t)
  /\ task' = [task EXCEPT ![t] = Request("cached", list, "read")]

Delete(t, c) ==
  /\ Begin(t)
  /\ task' = [task EXCEPT ![t] = Request("delete", <<c>>, "read")]

\* The MCP login removes older credentials without a lock.
ReplaceMCP(c) ==
  /\ c \in OAuth /\ stored[c] # 0
  /\ faults < MaxFaults /\ faults' = faults + 1
  /\ stored' = [stored EXCEPT ![c] = 0]
  /\ strayed' = strayed \cup {c}
  /\ UNCHANGED <<redis, issued, aged, ages, bypassed, task, begun>>

-----------------------------------------------------------------------------
(* acquire(), for the next of the node's fields. *)

NextField(t) ==
  /\ At(t, "next")
  /\ IF task[t].creds = << >>
     THEN Go(t, "using") /\ UNCHANGED <<mutex, faults>>
     ELSE Ask(t, <<Cred(t), "queue">>, "queue")
  /\ UNCHANGED <<key, held, lapsed, leaked, tokens, begun>>

TakeQueue(t) ==
  /\ At(t, "queue")
  /\ Take(t, Awaited(t))
  /\ Ask(t, Main(Cred(t)), "main")
  /\ UNCHANGED <<lapsed, leaked, tokens, begun>>

\* Whoever takes the main lock finds what was renewed without it before, if that
\* has been saved.
Retaken(c) == IF stored[c] \in {0, issued[c]} THEN bypassed \ {c} ELSE bypassed

TakeMain(t) ==
  /\ At(t, "main")
  /\ Take(t, Awaited(t))
  /\ Go(t, "unqueue")
  /\ bypassed' = Retaken(Cred(t))
  /\ UNCHANGED <<mutex, lapsed, leaked, stored, issued, aged, ages, strayed,
                 begun, faults>>

LeaveQueue(t) ==
  /\ At(t, "unqueue")
  /\ Release(t, <<Cred(t), "queue">>)
  /\ Go(t, "read")
  /\ UNCHANGED <<tokens, begun, faults>>

-----------------------------------------------------------------------------
(* get() and what the cached getter returns. *)

IsLast(t) == Len(task[t].creds) = 1

\* The credential in hand is done with.
Proceed(t) ==
  LET q == task[t] IN
  task' = [task EXCEPT ![t] =
    IF q.op # "use" /\ IsLast(t) THEN NoTask
    ELSE [q EXCEPT !.creds = Tail(q.creds), !.copy = Known(t), !.fresh = 0,
                   !.at = IF q.op = "use" THEN "next" ELSE "read"]]

\* It failed: a node whose field has a default runs without the credential, but
\* nobody releases its lock any more; any other request ends with the exception.
GiveUp(t) ==
  \/ End(t)
  \/ task[t].op = "use" /\ Proceed(t) /\ Leave(t, {Main(Cred(t))} \cap Held(t))

\* The credential is not there, or its tokens do not expire.
Read(t) ==
  /\ At(t, "read")
  /\ LET c == Cred(t) IN
     \/ Known(t)[c] = 0 /\ GiveUp(t)
     \/ /\ IF Known(t)[c] = 0 THEN task[t].op = "cached"
           ELSE task[t].op # "delete" /\ c \notin OAuth
        /\ Proceed(t) /\ UNCHANGED redis
  /\ UNCHANGED <<tokens, begun, faults>>

\* The tokens may be about to expire, or the credential is to be deleted.
ReadAndLock(t) ==
  /\ At(t, "read")
  /\ LET c == Cred(t) IN
     /\ Known(t)[c] # 0
     /\ \/ c \in OAuth /\ task[t].op # "delete" /\ Ask(t, <<c, "refresh">>, "refresh")
        \/ task[t].op = "delete" /\ Ask(t, Main(c), "claim")
  /\ UNCHANGED <<key, held, lapsed, leaked, tokens, begun>>

NeedsRefresh(t) == task[t].copy[Cred(t)] <= aged[Cred(t)]

\* refresh_if_needed(lock=True).  A node has the main lock already; the copilot
\* does without it.
Locking(t) == task[t].op \in {"get", "cached"}

\* Mutant of TakeRefresh: nobody waits until the credential is out of use.
TakeRefreshAndRenew(t) ==
  /\ At(t, "refresh")
  /\ Take(t, Awaited(t))
  /\ mutex' = mutex
  /\ Go(t, IF NeedsRefresh(t) THEN "renew" ELSE "unrefresh")
  /\ UNCHANGED <<lapsed, leaked, tokens, begun, faults>>

\* refresh_if_needed() has its lock, and looks at the credential it was given.
TakeRefresh(t) ==
  /\ At(t, "refresh")
  /\ Take(t, Awaited(t))
  /\ IF NeedsRefresh(t) /\ Locking(t)
     THEN Ask(t, Main(Cred(t)), "claim")
     ELSE /\ Go(t, IF NeedsRefresh(t) THEN "renew" ELSE "unrefresh")
          /\ UNCHANGED <<mutex, faults>>
  /\ UNCHANGED <<lapsed, leaked, tokens, begun>>

\* The credential is no longer in use anywhere.
TakeClaim(t) ==
  /\ At(t, "claim")
  /\ Take(t, Awaited(t))
  /\ Go(t, IF task[t].op = "delete" THEN "remove" ELSE "renew")
  /\ bypassed' = Retaken(Cred(t))
  /\ UNCHANGED <<mutex, lapsed, leaked, stored, issued, aged, ages, strayed,
                 begun, faults>>

Bypass(t) == IF task[t].op = "peek" THEN bypassed \cup {Cred(t)} ELSE bypassed

\* The provider exchanges the refresh token, an old one perhaps too.
Renew(t) ==
  /\ At(t, "renew")
  /\ LET c == Cred(t) IN
     /\ issued' = [issued EXCEPT ![c] = @ + 1]
     /\ task' = [task EXCEPT ![t].fresh = issued[c] + 1, ![t].at = "save"]
  /\ bypassed' = Bypass(t)
  /\ UNCHANGED <<redis, stored, aged, ages, strayed, begun, faults>>

\* The provider refuses or does not answer; or its answer is lost.
RenewFails(t) ==
  /\ At(t, "renew")
  /\ Go(t, "unwind")
  /\ LET c == Cred(t) IN
     \/ UNCHANGED <<issued, strayed, faults>>
     \/ /\ faults < MaxFaults /\ faults' = faults + 1
        /\ issued' = [issued EXCEPT ![c] = @ + 1]
        /\ strayed' = strayed \cup {c}
  /\ UNCHANGED <<redis, stored, aged, ages, bypassed, begun>>

\* The copies after a renewal: the snapshot of a cached getter stays as it was.
Renewed(t) ==
  IF task[t].op = "cached" THEN task[t].copy
  ELSE [task[t].copy EXCEPT ![Cred(t)] = task[t].fresh]

\* update_creds() of the store.
Save(t) ==
  /\ At(t, "save")
  /\ LET c == Cred(t) IN
     IF stored[c] = 0 THEN Go(t, "unwind") /\ UNCHANGED <<stored, strayed, bypassed>>
     ELSE /\ stored' = [stored EXCEPT ![c] = task[t].fresh]
          /\ strayed' = IF task[t].fresh = issued[c] THEN strayed
                        ELSE strayed \cup {c}
          /\ bypassed' = Bypass(t)
          /\ task' = [task EXCEPT
               ![t].copy = Renewed(t),
               ![t].at = IF Locking(t) THEN "unclaim" ELSE "unrefresh"]
  /\ UNCHANGED <<redis, issued, aged, ages, begun, faults>>

ReleaseClaim(t) ==
  /\ At(t, "unclaim")
  /\ Release(t, Main(Cred(t)))
  /\ Go(t, "unrefresh")
  /\ UNCHANGED <<tokens, begun, faults>>

\* The refresh lock is released, after an exception too, and only that.
ReleaseRefresh(t) ==
  /\ \/ At(t, "unrefresh") /\ Proceed(t)
     \/ At(t, "unwind") /\ Go(t, "failed")
  /\ Release(t, <<Cred(t), "refresh">>)
  /\ UNCHANGED <<tokens, begun, faults>>

Raise(t) ==
  /\ At(t, "failed")
  /\ GiveUp(t)
  /\ UNCHANGED <<tokens, begun, faults>>

-----------------------------------------------------------------------------
(* Deletion, and the end of a node. *)

Remove(t) ==
  /\ At(t, "remove")
  /\ stored' = [stored EXCEPT ![Cred(t)] = 0]
  /\ Go(t, "removed")
  /\ UNCHANGED <<redis, issued, aged, ages, strayed, bypassed, begun, faults>>

Removed(t) ==
  /\ At(t, "removed")
  /\ Release(t, Main(Cred(t)))
  /\ task' = [task EXCEPT ![t] = NoTask]
  /\ UNCHANGED <<tokens, begun, faults>>

\* The block has returned or raised: its locks are released one by one.
ReleaseNode(t) ==
  /\ At(t, "using")
  /\ \/ /\ Held(t) # {}
        /\ \E l \in Held(t) : Release(t, l)
        /\ Go(t, "using")
     \/ Held(t) = {} /\ End(t)
  /\ UNCHANGED <<tokens, begun, faults>>

-----------------------------------------------------------------------------
Age(c) ==
  /\ c \in OAuth /\ ages < MaxAges
  /\ aged[c] < issued[c]
  /\ aged' = [aged EXCEPT ![c] = issued[c]]
  /\ ages' = ages + 1
  /\ UNCHANGED <<redis, stored, issued, strayed, bypassed, task, begun, faults>>

\* The process of a manager dies.
Crash(m) ==
  LET gone == {t \in Tasks : ManagerOf[t] = m} IN
  /\ faults < MaxFaults /\ faults' = faults + 1
  /\ \E t \in gone : ~Idle(t)
  /\ task' = [t \in Tasks |-> IF t \in gone THEN NoTask ELSE task[t]]
  /\ held' = [t \in Tasks |-> IF t \in gone THEN HoldsNothing ELSE held[t]]
  /\ leaked' = leaked \cup {l \in Locks : key[l] # Free /\ key[l].by \in gone}
  /\ lapsed' = {l \in lapsed : \E t \in Tasks \ gone : Holds(t, l)}
  /\ mutex' = [mutex EXCEPT ![m] = HoldsNothing]
  /\ strayed' = strayed \cup {Cred(t) : t \in {u \in gone : At(u, "save")}}
  /\ UNCHANGED <<key, stored, issued, aged, ages, bypassed, begun>>

Init ==
  /\ key = [l \in Locks |-> Free]
  /\ mutex = [m \in Managers |-> HoldsNothing]
  /\ task = [t \in Tasks |-> NoTask]
  /\ held = [t \in Tasks |-> HoldsNothing]
  /\ stored = [c \in Creds |-> 1] /\ issued = [c \in Creds |-> 1]
  /\ aged = [c \in Creds |-> 0]
  /\ begun = 0 /\ faults = 0 /\ ages = 0
  /\ lapsed = {} /\ leaked = {} /\ strayed = {} /\ bypassed = {}

Step(t) ==
  \/ NextField(t)
  \/ TakeQueue(t)
  \/ TakeMain(t)
  \/ LeaveQueue(t)
  \/ Read(t)
  \/ ReadAndLock(t)
  \/ TakeRefresh(t)
  \/ TakeClaim(t)
  \/ Renew(t)
  \/ RenewFails(t)
  \/ Save(t)
  \/ ReleaseClaim(t)
  \/ ReleaseRefresh(t)
  \/ Raise(t)
  \/ Remove(t)
  \/ Removed(t)
  \/ ReleaseNode(t)

Serve(t) ==
  \/ \E list \in Lists : ExecuteNode(t, list) \/ Activate(t, list)
  \/ \E c \in Creds : Get(t, c) \/ Peek(t, c) \/ Delete(t, c)

Next ==
  \/ \E t \in Tasks : Step(t) \/ Serve(t)
  \/ \E l \in Locks : Expire(l)
  \/ \E c \in Creds : ReplaceMCP(c) \/ Age(c)
  \/ \E m \in Managers : Crash(m)

Spec == Init /\ [][Next]_vars

\* Coroutines that can go on do, blocks return, and keys in Redis expire.
FairSpec ==
  /\ Spec
  /\ WF_vars(\E t \in Tasks : Step(t))
  /\ WF_vars(\E l \in Locks : Expire(l))

-----------------------------------------------------------------------------
RequestType(gens) ==
  [op : {"use", "get", "peek", "cached", "delete"}, creds : Seq(Creds),
   at : {"next", "queue", "main", "unqueue", "read", "refresh",
         "claim", "renew", "save", "unclaim", "unrefresh", "unwind",
         "failed", "using", "remove", "removed"},
   via : Objects \cup {NoObject}, copy : [Creds -> gens], fresh : gens]

ASSUME MarkersDiffer ==
  /\ NoTask \notin RequestType(Nat)
  /\ Free \notin [by : Tasks, via : Objects]

\* Redis, the mutexes and the tasks are well-formed, and a task that is between
\* two fields or has a credential in hand knows which.
TypeOK ==
  /\ key \in [Locks -> [by : Tasks, via : Objects] \cup {Free}]
  /\ mutex \in [Managers -> [Locks -> Objects \cup {NoObject}]]
  /\ task \in [Tasks -> RequestType(Nat) \cup {NoTask}]
  /\ held \in [Tasks -> [Locks -> Objects \cup {NoObject}]]
  /\ \A t \in Tasks :
       /\ ~Idle(t) /\ task[t].at \notin {"next", "using"} => task[t].creds # << >>
       /\ ~Idle(t) /\ task[t].at \in {"queue", "main", "refresh", "claim"} =>
            task[t].via # NoObject
       /\ Idle(t) => Held(t) = {}
  /\ {stored, issued, aged} \subseteq [Creds -> Nat]
  /\ begun \in 0..MaxRequests /\ faults \in 0..MaxFaults /\ ages \in 0..MaxAges
  /\ lapsed \subseteq Locks /\ leaked \subseteq Locks
  /\ strayed \subseteq Creds /\ bypassed \subseteq Creds

\* As long as no key of a lock has expired in its holder's hands, the lock has
\* one holder.  (After that it may have several, and one of them who shares the
\* redis.Lock object with another releases the other's key.)
Exclusive ==
  \A l \in Locks \ lapsed : \A t, u \in Tasks :
    Holds(t, l) /\ Holds(u, l) => t = u

\* A block with its lock in hand runs with the tokens that are stored and that
\* the provider issued last, however refreshes, deletions and other blocks
\* interleave.  Four things end that: its lock has expired before it was done;
\* somebody renewed the tokens without the main lock meanwhile (UsedIsCurrent is
\* about that); the credential was replaced without a lock by an MCP login; or
\* new tokens never reached the database, or in the wrong order, after a lost
\* answer, a crash, or a refresh lock that expired.
LockKeepsCurrent ==
  \A t \in Tasks : \A c \in Creds :
    (/\ At(t, "using") /\ Holds(t, Main(c)) /\ Main(c) \notin lapsed
     /\ c \notin strayed \cup bypassed) =>
      task[t].copy[c] = stored[c] /\ stored[c] = issued[c]

\* "We MUST lock credentials while in use to prevent them from being invalidated
\* while they are in use": as long as nothing fails and no lock expires, nobody
\* renews the tokens of a block at work.  NOT satisfied: get(lock=False) renews
\* them without asking for the block's lock.
UsedIsCurrent ==
  \A t \in Tasks : \A c \in Creds :
    At(t, "using") /\ Holds(t, Main(c)) /\ lapsed = {} /\ faults = 0 =>
      task[t].copy[c] = issued[c]

\* A lock is only left to its 60 seconds by a process that died or a request that
\* failed; whoever ends well has released what he took, also where the mutex
\* has made a new object for the lock meanwhile.
NothingLeftLocked ==
  \A l \in Locks \ leaked : key[l] # Free => Holds(key[l].by, l)

\* Blocks that wait for each other's credentials, a block that waits for a
\* refresh that waits for the block, and locks nobody will release: every
\* request ends, because keys expire.  (Requests stop coming here.)
RequestsEnd == []<>(\A t \in Tasks : Idle(t))

\* "prevent unnecessary sequential refreshes when multiple executions try to
\* access the same credentials simultaneously": whoever renews tokens renews
\* those that are stored.  NOT satisfied, whether a cached getter asks or not:
\* the copy that is examined under the refresh lock was read before.
RenewedOnce ==
  \A t \in Tasks : \A c \in Creds :
    (/\ At(t, "renew") /\ Cred(t) = c
     /\ stored[c] # 0 /\ c \notin strayed /\ lapsed = {}) =>
      task[t].copy[c] = stored[c]
=============================================================================
