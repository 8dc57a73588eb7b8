---------------------------- MODULE ClusterLock ----------------------------
(***************************************************************************)
(* executor/cluster_lock.py: one Redis key with a time to live, and the    *)
(* ClusterLock objects that compete for it.  Every Redis command is a step *)
(* of its own, so two objects interleave between the commands of one call. *)
(* Time is counted in ticks: `ttl` is what remains of the key's life, and  *)
(* the timestamps of the Python objects are kept as ages.                  *)
(***************************************************************************)
EXTENDS Integers

CONSTANTS
  Locks,       \* the ClusterLock objects built for this key
  Owners,      \* executor ids
  NoOwner,     \* the key does not exist
  OwnerOf,     \* [Locks -> Owners]: the owner_id an object was built with
  Timeout,     \* the ex= of SET and EXPIRE, in ticks
  MaxGap,      \* longest time a holder lets pass between two calls
  MaxLatency,  \* longest time between two commands of one call
  FaultOps,    \* the operations whose Redis command may raise
  MaxFaults    \* how many of them do

ASSUME LockConstants ==
  /\ Owners # {} /\ NoOwner \notin Owners
  /\ OwnerOf \in [Locks -> Owners]
  /\ Timeout \in Nat \ {0} /\ MaxGap \in Nat \ {0} /\ MaxLatency \in Nat \ {0}
  /\ FaultOps \subseteq {"acquire", "refresh", "release"}
  /\ MaxFaults \in Nat

VARIABLES
  key,         \* the owner stored under the key, or NoOwner
  ttl,         \* ticks before Redis drops the key; 0 when there is none
  pc,          \* where each object is in its current call
  stamped,     \* _last_refresh # 0
  refreshAge,  \* time since _last_refresh, up to RefreshInterval
  startAge,    \* time since the current refresh read the clock, same cap
  wait,        \* time since the object's last step
  faults       \* Redis errors so far

vars == <<key, ttl, pc, stamped, refreshAge, startAge, wait, faults>>

Stages == {"idle", "stamp", "lost", "held", "peek", "get", "expire",
           "delete", "dead"}

\* The stages in which the caller runs in the belief that the lock is its own.
Holding(l) == pc[l] \in {"stamp", "held", "peek", "get", "expire"}
InCall(l) == pc[l] \in {"stamp", "lost", "peek", "get", "expire", "delete"}

\* Mutant of RefreshInterval: a fifth of the timeout.
LazyRefreshInterval == IF Timeout \div 5 > 1 THEN Timeout \div 5 ELSE 1

\* refresh_interval = max(timeout // 10, 1)
RefreshInterval == IF Timeout \div 10 > 1 THEN Timeout \div 10 ELSE 1
Older(age) == IF age < RefreshInterval THEN age + 1 ELSE age

RateLimited(l) == stamped[l] /\ refreshAge[l] < RefreshInterval

TypeOK ==
  /\ key \in Owners \cup {NoOwner}
  /\ ttl \in 0..Timeout /\ (key = NoOwner <=> ttl = 0)
  /\ pc \in [Locks -> Stages]
  /\ stamped \in [Locks -> BOOLEAN]
  /\ refreshAge \in [Locks -> 0..RefreshInterval]
  /\ startAge \in [Locks -> 0..RefreshInterval]
  /\ wait \in [Locks -> Nat]
  /\ faults \in 0..MaxFaults

Init ==
  /\ key = NoOwner /\ ttl = 0
  /\ pc = [l \in Locks |-> "idle"]
  /\ stamped = [l \in Locks |-> FALSE]
  /\ refreshAge = [l \in Locks |-> 0]
  /\ startAge = [l \in Locks |-> 0]
  /\ wait = [l \in Locks |-> 0]
  /\ faults = 0

Goto(l, stage) ==
  /\ pc' = [pc EXCEPT ![l] = stage]
  /\ wait' = [wait EXCEPT ![l] = 0]

SetKey(o) == key' = o /\ ttl' = Timeout
DropKey == key' = NoOwner /\ ttl' = 0
Stamp(l, age) ==
  /\ stamped' = [stamped EXCEPT ![l] = TRUE]
  /\ refreshAge' = [refreshAge EXCEPT ![l] = age]
Unstamp(l) == stamped' = [stamped EXCEPT ![l] = FALSE] /\ UNCHANGED refreshAge
Fault(op) == op \in FaultOps /\ faults < MaxFaults /\ faults' = faults + 1

-----------------------------------------------------------------------------
(* try_acquire *)

\* Mutant of SetSucceeds: SET without nx=True.
SetSucceedsWithoutNX(l) ==
  /\ pc[l] = "idle"
  /\ SetKey(OwnerOf[l])
  /\ Goto(l, "stamp")
  /\ UNCHANGED <<stamped, refreshAge, startAge, faults>>

\* SET key owner NX EX timeout succeeds.
SetSucceeds(l) ==
  /\ pc[l] = "idle" /\ key = NoOwner
  /\ SetKey(OwnerOf[l])
  /\ Goto(l, "stamp")
  /\ UNCHANGED <<stamped, refreshAge, startAge, faults>>

\* ... and the object notes the time, which is already later than the SET.
StampAcquired(l) ==
  /\ pc[l] = "stamp"
  /\ Stamp(l, 0)
  /\ Goto(l, "held")
  /\ UNCHANGED <<key, ttl, startAge, faults>>

\* The key exists: the call goes on to ask whose it is.
SetRefused(l) ==
  /\ pc[l] = "idle" /\ key # NoOwner
  /\ Goto(l, "lost")
  /\ UNCHANGED <<key, ttl, stamped, refreshAge, startAge, faults>>

\* Mutant of ReadOwner: a key that has vanished by now counts as acquired.
ReadOwnerVanished(l) ==
  /\ pc[l] = "lost"
  /\ Goto(l, IF key \in {OwnerOf[l], NoOwner} THEN "held" ELSE "idle")
  /\ UNCHANGED <<key, ttl, stamped, refreshAge, startAge, faults>>

\* GET: the caller takes its own id for success, whoever's SET stored it, and
\* gives up on any other answer, a vanished key included.
ReadOwner(l) ==
  /\ pc[l] = "lost"
  /\ Goto(l, IF key = OwnerOf[l] THEN "held" ELSE "idle")
  /\ UNCHANGED <<key, ttl, stamped, refreshAge, startAge, faults>>

\* A Redis error in either command ends the call with None; the SET may have
\* been carried out all the same.
AcquireFails(l) ==
  /\ Fault("acquire")
  /\ pc[l] \in {"idle", "lost"}
  /\ Goto(l, "idle")
  /\ \/ pc[l] = "idle" /\ key = NoOwner /\ SetKey(OwnerOf[l])
     \/ UNCHANGED <<key, ttl>>
  /\ UNCHANGED <<stamped, refreshAge, startAge>>

-----------------------------------------------------------------------------
(* refresh *)

\* The clock is read, and compared with _last_refresh, before any command: a
\* call within the refresh interval only checks the key ("peek").
RefreshStart(l) ==
  /\ pc[l] = "held"
  /\ startAge' = [startAge EXCEPT ![l] = 0]
  /\ Goto(l, IF RateLimited(l) THEN "peek" ELSE "get")
  /\ UNCHANGED <<key, ttl, stamped, refreshAge, faults>>

\* GET finds the key gone or another's: False.
RefreshLost(l) ==
  /\ pc[l] \in {"peek", "get"} /\ key # OwnerOf[l]
  /\ Unstamp(l)
  /\ Goto(l, "held")
  /\ UNCHANGED <<key, ttl, startAge, faults>>

\* Mutant of RefreshSeen: any owner found by GET will do.
RefreshSeenAnyOwner(l) ==
  /\ pc[l] \in {"peek", "get"} /\ key # NoOwner
  /\ Goto(l, IF pc[l] = "peek" THEN "held" ELSE "expire")
  /\ UNCHANGED <<key, ttl, stamped, refreshAge, startAge, faults>>

\* GET finds the key ours: True at once for a rate-limited call.
RefreshSeen(l) ==
  /\ pc[l] \in {"peek", "get"} /\ key = OwnerOf[l]
  /\ Goto(l, IF pc[l] = "peek" THEN "held" ELSE "expire")
  /\ UNCHANGED <<key, ttl, stamped, refreshAge, startAge, faults>>

\* Mutant of RefreshExpire: the timestamp is renewed, the time to live is not.
RefreshStampOnly(l) ==
  /\ pc[l] = "expire"
  /\ Stamp(l, startAge[l])
  /\ Goto(l, "held")
  /\ UNCHANGED <<key, ttl, startAge, faults>>

\* EXPIRE extends whatever key is there; the timestamp kept is the start's.
RefreshExpire(l) ==
  /\ pc[l] = "expire"
  /\ IF key = NoOwner THEN Unstamp(l) /\ UNCHANGED ttl
                      ELSE Stamp(l, startAge[l]) /\ ttl' = Timeout
  /\ Goto(l, "held")
  /\ UNCHANGED <<key, startAge, faults>>

\* A Redis error in either command: False, and the timestamp is cleared.  The
\* EXPIRE may have been carried out.
RefreshFails(l) ==
  /\ Fault("refresh")
  /\ pc[l] \in {"peek", "get", "expire"}
  /\ Unstamp(l)
  /\ Goto(l, "held")
  /\ \/ pc[l] = "expire" /\ key # NoOwner /\ ttl' = Timeout
     \/ UNCHANGED ttl
  /\ UNCHANGED <<key, startAge>>

-----------------------------------------------------------------------------
(* release, and the end of the process *)

\* A cleared timestamp means there is nothing to release.
ReleaseStart(l) ==
  /\ pc[l] = "held"
  /\ Goto(l, IF stamped[l] THEN "delete" ELSE "idle")
  /\ UNCHANGED <<key, ttl, stamped, refreshAge, startAge, faults>>

\* DELETE does not look at the owner.
ReleaseDelete(l) ==
  /\ pc[l] = "delete"
  /\ DropKey
  /\ Unstamp(l)
  /\ Goto(l, "idle")
  /\ UNCHANGED <<startAge, faults>>

\* A Redis error is swallowed, and the object counts as released.
ReleaseFails(l) ==
  /\ Fault("release")
  /\ pc[l] = "delete"
  /\ Unstamp(l)
  /\ Goto(l, "idle")
  /\ DropKey \/ UNCHANGED <<key, ttl>>
  /\ UNCHANGED startAge

\* The owner's process dies; a new one would have a new executor id.
Crash(l) ==
  /\ pc[l] # "dead"
  /\ Goto(l, "dead")
  /\ UNCHANGED <<key, ttl, stamped, refreshAge, startAge, faults>>

-----------------------------------------------------------------------------
(* time *)

\* How long an object may stay where it is: a caller polls refresh() at least
\* every MaxGap, and Redis answers within MaxLatency.
MayWait(l) == /\ pc[l] = "held" => wait[l] < MaxGap
              /\ InCall(l) => wait[l] < MaxLatency

Tick ==
  /\ \A l \in Locks : MayWait(l)
  /\ key' = IF ttl = 1 THEN NoOwner ELSE key
  /\ ttl' = IF ttl = 0 THEN 0 ELSE ttl - 1
  /\ refreshAge' = [l \in Locks |-> Older(refreshAge[l])]
  /\ startAge' = [l \in Locks |-> Older(startAge[l])]
  /\ wait' = [l \in Locks |-> IF pc[l] = "held" \/ InCall(l)
                               THEN wait[l] + 1 ELSE wait[l]]
  /\ UNCHANGED <<pc, stamped, faults>>

Acquire(l) == SetSucceeds(l) \/ StampAcquired(l) \/ SetRefused(l)
              \/ ReadOwner(l) \/ AcquireFails(l)
Refresh(l) == RefreshStart(l) \/ RefreshLost(l) \/ RefreshSeen(l)
              \/ RefreshExpire(l) \/ RefreshFails(l)
Release(l) == ReleaseStart(l) \/ ReleaseDelete(l) \/ ReleaseFails(l)

Next == Tick \/ \E l \in Locks : Acquire(l) \/ Refresh(l) \/ Release(l) \/ Crash(l)

Spec == Init /\ [][Next]_vars

\* Time passes, a poll in progress ends and a holder goes on polling or
\* releases; nobody has to compete for the lock, and nobody has to crash.
FairSpec ==
  /\ Spec
  /\ WF_vars(Tick)
  /\ \A l \in Locks :
       WF_vars(StampAcquired(l) \/ ReadOwner(l) \/ Refresh(l) \/ Release(l))

-----------------------------------------------------------------------------
(* properties *)

\* The discipline under which a lease cannot run out while it is held: one
\* object per executor at a time, and a Timeout that covers a rate-limited poll,
\* the wait for the next one and the commands around them.
Timely ==
  /\ \A l, m \in Locks : OwnerOf[l] = OwnerOf[m] => l = m
  /\ Timeout >= RefreshInterval + MaxGap + 4 * MaxLatency

\* "Simple Redis-based distributed lock for preventing duplicate execution":
\* two executors never both run in the belief of holding it.
MutualExclusion ==
  \A l, m \in Locks :
    Holding(l) /\ Holding(m) => OwnerOf[l] = OwnerOf[m]

\* As long as Redis has answered every command, it is so, although try_acquire,
\* refresh and the expiry of the key interleave freely.
ExclusiveUntilError == faults = 0 => MutualExclusion

\* More than that: until then, whoever believes to hold the lock is the owner
\* stored in Redis, and cannot lose it to the expiry of the key.
HolderOwnsKey ==
  faults = 0 => \A l \in Locks : Holding(l) => key = OwnerOf[l]

\* release() deletes without looking at the owner; until the first error, a slow
\* release does not delete the key of the executor that came next.
DeletesOnlyOwnKey ==
  [][\A l \in Locks :
       faults = 0 /\ ReleaseDelete(l) => key = OwnerOf[l]]_vars

\* "Refresh lock TTL if we still own it": until the first error, refresh()
\* lengthens the life of the caller's own key only, although GET and EXPIRE are
\* two commands.
RefreshesOnlyOwnKey ==
  [][\A l \in Locks :
       faults = 0 /\ RefreshExpire(l) /\ ttl' > ttl => key = OwnerOf[l]]_vars

\* The lock that the executors rely on: its owner is the value of the key, and
\* its users are the owners of the objects that count as acquired.
Promise == INSTANCE Lock WITH
  Executors <- Owners, Nobody <- NoOwner,
  owner <- key,
  users <- {OwnerOf[l] : l \in {m \in Locks : Holding(m)}},
  failed <- (faults > 0)

\* "Simple Redis-based distributed lock for preventing duplicate execution": with
\* all its commands, leases and rate-limited polls it is that lock, which only
\* changes hands when nobody works under it.
ImplementsLock == Promise!Spec

\* A key its owner no longer cares for does not block the others for ever: once
\* every object of an executor is done or dead the key goes away, although a
\* failed refresh or release leaves it behind and polls may still be under way.
Abandoned(o) ==
  \A l \in Locks : OwnerOf[l] = o => pc[l] \in {"idle", "dead"}
AbandonedKeyExpires ==
  \A o \in Owners : <>[]Abandoned(o) => <>[](key # o)

=============================================================================
