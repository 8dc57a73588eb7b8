------------------------- MODULE ClusterLockProofs -------------------------
(***************************************************************************)
(* Proofs about ClusterLock: the types, and, under the discipline Timely   *)
(* and until the first Redis error, that a holder always owns the key,     *)
(* that holders exclude one another, and that ClusterLock implements Lock, *)
(* for every number of executors and every timeout.                        *)
(***************************************************************************)
EXTENDS ClusterLock, TLAPS

USE DEF Stages

\* The refresh interval is a positive number of ticks.
LEMMA IntervalIsPositive == RefreshInterval \in Nat /\ RefreshInterval >= 1
BY LockConstants DEF RefreshInterval

\* The types are inductive.
LEMMA TypeIsKept == TypeOK /\ [Next]_vars => TypeOK'
<1> SUFFICES ASSUME TypeOK, [Next]_vars PROVE TypeOK'
  OBVIOUS
<1> USE LockConstants, IntervalIsPositive DEF TypeOK
<1>1. CASE UNCHANGED vars
  BY <1>1 DEF vars
<1>2. CASE Tick
  BY <1>2 DEF Tick, Older
<1>3. ASSUME NEW l \in Locks, Acquire(l) PROVE TypeOK'
  <2>1. CASE SetSucceeds(l)
    BY <2>1 DEF SetSucceeds, Goto, SetKey
  <2>2. CASE StampAcquired(l)
    BY <2>2 DEF StampAcquired, Goto, Stamp
  <2>3. CASE SetRefused(l) \/ ReadOwner(l)
    BY <2>3 DEF SetRefused, ReadOwner, Goto
  <2>4. CASE AcquireFails(l)
    BY <2>4 DEF AcquireFails, Goto, SetKey, Fault
  <2>5. QED
    BY <1>3, <2>1, <2>2, <2>3, <2>4 DEF Acquire
<1>4. ASSUME NEW l \in Locks, Refresh(l) PROVE TypeOK'
  <2>1. CASE RefreshStart(l)
    BY <2>1 DEF RefreshStart, Goto
  <2>2. CASE RefreshLost(l)
    BY <2>2 DEF RefreshLost, Unstamp, Goto
  <2>3. CASE RefreshSeen(l)
    BY <2>3 DEF RefreshSeen, Goto
  <2>4. CASE RefreshExpire(l)
    <3>1. /\ key' = key /\ startAge' = startAge /\ faults' = faults
          /\ ttl' \in 0..Timeout /\ (key' = NoOwner <=> ttl' = 0)
      BY <2>4 DEF RefreshExpire
    <3>2. /\ stamped' \in [Locks -> BOOLEAN]
          /\ refreshAge' \in [Locks -> 0..RefreshInterval]
      BY <2>4 DEF RefreshExpire, Stamp, Unstamp
    <3>3. pc' \in [Locks -> Stages] /\ wait' \in [Locks -> Nat]
      BY <2>4 DEF RefreshExpire, Goto
    <3>4. QED
      BY <3>1, <3>2, <3>3
  <2>5. CASE RefreshFails(l)
    <3>1. /\ faults' \in 0..MaxFaults /\ key' = key
          /\ ttl' \in 0..Timeout /\ (key' = NoOwner <=> ttl' = 0)
      BY <2>5 DEF RefreshFails, Fault
    <3>2. UNCHANGED <<refreshAge, startAge>> /\ stamped' \in [Locks -> BOOLEAN]
      BY <2>5 DEF RefreshFails, Unstamp
    <3>3. pc' \in [Locks -> Stages] /\ wait' \in [Locks -> Nat]
      BY <2>5 DEF RefreshFails, Goto
    <3>4. QED
      BY <3>1, <3>2, <3>3
  <2>6. QED
    BY <1>4, <2>1, <2>2, <2>3, <2>4, <2>5 DEF Refresh
<1>5. ASSUME NEW l \in Locks, Release(l) PROVE TypeOK'
  <2>1. CASE ReleaseStart(l)
    BY <2>1 DEF ReleaseStart, Goto
  <2>2. CASE ReleaseDelete(l)
    BY <2>2 DEF ReleaseDelete, DropKey, Unstamp, Goto
  <2>3. CASE ReleaseFails(l)
    BY <2>3 DEF ReleaseFails, DropKey, Unstamp, Goto, Fault
  <2>4. QED
    BY <1>5, <2>1, <2>2, <2>3 DEF Release
<1>6. ASSUME NEW l \in Locks, Crash(l) PROVE TypeOK'
  BY <1>6 DEF Crash, Goto
<1>7. QED
  BY <1>1, <1>2, <1>3, <1>4, <1>5, <1>6 DEF Next

\* The variables keep their types, whatever the timing and the Redis errors.
THEOREM TypeCorrect == Spec => []TypeOK
<1>1. Init => TypeOK
  BY LockConstants, IntervalIsPositive DEF Init, TypeOK
<1>2. QED
  BY <1>1, TypeIsKept, PTL DEF Spec

-----------------------------------------------------------------------------
\* The inductive invariant.  A lease is the ticks the key still has; in every
\* stage it is bounded below by what the stage's owner may have let pass since
\* the last SET or EXPIRE.

Owning(l) == Holding(l) \/ pc[l] = "delete"
Slack == Timeout - RefreshInterval - 2 * MaxLatency + 1

\* How much of the lease is left, stage by stage.
LeaseLeft(l) ==
  /\ pc[l] = "stamp" => ttl + wait[l] >= Timeout
  /\ pc[l] = "held" => ttl + wait[l] >= Slack
  /\ pc[l] = "peek" => ttl + wait[l] >= Slack + MaxLatency
  /\ pc[l] \in {"get", "delete"} => ttl + wait[l] >= Slack - MaxGap
  /\ pc[l] = "expire" => ttl + wait[l] >= Slack - MaxGap - MaxLatency

\* The timestamp a poll is rate limited by is not much younger than the lease.
StampIsHonest(l) ==
  pc[l] \in {"held", "peek", "get", "expire"} =>
    /\ stamped[l]
    /\ refreshAge[l] < RefreshInterval =>
         ttl + refreshAge[l] >= Timeout - MaxLatency

NotLate(l) ==
  /\ pc[l] = "held" => wait[l] <= MaxGap
  /\ InCall(l) => wait[l] <= MaxLatency

Lease ==
  /\ key = NoOwner => ttl = 0
  /\ key # NoOwner => ttl > 0
  /\ \A l \in Locks : /\ Owning(l) => key = OwnerOf[l]
                      /\ key = OwnerOf[l] => Owning(l) \/ pc[l] = "dead"
                      /\ LeaseLeft(l)
                      /\ StampIsHonest(l)
                      /\ NotLate(l)

LeaseInv == faults = 0 => Lease

\* Under the discipline Timely the lease never runs out in the hands of an object
\* that polls it: LeaseInv is inductive.
LEMMA LeaseHolds == ASSUME Timely PROVE Spec => []LeaseInv
<1> USE LockConstants, IntervalIsPositive, Timely
        DEF Holding, InCall, Owning, NotLate
<1>1. Init => LeaseInv
  BY DEF Init, LeaseInv, Lease, LeaseLeft, StampIsHonest
<1>2. TypeOK /\ LeaseInv /\ [Next]_vars => LeaseInv'
  <2> SUFFICES ASSUME TypeOK, LeaseInv, [Next]_vars, faults' = 0 PROVE Lease'
    BY DEF LeaseInv
  <2> USE DEF TypeOK, Timely
  <2>0. \A op : ~Fault(op)
    BY DEF Fault
  <2>01. faults = 0
    BY <2>0 DEF vars, Next, Tick, Acquire, SetSucceeds, StampAcquired, SetRefused, ReadOwner,
       AcquireFails, Refresh, RefreshStart, RefreshLost, RefreshSeen, RefreshExpire, RefreshFails,
       Release, ReleaseStart, ReleaseDelete, ReleaseFails, Crash
  <2>02. Lease
    BY <2>01 DEF LeaseInv
  <2> USE <2>02
  <2>1. CASE UNCHANGED vars
    BY <2>1 DEF vars, Lease, LeaseLeft, StampIsHonest
  <2>2. CASE Tick
    <3>1. \A l \in Locks : Owning(l) => ttl > 1
      BY <2>2 DEF Tick, MayWait, Lease, LeaseLeft, Slack
    <3>2. QED
      BY <2>2, <3>1 DEF Tick, MayWait, Older, Lease, LeaseLeft, Slack, StampIsHonest
  <2>3. ASSUME NEW l \in Locks, Acquire(l) PROVE Lease'
    <3>1. CASE SetSucceeds(l)
      BY <3>1 DEF SetSucceeds, Goto, SetKey, Lease, LeaseLeft, StampIsHonest
    <3>2. CASE StampAcquired(l)
      BY <3>2 DEF StampAcquired, Goto, Stamp, Lease, LeaseLeft, StampIsHonest, Slack
    <3>3. CASE SetRefused(l) \/ ReadOwner(l)
      BY <3>3 DEF SetRefused, ReadOwner, Goto, Lease, LeaseLeft, StampIsHonest
    <3>4. QED
      BY <2>0, <2>3, <3>1, <3>2, <3>3 DEF Acquire, AcquireFails
  <2>4. ASSUME NEW l \in Locks, Refresh(l) PROVE Lease'
    <3>1. CASE RefreshStart(l)
      BY <3>1 DEF RefreshStart, RateLimited, Goto, Lease, LeaseLeft, StampIsHonest, Slack
    <3>2. CASE RefreshLost(l)
      BY <3>2 DEF RefreshLost, Lease
    <3>3. CASE RefreshSeen(l)
      BY <3>3 DEF RefreshSeen, Goto, Lease, LeaseLeft, StampIsHonest, Slack
    <3>4. CASE RefreshExpire(l)
      BY <3>4 DEF RefreshExpire, Stamp, Unstamp, Goto, Lease, LeaseLeft, StampIsHonest, Slack
    <3>5. QED
      BY <2>0, <2>4, <3>1, <3>2, <3>3, <3>4 DEF Refresh, RefreshFails
  <2>5. ASSUME NEW l \in Locks, Release(l) PROVE Lease'
    <3>1. CASE ReleaseStart(l)
      BY <3>1 DEF ReleaseStart, Goto, Lease, LeaseLeft, StampIsHonest, Slack
    <3>2. CASE ReleaseDelete(l)
      BY <3>2 DEF ReleaseDelete, DropKey, Unstamp, Goto, Lease, LeaseLeft, StampIsHonest
    <3>3. QED
      BY <2>0, <2>5, <3>1, <3>2 DEF Release, ReleaseFails
  <2>6. ASSUME NEW l \in Locks, Crash(l) PROVE Lease'
    BY <2>6 DEF Crash, Goto, Lease, LeaseLeft, StampIsHonest
  <2>7. QED
    BY <2>1, <2>2, <2>3, <2>4, <2>5, <2>6 DEF Next
<1>3. QED
  BY <1>1, <1>2, TypeCorrect, PTL DEF Spec

\* Under Timely and until the first Redis error, whoever runs in the belief of
\* holding the lock owns the key.
THEOREM HolderAlwaysOwnsKey == ASSUME Timely PROVE Spec => []HolderOwnsKey
<1>1. LeaseInv => HolderOwnsKey
  BY DEF LeaseInv, Lease, HolderOwnsKey, Owning
<1>2. QED
  BY <1>1, LeaseHolds, PTL

\* Under Timely and until the first Redis error, executors exclude one another.
THEOREM LockExcludes == ASSUME Timely PROVE Spec => []ExclusiveUntilError
<1>1. LeaseInv => ExclusiveUntilError
  BY DEF LeaseInv, Lease, ExclusiveUntilError, MutualExclusion, Owning
<1>2. QED
  BY <1>1, LeaseHolds, PTL

\* Under Timely and until the first Redis error, the blind DELETE of release() only
\* ever hits the caller's key.
THEOREM ReleaseIsSafe == ASSUME Timely PROVE Spec => DeletesOnlyOwnKey
<1>1. LeaseInv /\ [Next]_vars =>
        [\A l \in Locks : faults = 0 /\ ReleaseDelete(l) => key = OwnerOf[l]]_vars
  BY DEF LeaseInv, Lease, Owning, ReleaseDelete
<1>2. QED
  BY <1>1, LeaseHolds, PTL DEF Spec, DeletesOnlyOwnKey

\* Under Timely and until the first Redis error, the EXPIRE of refresh() only ever
\* hits the caller's key.
THEOREM RefreshIsSafe == ASSUME Timely PROVE Spec => RefreshesOnlyOwnKey
<1>1. LeaseInv /\ [Next]_vars =>
        [\A l \in Locks : faults = 0 /\ RefreshExpire(l) /\ ttl' > ttl => key = OwnerOf[l]]_vars
  BY DEF LeaseInv, Lease, Owning, Holding, RefreshExpire
<1>2. QED
  BY <1>1, LeaseHolds, PTL DEF Spec, RefreshesOnlyOwnKey

-----------------------------------------------------------------------------
\* Refinement.

Users == {OwnerOf[l] : l \in {m \in Locks : Holding(m)}}

\* One executor has one object: a step of another object leaves its claim alone.
LEMMA OthersUse == ASSUME Timely, TypeOK, NEW l \in Locks,
                          \A m \in Locks \ {l} : pc'[m] = pc[m]
                   PROVE  /\ (Holding(l)' <=> Holding(l)) => Users' = Users
                          /\ ~Holding(l)' => Users' = Users \ {OwnerOf[l]}
                          /\ Holding(l)' => Users' = Users \cup {OwnerOf[l]}
BY LockConstants DEF Users, Holding, Timely, TypeOK

\* Under Timely, ClusterLock implements Lock: the key changes hands only while no
\* object of its owner counts as acquired.
THEOREM LockIsImplemented == ASSUME Timely PROVE Spec => ImplementsLock
<1> USE LockConstants, Timely
<1>1. Init => Promise!Init
  BY DEF Init, Promise!Init, Holding
<1>2. TypeOK /\ LeaseInv /\ [Next]_vars => [Promise!Next]_(Promise!vars)
  <2> SUFFICES ASSUME TypeOK, LeaseInv, [Next]_vars
               PROVE  [Promise!Next]_(Promise!vars)
    OBVIOUS
  <2>1. CASE UNCHANGED vars
    BY <2>1 DEF vars, Promise!vars, Holding
  <2>2. CASE (faults > 0)'
    BY <2>2 DEF Promise!Next, Promise!Fail
  <2>3. CASE Next /\ ~(faults > 0)'
    <3>1. faults' = 0 /\ faults = 0
      <4>1. faults' \in 0..MaxFaults
        BY TypeIsKept DEF TypeOK
      <4>2. faults' = faults \/ faults' = faults + 1
        BY <2>3 DEF Next, Tick, Acquire, SetSucceeds, StampAcquired, SetRefused,
           ReadOwner, AcquireFails, Refresh, RefreshStart, RefreshLost, RefreshSeen,
           RefreshExpire, RefreshFails, Release, ReleaseStart, ReleaseDelete,
           ReleaseFails, Crash, Fault
      <4>3. QED
        BY <2>3, <4>1, <4>2 DEF TypeOK
    <3>2. Lease /\ ~(faults > 0) /\ ~(faults > 0)'
      BY <3>1 DEF LeaseInv
    <3> USE <3>2
    <3>3. ASSUME key' = key, Users' = Users
          PROVE  UNCHANGED Promise!vars
      BY <3>3 DEF Promise!vars, Users
    <3>4. ASSUME NEW l \in Locks, key \in {NoOwner, OwnerOf[l]}, key' = OwnerOf[l],
                 Users' = Users \cup {OwnerOf[l]}
          PROVE  Promise!Next
      <4>1. OwnerOf[l] \in Owners
        OBVIOUS
      <4>2. Promise!Grant(OwnerOf[l])
        BY <3>4 DEF Promise!Grant, Users
      <4>3. QED
        BY <4>1, <4>2 DEF Promise!Next
    <3>5. ASSUME NEW l \in Locks, Holding(l), key' = key, Users' = Users \ {OwnerOf[l]}
          PROVE  Promise!Next
      <4>1. OwnerOf[l] \in Owners /\ OwnerOf[l] \in Users
        BY <3>5 DEF Users
      <4>2. Promise!Leave(OwnerOf[l])
        BY <3>5, <4>1 DEF Promise!Leave, Users
      <4>3. QED
        BY <4>1, <4>2 DEF Promise!Next
    <3>6. ASSUME key # NoOwner, key' = NoOwner, key \notin Users, Users' = Users
          PROVE  Promise!Next
      BY <3>6 DEF Promise!Next, Promise!Free, Users
    <3>7. CASE Tick
      <4>1. Users' = Users
        BY <3>7 DEF Tick, Users, Holding
      <4>2. CASE ttl # 1
        BY <3>3, <3>7, <4>1, <4>2 DEF Tick
      <4>3. CASE ttl = 1
        <5>1. \A l \in Locks : Holding(l) => ttl > 1
          BY <3>7, IntervalIsPositive DEF Tick, MayWait, InCall, Holding, Owning, Lease,
             LeaseLeft, Slack, NotLate, TypeOK, Timely
        <5>2. Users = {}
          BY <4>3, <5>1 DEF Users
        <5>3. key # NoOwner /\ key' = NoOwner
          BY <3>7, <4>3 DEF Tick, Lease
        <5>4. QED
          BY <3>6, <4>1, <5>2, <5>3
      <4>4. QED
        BY <4>2, <4>3
    <3>8. ASSUME NEW l \in Locks, Acquire(l) PROVE [Promise!Next]_(Promise!vars)
      <4>1. \A m \in Locks \ {l} : pc'[m] = pc[m]
        BY <3>8, <3>1 DEF Acquire, SetSucceeds, StampAcquired, SetRefused, ReadOwner,
           AcquireFails, Goto, TypeOK
      <4>2. CASE SetSucceeds(l)
        <5>1. Holding(l)' /\ key = NoOwner /\ key' = OwnerOf[l]
          BY <4>2 DEF SetSucceeds, SetKey, Goto, Holding, TypeOK
        <5>2. QED
          BY <3>4, <4>1, <5>1, OthersUse
      <4>3. CASE StampAcquired(l) \/ SetRefused(l)
        <5>1. (Holding(l)' <=> Holding(l)) /\ key' = key
          BY <4>3 DEF StampAcquired, SetRefused, Goto, Holding, TypeOK
        <5>2. QED
          BY <3>3, <4>1, <5>1, OthersUse
      <4>4. CASE ReadOwner(l)
        <5>1. key' = key /\ pc[l] = "lost" /\ key # OwnerOf[l]
          BY <4>4 DEF ReadOwner, Lease, Owning, Holding
        <5>2. Holding(l)' <=> Holding(l)
          BY <4>4, <5>1 DEF ReadOwner, Goto, Holding, TypeOK
        <5>3. QED
          BY <3>3, <4>1, <5>1, <5>2, OthersUse
      <4>5. QED
        BY <3>1, <3>8, <4>2, <4>3, <4>4 DEF Acquire, AcquireFails, Fault
    <3>9. ASSUME NEW l \in Locks, Refresh(l) PROVE [Promise!Next]_(Promise!vars)
      <4>1. \A m \in Locks \ {l} : pc'[m] = pc[m]
        BY <3>9, <3>1 DEF Refresh, RefreshStart, RefreshLost, RefreshSeen,
           RefreshExpire, RefreshFails, Goto, TypeOK
      <4>2. (Holding(l)' <=> Holding(l)) /\ key' = key
        BY <3>9, <3>1 DEF Refresh, RefreshStart, RefreshLost, RefreshSeen,
           RefreshExpire, RefreshFails, Goto, TypeOK, Holding
      <4>3. QED
        BY <3>3, <4>1, <4>2, OthersUse
    <3>10. ASSUME NEW l \in Locks, Release(l) PROVE [Promise!Next]_(Promise!vars)
      <4>1. \A m \in Locks \ {l} : pc'[m] = pc[m]
        BY <3>10, <3>1 DEF Release, ReleaseStart, ReleaseDelete, ReleaseFails, Goto, TypeOK
      <4>2. CASE ReleaseStart(l)
        <5>1. Holding(l) /\ ~Holding(l)' /\ key' = key
          BY <4>2 DEF ReleaseStart, Goto, Holding, TypeOK
        <5>2. QED
          BY <3>5, <4>1, <5>1, OthersUse
      <4>3. CASE ReleaseDelete(l)
        <5>1. ~Holding(l) /\ ~Holding(l)' /\ key = OwnerOf[l] /\ key' = NoOwner
          BY <4>3 DEF ReleaseDelete, DropKey, Goto, Holding, Owning, Lease, TypeOK
        <5>2. key \notin Users
          BY <5>1 DEF Users, Timely
        <5>3. key # NoOwner
          BY <5>1
        <5>4. QED
          BY <3>6, <4>1, <5>1, <5>2, <5>3, OthersUse
      <4>4. QED
        BY <3>1, <3>10, <4>2, <4>3 DEF Release, ReleaseFails, Fault
    <3>11. ASSUME NEW l \in Locks, Crash(l) PROVE [Promise!Next]_(Promise!vars)
      <4>1. key' = key /\ ~Holding(l)' /\ \A m \in Locks \ {l} : pc'[m] = pc[m]
        BY <3>11 DEF Crash, Goto, Holding, TypeOK
      <4>2. CASE Holding(l)
        BY <3>5, <4>1, <4>2, OthersUse
      <4>3. CASE ~Holding(l)
        BY <3>3, <4>1, <4>3, OthersUse
      <4>4. QED
        BY <4>2, <4>3
    <3>12. QED
      BY <2>3, <3>7, <3>8, <3>9, <3>10, <3>11 DEF Next
  <2>4. QED
    BY <2>1, <2>2, <2>3
<1>3. QED
  BY <1>1, <1>2, TypeCorrect, LeaseHolds, PTL DEF Spec, ImplementsLock, Promise!Spec
=============================================================================
