------------------------ MODULE CredentialLocksProofs ------------------------
(***************************************************************************)
(* Proofs about CredentialLocks, for any number of processes, coroutines   *)
(* and credentials, any lists of fields, and any number of requests,       *)
(* crashes and expiries: the types; that a lock has one holder as long as  *)
(* its key has not expired in a holder's hands; that whoever ends well     *)
(* leaves no lock behind; and that blocks run with the newest tokens.      *)
(***************************************************************************)
EXTENDS CredentialLocks, FiniteSetTheorems, SequenceTheorems, TLAPS

-----------------------------------------------------------------------------
(* The inductive invariant. *)

Kinds == {"queue", "main", "refresh"}
Waiting == {"queue", "main", "refresh", "claim"}
OfNodes == {"next", "queue", "main", "unqueue", "using"}

KeyType == [by : Tasks, via : Objects] \cup {Free}
HandsType == [Locks -> Objects \cup {NoObject}]

\* A request is at a stage of its operation, with what that stage needs.
RequestOK(r) ==
  /\ r \in RequestType(Nat)
  /\ r.at \notin {"next", "using"} => r.creds # << >>
  /\ r.at \in Waiting => r.via # NoObject
  /\ r.op # "use" => r.at \notin OfNodes
  /\ r.at \in {"remove", "removed"} => r.op = "delete"
  /\ r.op = "delete" => r.at \in {"read", "claim", "remove", "removed"}
  /\ r.op = "peek" => r.at # "claim"

\* Which locks of the credential in hand a request other than a node's can
\* hold, by its stage.
KindsAt(r) ==
  CASE r.at \in {"read", "refresh"} -> {}
    [] r.at = "claim" -> IF r.op = "delete" THEN {} ELSE {"refresh"}
    [] r.at \in {"renew", "save"} ->
         IF r.op = "peek" THEN {"refresh"} ELSE {"refresh", "main"}
    [] r.at = "unclaim" -> {"refresh", "main"}
    [] r.at = "unrefresh" -> {"refresh"}
    [] r.at \in {"remove", "removed"} -> {"main"}
    [] OTHER -> Kinds

HeldIn(h) == {l \in Locks : h[l] # NoObject}

Hands(r, h) ==
  /\ r = NoTask => HeldIn(h) = {}
  /\ r # NoTask /\ r.op # "use" => HeldIn(h) \subseteq {Head(r.creds)} \X KindsAt(r)

TasksOK ==
  /\ task \in [Tasks -> RequestType(Nat) \cup {NoTask}]
  /\ \A t \in Tasks : ~Idle(t) => RequestOK(task[t])

RedisOK ==
  /\ key \in [Locks -> KeyType]
  /\ mutex \in [Managers -> HandsType]
  /\ held \in [Tasks -> HandsType]
  /\ lapsed \subseteq Locks /\ leaked \subseteq Locks

HandsOK == \A t \in Tasks : Hands(task[t], held[t])

\* Whoever holds a lock that has not expired in his hands set its key.
HolderSetKey ==
  \A l \in Locks \ lapsed : \A t \in Tasks :
    Holds(t, l) => key[l] # Free /\ key[l].by = t /\ key[l].via = held[t][l]

\* Whose key nobody has left behind still has the object it was set through.
SetterHolds ==
  \A l \in Locks \ leaked :
    key[l] # Free => held[key[l].by][l] = key[l].via

CountersOK ==
  /\ {stored, issued, aged} \subseteq [Creds -> Nat]
  /\ begun \in 0..MaxRequests /\ faults \in 0..MaxFaults /\ ages \in 0..MaxAges
  /\ strayed \subseteq Creds /\ bypassed \subseteq Creds

IInv == TasksOK /\ RedisOK /\ HandsOK /\ HolderSetKey /\ SetterHolds /\ CountersOK

-----------------------------------------------------------------------------
(* The objects: one that nobody refers to always exists. *)

LEMMA ManagersOfTasks == ASSUME NEW t \in Tasks PROVE ManagerOf[t] \in Managers
BY CredentialConstants

\* The values of a function on the tasks are no more than the tasks.
LEMMA FewValues ==
  ASSUME NEW f, f = [t \in Tasks |-> f[t]]
  PROVE  /\ IsFiniteSet({f[t] : t \in Tasks})
         /\ Cardinality({f[t] : t \in Tasks}) <= Cardinality(Tasks)
<1> DEFINE V == {f[t] : t \in Tasks}
<1>1. IsFiniteSet(Tasks)
  BY CredentialConstants
<1>2. f \in Surjection(Tasks, V)
  BY DEF Surjection
<1> HIDE DEF V
<1>3. IsFiniteSet(V) /\ Cardinality(V) <= Cardinality(Tasks)
  BY <1>1, <1>2, FS_Surjection
<1>4. QED
  BY <1>3 DEF V

LEMMA FreshIsObject ==
  ASSUME RedisOK, NEW m \in Managers, NEW l \in Locks
  PROVE  Fresh(m, l) \in Objects
<1> DEFINE n == Cardinality(Tasks)
           H == {[u \in Tasks |-> held[u][l]][t] : t \in Tasks}
           W == {[u \in Tasks |-> task[u].via][t] : t \in Tasks}
           K == {key[l].via, mutex[m][l]}
<1>1. n \in Nat
  BY CredentialConstants, FS_CardinalityType
<1>2. IsFiniteSet(H) /\ Cardinality(H) \in Nat /\ Cardinality(H) <= n
  <2> DEFINE f == [t \in Tasks |-> held[t][l]]
  <2>1. f = [t \in Tasks |-> f[t]]
    OBVIOUS
  <2> HIDE DEF f
  <2>2. IsFiniteSet({f[t] : t \in Tasks}) /\ Cardinality({f[t] : t \in Tasks}) <= n
    BY <2>1, FewValues
  <2>3. QED
    BY <2>2, FS_CardinalityType DEF f
<1>3. IsFiniteSet(W) /\ Cardinality(W) \in Nat /\ Cardinality(W) <= n
  <2> DEFINE f == [t \in Tasks |-> task[t].via]
  <2>1. f = [t \in Tasks |-> f[t]]
    OBVIOUS
  <2> HIDE DEF f
  <2>2. IsFiniteSet({f[t] : t \in Tasks}) /\ Cardinality({f[t] : t \in Tasks}) <= n
    BY <2>1, FewValues
  <2>3. QED
    BY <2>2, FS_CardinalityType DEF f
<1>4. IsFiniteSet(K) /\ Cardinality(K) \in Nat /\ Cardinality(K) <= 2
  <2> DEFINE a == key[l].via
             b == mutex[m][l]
  <2> HIDE DEF a, b
  <2>1. IsFiniteSet({a}) /\ Cardinality({a}) = 1
    BY FS_Singleton
  <2>2. {a, b} = {a} \cup {b}
    OBVIOUS
  <2>3. IsFiniteSet({a, b}) /\ Cardinality({a, b}) \in {1, 2}
    BY <2>1, <2>2, FS_AddElement
  <2>4. QED
    BY <2>3 DEF a, b
<1>5. \A o \in Objects : (mutex[m][l] = o \/ Referred(m, l, o)) => o \in H \cup W \cup K
  <2> TAKE o \in Objects
  <2>1. ASSUME NEW t \in Tasks, Refers(t, l, o) PROVE o \in H \cup W \cup K
    <3>1. held[t][l] \in H /\ task[t].via \in W /\ key[l].via \in K
      OBVIOUS
    <3>2. held[t][l] = o \/ task[t].via = o \/ key[l].via = o
      BY <2>1 DEF Refers
    <3>3. QED
      BY <3>1, <3>2
  <2>2. mutex[m][l] \in K
    OBVIOUS
  <2> HIDE DEF H, W, K
  <2>3. QED
    BY <2>1, <2>2 DEF Referred
<1> HIDE DEF H, W, K, n
<1>6. /\ IsFiniteSet(H \cup W) /\ Cardinality(H \cup W) \in Nat
      /\ Cardinality(H \cup W) <= n + n
  <2>1. IsFiniteSet(H \cup W) /\ IsFiniteSet(H \cap W)
        /\ Cardinality(H \cup W) = Cardinality(H) + Cardinality(W) - Cardinality(H \cap W)
    BY <1>2, <1>3, FS_Union, FS_Intersection
  <2>2. Cardinality(H \cap W) \in Nat /\ Cardinality(H \cup W) \in Nat
    BY <2>1, FS_CardinalityType
  <2>3. QED
    BY <1>1, <1>2, <1>3, <2>1, <2>2
<1>7. /\ IsFiniteSet(H \cup W \cup K) /\ Cardinality(H \cup W \cup K) \in Nat
      /\ Cardinality(H \cup W \cup K) <= n + n + 2
  <2> DEFINE U == H \cup W
  <2> HIDE DEF U
  <2>1. IsFiniteSet(U \cup K) /\ IsFiniteSet(U \cap K)
        /\ Cardinality(U \cup K) = Cardinality(U) + Cardinality(K) - Cardinality(U \cap K)
    BY <1>4, <1>6, FS_Union, FS_Intersection DEF U
  <2>2. Cardinality(U \cap K) \in Nat /\ Cardinality(U \cup K) \in Nat
    BY <2>1, FS_CardinalityType
  <2>3. Cardinality(U) \in Nat /\ Cardinality(U) <= n + n
    BY <1>6 DEF U
  <2>4. Cardinality(U \cup K) <= n + n + 2
    BY <1>1, <1>4, <2>1, <2>2, <2>3
  <2>5. QED
    BY <2>1, <2>2, <2>4 DEF U
<1>8. Cardinality(Objects) = n + n + 3
  <2>1. 2 * n + 3 \in Int /\ 2 * n + 3 = n + n + 3 /\ 1 <= 2 * n + 3
    BY <1>1
  <2>2. Cardinality(1..(2 * n + 3)) = (2 * n + 3) - 1 + 1
    BY <2>1, FS_Interval
  <2>3. QED
    BY <1>1, <2>1, <2>2 DEF Objects, n
<1>9. ~(Objects \subseteq H \cup W \cup K)
  <2> SUFFICES ASSUME Objects \subseteq H \cup W \cup K PROVE FALSE
    OBVIOUS
  <2>1. Cardinality(Objects) <= Cardinality(H \cup W \cup K)
    BY <1>7, FS_Subset
  <2>2. QED
    BY <1>1, <1>7, <1>8, <2>1
<1>10. \E o \in Objects : mutex[m][l] # o /\ ~Referred(m, l, o)
  BY <1>5, <1>9
<1>11. QED
  BY <1>10 DEF Fresh

-----------------------------------------------------------------------------
(* What the commands do to Redis and to those who hold locks. *)

LEMMA ObjectsAreNumbers == Objects \subseteq Nat /\ NoObject \notin Objects
<1>1. Objects \subseteq 1..(2 * Cardinality(Tasks) + 3)
  BY DEF Objects
<1>2. Cardinality(Tasks) \in Nat
  BY CredentialConstants, FS_CardinalityType
<1>3. QED
  BY <1>1, <1>2 DEF NoObject

RedisNext == key' \in [Locks -> KeyType] /\ held' \in [Tasks -> HandsType]

LEMMA TakeKeeps ==
  ASSUME RedisOK, HolderSetKey, SetterHolds, NEW t \in Tasks, NEW l \in Locks,
         Take(t, l), task[t].via \in Objects, lapsed' = lapsed, leaked' = leaked
  PROVE  /\ RedisNext /\ HolderSetKey' /\ SetterHolds'
         /\ held' = [held EXCEPT ![t] = [held[t] EXCEPT ![l] = task[t].via]]
<1> DEFINE o == task[t].via
<1>1. /\ key[l] = Free
      /\ key' = [key EXCEPT ![l] = [by |-> t, via |-> o]]
      /\ held' = [held EXCEPT ![t][l] = o]
  BY DEF Take
<1>2. /\ key \in [Locks -> KeyType] /\ held \in [Tasks -> HandsType]
      /\ o \in Objects /\ o # NoObject
  BY ObjectsAreNumbers DEF RedisOK
<1> HIDE DEF o
<1>3. [by |-> t, via |-> o] # Free /\ [by |-> t, via |-> o] \in KeyType
  BY <1>2, MarkersDiffer DEF KeyType
<1>4. /\ held' = [held EXCEPT ![t] = [held[t] EXCEPT ![l] = o]]
      /\ \A u \in Tasks, k \in Locks :
           held'[u][k] = IF u = t /\ k = l THEN o ELSE held[u][k]
      /\ \A k \in Locks : key'[k] = IF k = l THEN [by |-> t, via |-> o] ELSE key[k]
  BY <1>1, <1>2 DEF HandsType
<1>5. RedisNext
  BY <1>1, <1>2, <1>3 DEF RedisNext, HandsType
<1>6. HolderSetKey'
  BY <1>1, <1>3, <1>4 DEF HolderSetKey, Holds
<1>7. SetterHolds'
  BY <1>2, <1>3, <1>4 DEF SetterHolds, KeyType
<1>8. QED
  BY <1>4, <1>5, <1>6, <1>7 DEF o

\* Whoever releases a lock that has not expired releases his own.
LEMMA ReleaseKeeps ==
  ASSUME RedisOK, HolderSetKey, SetterHolds, NEW t \in Tasks, NEW l \in Locks,
         Release(t, l)
  PROVE  /\ RedisOK' /\ HolderSetKey' /\ SetterHolds'
         /\ held' = [held EXCEPT ![t] = [held[t] EXCEPT ![l] = NoObject]]
<1>1. /\ key' = IF Owned(t, l) THEN [key EXCEPT ![l] = Free] ELSE key
      /\ held' = [held EXCEPT ![t][l] = NoObject]
      /\ leaked' = IF Owned(t, l) THEN leaked \ {l} ELSE leaked
      /\ lapsed' = {k \in lapsed : k = l => HeldByOthers(t, k)}
  BY DEF Release
<1>2. /\ key \in [Locks -> KeyType] /\ held \in [Tasks -> HandsType]
      /\ mutex \in [Managers -> HandsType]
      /\ lapsed \subseteq Locks /\ leaked \subseteq Locks
  BY DEF RedisOK
<1>3. /\ held' = [held EXCEPT ![t] = [held[t] EXCEPT ![l] = NoObject]]
      /\ \A u \in Tasks, k \in Locks :
           held'[u][k] = IF u = t /\ k = l THEN NoObject ELSE held[u][k]
      /\ \A k \in Locks : key'[k] = IF k = l /\ Owned(t, l) THEN Free ELSE key[k]
  BY <1>1, <1>2 DEF HandsType
<1>4. mutex' \in [Managers -> HandsType]
  BY <1>2, ManagersOfTasks DEF Release, HandsType
<1>5. RedisOK'
  <2>1. key' \in [Locks -> KeyType]
    BY <1>1, <1>2 DEF KeyType
  <2>2. held' \in [Tasks -> HandsType]
    BY <1>1, <1>2 DEF HandsType
  <2>3. lapsed' \subseteq Locks /\ leaked' \subseteq Locks
    BY <1>1, <1>2
  <2>4. QED
    BY <1>4, <2>1, <2>2, <2>3 DEF RedisOK
<1>6. ASSUME Owned(t, l) PROVE key[l].via \in Objects /\ Holds(t, l)
  BY <1>2, <1>6, ObjectsAreNumbers DEF Owned, Holds, KeyType
<1>7. HolderSetKey'
  <2> SUFFICES ASSUME NEW k \in Locks, k \notin lapsed', NEW u \in Tasks,
                      held'[u][k] # NoObject
               PROVE  key'[k] # Free /\ key'[k].by = u /\ key'[k].via = held'[u][k]
    BY DEF HolderSetKey, Holds
  <2>1. Holds(u, k) /\ held'[u][k] = held[u][k] /\ ~(u = t /\ k = l)
    BY <1>3 DEF Holds
  <2>2. CASE k # l
    BY <1>1, <1>3, <2>1, <2>2 DEF HolderSetKey
  <2>3. CASE k = l
    <3>1. HeldByOthers(t, k)
      BY <2>1, <2>3 DEF HeldByOthers
    <3>2. k \notin lapsed
      BY <1>1, <3>1
    <3>3. key[k] # Free /\ key[k].by = u /\ key[k].via = held[u][k]
      BY <2>1, <3>2 DEF HolderSetKey
    <3>4. ~Owned(t, l)
      BY <1>6, <2>1, <2>3, <3>2, <3>3 DEF HolderSetKey
    <3>5. QED
      BY <1>3, <2>1, <3>3, <3>4
  <2>4. QED
    BY <2>2, <2>3
<1>8. SetterHolds'
  <2> SUFFICES ASSUME NEW k \in Locks, k \notin leaked', key'[k] # Free
               PROVE  held'[key'[k].by][k] = key'[k].via
    BY DEF SetterHolds
  <2>1. key'[k] = key[k] /\ key[k] # Free /\ ~(k = l /\ Owned(t, l))
    BY <1>3
  <2>2. k \notin leaked
    BY <1>1, <2>1
  <2>3. held[key[k].by][k] = key[k].via /\ key[k].by \in Tasks
    BY <1>2, <2>1, <2>2 DEF SetterHolds, KeyType
  <2>4. ~(key[k].by = t /\ k = l)
    BY <2>1, <2>3 DEF Owned
  <2>5. QED
    BY <1>3, <2>1, <2>3, <2>4
<1>9. QED
  BY <1>3, <1>5, <1>7, <1>8

LEMMA LeaveKeeps ==
  ASSUME RedisOK, HolderSetKey, SetterHolds, NEW t \in Tasks,
         NEW locks, locks \subseteq Locks, Leave(t, locks)
  PROVE  /\ RedisOK' /\ HolderSetKey' /\ SetterHolds'
         /\ held' = [held EXCEPT ![t] =
                       [l \in Locks |-> IF l \in locks THEN NoObject ELSE held[t][l]]]
<1>1. /\ held' = [held EXCEPT ![t] =
                    [l \in Locks |-> IF l \in locks THEN NoObject ELSE held[t][l]]]
      /\ leaked' = leaked \cup {l \in locks : key[l] # Free /\ key[l].by = t}
      /\ lapsed' = {l \in lapsed : l \in locks => HeldByOthers(t, l)}
      /\ key' = key /\ mutex' = mutex
  BY DEF Leave
<1>2. /\ key \in [Locks -> KeyType] /\ held \in [Tasks -> HandsType]
      /\ mutex \in [Managers -> HandsType]
      /\ lapsed \subseteq Locks /\ leaked \subseteq Locks
  BY DEF RedisOK
<1>3. \A u \in Tasks, k \in Locks :
        held'[u][k] = IF u = t /\ k \in locks THEN NoObject ELSE held[u][k]
  BY <1>1, <1>2 DEF HandsType
<1>4. RedisOK'
  <2>1. held' \in [Tasks -> HandsType]
    BY <1>1, <1>2 DEF HandsType
  <2>2. QED
    BY <1>1, <1>2, <2>1 DEF RedisOK
<1>5. HolderSetKey'
  <2> SUFFICES ASSUME NEW k \in Locks, k \notin lapsed', NEW u \in Tasks,
                      held'[u][k] # NoObject
               PROVE  key[k] # Free /\ key[k].by = u /\ key[k].via = held'[u][k]
    BY <1>1 DEF HolderSetKey, Holds
  <2>1. Holds(u, k) /\ held'[u][k] = held[u][k] /\ ~(u = t /\ k \in locks)
    BY <1>3 DEF Holds
  <2>2. k \in locks => HeldByOthers(t, k)
    BY <2>1 DEF HeldByOthers
  <2>3. k \notin lapsed
    BY <1>1, <2>2
  <2>4. QED
    BY <2>1, <2>3 DEF HolderSetKey
<1>6. SetterHolds'
  <2> SUFFICES ASSUME NEW k \in Locks, k \notin leaked', key[k] # Free
               PROVE  held'[key[k].by][k] = key[k].via
    BY <1>1 DEF SetterHolds
  <2>1. k \notin leaked /\ ~(k \in locks /\ key[k].by = t)
    BY <1>1
  <2>2. held[key[k].by][k] = key[k].via /\ key[k].by \in Tasks
    BY <1>2, <2>1 DEF SetterHolds, KeyType
  <2>3. QED
    BY <1>3, <2>1, <2>2
<1>7. QED
  BY <1>1, <1>4, <1>5, <1>6

LEMMA ExpireKeeps ==
  ASSUME IInv, NEW l \in Locks, Expire(l)
  PROVE  IInv'
<1>1. /\ key[l] # Free
      /\ key' = [key EXCEPT ![l] = Free]
      /\ lapsed' = IF Holds(key[l].by, l) THEN lapsed \cup {l} ELSE lapsed
      /\ leaked' = leaked \ {l}
      /\ UNCHANGED <<held, tokens, task, begun, faults>>
  BY DEF Expire
<1>2. /\ key \in [Locks -> KeyType] /\ held \in [Tasks -> HandsType]
      /\ mutex \in [Managers -> HandsType]
      /\ lapsed \subseteq Locks /\ leaked \subseteq Locks
  BY DEF RedisOK, IInv
<1>3. \A k \in Locks : key'[k] = IF k = l THEN Free ELSE key[k]
  BY <1>1, <1>2
<1>4. key[l].by \in Tasks
  BY <1>1, <1>2 DEF KeyType
<1>5. RedisOK'
  <2>1. key' \in [Locks -> KeyType]
    BY <1>1, <1>2 DEF KeyType
  <2>2. mutex' \in [Managers -> HandsType]
    BY <1>2, <1>4, ManagersOfTasks DEF Expire, HandsType
  <2>3. QED
    BY <1>1, <1>2, <2>1, <2>2 DEF RedisOK
<1>6. HolderSetKey'
  <2> SUFFICES ASSUME NEW k \in Locks, k \notin lapsed', NEW u \in Tasks, Holds(u, k)
               PROVE  key'[k] # Free /\ key'[k].by = u /\ key'[k].via = held[u][k]
    BY <1>1 DEF HolderSetKey, Holds
  <2>1. k \notin lapsed
    BY <1>1
  <2>2. key[k] # Free /\ key[k].by = u /\ key[k].via = held[u][k]
    BY <2>1 DEF HolderSetKey, IInv
  <2>3. k # l
    BY <1>1, <2>2
  <2>4. QED
    BY <1>3, <2>2, <2>3
<1>7. SetterHolds'
  BY <1>1, <1>3 DEF SetterHolds, IInv
<1>8. TasksOK' /\ HandsOK' /\ CountersOK'
  BY <1>1 DEF IInv, TasksOK, HandsOK, CountersOK, Idle, tokens
<1>9. QED
  BY <1>5, <1>6, <1>7, <1>8 DEF IInv

LEMMA CrashKeeps ==
  ASSUME IInv, NEW m \in Managers, Crash(m)
  PROVE  IInv'
<1> DEFINE gone == {t \in Tasks : ManagerOf[t] = m}
<1>1. /\ faults < MaxFaults /\ faults' = faults + 1
      /\ task' = [t \in Tasks |-> IF t \in gone THEN NoTask ELSE task[t]]
      /\ held' = [t \in Tasks |-> IF t \in gone THEN HoldsNothing ELSE held[t]]
      /\ leaked' = leaked \cup {l \in Locks : key[l] # Free /\ key[l].by \in gone}
      /\ lapsed' = {l \in lapsed : \E t \in Tasks \ gone : Holds(t, l)}
      /\ mutex' = [mutex EXCEPT ![m] = HoldsNothing]
      /\ strayed' = strayed \cup {Cred(t) : t \in {u \in gone : At(u, "save")}}
      /\ UNCHANGED <<key, stored, issued, aged, ages, bypassed, begun>>
  BY DEF Crash
<1>2. /\ key \in [Locks -> KeyType] /\ held \in [Tasks -> HandsType]
      /\ mutex \in [Managers -> HandsType]
      /\ lapsed \subseteq Locks /\ leaked \subseteq Locks
      /\ HoldsNothing \in HandsType
  BY DEF RedisOK, IInv, HoldsNothing, HandsType
<1>3. \A u \in Tasks, k \in Locks :
        held'[u][k] = IF u \in gone THEN NoObject ELSE held[u][k]
  BY <1>1 DEF HoldsNothing
<1>4. RedisOK'
  BY <1>1, <1>2 DEF RedisOK
<1>5. HolderSetKey'
  <2> SUFFICES ASSUME NEW k \in Locks, k \notin lapsed', NEW u \in Tasks,
                      held'[u][k] # NoObject
               PROVE  key[k] # Free /\ key[k].by = u /\ key[k].via = held'[u][k]
    BY <1>1 DEF HolderSetKey, Holds
  <2>1. u \notin gone /\ Holds(u, k) /\ held'[u][k] = held[u][k]
    BY <1>3 DEF Holds
  <2>2. k \notin lapsed
    BY <1>1, <2>1
  <2>3. QED
    BY <2>1, <2>2 DEF HolderSetKey, IInv
<1>6. SetterHolds'
  <2> SUFFICES ASSUME NEW k \in Locks, k \notin leaked', key[k] # Free
               PROVE  held'[key[k].by][k] = key[k].via
    BY <1>1 DEF SetterHolds
  <2>1. k \notin leaked /\ key[k].by \in Tasks \ gone
    BY <1>1, <1>2 DEF KeyType
  <2>2. QED
    BY <1>3, <2>1 DEF SetterHolds, IInv
<1>7. TasksOK'
  BY <1>1 DEF IInv, TasksOK, Idle
<1>8. HandsOK'
  <2> SUFFICES ASSUME NEW u \in Tasks PROVE Hands(task'[u], held'[u])
    BY DEF HandsOK
  <2>1. CASE u \in gone
    BY <1>1, <2>1 DEF Hands, HeldIn, HoldsNothing
  <2>2. CASE u \notin gone
    BY <1>1, <2>2 DEF IInv, HandsOK
  <2>3. QED
    BY <2>1, <2>2
<1>9. CountersOK'
  <2>1. \A t \in Tasks : At(t, "save") => Cred(t) \in Creds
    BY DEF IInv, TasksOK, RequestOK, RequestType, At, Cred
  <2>2. faults' \in 0..MaxFaults
    BY <1>1, CredentialConstants DEF IInv, CountersOK
  <2>3. QED
    BY <1>1, <2>1, <2>2 DEF IInv, CountersOK
<1>10. QED
  BY <1>4, <1>5, <1>6, <1>7, <1>8, <1>9 DEF IInv

-----------------------------------------------------------------------------
(* What the steps do to the request they belong to. *)

StagesOf(r) ==
  {at \in {"next", "queue", "main", "unqueue", "read", "refresh", "claim",
           "renew", "save", "unclaim", "unrefresh", "unwind", "failed",
           "using", "remove", "removed"} :
     /\ r.op # "use" => at \notin OfNodes
     /\ at \in {"remove", "removed"} => r.op = "delete"
     /\ r.op = "delete" => at \in {"read", "claim", "remove", "removed"}
     /\ r.op = "peek" => at # "claim"}

LEMMA RequestIsNotNoTask == ASSUME NEW r, RequestOK(r) PROVE r # NoTask
BY MarkersDiffer DEF RequestOK

LEMMA Moves ==
  ASSUME NEW r, RequestOK(r), NEW at \in StagesOf(r),
         r.creds # << >> \/ at \in {"next", "using"}
  PROVE  /\ at \notin Waiting => RequestOK([r EXCEPT !.at = at, !.via = NoObject])
         /\ \A o \in Objects, k \in [Creds -> Nat] :
              RequestOK([r EXCEPT !.at = at, !.via = o, !.copy = k])
         /\ \A k \in [Creds -> Nat] :
              at \notin Waiting => RequestOK([r EXCEPT !.copy = k, !.at = at])
         /\ \A n \in Nat :
              at \notin Waiting => RequestOK([r EXCEPT !.fresh = n, !.at = at])
<1> USE DEF StagesOf, RequestType
<1>1. at \notin Waiting => RequestOK([r EXCEPT !.at = at, !.via = NoObject])
  BY DEF RequestOK
<1>2. \A o \in Objects, k \in [Creds -> Nat] :
        RequestOK([r EXCEPT !.at = at, !.via = o, !.copy = k])
  <2> TAKE o \in Objects, k \in [Creds -> Nat]
  <2> DEFINE q == [r EXCEPT !.at = at, !.via = o, !.copy = k]
  <2>1. q \in RequestType(Nat)
    BY DEF RequestOK
  <2>2. /\ q.at = at /\ q.via = o /\ q.op = r.op /\ q.creds = r.creds
        /\ o # NoObject
    BY ObjectsAreNumbers DEF RequestOK
  <2> HIDE DEF q, RequestType
  <2>3. RequestOK(q)
    BY <2>1, <2>2 DEF RequestOK
  <2>4. QED
    BY <2>3 DEF q
<1>3. \A k \in [Creds -> Nat] :
        at \notin Waiting => RequestOK([r EXCEPT !.copy = k, !.at = at])
  BY DEF RequestOK
<1>4. \A n \in Nat :
        at \notin Waiting => RequestOK([r EXCEPT !.fresh = n, !.at = at])
  BY DEF RequestOK
<1>5. QED
  BY <1>1, <1>2, <1>3, <1>4

LEMMA RequestInHand ==
  ASSUME IInv, NEW t \in Tasks, ~Idle(t)
  PROVE  /\ RequestOK(task[t]) /\ task[t] \in RequestType(Nat)
         /\ task \in [Tasks -> RequestType(Nat) \cup {NoTask}]
         /\ Hands(task[t], held[t]) /\ held[t] \in HandsType
         /\ task[t].creds # << >> =>
              /\ Cred(t) \in Creds /\ Known(t) \in [Creds -> Nat]
              /\ \A k \in Kinds : <<Cred(t), k>> \in Locks
<1>1. /\ RequestOK(task[t]) /\ task[t] \in RequestType(Nat)
      /\ task \in [Tasks -> RequestType(Nat) \cup {NoTask}]
  BY DEF IInv, TasksOK, RequestOK
<1>2. Hands(task[t], held[t]) /\ held[t] \in HandsType
  BY DEF IInv, HandsOK, RedisOK
<1>3. ASSUME task[t].creds # << >>
      PROVE  Cred(t) \in Creds
  <2>1. task[t].creds \in Seq(Creds)
    BY <1>1 DEF RequestType
  <2>2. QED
    BY <1>3, <2>1 DEF Cred
<1>4. ASSUME task[t].creds # << >>
      PROVE  Known(t) \in [Creds -> Nat]
  <2>1. task[t].copy \in [Creds -> Nat]
    BY <1>1 DEF RequestType
  <2>2. stored \in [Creds -> Nat]
    BY DEF IInv, CountersOK
  <2>3. QED
    BY <1>3, <1>4, <2>1, <2>2 DEF Known
<1>5. QED
  BY <1>1, <1>2, <1>3, <1>4 DEF Locks, Kinds

LEMMA AskGives ==
  ASSUME IInv, NEW t \in Tasks, ~Idle(t), task[t].creds # << >>,
         NEW l \in Locks, NEW at, Ask(t, l, at)
  PROVE  /\ \E o \in Objects, k \in [Creds -> Nat] :
              task' = [task EXCEPT ![t] =
                         [task[t] EXCEPT !.at = at, !.via = o, !.copy = k]]
         /\ mutex' \in [Managers -> HandsType] /\ faults' \in 0..MaxFaults
<1> DEFINE m == ManagerOf[t]
<1>1. m \in Managers /\ mutex \in [Managers -> HandsType]
  BY ManagersOfTasks DEF IInv, RedisOK
<1>2. PICK o \in {mutex[m][l], Fresh(m, l)} \ {NoObject} :
        /\ task' = [task EXCEPT ![t].at = at, ![t].via = o, ![t].copy = Known(t)]
        /\ mutex' = [mutex EXCEPT ![m][l] = o]
        /\ faults' = faults \/ (faults < MaxFaults /\ faults' = faults + 1)
  BY DEF Ask
<1>3. o \in Objects
  BY <1>1, <1>2, FreshIsObject DEF HandsType, IInv
<1>4. mutex' \in [Managers -> HandsType]
  BY <1>1, <1>2, <1>3 DEF HandsType
<1>5. Known(t) \in [Creds -> Nat]
      /\ task \in [Tasks -> RequestType(Nat) \cup {NoTask}]
  BY RequestInHand
<1>6. task' = [task EXCEPT ![t] =
                 [task[t] EXCEPT !.at = at, !.via = o, !.copy = Known(t)]]
  BY <1>2, <1>5
<1>7. faults' \in 0..MaxFaults
  BY <1>2, CredentialConstants DEF IInv, CountersOK
<1>8. QED
  BY <1>3, <1>4, <1>5, <1>6, <1>7

LEMMA ProceedGives ==
  ASSUME IInv, NEW t \in Tasks, ~Idle(t), task[t].creds # << >>, Proceed(t)
  PROVE  \E r : /\ task' = [task EXCEPT ![t] = r]
                /\ r = NoTask \/ RequestOK(r)
                /\ task[t].op = "use" => r # NoTask /\ r.op = "use"
<1> DEFINE q == task[t]
<1>1. RequestOK(q) /\ q \in RequestType(Nat) /\ Known(t) \in [Creds -> Nat]
  BY RequestInHand
<1>2. CASE q.op # "use" /\ IsLast(t)
  BY <1>2 DEF Proceed
<1>3. CASE ~(q.op # "use" /\ IsLast(t))
  <2> DEFINE at == IF q.op = "use" THEN "next" ELSE "read"
             r == [q EXCEPT !.creds = Tail(q.creds), !.copy = Known(t), !.fresh = 0,
                            !.at = at]
  <2>1. task' = [task EXCEPT ![t] = r]
    BY <1>3 DEF Proceed
  <2>2. /\ Tail(q.creds) \in Seq(Creds)
        /\ q.op # "use" => Tail(q.creds) # << >>
    <3>1. q.creds \in Seq(Creds) /\ q.creds # << >>
      BY <1>1 DEF RequestType
    <3>2. q.op # "use" => Len(q.creds) # 1
      BY <1>3 DEF IsLast
    <3>3. Tail(q.creds) \in Seq(Creds) /\ Len(Tail(q.creds)) = Len(q.creds) - 1
          /\ Len(q.creds) \in Nat
      BY <3>1, HeadTailProperties
    <3>4. q.op # "use" => Len(Tail(q.creds)) # 0
      BY <3>1, <3>2, <3>3, EmptySeq
    <3>5. QED
      BY <3>3, <3>4, EmptySeq
  <2>3. RequestOK(r)
    BY <1>1, <2>2 DEF RequestOK, RequestType, OfNodes, Waiting
  <2>4. r.op = q.op
    BY <1>1 DEF RequestType
  <2>5. QED
    BY <2>1, <2>3, <2>4, RequestIsNotNoTask
<1>4. QED
  BY <1>2, <1>3

LEMMA HandsChange ==
  ASSUME NEW h \in HandsType, NEW l \in Locks, NEW o \in Objects
  PROVE  /\ HeldIn([h EXCEPT ![l] = o]) = HeldIn(h) \cup {l}
         /\ HeldIn([h EXCEPT ![l] = NoObject]) = HeldIn(h) \ {l}
BY ObjectsAreNumbers DEF HeldIn, HandsType

\* A step of one task.
LEMMA OneTask ==
  ASSUME IInv, NEW t \in Tasks, NEW r, NEW h,
         task' = [task EXCEPT ![t] = r], r = NoTask \/ RequestOK(r),
         held' = [held EXCEPT ![t] = h], Hands(r, h),
         RedisOK', HolderSetKey', SetterHolds', CountersOK'
  PROVE  IInv'
<1>1. TasksOK'
  BY DEF IInv, TasksOK, Idle, RequestOK
<1>2. HandsOK'
  BY DEF IInv, HandsOK, TasksOK, RedisOK
<1>3. QED
  BY <1>1, <1>2 DEF IInv

\* A step that leaves Redis alone, but for the object it looks up.
LEMMA SameLocks ==
  ASSUME IInv, UNCHANGED <<key, held, lapsed, leaked>>,
         mutex' \in [Managers -> HandsType]
  PROVE  RedisOK' /\ HolderSetKey' /\ SetterHolds'
BY DEF IInv, RedisOK, HolderSetKey, SetterHolds, Holds

LEMMA SameHands ==
  ASSUME IInv, NEW t \in Tasks, UNCHANGED held
  PROVE  held' = [held EXCEPT ![t] = held[t]]
BY DEF IInv, RedisOK

-----------------------------------------------------------------------------
(* The steps of a request. *)

\* It asks for a lock, and leaves everybody's locks alone.
LEMMA AskStep ==
  ASSUME IInv, NEW t \in Tasks, ~Idle(t), task[t].creds # << >>,
         NEW l \in Locks, NEW at \in StagesOf(task[t]), Ask(t, l, at),
         UNCHANGED <<key, held, lapsed, leaked, tokens, begun>>,
         task[t].op # "use" => KindsAt(task[t]) \subseteq KindsAt([task[t] EXCEPT !.at = at])
  PROVE  IInv'
<1> DEFINE q == task[t]
<1>0. /\ \E o \in Objects, k \in [Creds -> Nat] :
            task' = [task EXCEPT ![t] =
                       [task[t] EXCEPT !.at = at, !.via = o, !.copy = k]]
      /\ mutex' \in [Managers -> HandsType] /\ faults' \in 0..MaxFaults
  <2> HIDE DEF Ask
  <2>1. QED
    BY AskGives
<1>1. PICK o \in Objects, k \in [Creds -> Nat] :
        task' = [task EXCEPT ![t] = [q EXCEPT !.at = at, !.via = o, !.copy = k]]
  BY <1>0
<1> DEFINE r == [q EXCEPT !.at = at, !.via = o, !.copy = k]
<1>2. RequestOK(q) /\ Hands(q, held[t]) /\ q \in RequestType(Nat)
  BY RequestInHand
<1>3. RequestOK(r)
  BY <1>2, Moves
<1>4. r.op = q.op /\ r.creds = q.creds /\ KindsAt(r) = KindsAt([q EXCEPT !.at = at])
  BY <1>2 DEF RequestType, KindsAt
<1>5. r # NoTask /\ q # NoTask
  BY <1>2, <1>3, RequestIsNotNoTask
<1>6. Hands(r, held[t])
  <2> HIDE DEF r
  <2>1. QED
    BY <1>2, <1>4, <1>5 DEF Hands
<1>7. RedisOK' /\ HolderSetKey' /\ SetterHolds' /\ faults' \in 0..MaxFaults
  BY <1>0, SameLocks
<1>8. CountersOK'
  BY <1>7 DEF IInv, CountersOK, tokens
<1>9. held' = [held EXCEPT ![t] = held[t]]
  BY SameHands
<1> HIDE DEF r
<1>10. QED
  BY <1>1, <1>3, <1>6, <1>7, <1>8, <1>9, OneTask DEF r

\* It goes on without a lock to wait for; what it holds is h.
LEMMA GoStep ==
  ASSUME IInv, NEW t \in Tasks, ~Idle(t), NEW at \in StagesOf(task[t]) \ Waiting,
         task[t].creds # << >> \/ at \in {"next", "using"}, Go(t, at),
         NEW h, held' = [held EXCEPT ![t] = h],
         task[t].op # "use" =>
           HeldIn(h) \subseteq {Cred(t)} \X KindsAt([task[t] EXCEPT !.at = at]),
         RedisOK', HolderSetKey', SetterHolds', CountersOK'
  PROVE  IInv'
<1> DEFINE q == task[t]
           r == [q EXCEPT !.at = at, !.via = NoObject]
<1>1. /\ RequestOK(q) /\ q \in RequestType(Nat)
      /\ task \in [Tasks -> RequestType(Nat) \cup {NoTask}]
  BY RequestInHand
<1>2. task' = [task EXCEPT ![t] = r]
  BY <1>1 DEF Go
<1>3. RequestOK(r)
  BY <1>1, Moves
<1>4. r.op = q.op /\ r.creds = q.creds /\ KindsAt(r) = KindsAt([q EXCEPT !.at = at])
  BY <1>1 DEF RequestType, KindsAt
<1>5. r # NoTask
  BY <1>3, RequestIsNotNoTask
<1>6. Hands(r, h)
  <2> HIDE DEF r
  <2>1. QED
    BY <1>4, <1>5 DEF Hands, Cred
<1> HIDE DEF r
<1>7. QED
  BY <1>2, <1>3, <1>6, OneTask

\* It is done with a credential, whose locks it has let go.
LEMMA ProceedStep ==
  ASSUME IInv, NEW t \in Tasks, ~Idle(t), task[t].creds # << >>, Proceed(t),
         NEW h, held' = [held EXCEPT ![t] = h],
         task[t].op # "use" => HeldIn(h) = {},
         RedisOK', HolderSetKey', SetterHolds', CountersOK'
  PROVE  IInv'
<1>1. PICK r : /\ task' = [task EXCEPT ![t] = r]
               /\ r = NoTask \/ RequestOK(r)
               /\ task[t].op = "use" => r # NoTask /\ r.op = "use"
  BY ProceedGives
<1>2. Hands(r, h)
  <2>1. CASE task[t].op = "use"
    BY <1>1, <2>1 DEF Hands
  <2>2. CASE task[t].op # "use"
    BY <2>2 DEF Hands
  <2>3. QED
    BY <2>1, <2>2
<1>3. QED
  BY <1>1, <1>2, OneTask

\* It ends with an exception, or well.
LEMMA EndStep ==
  ASSUME IInv, NEW t \in Tasks, ~Idle(t), End(t), UNCHANGED <<tokens, begun, faults>>
  PROVE  IInv'
<1> DEFINE h == [l \in Locks |-> IF l \in Held(t) THEN NoObject ELSE held[t][l]]
<1>1. Held(t) \subseteq Locks
  BY DEF Held
<1>2. /\ RedisOK' /\ HolderSetKey' /\ SetterHolds'
      /\ held' = [held EXCEPT ![t] = h]
  BY <1>1, LeaveKeeps DEF End, IInv
<1>3. HeldIn(h) = {}
  BY DEF HeldIn, Held, Holds
<1>4. CountersOK'
  BY DEF IInv, CountersOK, tokens
<1>5. task' = [task EXCEPT ![t] = NoTask]
  BY DEF End
<1>6. Hands(NoTask, h)
  BY <1>3 DEF Hands
<1> HIDE DEF h
<1>7. QED
  BY <1>2, <1>4, <1>5, <1>6, OneTask

LEMMA GiveUpStep ==
  ASSUME IInv, NEW t \in Tasks, ~Idle(t), task[t].creds # << >>, GiveUp(t),
         UNCHANGED <<tokens, begun, faults>>
  PROVE  IInv'
<1>1. CASE End(t)
  BY <1>1, EndStep
<1>2. CASE task[t].op = "use" /\ Proceed(t) /\ Leave(t, {Main(Cred(t))} \cap Held(t))
  <2> DEFINE locks == {Main(Cred(t))} \cap Held(t)
             h == [l \in Locks |-> IF l \in locks THEN NoObject ELSE held[t][l]]
  <2>1. locks \subseteq Locks
    BY DEF Held
  <2> HIDE DEF locks
  <2>2. /\ RedisOK' /\ HolderSetKey' /\ SetterHolds'
        /\ held' = [held EXCEPT ![t] = h]
    BY <1>2, <2>1, LeaveKeeps DEF IInv, locks
  <2>3. CountersOK'
    BY DEF IInv, CountersOK, tokens
  <2> HIDE DEF h
  <2>4. QED
    BY <1>2, <2>2, <2>3, ProceedStep
<1>3. QED
  BY <1>1, <1>2 DEF GiveUp

\* A request takes the lock it waits for, and goes on.
LEMMA TakeStep ==
  ASSUME IInv, NEW t \in Tasks, ~Idle(t), task[t].at \in Waiting,
         NEW k \in Kinds, Awaited(t) = <<Cred(t), k>>, Take(t, Awaited(t)),
         UNCHANGED <<lapsed, leaked, stored, issued, aged, ages, strayed, begun>>,
         bypassed' \subseteq bypassed
  PROVE  /\ task[t].creds # << >> /\ <<Cred(t), k>> \in Locks
         /\ HolderSetKey' /\ SetterHolds'
         /\ \E h : /\ held' = [held EXCEPT ![t] = h]
                   /\ HeldIn(h) = Held(t) \cup {<<Cred(t), k>>}
         /\ mutex' \in [Managers -> HandsType] => RedisOK'
         /\ faults' \in 0..MaxFaults => CountersOK'
<1> DEFINE l == <<Cred(t), k>>
           h == [held[t] EXCEPT ![l] = task[t].via]
<1>1. RequestOK(task[t]) /\ task[t] \in RequestType(Nat) /\ held[t] \in HandsType
  BY RequestInHand
<1>2. task[t].via \in Objects /\ task[t].creds # << >>
  BY <1>1 DEF RequestOK, RequestType, Waiting, NoObject
<1>3. l \in Locks
  BY <1>2, RequestInHand
<1> HIDE DEF l
<1>4. Take(t, l)
  BY DEF l
<1>5. /\ RedisNext /\ HolderSetKey' /\ SetterHolds'
      /\ held' = [held EXCEPT ![t] = h]
  BY <1>2, <1>3, <1>4, TakeKeeps DEF IInv
<1>6. HeldIn(h) = Held(t) \cup {l}
  BY <1>1, <1>2, <1>3, HandsChange DEF Held, HeldIn, Holds
<1>7. mutex' \in [Managers -> HandsType] => RedisOK'
  BY <1>5 DEF IInv, RedisOK, RedisNext
<1>8. faults' \in 0..MaxFaults => CountersOK'
  BY DEF IInv, CountersOK
<1> HIDE DEF h
<1>9. QED
  BY <1>2, <1>3, <1>5, <1>6, <1>7, <1>8 DEF l

LEMMA ReleaseStep ==
  ASSUME IInv, NEW t \in Tasks, NEW l \in Locks, Release(t, l),
         UNCHANGED <<tokens, begun, faults>>
  PROVE  /\ RedisOK' /\ HolderSetKey' /\ SetterHolds' /\ CountersOK'
         /\ \E h : /\ held' = [held EXCEPT ![t] = h]
                   /\ HeldIn(h) = Held(t) \ {l}
<1> DEFINE h == [held[t] EXCEPT ![l] = NoObject]
<1>1. /\ RedisOK' /\ HolderSetKey' /\ SetterHolds'
      /\ held' = [held EXCEPT ![t] = h]
  BY ReleaseKeeps DEF IInv
<1>2. HeldIn(h) = Held(t) \ {l}
  <2>1. held[t] \in HandsType
    BY DEF IInv, RedisOK
  <2>2. HeldIn(h) = HeldIn(held[t]) \ {l}
    BY <2>1 DEF HeldIn, HandsType
  <2>3. QED
    BY <2>2 DEF Held, HeldIn, Holds
<1>3. CountersOK'
  BY DEF IInv, CountersOK, tokens
<1> HIDE DEF h
<1>4. QED
  BY <1>1, <1>2, <1>3

LEMMA HeldAt ==
  ASSUME IInv, NEW t \in Tasks, ~Idle(t), task[t].op # "use"
  PROVE  Held(t) \subseteq {Cred(t)} \X KindsAt(task[t])
BY RequestInHand DEF Hands, Held, HeldIn, Holds, Cred, Idle

\* A stage with a credential in hand.
LEMMA Stage ==
  ASSUME IInv, NEW t \in Tasks, NEW at, At(t, at)
  PROVE  /\ ~Idle(t) /\ task[t].at = at /\ RequestOK(task[t])
         /\ at \notin {"next", "using"} => task[t].creds # << >>
         /\ at \in OfNodes => task[t].op = "use"
         /\ at \in {"remove", "removed"} => task[t].op = "delete"
         /\ task[t].op = "delete" => at \in {"read", "claim", "remove", "removed"}
BY RequestInHand DEF At, RequestOK

\* A step of the counters and tokens alone.
LEMMA SameEverything ==
  ASSUME IInv, NEW t \in Tasks, UNCHANGED redis
  PROVE  /\ RedisOK' /\ HolderSetKey' /\ SetterHolds'
         /\ held' = [held EXCEPT ![t] = held[t]]
<1>1. mutex' \in [Managers -> HandsType]
  BY DEF IInv, RedisOK, redis
<1>2. QED
  BY <1>1, SameLocks, SameHands DEF redis

LEMMA SameTokens ==
  ASSUME IInv, UNCHANGED <<tokens, begun, faults>>
  PROVE  CountersOK'
BY DEF IInv, CountersOK, tokens

LEMMA NextFieldOK == ASSUME IInv, NEW t \in Tasks, NextField(t) PROVE IInv'
<1>1. ~Idle(t) /\ task[t].op = "use" /\ RequestOK(task[t])
  BY Stage DEF NextField, OfNodes
<1>2. CASE task[t].creds = << >>
  <2>1. Go(t, "using") /\ UNCHANGED redis /\ UNCHANGED <<tokens, begun, faults>>
    BY <1>2 DEF NextField, redis
  <2>2. "using" \in StagesOf(task[t]) \ Waiting
    BY <1>1 DEF StagesOf, Waiting
  <2>3. QED
    BY <1>1, <2>1, <2>2, GoStep, SameEverything, SameTokens
<1>3. CASE task[t].creds # << >>
  <2>1. Ask(t, <<Cred(t), "queue">>, "queue")
        /\ UNCHANGED <<key, held, lapsed, leaked, tokens, begun>>
    BY <1>3 DEF NextField
  <2>2. "queue" \in StagesOf(task[t]) /\ <<Cred(t), "queue">> \in Locks
    BY <1>1, <1>3, RequestInHand DEF StagesOf, Kinds
  <2> HIDE DEF Ask
  <2>3. QED
    BY <1>1, <1>3, <2>1, <2>2, AskStep
<1>4. QED
  BY <1>2, <1>3

LEMMA TakeQueueOK == ASSUME IInv, NEW t \in Tasks, TakeQueue(t) PROVE IInv'
<1>1. /\ ~Idle(t) /\ task[t].at = "queue" /\ task[t].op = "use"
      /\ task[t].creds # << >> /\ RequestOK(task[t])
  BY Stage DEF TakeQueue, OfNodes
<1>2. Take(t, Awaited(t)) /\ Ask(t, Main(Cred(t)), "main")
      /\ UNCHANGED <<lapsed, leaked, stored, issued, aged, ages, strayed, begun>>
      /\ bypassed' \subseteq bypassed
  BY DEF TakeQueue, tokens
<1>3. Awaited(t) = <<Cred(t), "queue">> /\ "queue" \in Kinds /\ "queue" \in Waiting
  BY <1>1 DEF Awaited, Kinds, Waiting
<1>4. Main(Cred(t)) \in Locks
  BY <1>1, RequestInHand DEF Main, Kinds
<1>5. /\ \E o \in Objects, k \in [Creds -> Nat] :
           task' = [task EXCEPT ![t] =
                      [task[t] EXCEPT !.at = "main", !.via = o, !.copy = k]]
      /\ mutex' \in [Managers -> HandsType] /\ faults' \in 0..MaxFaults
  BY <1>1, <1>2, <1>4, AskGives
<1>6. PICK h : held' = [held EXCEPT ![t] = h]
  BY <1>1, <1>2, <1>3, TakeStep
<1>7. RedisOK' /\ HolderSetKey' /\ SetterHolds' /\ CountersOK'
  BY <1>1, <1>2, <1>3, <1>5, TakeStep
<1>8. PICK o \in Objects, k \in [Creds -> Nat] :
        task' = [task EXCEPT ![t] =
                   [task[t] EXCEPT !.at = "main", !.via = o, !.copy = k]]
  BY <1>5
<1> DEFINE r == [task[t] EXCEPT !.at = "main", !.via = o, !.copy = k]
<1>9. RequestOK(r)
  <2>1. "main" \in StagesOf(task[t])
    BY <1>1 DEF StagesOf
  <2>2. QED
    BY <1>1, <2>1, Moves
<1>10. r.op = "use" /\ r # NoTask
  BY <1>1, <1>9, RequestIsNotNoTask DEF RequestOK, RequestType
<1> HIDE DEF r
<1>11. Hands(r, h)
  BY <1>10 DEF Hands
<1>12. QED
  BY <1>6, <1>7, <1>8, <1>9, <1>11, OneTask DEF r

LEMMA TakeMainOK == ASSUME IInv, NEW t \in Tasks, TakeMain(t) PROVE IInv'
<1>1. /\ ~Idle(t) /\ task[t].at = "main" /\ task[t].op = "use"
      /\ task[t].creds # << >> /\ RequestOK(task[t])
  BY Stage DEF TakeMain, OfNodes
<1>2. Take(t, Awaited(t)) /\ Go(t, "unqueue")
      /\ UNCHANGED <<mutex, lapsed, leaked, stored, issued, aged, ages, strayed,
                     begun, faults>>
      /\ bypassed' \subseteq bypassed
  BY DEF TakeMain, Retaken
<1>3. Awaited(t) = <<Cred(t), "main">> /\ "main" \in Kinds /\ "main" \in Waiting
  BY <1>1 DEF Awaited, Kinds, Waiting
<1>4. mutex' \in [Managers -> HandsType] /\ faults' \in 0..MaxFaults
  BY <1>2 DEF IInv, RedisOK, CountersOK
<1>5. /\ \E h : held' = [held EXCEPT ![t] = h]
      /\ RedisOK' /\ HolderSetKey' /\ SetterHolds' /\ CountersOK'
  BY <1>1, <1>2, <1>3, <1>4, TakeStep
<1>6. "unqueue" \in StagesOf(task[t]) \ Waiting
  BY <1>1 DEF StagesOf, Waiting
<1>7. QED
  BY <1>1, <1>2, <1>5, <1>6, GoStep

LEMMA LeaveQueueOK == ASSUME IInv, NEW t \in Tasks, LeaveQueue(t) PROVE IInv'
<1>1. /\ ~Idle(t) /\ task[t].op = "use"
      /\ task[t].creds # << >> /\ RequestOK(task[t])
  BY Stage DEF LeaveQueue, OfNodes
<1>2. <<Cred(t), "queue">> \in Locks
  BY <1>1, RequestInHand DEF Kinds
<1>3. /\ \E h : held' = [held EXCEPT ![t] = h]
      /\ RedisOK' /\ HolderSetKey' /\ SetterHolds' /\ CountersOK'
  BY <1>2, ReleaseStep DEF LeaveQueue
<1>4. "read" \in StagesOf(task[t]) \ Waiting
  BY <1>1 DEF StagesOf, Waiting, OfNodes
<1>5. QED
  BY <1>1, <1>3, <1>4, GoStep DEF LeaveQueue

LEMMA ReadOK == ASSUME IInv, NEW t \in Tasks, Read(t) PROVE IInv'
<1>1. /\ ~Idle(t) /\ task[t].at = "read" /\ task[t].creds # << >>
      /\ UNCHANGED <<tokens, begun, faults>>
  BY Stage DEF Read
<1>2. CASE GiveUp(t)
  BY <1>1, <1>2, GiveUpStep
<1>3. CASE Proceed(t) /\ UNCHANGED redis
  <2>1. task[t].op # "use" => HeldIn(held[t]) = {}
    BY <1>1, HeldAt DEF KindsAt, Held, HeldIn, Holds
  <2>2. QED
    BY <1>1, <1>3, <2>1, ProceedStep, SameEverything, SameTokens
<1>4. QED
  BY <1>2, <1>3 DEF Read

LEMMA ReadAndLockOK == ASSUME IInv, NEW t \in Tasks, ReadAndLock(t) PROVE IInv'
<1>1. /\ ~Idle(t) /\ task[t].at = "read" /\ task[t].creds # << >> /\ RequestOK(task[t])
      /\ UNCHANGED <<key, held, lapsed, leaked, tokens, begun>>
  BY Stage DEF ReadAndLock
<1>2. KindsAt(task[t]) = {}
  BY <1>1 DEF KindsAt
<1>3. <<Cred(t), "refresh">> \in Locks /\ Main(Cred(t)) \in Locks
  BY <1>1, RequestInHand DEF Kinds, Main
<1>4. CASE task[t].op # "delete" /\ Ask(t, <<Cred(t), "refresh">>, "refresh")
  <2>1. "refresh" \in StagesOf(task[t])
    BY <1>4 DEF StagesOf, OfNodes
  <2>2. QED
    BY <1>1, <1>2, <1>3, <1>4, <2>1, AskStep
<1>5. CASE task[t].op = "delete" /\ Ask(t, Main(Cred(t)), "claim")
  <2>1. "claim" \in StagesOf(task[t])
    BY <1>5 DEF StagesOf, OfNodes
  <2>2. QED
    BY <1>1, <1>2, <1>3, <1>5, <2>1, AskStep
<1>6. QED
  BY <1>4, <1>5 DEF ReadAndLock

LEMMA TakeRefreshOK == ASSUME IInv, NEW t \in Tasks, TakeRefresh(t) PROVE IInv'
<1> DEFINE q == task[t]
<1>1. /\ ~Idle(t) /\ q.at = "refresh" /\ q.op # "delete"
      /\ q.creds # << >> /\ RequestOK(q) /\ q \in RequestType(Nat)
      /\ Take(t, Awaited(t))
      /\ UNCHANGED <<lapsed, leaked, stored, issued, aged, ages, strayed, begun>>
      /\ bypassed' \subseteq bypassed
  BY Stage DEF TakeRefresh, RequestOK, tokens
<1>2. Awaited(t) = <<Cred(t), "refresh">> /\ "refresh" \in Kinds /\ "refresh" \in Waiting
  BY <1>1 DEF Awaited, Kinds, Waiting
<1>3. /\ HolderSetKey' /\ SetterHolds'
      /\ mutex' \in [Managers -> HandsType] => RedisOK'
      /\ faults' \in 0..MaxFaults => CountersOK'
  BY <1>1, <1>2, TakeStep
<1>4. PICK h : /\ held' = [held EXCEPT ![t] = h]
               /\ HeldIn(h) = Held(t) \cup {<<Cred(t), "refresh">>}
  BY <1>1, <1>2, TakeStep
<1>5. q.op # "use" => HeldIn(h) \subseteq {Cred(t)} \X {"refresh"}
  <2>1. KindsAt(q) = {}
    BY <1>1 DEF KindsAt
  <2>2. q.op # "use" => Held(t) \subseteq {}
    BY <1>1, <2>1, HeldAt
  <2>3. QED
    BY <1>4, <2>2
<1>6. CASE Locking(t) /\ Ask(t, Main(Cred(t)), "claim")
  <2>1. Main(Cred(t)) \in Locks
    BY <1>1, RequestInHand DEF Kinds, Main
  <2>2. /\ \E o \in Objects, k \in [Creds -> Nat] :
             task' = [task EXCEPT ![t] =
                        [task[t] EXCEPT !.at = "claim", !.via = o, !.copy = k]]
        /\ mutex' \in [Managers -> HandsType] /\ faults' \in 0..MaxFaults
    BY <1>1, <1>6, <2>1, AskGives
  <2>3. PICK o \in Objects, k \in [Creds -> Nat] :
          task' = [task EXCEPT ![t] = [q EXCEPT !.at = "claim", !.via = o, !.copy = k]]
    BY <2>2
  <2> DEFINE r == [q EXCEPT !.at = "claim", !.via = o, !.copy = k]
  <2>4. RequestOK(r)
    <3>1. "claim" \in StagesOf(q)
      BY <1>1, <1>6 DEF StagesOf, OfNodes, Locking
    <3>2. QED
      BY <1>1, <3>1, Moves
  <2>5. r.op = q.op /\ r.creds = q.creds /\ r.at = "claim"
    BY <1>1 DEF RequestType
  <2> HIDE DEF r
  <2>6. KindsAt(r) = {"refresh"} /\ r # NoTask
    BY <1>1, <2>4, <2>5, RequestIsNotNoTask DEF KindsAt
  <2>7. Hands(r, h)
    BY <1>5, <2>5, <2>6 DEF Hands, Cred
  <2>8. QED
    BY <1>3, <1>4, <2>2, <2>3, <2>4, <2>7, OneTask DEF r
<1>7. ASSUME NEW at \in {"renew", "unrefresh"}, Go(t, at), UNCHANGED <<mutex, faults>>,
             at = "renew" => ~Locking(t)
      PROVE  IInv'
  <2>1. at \in StagesOf(q) \ Waiting
    BY <1>1, <1>7 DEF StagesOf, OfNodes, Waiting
  <2>2. q.op # "use" => KindsAt([q EXCEPT !.at = at]) = {"refresh"}
    BY <1>1, <1>7 DEF KindsAt, RequestType, Locking
  <2>3. mutex' \in [Managers -> HandsType] /\ faults' \in 0..MaxFaults
    BY <1>7 DEF IInv, RedisOK, CountersOK
  <2>4. QED
    BY <1>1, <1>3, <1>4, <1>5, <1>7, <2>1, <2>2, <2>3, GoStep
<1>8. QED
  BY <1>6, <1>7 DEF TakeRefresh

LEMMA TakeClaimOK == ASSUME IInv, NEW t \in Tasks, TakeClaim(t) PROVE IInv'
<1> DEFINE q == task[t]
           at == IF q.op = "delete" THEN "remove" ELSE "renew"
<1>1. /\ ~Idle(t) /\ q.at = "claim"
      /\ q.creds # << >> /\ RequestOK(q) /\ q \in RequestType(Nat)
      /\ Take(t, Awaited(t)) /\ Go(t, at)
      /\ UNCHANGED <<mutex, lapsed, leaked, stored, issued, aged, ages, strayed,
                     begun, faults>>
      /\ bypassed' \subseteq bypassed
  BY Stage DEF TakeClaim, RequestOK, Retaken
<1>2. Awaited(t) = <<Cred(t), "main">> /\ "main" \in Kinds /\ "claim" \in Waiting
  BY <1>1 DEF Awaited, Kinds, Waiting
<1>3. mutex' \in [Managers -> HandsType] /\ faults' \in 0..MaxFaults
  BY <1>1 DEF IInv, RedisOK, CountersOK
<1>4. RedisOK' /\ HolderSetKey' /\ SetterHolds' /\ CountersOK'
  BY <1>1, <1>2, <1>3, TakeStep
<1>5. PICK h : /\ held' = [held EXCEPT ![t] = h]
               /\ HeldIn(h) = Held(t) \cup {<<Cred(t), "main">>}
  BY <1>1, <1>2, TakeStep
<1>6. q.op # "use" => HeldIn(h) \subseteq {Cred(t)} \X KindsAt([q EXCEPT !.at = at])
  <2> SUFFICES ASSUME q.op # "use"
               PROVE  HeldIn(h) \subseteq {Cred(t)} \X KindsAt([q EXCEPT !.at = at])
    OBVIOUS
  <2>1. Held(t) \subseteq {Cred(t)} \X KindsAt(q)
    BY <1>1, HeldAt
  <2>2. CASE q.op = "delete"
    <3>1. KindsAt(q) = {} /\ KindsAt([q EXCEPT !.at = at]) = {"main"}
      BY <1>1, <2>2 DEF KindsAt, RequestType
    <3>2. QED
      BY <1>5, <2>1, <3>1
  <2>3. CASE q.op # "delete"
    <3>1. KindsAt(q) = {"refresh"} /\ KindsAt([q EXCEPT !.at = at]) = {"refresh", "main"}
      BY <1>1, <2>3 DEF KindsAt, RequestType, RequestOK
    <3>2. QED
      BY <1>5, <2>1, <3>1
  <2>4. QED
    BY <2>2, <2>3
<1>7. at \in StagesOf(q) \ Waiting
  BY <1>1 DEF StagesOf, OfNodes, Waiting
<1> HIDE DEF at
<1>8. QED
  BY <1>1, <1>4, <1>5, <1>6, <1>7, GoStep

LEMMA RenewOK == ASSUME IInv, NEW t \in Tasks, Renew(t) PROVE IInv'
<1> DEFINE q == task[t]
           c == Cred(t)
           n == issued[c] + 1
           r == [q EXCEPT !.fresh = n, !.at = "save"]
<1>1. /\ ~Idle(t) /\ q.at = "renew" /\ q.op # "delete"
      /\ q.creds # << >> /\ RequestOK(q) /\ q \in RequestType(Nat)
      /\ issued' = [issued EXCEPT ![c] = @ + 1]
      /\ task' = [task EXCEPT ![t].fresh = n, ![t].at = "save"]
      /\ bypassed' = Bypass(t)
      /\ UNCHANGED <<redis, stored, aged, ages, strayed, begun, faults>>
  BY Stage DEF Renew, RequestOK
<1>2. c \in Creds /\ task \in [Tasks -> RequestType(Nat) \cup {NoTask}]
      /\ issued \in [Creds -> Nat]
  BY <1>1, RequestInHand DEF IInv, CountersOK
<1>3. task' = [task EXCEPT ![t] = r]
  BY <1>1, <1>2
<1>4. RequestOK(r) /\ r.op = q.op /\ r.creds = q.creds /\ r.at = "save"
  <2>1. "save" \in StagesOf(q) /\ "save" \notin Waiting
    BY <1>1 DEF StagesOf, OfNodes, Waiting
  <2>2. n \in Nat
    BY <1>2
  <2> HIDE DEF n
  <2>3. RequestOK(r)
    BY <1>1, <2>1, <2>2, Moves
  <2>4. QED
    BY <1>1, <2>3 DEF RequestType
<1> HIDE DEF r
<1>5. Hands(r, held[t])
  <2>1. KindsAt(q) = KindsAt(r)
    BY <1>1, <1>4 DEF KindsAt
  <2>2. Hands(q, held[t]) /\ q # NoTask /\ r # NoTask
    BY <1>1, <1>4, RequestInHand, RequestIsNotNoTask
  <2>3. QED
    BY <1>4, <2>1, <2>2 DEF Hands
<1>6. CountersOK'
  BY <1>1, <1>2 DEF IInv, CountersOK, Bypass
<1>7. QED
  BY <1>1, <1>3, <1>4, <1>5, <1>6, SameEverything, OneTask

\* A step to another stage that changes tokens only.
LEMMA GoAlone ==
  ASSUME IInv, NEW t \in Tasks, ~Idle(t), task[t].creds # << >>,
         NEW at \in StagesOf(task[t]) \ Waiting, Go(t, at), UNCHANGED redis,
         task[t].op # "use" => KindsAt(task[t]) \subseteq KindsAt([task[t] EXCEPT !.at = at]),
         CountersOK'
  PROVE  IInv'
<1>1. task[t].op # "use" =>
        HeldIn(held[t]) \subseteq {Cred(t)} \X KindsAt([task[t] EXCEPT !.at = at])
  <2>1. HeldIn(held[t]) = Held(t)
    BY DEF Held, HeldIn, Holds
  <2>2. QED
    BY <2>1, HeldAt
<1>2. QED
  BY <1>1, GoStep, SameEverything

LEMMA RenewFailsOK == ASSUME IInv, NEW t \in Tasks, RenewFails(t) PROVE IInv'
<1>1. /\ ~Idle(t) /\ task[t].at = "renew" /\ task[t].op # "delete"
      /\ task[t].creds # << >> /\ RequestOK(task[t]) /\ task[t] \in RequestType(Nat)
      /\ Go(t, "unwind")
      /\ UNCHANGED <<redis, stored, aged, ages, bypassed, begun>>
  BY Stage DEF RenewFails, RequestOK
<1>2. Cred(t) \in Creds
  BY <1>1, RequestInHand
<1>3. CountersOK'
  <2>1. CASE UNCHANGED <<issued, strayed, faults>>
    BY <1>1, <2>1 DEF IInv, CountersOK
  <2>2. CASE /\ faults < MaxFaults /\ faults' = faults + 1
             /\ issued' = [issued EXCEPT ![Cred(t)] = @ + 1]
             /\ strayed' = strayed \cup {Cred(t)}
    BY <1>1, <1>2, <2>2, CredentialConstants DEF IInv, CountersOK
  <2>3. QED
    BY <2>1, <2>2 DEF RenewFails
<1>4. "unwind" \in StagesOf(task[t]) \ Waiting
  BY <1>1 DEF StagesOf, OfNodes, Waiting
<1>5. KindsAt(task[t]) \subseteq KindsAt([task[t] EXCEPT !.at = "unwind"])
  BY <1>1 DEF KindsAt, RequestType, Kinds
<1>6. QED
  BY <1>1, <1>3, <1>4, <1>5, GoAlone

LEMMA SaveOK == ASSUME IInv, NEW t \in Tasks, Save(t) PROVE IInv'
<1> DEFINE q == task[t]
           c == Cred(t)
<1>1. /\ ~Idle(t) /\ q.at = "save" /\ q.op # "delete"
      /\ q.creds # << >> /\ RequestOK(q) /\ q \in RequestType(Nat)
      /\ UNCHANGED <<redis, issued, aged, ages, begun, faults>>
  BY Stage DEF Save, RequestOK
<1>2. c \in Creds /\ q.copy \in [Creds -> Nat] /\ q.fresh \in Nat
      /\ task \in [Tasks -> RequestType(Nat) \cup {NoTask}]
  BY <1>1, RequestInHand DEF RequestType
<1>3. CASE Go(t, "unwind") /\ UNCHANGED <<stored, strayed, bypassed>>
  <2>1. "unwind" \in StagesOf(q) \ Waiting
    BY <1>1 DEF StagesOf, OfNodes, Waiting
  <2>2. KindsAt(q) \subseteq KindsAt([q EXCEPT !.at = "unwind"])
    BY <1>1 DEF KindsAt, RequestType, Kinds
  <2>3. CountersOK'
    BY <1>1, <1>3 DEF IInv, CountersOK
  <2>4. QED
    BY <1>1, <1>3, <2>1, <2>2, <2>3, GoAlone
<1>4. CASE /\ stored' = [stored EXCEPT ![c] = q.fresh]
           /\ strayed' = IF q.fresh = issued[c] THEN strayed ELSE strayed \cup {c}
           /\ bypassed' = Bypass(t)
           /\ task' = [task EXCEPT
                ![t].copy = Renewed(t),
                ![t].at = IF Locking(t) THEN "unclaim" ELSE "unrefresh"]
  <2> DEFINE at == IF Locking(t) THEN "unclaim" ELSE "unrefresh"
             k == Renewed(t)
             r == [q EXCEPT !.copy = k, !.at = at]
  <2>1. task' = [task EXCEPT ![t] = r]
    BY <1>2, <1>4
  <2>2. at \in StagesOf(q) \ Waiting
    BY <1>1 DEF StagesOf, OfNodes, Waiting
  <2>3. k \in [Creds -> Nat]
    BY <1>2 DEF Renewed
  <2>4. q.op # "use" => KindsAt(q) \subseteq KindsAt([q EXCEPT !.at = at])
    BY <1>1 DEF KindsAt, RequestType, Locking
  <2>5. CountersOK'
    BY <1>1, <1>2, <1>4 DEF IInv, CountersOK, Bypass
  <2> HIDE DEF at, k
  <2>6. RequestOK(r)
    BY <1>1, <2>2, <2>3, Moves
  <2>7. r.op = q.op /\ r.creds = q.creds /\ KindsAt(r) = KindsAt([q EXCEPT !.at = at])
    BY <1>1 DEF RequestType, KindsAt
  <2>8. Hands(q, held[t]) /\ q # NoTask /\ r # NoTask
    BY <1>1, <2>6, RequestInHand, RequestIsNotNoTask
  <2> HIDE DEF r
  <2>9. Hands(r, held[t])
    BY <2>4, <2>7, <2>8 DEF Hands
  <2>10. QED
    BY <1>1, <2>1, <2>5, <2>6, <2>9, SameEverything, OneTask
<1>5. QED
  BY <1>3, <1>4 DEF Save

LEMMA ReleaseClaimOK == ASSUME IInv, NEW t \in Tasks, ReleaseClaim(t) PROVE IInv'
<1> DEFINE q == task[t]
<1>1. /\ ~Idle(t) /\ q.at = "unclaim" /\ q.op # "delete"
      /\ q.creds # << >> /\ RequestOK(q) /\ q \in RequestType(Nat)
      /\ Release(t, Main(Cred(t))) /\ Go(t, "unrefresh")
      /\ UNCHANGED <<tokens, begun, faults>>
  BY Stage DEF ReleaseClaim, RequestOK
<1>2. Main(Cred(t)) \in Locks
  BY <1>1, RequestInHand DEF Main, Kinds
<1>3. RedisOK' /\ HolderSetKey' /\ SetterHolds' /\ CountersOK'
  BY <1>1, <1>2, ReleaseStep
<1>4. PICK h : /\ held' = [held EXCEPT ![t] = h]
               /\ HeldIn(h) = Held(t) \ {Main(Cred(t))}
  BY <1>1, <1>2, ReleaseStep
<1>5. q.op # "use" =>
        HeldIn(h) \subseteq {Cred(t)} \X KindsAt([q EXCEPT !.at = "unrefresh"])
  <2>1. KindsAt(q) = {"refresh", "main"} /\ KindsAt([q EXCEPT !.at = "unrefresh"]) = {"refresh"}
    BY <1>1 DEF KindsAt, RequestType
  <2>2. q.op # "use" => Held(t) \subseteq {Cred(t)} \X {"refresh", "main"}
    BY <1>1, <2>1, HeldAt
  <2>3. QED
    BY <1>4, <2>1, <2>2 DEF Main
<1>6. "unrefresh" \in StagesOf(q) \ Waiting
  BY <1>1 DEF StagesOf, OfNodes, Waiting
<1>7. QED
  BY <1>1, <1>3, <1>4, <1>5, <1>6, GoStep

LEMMA ReleaseRefreshOK == ASSUME IInv, NEW t \in Tasks, ReleaseRefresh(t) PROVE IInv'
<1> DEFINE q == task[t]
           l == <<Cred(t), "refresh">>
<1>1. /\ ~Idle(t) /\ q.op # "delete" /\ q.at \in {"unrefresh", "unwind"}
      /\ q.creds # << >> /\ RequestOK(q) /\ q \in RequestType(Nat)
      /\ Release(t, l) /\ UNCHANGED <<tokens, begun, faults>>
  BY Stage DEF ReleaseRefresh, RequestOK
<1>2. l \in Locks
  BY <1>1, RequestInHand DEF Kinds
<1>3. RedisOK' /\ HolderSetKey' /\ SetterHolds' /\ CountersOK'
  BY <1>1, <1>2, ReleaseStep
<1>4. PICK h : held' = [held EXCEPT ![t] = h] /\ HeldIn(h) = Held(t) \ {l}
  BY <1>1, <1>2, ReleaseStep
<1>5. CASE q.at = "unrefresh" /\ Proceed(t)
  <2>1. KindsAt(q) = {"refresh"}
    BY <1>5 DEF KindsAt
  <2>2. q.op # "use" => HeldIn(h) = {}
    BY <1>1, <1>4, <2>1, HeldAt
  <2>3. QED
    BY <1>1, <1>3, <1>4, <1>5, <2>2, ProceedStep
<1>6. CASE q.at = "unwind" /\ Go(t, "failed")
  <2>1. KindsAt(q) = Kinds /\ KindsAt([q EXCEPT !.at = "failed"]) = Kinds
    BY <1>1, <1>6 DEF KindsAt, RequestType
  <2>2. q.op # "use" => HeldIn(h) \subseteq {Cred(t)} \X KindsAt([q EXCEPT !.at = "failed"])
    BY <1>1, <1>4, <2>1, HeldAt
  <2>3. "failed" \in StagesOf(q) \ Waiting
    BY <1>1 DEF StagesOf, OfNodes, Waiting
  <2>4. QED
    BY <1>1, <1>3, <1>4, <1>6, <2>2, <2>3, GoStep
<1>7. QED
  BY <1>5, <1>6 DEF ReleaseRefresh, At

LEMMA RaiseOK == ASSUME IInv, NEW t \in Tasks, Raise(t) PROVE IInv'
<1>1. ~Idle(t) /\ task[t].creds # << >>
  BY Stage DEF Raise
<1>2. QED
  BY <1>1, GiveUpStep DEF Raise

LEMMA RemoveOK == ASSUME IInv, NEW t \in Tasks, Remove(t) PROVE IInv'
<1>1. /\ ~Idle(t) /\ task[t].at = "remove" /\ task[t].op = "delete"
      /\ task[t].creds # << >> /\ task[t] \in RequestType(Nat)
      /\ Go(t, "removed") /\ stored' = [stored EXCEPT ![Cred(t)] = 0]
      /\ UNCHANGED <<redis, issued, aged, ages, strayed, bypassed, begun, faults>>
  BY Stage DEF Remove, RequestOK
<1>2. "removed" \in StagesOf(task[t]) \ Waiting
  BY <1>1 DEF StagesOf, OfNodes, Waiting
<1>3. KindsAt(task[t]) \subseteq KindsAt([task[t] EXCEPT !.at = "removed"])
  BY <1>1 DEF KindsAt, RequestType
<1>4. CountersOK'
  <2>1. stored \in [Creds -> Nat]
    BY DEF IInv, CountersOK
  <2>2. stored' \in [Creds -> Nat]
    BY <1>1, <2>1
  <2>3. QED
    BY <1>1, <2>2 DEF IInv, CountersOK
<1>5. QED
  BY <1>1, <1>2, <1>3, <1>4, GoAlone

LEMMA RemovedOK == ASSUME IInv, NEW t \in Tasks, Removed(t) PROVE IInv'
<1>1. /\ ~Idle(t) /\ task[t].at = "removed" /\ task[t].op = "delete"
      /\ task[t].creds # << >>
      /\ Release(t, Main(Cred(t))) /\ task' = [task EXCEPT ![t] = NoTask]
      /\ UNCHANGED <<tokens, begun, faults>>
  BY Stage DEF Removed
<1>2. Main(Cred(t)) \in Locks
  BY <1>1, RequestInHand DEF Main, Kinds
<1>3. RedisOK' /\ HolderSetKey' /\ SetterHolds' /\ CountersOK'
  BY <1>1, <1>2, ReleaseStep
<1>4. PICK h : /\ held' = [held EXCEPT ![t] = h]
               /\ HeldIn(h) = Held(t) \ {Main(Cred(t))}
  BY <1>1, <1>2, ReleaseStep
<1>5. KindsAt(task[t]) = {"main"}
  BY <1>1 DEF KindsAt
<1>6. HeldIn(h) = {}
  BY <1>1, <1>4, <1>5, HeldAt DEF Main
<1>7. Hands(NoTask, h)
  BY <1>6 DEF Hands
<1>8. QED
  BY <1>1, <1>3, <1>4, <1>7, OneTask

LEMMA ReleaseNodeOK == ASSUME IInv, NEW t \in Tasks, ReleaseNode(t) PROVE IInv'
<1>1. ~Idle(t) /\ task[t].op = "use" /\ RequestOK(task[t])
      /\ UNCHANGED <<tokens, begun, faults>>
  BY Stage DEF ReleaseNode, OfNodes
<1>2. CASE End(t)
  BY <1>1, <1>2, EndStep
<1>3. ASSUME NEW l \in Held(t), Release(t, l), Go(t, "using") PROVE IInv'
  <2>1. l \in Locks
    BY DEF Held
  <2>2. /\ \E h : held' = [held EXCEPT ![t] = h]
        /\ RedisOK' /\ HolderSetKey' /\ SetterHolds' /\ CountersOK'
    BY <1>1, <1>3, <2>1, ReleaseStep
  <2>3. "using" \in StagesOf(task[t]) \ Waiting
    BY <1>1 DEF StagesOf, Waiting
  <2>4. QED
    BY <1>1, <1>3, <2>2, <2>3, GoStep
<1>4. QED
  BY <1>2, <1>3 DEF ReleaseNode

\* A request begins.
LEMMA ServeOK == ASSUME IInv, NEW t \in Tasks, Serve(t) PROVE IInv'
<1>1. ASSUME NEW op \in {"use", "get", "peek", "cached", "delete"}, NEW creds \in Seq(Creds),
             NEW at \in {"next", "read"}, creds # << >>, op # "use" => at = "read",
             Begin(t), task' = [task EXCEPT ![t] = Request(op, creds, at)]
      PROVE  IInv'
  <2> DEFINE r == Request(op, creds, at)
  <2>1. RequestOK(r)
    BY <1>1 DEF RequestOK, Request, RequestType, Waiting, OfNodes
  <2>2. Idle(t) /\ UNCHANGED redis /\ CountersOK'
    BY <1>1, CredentialConstants DEF Begin, IInv, CountersOK, tokens
  <2>3. Hands(r, held[t])
    BY <2>1, <2>2, RequestIsNotNoTask DEF IInv, HandsOK, Hands, Idle
  <2> HIDE DEF r
  <2>4. task' = [task EXCEPT ![t] = r]
    BY <1>1 DEF r
  <2>5. QED
    BY <2>1, <2>2, <2>3, <2>4, SameEverything, OneTask
<1>2. \A list \in Lists : list \in Seq(Creds) /\ list # << >>
  BY CredentialConstants
<1>3. ASSUME NEW list \in Lists, ExecuteNode(t, list) PROVE IInv'
  BY <1>1, <1>2, <1>3 DEF ExecuteNode
<1>4. ASSUME NEW list \in Lists, Activate(t, list) PROVE IInv'
  BY <1>1, <1>2, <1>4 DEF Activate
<1>5. \A c \in Creds : <<c>> \in Seq(Creds) /\ <<c>> # << >>
  OBVIOUS
<1>6. ASSUME NEW c \in Creds, Get(t, c) PROVE IInv'
  BY <1>1, <1>5, <1>6 DEF Get
<1>7. ASSUME NEW c \in Creds, Delete(t, c) PROVE IInv'
  BY <1>1, <1>5, <1>7 DEF Delete
<1>8. ASSUME NEW c \in Creds, Peek(t, c) PROVE IInv'
  BY <1>1, <1>5, <1>8 DEF Peek
<1>9. QED
  BY <1>3, <1>4, <1>6, <1>7, <1>8 DEF Serve

\* Tokens age, or are replaced without a lock.
LEMMA TokensOnly ==
  ASSUME IInv, NEW c \in Creds, ReplaceMCP(c) \/ Age(c)
  PROVE  IInv'
<1>1. UNCHANGED <<redis, task>>
  BY DEF ReplaceMCP, Age
<1>2. RedisOK' /\ HolderSetKey' /\ SetterHolds'
  BY <1>1 DEF IInv, RedisOK, HolderSetKey, SetterHolds, Holds, redis
<1>3. TasksOK' /\ HandsOK'
  BY <1>1 DEF IInv, TasksOK, HandsOK, Idle, redis
<1>4. CountersOK'
  <2>1. CASE ReplaceMCP(c)
    BY <2>1, CredentialConstants DEF ReplaceMCP, IInv, CountersOK
  <2>2. CASE Age(c)
    <3>1. ages' \in 0..MaxAges
      BY <2>2, CredentialConstants DEF Age, IInv, CountersOK
    <3>2. /\ aged' = [aged EXCEPT ![c] = issued[c]]
          /\ UNCHANGED <<stored, issued, strayed, bypassed, begun, faults>>
      BY <2>2 DEF Age
    <3>3. stored \in [Creds -> Nat] /\ issued \in [Creds -> Nat] /\ aged \in [Creds -> Nat]
      BY DEF IInv, CountersOK
    <3>4. aged' \in [Creds -> Nat]
      BY <3>2, <3>3
    <3>5. QED
      BY <3>1, <3>2, <3>3, <3>4 DEF IInv, CountersOK
  <2>3. QED
    BY <2>1, <2>2
<1>5. QED
  BY <1>2, <1>3, <1>4 DEF IInv

-----------------------------------------------------------------------------
(* The theorems. *)

LEMMA InitOK == Init => IInv
<1> HAVE Init
<1>1. TasksOK
  BY DEF Init, TasksOK, Idle
<1>2. RedisOK
  BY DEF Init, RedisOK, KeyType, HandsType, HoldsNothing
<1>3. HandsOK
  BY MarkersDiffer DEF Init, HandsOK, Hands, HeldIn, HoldsNothing
<1>4. HolderSetKey /\ SetterHolds
  BY DEF Init, HolderSetKey, SetterHolds, Holds, HoldsNothing
<1>5. CountersOK
  BY CredentialConstants DEF Init, CountersOK
<1>6. QED
  BY <1>1, <1>2, <1>3, <1>4, <1>5 DEF IInv

LEMMA NextOK == IInv /\ [Next]_vars => IInv'
<1> SUFFICES ASSUME IInv, [Next]_vars PROVE IInv'
  OBVIOUS
<1>1. ASSUME NEW t \in Tasks, Step(t) PROVE IInv'
  BY <1>1, NextFieldOK, TakeQueueOK, TakeMainOK, LeaveQueueOK, ReadOK,
     ReadAndLockOK, TakeRefreshOK, TakeClaimOK, RenewOK, RenewFailsOK, SaveOK,
     ReleaseClaimOK, ReleaseRefreshOK, RaiseOK, RemoveOK, RemovedOK,
     ReleaseNodeOK DEF Step
<1>2. ASSUME NEW t \in Tasks, Serve(t) PROVE IInv'
  BY <1>2, ServeOK
<1>3. ASSUME NEW l \in Locks, Expire(l) PROVE IInv'
  BY <1>3, ExpireKeeps
<1>4. ASSUME NEW c \in Creds, ReplaceMCP(c) \/ Age(c) PROVE IInv'
  BY <1>4, TokensOnly
<1>5. ASSUME NEW m \in Managers, Crash(m) PROVE IInv'
  BY <1>5, CrashKeeps
<1>6. CASE UNCHANGED vars
  <2>1. UNCHANGED <<redis, tokens, task, begun, faults>>
    BY <1>6 DEF vars
  <2>2. RedisOK' /\ HolderSetKey' /\ SetterHolds'
    BY <2>1 DEF IInv, RedisOK, HolderSetKey, SetterHolds, Holds, redis
  <2>3. TasksOK' /\ HandsOK' /\ CountersOK'
    BY <2>1 DEF IInv, TasksOK, HandsOK, CountersOK, Idle, redis, tokens
  <2>4. QED
    BY <2>2, <2>3 DEF IInv
<1>7. QED
  BY <1>1, <1>2, <1>3, <1>4, <1>5, <1>6 DEF Next

LEMMA Invariance == Spec => []IInv
<1>1. Init => IInv
  BY InitOK
<1>2. IInv /\ [Next]_vars => IInv'
  BY NextOK
<1>3. QED
  BY <1>1, <1>2, PTL DEF Spec

\* Redis, the mutexes and the coroutines of the credentials manager are
\* well-formed: a stage that needs a credential has one, a coroutine that waits
\* has the object it waits with, and an idle one holds nothing.
THEOREM TypeCorrect == Spec => []TypeOK
<1>1. IInv => TypeOK
  <2> SUFFICES ASSUME IInv PROVE TypeOK
    OBVIOUS
  <2>1. \A t \in Tasks :
          /\ ~Idle(t) /\ task[t].at \notin {"next", "using"} => task[t].creds # << >>
          /\ ~Idle(t) /\ task[t].at \in {"queue", "main", "refresh", "claim"} =>
               task[t].via # NoObject
    BY DEF IInv, TasksOK, RequestOK, Waiting
  <2>2. \A t \in Tasks : Idle(t) => Held(t) = {}
    BY DEF IInv, HandsOK, Hands, HeldIn, Held, Holds, Idle
  <2>3. QED
    BY <2>1, <2>2 DEF IInv, TasksOK, RedisOK, CountersOK, TypeOK, KeyType, HandsType
<1>2. QED
  BY <1>1, Invariance, PTL

\* A lock of a credential has one holder, until its key expires in the hands of
\* a holder of AsyncRedisKeyedMutex's shared object.
THEOREM LocksExclude == Spec => []Exclusive
<1>1. IInv => Exclusive
  BY DEF IInv, HolderSetKey, Exclusive
<1>2. QED
  BY <1>1, Invariance, PTL

\* A key in Redis whose setter neither died nor failed is held by him: the
\* questions locked() and owned() before a release never leave one behind.
THEOREM NothingStaysLocked == Spec => []NothingLeftLocked
<1>1. IInv => NothingLeftLocked
  <2> SUFFICES ASSUME IInv, NEW l \in Locks \ leaked, key[l] # Free
               PROVE  held[key[l].by][l] # NoObject
    BY DEF NothingLeftLocked, Holds
  <2>1. held[key[l].by][l] = key[l].via
    BY DEF IInv, SetterHolds
  <2>2. key[l].via \in Objects
    BY DEF IInv, RedisOK, KeyType
  <2>3. QED
    BY <2>1, <2>2, ObjectsAreNumbers
<1>2. QED
  BY <1>1, Invariance, PTL
-----------------------------------------------------------------------------
(* The tokens a block runs with.  Whoever renews, saves or removes tokens   *)
(* has the credential's main lock, or is the copilot, whose renewal is told *)
(* apart until the lock is next taken; of all other credentials the tokens  *)
(* in the database are the newest ones, or somebody is about to save those; *)
(* and a node's copy of the tokens is current from the moment it was read   *)
(* under the main lock.                                                     *)

\* Credentials about whose tokens nothing is said.
Astray == strayed \cup bypassed

\* At these stages a request has the main lock of the credential in hand.
Claiming(r) ==
  \/ r.op = "use" /\ r.at \in {"unqueue", "read", "refresh", "renew", "save"}
  \/ r.op \notin {"use", "peek"} /\ r.at \in {"renew", "save", "remove"}

InHand(r, c, stages) == r.at \in stages /\ Head(r.creds) = c

Saving(r, c) == r # NoTask /\ r.op # "peek" /\ InHand(r, c, {"save"})

NodeHolds(r, h, c) == r # NoTask /\ r.op = "use" /\ h[Main(c)] # NoObject

\* A node that has the main lock has not read the tokens yet or is failing, has
\* fetched the newest ones and will save them, or has those in the database.
Current(r, c, store, newest) ==
  \/ InHand(r, c, {"unqueue", "read", "unwind", "failed"})
  \/ InHand(r, c, {"save"}) /\ r.fresh = newest /\ newest # 0
  \/ ~InHand(r, c, {"save"}) /\ r.copy[c] = store /\ r.copy[c] # 0

Claims ==
  \A t \in Tasks :
    task[t] # NoTask /\ Claiming(task[t]) =>
      held[t][Main(Head(task[t].creds))] # NoObject

Agrees ==
  \A c \in Creds \ Astray :
    \/ stored[c] = 0
    \/ stored[c] = issued[c]
    \/ \E t \in Tasks : Saving(task[t], c)

Copies ==
  \A t \in Tasks : \A c \in Creds \ Astray :
    NodeHolds(task[t], held[t], c) /\ Main(c) \notin lapsed =>
      Current(task[t], c, stored[c], issued[c])

\* A node never asks for the main lock of a credential it has in hand.
AskedOnce == \A t \in Tasks : task[t] # NoTask /\ task[t].op = "use" => task[t].at # "claim"

InUse == Claims /\ Agrees /\ Copies /\ AskedOnce

\* A lock is only forgotten to have lapsed when nobody holds it any more.
Loyal ==
  \A u \in Tasks : \A l \in Locks :
    held'[u][l] # NoObject /\ l \notin lapsed' => l \notin lapsed

LEMMA MainIsLock == ASSUME NEW c \in Creds PROVE Main(c) \in Locks
BY DEF Main, Locks

\* A step of one task, which becomes r and holds h.  Where it changes tokens,
\* no other task has the credential's main lock.
LEMMA StepOfTask ==
  ASSUME IInv, InUse, NEW t \in Tasks, NEW r, NEW h,
         task' = [task EXCEPT ![t] = r], held' = [held EXCEPT ![t] = h], Loyal,
         \A c \in Creds \ Astray' :
           \/ c \notin Astray /\ stored'[c] = stored[c] /\ issued'[c] = issued[c]
           \/ \A u \in Tasks \ {t} : held[u][Main(c)] # NoObject => Main(c) \in lapsed,
         \A c \in Creds \ Astray' :
           \/ stored'[c] = 0
           \/ stored'[c] = issued'[c]
           \/ Saving(r, c)
           \/ \E u \in Tasks \ {t} : Saving(task[u], c),
         r # NoTask /\ Claiming(r) => h[Main(Head(r.creds))] # NoObject,
         r # NoTask /\ r.op = "use" => r.at # "claim",
         \A c \in Creds \ Astray' :
           NodeHolds(r, h, c) /\ Main(c) \notin lapsed' => Current(r, c, stored'[c], issued'[c])
  PROVE  InUse'
<1>1. /\ \A u \in Tasks : task'[u] = IF u = t THEN r ELSE task[u]
      /\ \A u \in Tasks : held'[u] = IF u = t THEN h ELSE held[u]
  BY DEF IInv, TasksOK, RedisOK
<1>2. Claims'
  <2> SUFFICES ASSUME NEW u \in Tasks, task'[u] # NoTask, Claiming(task'[u])
               PROVE  held'[u][Main(Head(task'[u].creds))] # NoObject
    BY DEF Claims
  <2>1. CASE u = t
    BY <1>1, <2>1
  <2>2. CASE u # t
    BY <1>1, <2>2 DEF InUse, Claims
  <2>3. QED
    BY <2>1, <2>2
<1>3. Agrees'
  <2> SUFFICES ASSUME NEW c \in Creds \ Astray'
               PROVE  \/ stored'[c] = 0
                      \/ stored'[c] = issued'[c]
                      \/ \E u \in Tasks : Saving(task'[u], c)
    BY DEF Agrees
  <2>1. CASE Saving(r, c)
    BY <1>1, <2>1
  <2>2. CASE \E u \in Tasks \ {t} : Saving(task[u], c)
    BY <1>1, <2>2
  <2>3. QED
    BY <2>1, <2>2
<1>4. Copies'
  <2> SUFFICES ASSUME NEW u \in Tasks, NEW c \in Creds \ Astray',
                      NodeHolds(task'[u], held'[u], c), Main(c) \notin lapsed'
               PROVE  Current(task'[u], c, stored'[c], issued'[c])
    BY DEF Copies
  <2>1. CASE u = t
    BY <1>1, <2>1
  <2>2. CASE u # t
    <3>1. task'[u] = task[u] /\ held'[u] = held[u]
      BY <1>1, <2>2
    <3>2. Main(c) \in Locks /\ held'[u][Main(c)] # NoObject
      BY MainIsLock DEF NodeHolds
    <3>3. Main(c) \notin lapsed
      BY <3>2 DEF Loyal
    <3>4. c \notin Astray /\ stored'[c] = stored[c] /\ issued'[c] = issued[c]
      BY <2>2, <3>1, <3>2, <3>3
    <3>5. c \in Creds \ Astray
      BY <3>4
    <3>6. QED
      BY <3>1, <3>3, <3>4, <3>5 DEF InUse, Copies
  <2>3. QED
    BY <2>1, <2>2
<1>5. AskedOnce'
  BY <1>1 DEF InUse, AskedOnce
<1>6. QED
  BY <1>2, <1>3, <1>4, <1>5 DEF InUse

\* A step of one task that is not saving, and leaves all tokens alone.
LEMMA CalmStep ==
  ASSUME IInv, InUse, NEW t \in Tasks, NEW r, NEW h,
         task' = [task EXCEPT ![t] = r], held' = [held EXCEPT ![t] = h], Loyal,
         UNCHANGED tokens, task[t] = NoTask \/ task[t].at # "save",
         r # NoTask /\ Claiming(r) => h[Main(Head(r.creds))] # NoObject,
         r # NoTask /\ r.op = "use" => r.at # "claim",
         \A c \in Creds \ Astray :
           NodeHolds(r, h, c) /\ Main(c) \notin lapsed' => Current(r, c, stored[c], issued[c])
  PROVE  InUse'
<1>1. stored' = stored /\ issued' = issued /\ Astray' = Astray
  BY DEF tokens, Astray
<1>2. ASSUME NEW c \in Creds \ Astray
      PROVE  \/ stored[c] = 0
             \/ stored[c] = issued[c]
             \/ \E u \in Tasks \ {t} : Saving(task[u], c)
  <2>1. ~Saving(task[t], c)
    BY DEF Saving, InHand
  <2>2. QED
    BY <2>1 DEF InUse, Agrees
<1>3. QED
  BY <1>1, <1>2, StepOfTask

\* Such a step of a request other than a node's.
LEMMA OtherStep ==
  ASSUME IInv, InUse, NEW t \in Tasks, NEW r, NEW h,
         task' = [task EXCEPT ![t] = r], held' = [held EXCEPT ![t] = h], Loyal,
         UNCHANGED tokens, task[t] = NoTask \/ task[t].at # "save",
         r = NoTask \/ r.op # "use",
         r # NoTask /\ Claiming(r) => h[Main(Head(r.creds))] # NoObject
  PROVE  InUse'
<1>1. \A c \in Creds : ~NodeHolds(r, h, c)
  BY DEF NodeHolds
<1>2. QED
  BY <1>1, CalmStep

\* Such a step of a node: it concerns the credential in hand.
LEMMA NodeStep ==
  ASSUME IInv, InUse, NEW t \in Tasks, NEW r, NEW h,
         task' = [task EXCEPT ![t] = r], held' = [held EXCEPT ![t] = h], Loyal,
         UNCHANGED tokens,
         ~Idle(t), task[t].op = "use", task[t].creds # << >>, task[t].at # "save",
         r.at # "save", r.creds = task[t].creds \/ r.at \in {"next", "using"},
         \A c \in Creds \ {Cred(t)} :
           /\ r.copy[c] = task[t].copy[c]
           /\ h[Main(c)] # NoObject => held[t][Main(c)] # NoObject,
         Claiming(r) => h[Main(Head(r.creds))] # NoObject, r.at # "claim",
         (/\ Cred(t) \notin Astray /\ h[Main(Cred(t))] # NoObject
          /\ Main(Cred(t)) \notin lapsed') =>
           Current(r, Cred(t), stored[Cred(t)], issued[Cred(t)])
  PROVE  InUse'
<1> DEFINE d == Cred(t)
<1>1. ASSUME NEW c \in Creds \ Astray, NodeHolds(r, h, c), Main(c) \notin lapsed'
      PROVE  Current(r, c, stored[c], issued[c])
  <2>1. CASE c = Cred(t)
    BY <1>1, <2>1 DEF NodeHolds
  <2>2. CASE c # Cred(t)
    <3>1. held[t][Main(c)] # NoObject /\ r.copy[c] = task[t].copy[c]
      BY <1>1, <2>2 DEF NodeHolds
    <3>2. Main(c) \notin lapsed
      <4>1. held'[t][Main(c)] # NoObject /\ Main(c) \in Locks
        BY <1>1, MainIsLock DEF NodeHolds, IInv, RedisOK
      <4>2. QED
        BY <1>1, <4>1 DEF Loyal
    <3>3. NodeHolds(task[t], held[t], c)
      BY <3>1 DEF NodeHolds, Idle
    <3>4. Current(task[t], c, stored[c], issued[c])
      BY <3>2, <3>3 DEF InUse, Copies
    <3>5. task[t].copy[c] = stored[c] /\ task[t].copy[c] # 0
      BY <2>2, <3>4 DEF Current, InHand, Cred
    <3>6. ~InHand(r, c, {"save"})
      BY DEF InHand
    <3>7. QED
      BY <3>1, <3>5, <3>6 DEF Current
  <2>3. QED
    BY <2>1, <2>2
<1>2. QED
  BY <1>1, CalmStep

\* A step of a node that is past reading and not failing, with the same copies.
LEMMA SameCopy ==
  ASSUME IInv, InUse, NEW t \in Tasks, NEW r, NEW h,
         task' = [task EXCEPT ![t] = r], held' = [held EXCEPT ![t] = h], Loyal,
         UNCHANGED tokens,
         ~Idle(t), task[t].op = "use",
         task[t].at \notin {"unqueue", "read", "unwind", "failed", "save"},
         r.at \notin {"save", "claim"}, r.copy = task[t].copy,
         \A c \in Creds : h[Main(c)] # NoObject => held[t][Main(c)] # NoObject,
         Claiming(r) => h[Main(Head(r.creds))] # NoObject
  PROVE  InUse'
<1>1. ASSUME NEW c \in Creds \ Astray, NodeHolds(r, h, c), Main(c) \notin lapsed'
      PROVE  Current(r, c, stored[c], issued[c])
  <2>1. held[t][Main(c)] # NoObject
    BY <1>1 DEF NodeHolds
  <2>2. held'[t][Main(c)] # NoObject /\ Main(c) \in Locks
    BY <1>1, MainIsLock DEF NodeHolds, IInv, RedisOK
  <2>3. Main(c) \notin lapsed
    BY <1>1, <2>2 DEF Loyal
  <2>4. NodeHolds(task[t], held[t], c)
    BY <2>1 DEF NodeHolds, Idle
  <2>5. Current(task[t], c, stored[c], issued[c])
    BY <2>3, <2>4 DEF InUse, Copies
  <2>6. task[t].copy[c] = stored[c] /\ task[t].copy[c] # 0
    BY <2>5 DEF Current, InHand
  <2>7. ~InHand(r, c, {"save"})
    BY DEF InHand
  <2>8. QED
    BY <2>6, <2>7 DEF Current
<1>2. QED
  BY <1>1, CalmStep

\* A step that changes the tokens of the credential in hand, whose main lock the
\* task has.
LEMMA TokenStep ==
  ASSUME IInv, InUse, NEW t \in Tasks, NEW r,
         task' = [task EXCEPT ![t] = r], UNCHANGED redis,
         ~Idle(t), task[t].creds # << >>, Claiming(task[t]),
         Astray \subseteq Astray',
         \A c \in Creds \ {Cred(t)} : stored'[c] = stored[c] /\ issued'[c] = issued[c],
         r.op = task[t].op, r.creds = task[t].creds, r.at # "claim",
         \A c \in Creds \ {Cred(t)} : r.copy[c] = task[t].copy[c],
         Cred(t) \notin Astray' =>
           \/ stored'[Cred(t)] = 0
           \/ stored'[Cred(t)] = issued'[Cred(t)]
           \/ Saving(r, Cred(t))
           \/ \E u \in Tasks \ {t} : Saving(task[u], Cred(t)),
         r.op = "use" /\ Cred(t) \notin Astray' /\ Main(Cred(t)) \notin lapsed =>
           Current(r, Cred(t), stored'[Cred(t)], issued'[Cred(t)])
  PROVE  InUse'
<1> DEFINE h == held[t]
<1>1. held' = [held EXCEPT ![t] = h] /\ lapsed' = lapsed /\ Cred(t) \in Creds
  BY RequestInHand DEF redis, IInv, RedisOK
<1>2. Loyal
  BY <1>1 DEF Loyal
<1>3. h[Main(Cred(t))] # NoObject
  BY DEF InUse, Claims, Idle, Cred
<1>4. ASSUME NEW u \in Tasks \ {t}, held[u][Main(Cred(t))] # NoObject
      PROVE  Main(Cred(t)) \in lapsed
  <2>1. Main(Cred(t)) \in Locks
    BY <1>1, MainIsLock
  <2>2. QED
    BY <1>3, <1>4, <2>1 DEF IInv, HolderSetKey, Holds
<1>5. ASSUME NEW c \in Creds \ Astray'
      PROVE  \/ c \notin Astray /\ stored'[c] = stored[c] /\ issued'[c] = issued[c]
             \/ \A u \in Tasks \ {t} : held[u][Main(c)] # NoObject => Main(c) \in lapsed
  BY <1>4
<1>6. ASSUME NEW c \in Creds \ Astray'
      PROVE  \/ stored'[c] = 0
             \/ stored'[c] = issued'[c]
             \/ Saving(r, c)
             \/ \E u \in Tasks \ {t} : Saving(task[u], c)
  <2>1. CASE c = Cred(t)
    BY <2>1
  <2>2. CASE c # Cred(t)
    <3>1. ~Saving(task[t], c)
      BY <2>2 DEF Saving, InHand, Cred
    <3>2. stored'[c] = stored[c] /\ issued'[c] = issued[c] /\ c \in Creds \ Astray
      BY <2>2
    <3>3. QED
      BY <3>1, <3>2 DEF InUse, Agrees
  <2>3. QED
    BY <2>1, <2>2
<1>7. r # NoTask /\ Claiming(r) => h[Main(Head(r.creds))] # NoObject
  BY <1>3 DEF Cred
<1>8. ASSUME NEW c \in Creds \ Astray', NodeHolds(r, h, c), Main(c) \notin lapsed'
      PROVE  Current(r, c, stored'[c], issued'[c])
  <2>1. CASE c = Cred(t)
    BY <1>1, <1>8, <2>1 DEF NodeHolds
  <2>2. CASE c # Cred(t)
    <3>1. NodeHolds(task[t], held[t], c) /\ Main(c) \notin lapsed /\ c \in Creds \ Astray
      BY <1>1, <1>8 DEF NodeHolds, Idle
    <3>2. Current(task[t], c, stored[c], issued[c])
      BY <3>1 DEF InUse, Copies
    <3>3. task[t].copy[c] = stored[c] /\ task[t].copy[c] # 0
      BY <2>2, <3>2 DEF Current, InHand, Cred
    <3>4. ~InHand(r, c, {"save"})
      BY <2>2 DEF InHand, Cred
    <3>5. QED
      BY <2>2, <3>3, <3>4 DEF Current
  <2>3. QED
    BY <2>1, <2>2
<1> HIDE DEF h
<1>9. QED
  BY <1>1, <1>2, <1>5, <1>6, <1>7, <1>8, StepOfTask

\* A step of the copilot's request: it has no lock that keeps the tokens, but
\* the credential whose tokens it changes is told apart.
LEMMA PeekStep ==
  ASSUME IInv, InUse, NEW t \in Tasks, NEW r,
         task' = [task EXCEPT ![t] = r], UNCHANGED redis,
         ~Idle(t), task[t].op = "peek", r.op = "peek",
         \A c \in Creds \ Astray' :
           c \notin Astray /\ stored'[c] = stored[c] /\ issued'[c] = issued[c]
  PROVE  InUse'
<1>1. held' = [held EXCEPT ![t] = held[t]] /\ Loyal
  BY SameHands DEF redis, Loyal
<1>2. ASSUME NEW c \in Creds \ Astray'
      PROVE  \/ stored'[c] = 0
             \/ stored'[c] = issued'[c]
             \/ Saving(r, c)
             \/ \E u \in Tasks \ {t} : Saving(task[u], c)
  <2>1. ~Saving(task[t], c)
    BY DEF Saving
  <2>2. QED
    BY <2>1 DEF InUse, Agrees
<1>3. ~Claiming(r) /\ \A c \in Creds : ~NodeHolds(r, held[t], c)
  BY DEF Claiming, NodeHolds
<1>4. QED
  BY <1>1, <1>2, <1>3, StepOfTask

\* A step that takes a main lock: whose tokens were renewed without it is no
\* longer told apart, if they have been saved.  Nobody else has the lock then.
LEMMA TakingMain ==
  ASSUME IInv, InUse, NEW t \in Tasks, ~Idle(t), task[t].at # "save", Cred(t) \in Creds,
         key[Main(Cred(t))] = Free, bypassed' = Retaken(Cred(t)),
         UNCHANGED <<stored, issued, strayed>>,
         NEW c \in Creds \ Astray'
  PROVE  /\ \/ c \notin Astray /\ stored'[c] = stored[c] /\ issued'[c] = issued[c]
            \/ \A u \in Tasks \ {t} : held[u][Main(c)] # NoObject => Main(c) \in lapsed
         /\ \/ stored'[c] = 0
            \/ stored'[c] = issued'[c]
            \/ \E u \in Tasks \ {t} : Saving(task[u], c)
         /\ c # Cred(t) => c \notin Astray
<1>1. ASSUME c = Cred(t), NEW u \in Tasks, held[u][Main(c)] # NoObject
      PROVE  Main(c) \in lapsed
  BY <1>1, MainIsLock DEF IInv, HolderSetKey, Holds
<1>2. c # Cred(t) => c \notin Astray
  BY DEF Astray, Retaken
<1>3. c \in Astray => stored[c] \in {0, issued[c]}
  BY <1>2 DEF Astray, Retaken
<1>4. ~Saving(task[t], c)
  BY DEF Saving, InHand
<1>5. \/ stored[c] = 0
      \/ stored[c] = issued[c]
      \/ \E u \in Tasks \ {t} : Saving(task[u], c)
  BY <1>3, <1>4 DEF InUse, Agrees
<1>6. QED
  BY <1>1, <1>2, <1>5

\* A step that moves no task.
LEMMA NobodyMoves ==
  ASSUME InUse, UNCHANGED <<task, held>>, Loyal, Astray \subseteq Astray',
         \A c \in Creds \ Astray' : stored'[c] = stored[c] /\ issued'[c] = issued[c]
  PROVE  InUse'
<1>1. Claims' /\ AskedOnce'
  BY DEF InUse, Claims, AskedOnce
<1>2. Agrees'
  BY DEF InUse, Agrees
<1>3. Copies'
  <2> SUFFICES ASSUME NEW t \in Tasks, NEW c \in Creds \ Astray',
                      NodeHolds(task[t], held[t], c), Main(c) \notin lapsed'
               PROVE  Current(task[t], c, stored[c], issued[c])
    BY DEF Copies
  <2>1. held[t][Main(c)] # NoObject /\ Main(c) \in Locks
    BY MainIsLock DEF NodeHolds
  <2>2. Main(c) \notin lapsed
    BY <2>1 DEF Loyal
  <2>3. QED
    BY <2>2 DEF InUse, Copies
<1>4. QED
  BY <1>1, <1>2, <1>3 DEF InUse

-----------------------------------------------------------------------------
(* What the commands do, in full. *)

LEMMA ReleaseGives ==
  ASSUME IInv, NEW t \in Tasks, NEW l \in Locks, Release(t, l)
  PROVE  /\ held' = [held EXCEPT ![t] = [held[t] EXCEPT ![l] = NoObject]]
         /\ Loyal
<1>1. /\ held' = [held EXCEPT ![t] = [held[t] EXCEPT ![l] = NoObject]]
      /\ lapsed' = {k \in lapsed : k = l => HeldByOthers(t, k)}
  BY ReleaseKeeps DEF IInv, Release
<1>2. held \in [Tasks -> HandsType]
  BY DEF IInv, RedisOK
<1>3. ASSUME NEW u \in Tasks, NEW k \in Locks, held'[u][k] # NoObject, k \notin lapsed'
      PROVE  k \notin lapsed
  <2>1. k = l => u # t
    BY <1>1, <1>2, <1>3 DEF HandsType
  <2>2. u # t => held[u][k] # NoObject
    BY <1>1, <1>2, <1>3
  <2>3. k = l => HeldByOthers(t, k)
    BY <2>1, <2>2 DEF HeldByOthers, Holds
  <2>4. QED
    BY <1>1, <1>3, <2>3
<1>4. QED
  BY <1>1, <1>3 DEF Loyal

LEMMA LeaveGives ==
  ASSUME IInv, NEW t \in Tasks, NEW locks, locks \subseteq Locks, Leave(t, locks)
  PROVE  /\ held' = [held EXCEPT ![t] =
                       [l \in Locks |-> IF l \in locks THEN NoObject ELSE held[t][l]]]
         /\ Loyal
<1>1. /\ held' = [held EXCEPT ![t] =
                    [l \in Locks |-> IF l \in locks THEN NoObject ELSE held[t][l]]]
      /\ lapsed' = {l \in lapsed : l \in locks => HeldByOthers(t, l)}
  BY LeaveKeeps DEF IInv, Leave
<1>2. held \in [Tasks -> HandsType]
  BY DEF IInv, RedisOK
<1>3. ASSUME NEW u \in Tasks, NEW k \in Locks, held'[u][k] # NoObject, k \notin lapsed'
      PROVE  k \notin lapsed
  <2>1. k \in locks => u # t
    BY <1>1, <1>2, <1>3
  <2>2. u # t => held[u][k] # NoObject
    BY <1>1, <1>2, <1>3
  <2>3. k \in locks => HeldByOthers(t, k)
    BY <2>1, <2>2 DEF HeldByOthers, Holds
  <2>4. QED
    BY <1>1, <1>3, <2>3
<1>4. QED
  BY <1>1, <1>3 DEF Loyal

LEMMA TakeGives ==
  ASSUME IInv, NEW t \in Tasks, ~Idle(t), task[t].at \in Waiting,
         NEW k \in Kinds, Awaited(t) = <<Cred(t), k>>, Take(t, Awaited(t)), lapsed' = lapsed,
         leaked' = leaked
  PROVE  /\ held' = [held EXCEPT ![t] = [held[t] EXCEPT ![<<Cred(t), k>>] = task[t].via]]
         /\ task[t].via # NoObject /\ <<Cred(t), k>> \in Locks /\ Loyal
<1> DEFINE l == <<Cred(t), k>>
<1>1. RequestOK(task[t]) /\ task[t] \in RequestType(Nat)
  BY RequestInHand
<1>2. task[t].via \in Objects /\ task[t].via # NoObject /\ task[t].creds # << >>
  BY <1>1 DEF RequestOK, RequestType, Waiting, NoObject
<1>3. l \in Locks
  BY <1>2, RequestInHand
<1> HIDE DEF l
<1>4. Take(t, l)
  BY DEF l
<1>5. held' = [held EXCEPT ![t] = [held[t] EXCEPT ![l] = task[t].via]]
  BY <1>2, <1>3, <1>4, TakeKeeps DEF IInv
<1>6. QED
  BY <1>2, <1>3, <1>5 DEF l, Loyal

LEMMA GoGives ==
  ASSUME IInv, NEW t \in Tasks, ~Idle(t), NEW at, Go(t, at)
  PROVE  task' = [task EXCEPT ![t] = [task[t] EXCEPT !.at = at, !.via = NoObject]]
BY RequestInHand DEF Go

Asking(t, o, at) == [task[t] EXCEPT !.at = at, !.via = o, !.copy = Known(t)]

LEMMA AskGivesCopy ==
  ASSUME IInv, NEW t \in Tasks, ~Idle(t), NEW l \in Locks, NEW at, Ask(t, l, at)
  PROVE  \E o \in Objects :
           task' = [task EXCEPT ![t] = Asking(t, o, at)]
<1> DEFINE m == ManagerOf[t]
<1>0. m \in Managers /\ mutex \in [Managers -> HandsType]
  BY ManagersOfTasks DEF IInv, RedisOK
<1>1. task \in [Tasks -> RequestType(Nat) \cup {NoTask}]
  BY RequestInHand
<1>2. PICK o \in {mutex[m][l], Fresh(m, l)} \ {NoObject} :
        /\ task' = [task EXCEPT ![t].at = at, ![t].via = o, ![t].copy = Known(t)]
        /\ mutex' = [mutex EXCEPT ![m][l] = o]
  BY DEF Ask
<1>3. task' = [task EXCEPT ![t] =
                 [task[t] EXCEPT !.at = at, !.via = o, !.copy = Known(t)]]
  BY <1>1, <1>2
<1>4. o \in Objects
  BY <1>0, <1>2, FreshIsObject DEF HandsType, IInv
<1>5. QED
  BY <1>3, <1>4 DEF Asking

\* Between two reads a request keeps its copies; a node's read adds one.
LEMMA KnownIs ==
  ASSUME NEW t \in Tasks
  PROVE  /\ task[t].at # "read" => Known(t) = task[t].copy
         /\ task[t].at = "read" /\ task[t].op = "use" =>
              Known(t) = [task[t].copy EXCEPT ![Cred(t)] = stored[Cred(t)]]
BY DEF Known

LEMMA HeldFunction ==
  ASSUME IInv, NEW t \in Tasks
  PROVE  /\ held[t] \in [Locks -> Objects \cup {NoObject}]
         /\ \A c \in Creds : \A k \in {"queue", "refresh"} :
              Main(c) # <<c, k>> /\ Main(c) \in Locks
         /\ \A c, d \in Creds : \A k \in {"queue", "refresh"} : Main(c) # <<d, k>>
BY DEF IInv, RedisOK, HandsType, Main, Locks

\* What a lemma about a step of task t starts from.
LEMMA InHandOf ==
  ASSUME IInv, NEW t \in Tasks, NEW at, At(t, at)
  PROVE  /\ ~Idle(t) /\ task[t] # NoTask /\ task[t].at = at
         /\ task[t] \in RequestType(Nat)
         /\ at \notin {"next", "using"} => task[t].creds # << >> /\ Cred(t) \in Creds
BY Stage, RequestInHand DEF Idle

-----------------------------------------------------------------------------
(* Every step keeps InUse. *)

LEMMA EndUse ==
  ASSUME IInv, InUse, NEW t \in Tasks, ~Idle(t), task[t].at # "save", End(t),
         UNCHANGED tokens
  PROVE  InUse'
<1>1. Held(t) \subseteq Locks /\ Leave(t, Held(t)) /\ task' = [task EXCEPT ![t] = NoTask]
  BY DEF Held, End
<1>2. PICK h : held' = [held EXCEPT ![t] = h] /\ Loyal
  BY <1>1, LeaveGives
<1>3. QED
  BY <1>1, <1>2, OtherStep

\* Moving on to the next credential.
LEMMA ProceedGivesUse ==
  ASSUME IInv, NEW t \in Tasks, ~Idle(t), Proceed(t), task[t].at # "save"
  PROVE  \E r : /\ task' = [task EXCEPT ![t] = r]
                /\ task[t].op # "use" => r = NoTask \/ (r.op # "use" /\ r.at = "read")
                /\ task[t].op = "use" =>
                     r.op = "use" /\ r.at = "next" /\ r.copy = Known(t)
<1> DEFINE q == task[t]
           p == [q EXCEPT !.creds = Tail(q.creds), !.copy = Known(t), !.fresh = 0,
                          !.at = IF q.op = "use" THEN "next" ELSE "read"]
           r == IF q.op # "use" /\ IsLast(t) THEN NoTask ELSE p
<1>1. q \in RequestType(Nat)
  BY RequestInHand
<1>2. /\ p.op = q.op /\ p.copy = Known(t)
      /\ p.at = IF q.op = "use" THEN "next" ELSE "read"
  BY <1>1 DEF RequestType
<1>3. task' = [task EXCEPT ![t] = r]
  BY DEF Proceed
<1>4. /\ q.op # "use" => r = NoTask \/ r = p
      /\ q.op = "use" => r = p
  OBVIOUS
<1> HIDE DEF r, p
<1>5. QED
  BY <1>2, <1>3, <1>4

LEMMA GiveUpUse ==
  ASSUME IInv, InUse, NEW t \in Tasks, ~Idle(t), task[t].creds # << >>,
         task[t].at \in {"read", "failed"}, GiveUp(t), UNCHANGED tokens
  PROVE  InUse'
<1>1. CASE End(t)
  BY <1>1, EndUse
<1>2. CASE task[t].op = "use" /\ Proceed(t) /\ Leave(t, {Main(Cred(t))} \cap Held(t))
  <2> DEFINE locks == {Main(Cred(t))} \cap Held(t)
             h == [l \in Locks |-> IF l \in locks THEN NoObject ELSE held[t][l]]
  <2>1. locks \subseteq Locks
    BY DEF Held
  <2>2. held' = [held EXCEPT ![t] = h] /\ Loyal
    BY <1>2, <2>1, LeaveGives
  <2>3. PICK r : /\ task' = [task EXCEPT ![t] = r]
                 /\ r.op = "use" /\ r.at = "next" /\ r.copy = Known(t)
    BY <1>2, ProceedGivesUse
  <2>4. Cred(t) \in Creds /\ task[t] \in RequestType(Nat) /\ task[t] # NoTask
    BY RequestInHand DEF Idle
  <2>5. h[Main(Cred(t))] = NoObject
    <3>1. Main(Cred(t)) \in Locks
      BY <2>4, MainIsLock
    <3>2. Main(Cred(t)) \in locks \/ held[t][Main(Cred(t))] = NoObject
      BY <3>1 DEF Held, Holds
    <3>3. QED
      BY <3>1, <3>2
  <2>6. ASSUME NEW c \in Creds \ {Cred(t)}
        PROVE  /\ r.copy[c] = task[t].copy[c]
               /\ h[Main(c)] # NoObject => held[t][Main(c)] # NoObject
    <3>1. r.copy[c] = task[t].copy[c]
      BY <1>2, <2>3, <2>4, KnownIs DEF RequestType
    <3>2. Main(c) \in Locks
      BY MainIsLock
    <3>3. QED
      BY <3>1, <3>2
  <2>7. ~Claiming(r)
    BY <2>3 DEF Claiming
  <2>8. r.at # "save" /\ r.at # "claim" /\ task[t].at # "save"
    BY <2>3
  <2>9. \A c \in Creds \ {Cred(t)} :
          /\ r.copy[c] = task[t].copy[c]
          /\ h[Main(c)] # NoObject => held[t][Main(c)] # NoObject
    BY <2>6
  <2> HIDE DEF h, locks
  <2>10. QED
    BY <1>2, <2>2, <2>3, <2>5, <2>7, <2>8, <2>9, NodeStep
<1>3. QED
  BY <1>1, <1>2 DEF GiveUp

LEMMA NextFieldUse == ASSUME IInv, InUse, NEW t \in Tasks, NextField(t) PROVE InUse'
<1>1. /\ ~Idle(t) /\ task[t].at = "next" /\ task[t].op = "use"
      /\ task[t] \in RequestType(Nat) /\ UNCHANGED tokens
      /\ held' = [held EXCEPT ![t] = held[t]]
  BY InHandOf, Stage, SameHands DEF NextField, OfNodes
<1>2. Loyal
  BY DEF NextField, Loyal
<1>3. \E r : /\ task' = [task EXCEPT ![t] = r] /\ r.op = "use"
             /\ r.at \in {"queue", "using"} /\ r.copy = task[t].copy
  <2>1. CASE task[t].creds = << >>
    <3>1. Go(t, "using")
      BY <2>1 DEF NextField
    <3> DEFINE r == [task[t] EXCEPT !.at = "using", !.via = NoObject]
    <3>2. task' = [task EXCEPT ![t] = r]
      BY <1>1, <3>1, GoGives
    <3>3. r.op = "use" /\ r.at = "using" /\ r.copy = task[t].copy
      BY <1>1 DEF RequestType
    <3> HIDE DEF r
    <3>4. QED
      BY <3>2, <3>3
  <2>2. CASE task[t].creds # << >>
    <3>1. Ask(t, <<Cred(t), "queue">>, "queue") /\ <<Cred(t), "queue">> \in Locks
      BY <1>1, <2>2, RequestInHand DEF NextField, Kinds
    <3>2. PICK o \in Objects : task' = [task EXCEPT ![t] = Asking(t, o, "queue")]
      BY <1>1, <3>1, AskGivesCopy
    <3> DEFINE r == Asking(t, o, "queue")
    <3>3. Known(t) = task[t].copy
      BY <1>1, KnownIs
    <3>4. r.op = "use" /\ r.at = "queue" /\ r.copy = task[t].copy
      BY <1>1, <3>3 DEF RequestType, Asking
    <3>5. task' = [task EXCEPT ![t] = r]
      BY <3>2
    <3> HIDE DEF r
    <3>6. QED
      BY <3>4, <3>5
  <2>3. QED
    BY <2>1, <2>2
<1>4. PICK r : /\ task' = [task EXCEPT ![t] = r] /\ r.op = "use"
               /\ r.at \in {"queue", "using"} /\ r.copy = task[t].copy
  BY <1>3
<1>5. ~Claiming(r)
  BY <1>4 DEF Claiming
<1>6. QED
  BY <1>1, <1>2, <1>4, <1>5, SameCopy

LEMMA TakeQueueUse == ASSUME IInv, InUse, NEW t \in Tasks, TakeQueue(t) PROVE InUse'
<1>1. /\ ~Idle(t) /\ task[t].at = "queue" /\ task[t].op = "use" /\ Cred(t) \in Creds
      /\ task[t] \in RequestType(Nat) /\ UNCHANGED <<lapsed, leaked, tokens>>
      /\ Take(t, Awaited(t)) /\ Ask(t, Main(Cred(t)), "main")
  BY InHandOf, Stage DEF TakeQueue, OfNodes
<1>2. Awaited(t) = <<Cred(t), "queue">> /\ "queue" \in Kinds /\ "queue" \in Waiting
  BY <1>1 DEF Awaited, Kinds, Waiting
<1> DEFINE h == [held[t] EXCEPT ![<<Cred(t), "queue">>] = task[t].via]
<1>3. held' = [held EXCEPT ![t] = h] /\ Loyal
  BY <1>1, <1>2, TakeGives
<1>4. PICK o \in Objects : task' = [task EXCEPT ![t] = Asking(t, o, "main")]
  <2>1. Main(Cred(t)) \in Locks
    BY <1>1, MainIsLock
  <2>2. QED
    BY <1>1, <2>1, AskGivesCopy
<1> DEFINE r == Asking(t, o, "main")
<1>5. r.op = "use" /\ r.at = "main" /\ r.copy = task[t].copy
  BY <1>1, KnownIs DEF RequestType, Asking
<1>6. \A c \in Creds : h[Main(c)] # NoObject => held[t][Main(c)] # NoObject
  BY <1>1, HeldFunction
<1> HIDE DEF r, h
<1>7. ~Claiming(r)
  BY <1>5 DEF Claiming
<1>8. QED
  BY <1>1, <1>3, <1>4, <1>5, <1>6, <1>7, SameCopy DEF r

LEMMA TakeMainUse == ASSUME IInv, InUse, NEW t \in Tasks, TakeMain(t) PROVE InUse'
<1>1. /\ ~Idle(t) /\ task[t].at = "main" /\ task[t].op = "use" /\ Cred(t) \in Creds
      /\ task[t] \in RequestType(Nat) /\ UNCHANGED <<lapsed, leaked, stored, issued, strayed>>
      /\ bypassed' = Retaken(Cred(t)) /\ task[t] # NoTask
      /\ task[t].creds # << >> /\ Take(t, Awaited(t)) /\ Go(t, "unqueue")
  BY InHandOf, Stage DEF TakeMain, OfNodes
<1>2. Awaited(t) = <<Cred(t), "main">> /\ "main" \in Kinds /\ "main" \in Waiting
  BY <1>1 DEF Awaited, Kinds, Waiting
<1> DEFINE h == [held[t] EXCEPT ![<<Cred(t), "main">>] = task[t].via]
           r == [task[t] EXCEPT !.at = "unqueue", !.via = NoObject]
<1>3. held' = [held EXCEPT ![t] = h] /\ task[t].via # NoObject /\ Loyal
  BY <1>1, <1>2, TakeGives
<1>4. task' = [task EXCEPT ![t] = r]
  BY <1>1, GoGives
<1>5. /\ r.op = "use" /\ r.at = "unqueue" /\ r.copy = task[t].copy
      /\ r.creds = task[t].creds
  BY <1>1 DEF RequestType
<1>6. /\ \A c \in Creds \ {Cred(t)} :
           /\ r.copy[c] = task[t].copy[c]
           /\ h[Main(c)] # NoObject => held[t][Main(c)] # NoObject
      /\ h[Main(Cred(t))] = task[t].via
  BY <1>1, <1>5, HeldFunction DEF Main, Locks
<1> HIDE DEF r, h
<1>7. Claiming(r) => h[Main(Head(r.creds))] # NoObject
  BY <1>3, <1>5, <1>6 DEF Cred
<1>8. Current(r, Cred(t), stored[Cred(t)], issued[Cred(t)])
  BY <1>5 DEF Current, InHand, Cred
<1>9. key[Main(Cred(t))] = Free /\ task[t].at # "save" /\ r.at # "claim"
  BY <1>1, <1>2, <1>5 DEF Take, Main
<1>10. ASSUME NEW c \in Creds \ Astray'
       PROVE  /\ \/ c \notin Astray /\ stored'[c] = stored[c] /\ issued'[c] = issued[c]
                 \/ \A u \in Tasks \ {t} : held[u][Main(c)] # NoObject => Main(c) \in lapsed
              /\ \/ stored'[c] = 0
                 \/ stored'[c] = issued'[c]
                 \/ \E u \in Tasks \ {t} : Saving(task[u], c)
              /\ c # Cred(t) => c \notin Astray
  BY <1>1, <1>9, TakingMain
<1>11. ASSUME NEW c \in Creds \ Astray', NodeHolds(r, h, c), Main(c) \notin lapsed'
       PROVE  Current(r, c, stored'[c], issued'[c])
  <2>1. CASE c = Cred(t)
    BY <1>1, <1>8, <2>1
  <2>2. CASE c # Cred(t)
    <3>1. NodeHolds(task[t], held[t], c) /\ Main(c) \notin lapsed /\ c \in Creds \ Astray
      BY <1>1, <1>6, <1>10, <1>11, <2>2 DEF NodeHolds
    <3>2. Current(task[t], c, stored[c], issued[c])
      BY <3>1 DEF InUse, Copies
    <3>3. task[t].copy[c] = stored[c] /\ task[t].copy[c] # 0
      BY <1>1, <3>2 DEF Current, InHand
    <3>4. QED
      BY <1>1, <1>5, <1>6, <2>2, <3>3 DEF Current, InHand
  <2>3. QED
    BY <2>1, <2>2
<1>12. QED
  BY <1>3, <1>4, <1>7, <1>9, <1>10, <1>11, StepOfTask

LEMMA LeaveQueueUse == ASSUME IInv, InUse, NEW t \in Tasks, LeaveQueue(t) PROVE InUse'
<1>1. /\ ~Idle(t) /\ task[t].at = "unqueue" /\ task[t].op = "use" /\ Cred(t) \in Creds
      /\ task[t] \in RequestType(Nat) /\ UNCHANGED tokens /\ task[t] # NoTask
      /\ task[t].creds # << >> /\ Release(t, <<Cred(t), "queue">>) /\ Go(t, "read")
  BY InHandOf, Stage DEF LeaveQueue, OfNodes
<1> DEFINE h == [held[t] EXCEPT ![<<Cred(t), "queue">>] = NoObject]
           r == [task[t] EXCEPT !.at = "read", !.via = NoObject]
<1>2. <<Cred(t), "queue">> \in Locks
  BY <1>1 DEF Locks
<1>3. held' = [held EXCEPT ![t] = h] /\ Loyal
  BY <1>1, <1>2, ReleaseGives
<1>4. task' = [task EXCEPT ![t] = r]
  BY <1>1, GoGives
<1>5. /\ r.op = "use" /\ r.at = "read" /\ r.copy = task[t].copy
      /\ r.creds = task[t].creds
  BY <1>1 DEF RequestType
<1>6. \A c \in Creds : h[Main(c)] = held[t][Main(c)]
  BY <1>1, HeldFunction
<1>7. held[t][Main(Cred(t))] # NoObject
  BY <1>1 DEF InUse, Claims, Claiming, Cred
<1> HIDE DEF r, h
<1>8. Claiming(r) => h[Main(Head(r.creds))] # NoObject
  BY <1>1, <1>5, <1>6, <1>7 DEF Cred
<1>9. Current(r, Cred(t), stored[Cred(t)], issued[Cred(t)])
  BY <1>5 DEF Current, InHand, Cred
<1>10. \A c \in Creds \ {Cred(t)} :
         /\ r.copy[c] = task[t].copy[c]
         /\ h[Main(c)] # NoObject => held[t][Main(c)] # NoObject
  BY <1>5, <1>6
<1>11. r.at # "save" /\ r.at # "claim" /\ task[t].at # "save"
  BY <1>1, <1>5
<1>12. QED
  BY <1>1, <1>3, <1>4, <1>5, <1>8, <1>9, <1>10, <1>11, NodeStep

LEMMA ReadUse == ASSUME IInv, InUse, NEW t \in Tasks, Read(t) PROVE InUse'
<1>1. /\ ~Idle(t) /\ task[t].at = "read" /\ Cred(t) \in Creds /\ task[t] # NoTask
      /\ task[t] \in RequestType(Nat) /\ UNCHANGED tokens /\ task[t].creds # << >>
      /\ RequestOK(task[t])
  BY InHandOf, Stage DEF Read
<1>2. CASE GiveUp(t)
  BY <1>1, <1>2, GiveUpUse
<1>3. CASE /\ IF Known(t)[Cred(t)] = 0 THEN task[t].op = "cached"
              ELSE task[t].op # "delete" /\ Cred(t) \notin OAuth
           /\ Proceed(t) /\ UNCHANGED redis
  <2>1. held' = [held EXCEPT ![t] = held[t]] /\ Loyal
    BY <1>3, SameHands DEF redis, Loyal
  <2>2. PICK r : /\ task' = [task EXCEPT ![t] = r]
                 /\ task[t].op # "use" => r = NoTask \/ (r.op # "use" /\ r.at = "read")
                 /\ task[t].op = "use" =>
                      r.op = "use" /\ r.at = "next" /\ r.copy = Known(t)
    BY <1>1, <1>3, ProceedGivesUse
  <2>3. CASE task[t].op # "use"
    <3>1. r = NoTask \/ (r.op # "use" /\ ~Claiming(r))
      BY <2>2, <2>3 DEF Claiming
    <3>2. QED
      BY <1>1, <2>1, <2>2, <3>1, OtherStep
  <2>4. CASE task[t].op = "use"
    <3>1. r.op = "use" /\ r.at = "next" /\ r.copy = Known(t)
      BY <2>2, <2>4
    <3>2. /\ Known(t) = [task[t].copy EXCEPT ![Cred(t)] = stored[Cred(t)]]
          /\ task[t].copy \in [Creds -> Nat]
      BY <1>1, <2>4, KnownIs DEF RequestType
    <3>3. Known(t)[Cred(t)] # 0
      BY <1>3, <2>4
    <3>4. r.copy[Cred(t)] = stored[Cred(t)] /\ r.copy[Cred(t)] # 0
      BY <1>1, <3>1, <3>2, <3>3
    <3>5. \A c \in Creds \ {Cred(t)} :
            /\ r.copy[c] = task[t].copy[c]
            /\ held[t][Main(c)] # NoObject => held[t][Main(c)] # NoObject
      BY <3>1, <3>2
    <3>6. Current(r, Cred(t), stored[Cred(t)], issued[Cred(t)])
      BY <3>1, <3>4 DEF Current, InHand
    <3>7. ~Claiming(r) /\ r.at # "save" /\ r.at # "claim" /\ task[t].at # "save"
      BY <1>1, <3>1 DEF Claiming
    <3>8. QED
      BY <1>1, <2>1, <2>2, <2>4, <3>1, <3>5, <3>6, <3>7, NodeStep
  <2>5. QED
    BY <2>3, <2>4
<1>4. QED
  BY <1>2, <1>3 DEF Read

LEMMA ReadAndLockUse == ASSUME IInv, InUse, NEW t \in Tasks, ReadAndLock(t) PROVE InUse'
<1>1. /\ ~Idle(t) /\ task[t].at = "read" /\ Cred(t) \in Creds /\ task[t] # NoTask
      /\ task[t] \in RequestType(Nat) /\ UNCHANGED <<held, lapsed, tokens>>
      /\ task[t].creds # << >> /\ Known(t)[Cred(t)] # 0
  BY InHandOf DEF ReadAndLock
<1>2. held' = [held EXCEPT ![t] = held[t]] /\ Loyal
  BY <1>1, SameHands DEF Loyal
<1>3. Main(Cred(t)) \in Locks /\ <<Cred(t), "refresh">> \in Locks
  BY <1>1, MainIsLock DEF Locks
<1>4. CASE task[t].op = "use"
  <2>1. Ask(t, <<Cred(t), "refresh">>, "refresh")
    BY <1>4 DEF ReadAndLock
  <2>2. PICK o \in Objects : task' = [task EXCEPT ![t] = Asking(t, o, "refresh")]
    BY <1>1, <1>3, <2>1, AskGivesCopy
  <2> DEFINE r == Asking(t, o, "refresh")
  <2>3. /\ r.op = "use" /\ r.at = "refresh" /\ r.copy = Known(t)
        /\ r.creds = task[t].creds
    BY <1>1, <1>4 DEF RequestType, Asking
  <2>4. task' = [task EXCEPT ![t] = r]
    BY <2>2
  <2> HIDE DEF r
  <2>5. /\ Known(t) = [task[t].copy EXCEPT ![Cred(t)] = stored[Cred(t)]]
        /\ task[t].copy \in [Creds -> Nat]
    BY <1>1, <1>4, KnownIs DEF RequestType
  <2>6. r.copy[Cred(t)] = stored[Cred(t)] /\ r.copy[Cred(t)] # 0
    BY <1>1, <2>3, <2>5
  <2>7. \A c \in Creds \ {Cred(t)} :
          /\ r.copy[c] = task[t].copy[c]
          /\ held[t][Main(c)] # NoObject => held[t][Main(c)] # NoObject
    BY <2>3, <2>5
  <2>8. Current(r, Cred(t), stored[Cred(t)], issued[Cred(t)])
    BY <2>3, <2>6 DEF Current, InHand
  <2>9. held[t][Main(Cred(t))] # NoObject
    BY <1>1, <1>4 DEF InUse, Claims, Claiming, Cred
  <2>10. held[t][Main(Head(r.creds))] # NoObject
    BY <2>3, <2>9 DEF Cred
  <2>11. r.at # "save" /\ r.at # "claim" /\ task[t].at # "save" /\ UNCHANGED tokens
    BY <1>1, <2>3
  <2>12. QED
    BY <1>1, <1>2, <1>4, <2>3, <2>4, <2>7, <2>8, <2>10, <2>11, NodeStep
<1>5. CASE task[t].op # "use"
  <2>1. PICK o \in Objects, at \in {"refresh", "claim"} :
          task' = [task EXCEPT ![t] = Asking(t, o, at)]
    <3>1. CASE Ask(t, <<Cred(t), "refresh">>, "refresh")
      BY <1>1, <1>3, <3>1, AskGivesCopy
    <3>2. CASE Ask(t, Main(Cred(t)), "claim")
      BY <1>1, <1>3, <3>2, AskGivesCopy
    <3>3. QED
      BY <3>1, <3>2 DEF ReadAndLock
  <2> DEFINE r == Asking(t, o, at)
  <2>2. r.op # "use" /\ r.at \in {"refresh", "claim"}
    BY <1>1, <1>5 DEF RequestType, Asking
  <2>3. task' = [task EXCEPT ![t] = r]
    BY <2>1
  <2> HIDE DEF r
  <2>4. ~Claiming(r) /\ task[t].at # "save" /\ UNCHANGED tokens
    BY <1>1, <2>2 DEF Claiming
  <2>5. QED
    BY <1>2, <2>2, <2>3, <2>4, OtherStep
<1>6. QED
  BY <1>4, <1>5

LEMMA TakeRefreshUse == ASSUME IInv, InUse, NEW t \in Tasks, TakeRefresh(t) PROVE InUse'
<1>1. /\ ~Idle(t) /\ task[t].at = "refresh" /\ Cred(t) \in Creds /\ task[t] # NoTask
      /\ task[t] \in RequestType(Nat) /\ UNCHANGED <<lapsed, leaked, tokens>>
      /\ task[t].creds # << >> /\ Take(t, Awaited(t))
  BY InHandOf DEF TakeRefresh
<1>2. Awaited(t) = <<Cred(t), "refresh">> /\ "refresh" \in Kinds /\ "refresh" \in Waiting
  BY <1>1 DEF Awaited, Kinds, Waiting
<1> DEFINE h == [held[t] EXCEPT ![<<Cred(t), "refresh">>] = task[t].via]
<1>3. held' = [held EXCEPT ![t] = h] /\ Loyal
  BY <1>1, <1>2, TakeGives
<1>4. \A c \in Creds : h[Main(c)] = held[t][Main(c)]
  BY <1>1, HeldFunction
<1> HIDE DEF h
<1>5. CASE task[t].op = "use"
  <2>1. PICK at \in {"renew", "unrefresh"} : Go(t, at)
    BY <1>5 DEF TakeRefresh, Locking
  <2> DEFINE r == [task[t] EXCEPT !.at = at, !.via = NoObject]
  <2>2. task' = [task EXCEPT ![t] = r]
    BY <1>1, <2>1, GoGives
  <2>3. /\ r.op = "use" /\ r.at \in {"renew", "unrefresh"} /\ r.copy = task[t].copy
        /\ r.creds = task[t].creds
    BY <1>1, <1>5 DEF RequestType
  <2> HIDE DEF r
  <2>4. held[t][Main(Cred(t))] # NoObject
    BY <1>1, <1>5 DEF InUse, Claims, Claiming, Cred
  <2>5. h[Main(Head(r.creds))] # NoObject
    BY <1>1, <1>4, <2>3, <2>4 DEF Cred
  <2>6. /\ UNCHANGED tokens /\ r.at \notin {"save", "claim"}
        /\ task[t].at \notin {"unqueue", "read", "unwind", "failed", "save"}
    BY <1>1, <2>3
  <2>7. \A c \in Creds : h[Main(c)] # NoObject => held[t][Main(c)] # NoObject
    BY <1>4
  <2>8. QED
    BY <1>1, <1>3, <1>5, <2>2, <2>3, <2>5, <2>6, <2>7, SameCopy
<1>6. CASE task[t].op # "use"
  <2>1. \E r : /\ task' = [task EXCEPT ![t] = r]
               /\ r.op # "use" /\ ~Claiming(r)
    <3>1. CASE Ask(t, Main(Cred(t)), "claim")
      <4>1. Main(Cred(t)) \in Locks
        BY <1>1, MainIsLock
      <4>2. PICK o \in Objects : task' = [task EXCEPT ![t] = Asking(t, o, "claim")]
        BY <1>1, <3>1, <4>1, AskGivesCopy
      <4> DEFINE r == Asking(t, o, "claim")
      <4>3. r.op # "use" /\ r.at = "claim"
        BY <1>1, <1>6 DEF RequestType, Asking
      <4>4. task' = [task EXCEPT ![t] = r]
        BY <4>2
      <4> HIDE DEF r
      <4>5. QED
        BY <4>3, <4>4 DEF Claiming
    <3>2. ASSUME NEW at, Go(t, at), at = "unrefresh" \/ (at = "renew" /\ ~Locking(t))
          PROVE  \E r : /\ task' = [task EXCEPT ![t] = r]
                        /\ r.op # "use" /\ ~Claiming(r)
      <4> DEFINE r == [task[t] EXCEPT !.at = at, !.via = NoObject]
      <4>1. task' = [task EXCEPT ![t] = r]
        BY <1>1, <3>2, GoGives
      <4>2. r.op = task[t].op /\ r.at = at
        BY <1>1, <1>6 DEF RequestType
      <4>3. r.op # "use" /\ (at = "renew" => r.op = "peek")
        <5>1. task[t].op # "delete"
          BY <1>1, Stage DEF TakeRefresh
        <5>2. QED
          BY <1>1, <1>6, <3>2, <4>2, <5>1 DEF Locking, RequestType
      <4> HIDE DEF r
      <4>4. ~Claiming(r)
        BY <3>2, <4>2, <4>3 DEF Claiming
      <4>5. QED
        BY <4>1, <4>3, <4>4
    <3>3. \/ Ask(t, Main(Cred(t)), "claim")
          \/ \E at : Go(t, at) /\ (at = "unrefresh" \/ (at = "renew" /\ ~Locking(t)))
      BY <1>6 DEF TakeRefresh
    <3>4. QED
      BY <3>1, <3>2, <3>3
  <2>2. PICK r : /\ task' = [task EXCEPT ![t] = r]
                 /\ r.op # "use" /\ ~Claiming(r)
    BY <2>1
  <2>3. task[t].at # "save" /\ UNCHANGED tokens
    BY <1>1
  <2>4. QED
    BY <1>3, <2>2, <2>3, OtherStep
<1>7. QED
  BY <1>5, <1>6

LEMMA TakeClaimUse == ASSUME IInv, InUse, NEW t \in Tasks, TakeClaim(t) PROVE InUse'
<1>1. /\ ~Idle(t) /\ task[t].at = "claim" /\ Cred(t) \in Creds /\ task[t] # NoTask
      /\ task[t] \in RequestType(Nat) /\ UNCHANGED <<lapsed, leaked, stored, issued, strayed>>
      /\ bypassed' = Retaken(Cred(t))
      /\ task[t].creds # << >> /\ Take(t, Awaited(t))
  BY InHandOf DEF TakeClaim
<1>2. Awaited(t) = <<Cred(t), "main">> /\ "main" \in Kinds /\ "claim" \in Waiting
  BY <1>1 DEF Awaited, Kinds, Waiting
<1> DEFINE h == [held[t] EXCEPT ![<<Cred(t), "main">>] = task[t].via]
<1>3. held' = [held EXCEPT ![t] = h] /\ Loyal /\ task[t].via # NoObject
  BY <1>1, <1>2, TakeGives
<1>4. h[Main(Cred(t))] # NoObject
  BY <1>1, <1>3, HeldFunction DEF Main
<1> HIDE DEF h
<1>5. PICK at \in {"remove", "renew"} : Go(t, at)
  BY DEF TakeClaim
<1> DEFINE r == [task[t] EXCEPT !.at = at, !.via = NoObject]
<1>6. task' = [task EXCEPT ![t] = r]
  BY <1>1, <1>5, GoGives
<1>7. r.op = task[t].op /\ r.at \in {"remove", "renew"} /\ r.creds = task[t].creds
  BY <1>1 DEF RequestType
<1> HIDE DEF r
<1>8. r.op # "use"
  BY <1>1, <1>7 DEF InUse, AskedOnce
<1>9. h[Main(Head(r.creds))] # NoObject
  BY <1>4, <1>7 DEF Cred
<1>10. key[Main(Cred(t))] = Free /\ task[t].at # "save"
  BY <1>1, <1>2 DEF Take, Main
<1>11. ASSUME NEW c \in Creds \ Astray'
       PROVE  /\ \/ c \notin Astray /\ stored'[c] = stored[c] /\ issued'[c] = issued[c]
                 \/ \A u \in Tasks \ {t} : held[u][Main(c)] # NoObject => Main(c) \in lapsed
              /\ \/ stored'[c] = 0
                 \/ stored'[c] = issued'[c]
                 \/ \E u \in Tasks \ {t} : Saving(task[u], c)
  BY <1>1, <1>10, TakingMain
<1>12. \A c \in Creds : ~NodeHolds(r, h, c)
  BY <1>8 DEF NodeHolds
<1>13. QED
  BY <1>3, <1>6, <1>8, <1>9, <1>11, <1>12, StepOfTask

LEMMA RenewUse == ASSUME IInv, InUse, NEW t \in Tasks, Renew(t) PROVE InUse'
<1> DEFINE c == Cred(t)
           n == issued[c] + 1
           r == [task[t] EXCEPT !.fresh = n, !.at = "save"]
<1>1. /\ ~Idle(t) /\ task[t].at = "renew" /\ c \in Creds /\ task[t] # NoTask
      /\ task[t] \in RequestType(Nat) /\ task[t].creds # << >> /\ task[t].op # "delete"
      /\ UNCHANGED redis /\ stored' = stored /\ strayed' = strayed
      /\ issued' = [issued EXCEPT ![c] = @ + 1] /\ bypassed' = Bypass(t)
      /\ task' = [task EXCEPT ![t].fresh = n, ![t].at = "save"]
  BY InHandOf, Stage DEF Renew
<1>2. issued \in [Creds -> Nat] /\ task \in [Tasks -> RequestType(Nat) \cup {NoTask}]
  BY DEF IInv, CountersOK, TasksOK
<1>3. task' = [task EXCEPT ![t] = r]
  BY <1>1, <1>2
<1>4. issued'[c] = n /\ n \in Nat /\ n # 0
      /\ \A d \in Creds \ {c} : issued'[d] = issued[d]
  BY <1>1, <1>2
<1>5. /\ r.op = task[t].op /\ r.creds = task[t].creds /\ r.at = "save"
      /\ r.copy = task[t].copy /\ r.fresh = n
  BY <1>1 DEF RequestType
<1>6. r # NoTask
  <2> HIDE DEF n
  <2>1. [task[t] EXCEPT !.fresh = n, !.at = "save"] \in RequestType(Nat)
    BY <1>1, <1>4 DEF RequestType
  <2>2. QED
    BY <2>1, MarkersDiffer
<1> HIDE DEF r, n
<1>7. CASE task[t].op = "peek"
  <2>1. Astray' = Astray \cup {c}
    BY <1>1, <1>7 DEF Astray, Bypass
  <2>2. \A d \in Creds \ Astray' :
          d \notin Astray /\ stored'[d] = stored[d] /\ issued'[d] = issued[d]
    BY <1>1, <1>4, <2>1
  <2>3. r.op = "peek"
    BY <1>5, <1>7
  <2> HIDE DEF c
  <2>4. QED
    BY <1>1, <1>3, <1>7, <2>2, <2>3, PeekStep
<1>8. CASE task[t].op # "peek"
  <2>1. Saving(r, c)
    BY <1>5, <1>6, <1>8 DEF Saving, InHand, Cred
  <2>2. Current(r, c, stored'[c], issued'[c])
    BY <1>4, <1>5 DEF Current, InHand, Cred
  <2>3. Claiming(task[t]) /\ r.at # "claim"
    BY <1>1, <1>5, <1>8 DEF Claiming
  <2>4. Astray \subseteq Astray'
    BY <1>1, <1>8 DEF Astray, Bypass
  <2>5. \A d \in Creds \ {c} : stored'[d] = stored[d] /\ issued'[d] = issued[d]
    BY <1>1, <1>4
  <2>6. \A d \in Creds \ {c} : r.copy[d] = task[t].copy[d]
    BY <1>5
  <2>7. QED
    BY <1>1, <1>3, <1>5, <2>1, <2>2, <2>3, <2>4, <2>5, <2>6, TokenStep
<1>9. QED
  BY <1>7, <1>8

LEMMA RenewFailsUse == ASSUME IInv, InUse, NEW t \in Tasks, RenewFails(t) PROVE InUse'
<1>1. /\ ~Idle(t) /\ task[t].at = "renew" /\ Cred(t) \in Creds /\ task[t] # NoTask
      /\ task[t] \in RequestType(Nat) /\ task[t].creds # << >>
      /\ UNCHANGED redis /\ stored' = stored /\ Go(t, "unwind") /\ bypassed' = bypassed
      /\ task[t].op # "delete"
  BY InHandOf, Stage DEF RenewFails
<1> DEFINE r == [task[t] EXCEPT !.at = "unwind", !.via = NoObject]
<1>2. task' = [task EXCEPT ![t] = r]
  BY <1>1, GoGives
<1>3. /\ r.op = task[t].op /\ r.creds = task[t].creds /\ r.at = "unwind"
      /\ r.copy = task[t].copy
  BY <1>1 DEF RequestType
<1> HIDE DEF r
<1>4. issued \in [Creds -> Nat]
  BY DEF IInv, CountersOK
<1>5. /\ Astray \subseteq Astray'
      /\ \A d \in Creds \ {Cred(t)} : issued'[d] = issued[d]
      /\ Cred(t) \notin Astray' => issued' = issued
  BY <1>1, <1>4 DEF RenewFails, Astray
<1>6. ASSUME Cred(t) \notin Astray'
      PROVE  \/ stored'[Cred(t)] = 0
             \/ stored'[Cred(t)] = issued'[Cred(t)]
             \/ \E u \in Tasks \ {t} : Saving(task[u], Cred(t))
  <2>1. ~Saving(task[t], Cred(t)) /\ Cred(t) \in Creds \ Astray
    BY <1>1, <1>5, <1>6 DEF Saving, InHand
  <2>2. stored' = stored /\ issued' = issued
    BY <1>1, <1>5, <1>6
  <2>3. QED
    BY <2>1, <2>2 DEF InUse, Agrees
<1>7. Current(r, Cred(t), stored'[Cred(t)], issued'[Cred(t)])
  BY <1>3 DEF Current, InHand, Cred
<1>8. (task[t].op # "peek" => Claiming(task[t])) /\ r.at # "claim"
  BY <1>1, <1>3 DEF Claiming
<1>9. \A d \in Creds \ {Cred(t)} : stored'[d] = stored[d] /\ issued'[d] = issued[d]
  BY <1>1, <1>5
<1>10. \A d \in Creds \ {Cred(t)} : r.copy[d] = task[t].copy[d]
  BY <1>3
<1>11. CASE task[t].op = "peek"
  <2>1. \A d \in Creds \ Astray' :
          d \notin Astray /\ stored'[d] = stored[d] /\ issued'[d] = issued[d]
    BY <1>1, <1>5, <1>9
  <2>2. QED
    BY <1>1, <1>2, <1>3, <1>11, <2>1, PeekStep
<1>12. CASE task[t].op # "peek"
  BY <1>1, <1>2, <1>3, <1>5, <1>6, <1>7, <1>8, <1>9, <1>10, <1>12, TokenStep
<1>13. QED
  BY <1>11, <1>12

\* The credential has been deleted meanwhile.
LEMMA SaveFailsUse ==
  ASSUME IInv, InUse, NEW t \in Tasks, Save(t), stored[Cred(t)] = 0
  PROVE  InUse'
<1>1. /\ ~Idle(t) /\ task[t].at = "save" /\ Cred(t) \in Creds /\ task[t] # NoTask
      /\ task[t] \in RequestType(Nat) /\ task[t].creds # << >> /\ task[t].op # "delete"
      /\ UNCHANGED redis /\ UNCHANGED <<stored, issued, strayed, bypassed>>
      /\ Go(t, "unwind")
  BY InHandOf, Stage DEF Save
<1> DEFINE r == [task[t] EXCEPT !.at = "unwind", !.via = NoObject]
<1>2. task' = [task EXCEPT ![t] = r]
  BY <1>1, GoGives
<1>3. /\ r.op = task[t].op /\ r.creds = task[t].creds /\ r.at = "unwind"
      /\ r.copy = task[t].copy
  BY <1>1 DEF RequestType
<1> HIDE DEF r
<1>4. Astray' = Astray
  BY <1>1 DEF Astray
<1>5. CASE task[t].op = "peek"
  BY <1>1, <1>2, <1>3, <1>4, <1>5, PeekStep
<1>6. CASE task[t].op # "peek"
  <2>1. Claiming(task[t]) /\ r.at # "claim"
    BY <1>1, <1>3, <1>6 DEF Claiming
  <2>2. Current(r, Cred(t), stored'[Cred(t)], issued'[Cred(t)])
    BY <1>3 DEF Current, InHand, Cred
  <2>3. \A d \in Creds \ {Cred(t)} :
          /\ stored'[d] = stored[d] /\ issued'[d] = issued[d]
          /\ r.copy[d] = task[t].copy[d]
    BY <1>1, <1>3
  <2>4. stored'[Cred(t)] = 0 /\ Astray \subseteq Astray'
    BY <1>1, <1>4
  <2>5. QED
    BY <1>1, <1>2, <1>3, <2>1, <2>2, <2>3, <2>4, TokenStep
<1>7. QED
  BY <1>5, <1>6

LEMMA SaveUse == ASSUME IInv, InUse, NEW t \in Tasks, Save(t) PROVE InUse'
<1> DEFINE c == Cred(t)
           at == IF Locking(t) THEN "unclaim" ELSE "unrefresh"
           r == [task[t] EXCEPT !.copy = Renewed(t), !.at = at]
<1>1. CASE stored[c] = 0
  BY <1>1, SaveFailsUse
<1>2. CASE stored[c] # 0
  <2>1. /\ ~Idle(t) /\ task[t].at = "save" /\ c \in Creds /\ task[t] # NoTask
        /\ task[t] \in RequestType(Nat) /\ task[t].creds # << >> /\ task[t].op # "delete"
        /\ UNCHANGED redis /\ issued' = issued
        /\ stored' = [stored EXCEPT ![c] = task[t].fresh]
        /\ strayed' = IF task[t].fresh = issued[c] THEN strayed ELSE strayed \cup {c}
        /\ bypassed' = Bypass(t)
        /\ task' = [task EXCEPT ![t].copy = Renewed(t), ![t].at = at]
    BY <1>2, InHandOf, Stage DEF Save
  <2>2. stored \in [Creds -> Nat] /\ task \in [Tasks -> RequestType(Nat) \cup {NoTask}]
    BY DEF IInv, CountersOK, TasksOK
  <2>3. task' = [task EXCEPT ![t] = r]
    BY <2>1, <2>2
  <2>4. /\ r.op = task[t].op /\ r.creds = task[t].creds /\ r.at \in {"unrefresh", "unclaim"}
        /\ r.copy = Renewed(t)
    BY <2>1 DEF RequestType
  <2>5. /\ \A d \in Creds \ {c} : stored'[d] = stored[d] /\ issued'[d] = issued[d]
        /\ \A d \in Creds \ {c} : r.copy[d] = task[t].copy[d]
        /\ stored'[c] = task[t].fresh
        /\ task[t].op = "use" => r.copy[c] = task[t].fresh
    BY <2>1, <2>2, <2>4 DEF Renewed, RequestType
  <2>6. /\ Astray \subseteq Astray'
        /\ task[t].op = "peek" => c \in Astray'
        /\ c \notin Astray' => stored'[c] = issued'[c]
    BY <2>1, <2>5 DEF Astray, Bypass
  <2> HIDE DEF r, at
  <2>7. CASE task[t].op = "peek"
    <3>1. \A d \in Creds \ Astray' :
            d \notin Astray /\ stored'[d] = stored[d] /\ issued'[d] = issued[d]
      BY <2>5, <2>6, <2>7
    <3>2. r.op = "peek"
      BY <2>4, <2>7
    <3> HIDE DEF c
    <3>3. QED
      BY <2>1, <2>3, <2>7, <3>1, <3>2, PeekStep
  <2>8. CASE task[t].op # "peek"
    <3>1. Claiming(task[t]) /\ r.at # "claim"
      BY <2>1, <2>4, <2>8 DEF Claiming
    <3>2. held[t][Main(c)] # NoObject
      BY <2>1, <3>1 DEF InUse, Claims, Cred
    <3>3. ASSUME r.op = "use", c \notin Astray', Main(c) \notin lapsed
          PROVE  Current(r, c, stored'[c], issued'[c])
      <4>1. NodeHolds(task[t], held[t], c) /\ c \in Creds \ Astray
        BY <2>1, <2>4, <2>6, <3>2, <3>3 DEF NodeHolds
      <4>2. Current(task[t], c, stored[c], issued[c])
        BY <3>3, <4>1 DEF InUse, Copies
      <4>3. task[t].fresh # 0
        BY <2>1, <4>2 DEF Current, InHand, Cred
      <4>4. QED
        BY <2>4, <2>5, <3>3, <4>3 DEF Current, InHand
    <3>4. QED
      BY <2>1, <2>3, <2>4, <2>5, <2>6, <3>1, <3>3, TokenStep
  <2>9. QED
    BY <2>7, <2>8
<1>3. QED
  BY <1>1, <1>2

LEMMA ReleaseClaimUse == ASSUME IInv, InUse, NEW t \in Tasks, ReleaseClaim(t) PROVE InUse'
<1>1. /\ ~Idle(t) /\ task[t].at = "unclaim" /\ Cred(t) \in Creds /\ task[t] # NoTask
      /\ task[t] \in RequestType(Nat) /\ UNCHANGED tokens /\ task[t].creds # << >>
      /\ Release(t, Main(Cred(t))) /\ Go(t, "unrefresh")
  BY InHandOf DEF ReleaseClaim
<1> DEFINE h == [held[t] EXCEPT ![Main(Cred(t))] = NoObject]
           r == [task[t] EXCEPT !.at = "unrefresh", !.via = NoObject]
<1>2. held' = [held EXCEPT ![t] = h] /\ Loyal
  BY <1>1, MainIsLock, ReleaseGives
<1>3. task' = [task EXCEPT ![t] = r]
  BY <1>1, GoGives
<1>4. r.op = task[t].op /\ r.at = "unrefresh" /\ r.copy = task[t].copy
  BY <1>1 DEF RequestType
<1>5. \A c \in Creds : h[Main(c)] # NoObject => held[t][Main(c)] # NoObject
  BY HeldFunction, MainIsLock
<1> HIDE DEF h, r
<1>6. ~Claiming(r) /\ r.at \notin {"save", "claim"}
      /\ task[t].at \notin {"unqueue", "read", "unwind", "failed", "save"}
  BY <1>1, <1>4 DEF Claiming
<1>7. CASE task[t].op = "use"
  BY <1>1, <1>2, <1>3, <1>4, <1>5, <1>6, <1>7, SameCopy
<1>8. CASE task[t].op # "use"
  BY <1>1, <1>2, <1>3, <1>4, <1>6, <1>8, OtherStep
<1>9. QED
  BY <1>7, <1>8

LEMMA ReleaseRefreshUse == ASSUME IInv, InUse, NEW t \in Tasks, ReleaseRefresh(t) PROVE InUse'
<1>1. /\ ~Idle(t) /\ task[t].at \in {"unrefresh", "unwind"} /\ Cred(t) \in Creds
      /\ task[t] # NoTask /\ task[t] \in RequestType(Nat) /\ UNCHANGED tokens
      /\ task[t].creds # << >> /\ Release(t, <<Cred(t), "refresh">>)
  BY InHandOf DEF ReleaseRefresh
<1> DEFINE h == [held[t] EXCEPT ![<<Cred(t), "refresh">>] = NoObject]
<1>2. <<Cred(t), "refresh">> \in Locks
  BY <1>1 DEF Locks
<1>3. held' = [held EXCEPT ![t] = h] /\ Loyal
  BY <1>1, <1>2, ReleaseGives
<1>4. \A c \in Creds : h[Main(c)] # NoObject => held[t][Main(c)] # NoObject
  BY <1>1, HeldFunction
<1> HIDE DEF h
<1>5. CASE task[t].at = "unrefresh" /\ Proceed(t)
  <2>1. PICK r : /\ task' = [task EXCEPT ![t] = r]
                 /\ task[t].op # "use" => r = NoTask \/ (r.op # "use" /\ r.at = "read")
                 /\ task[t].op = "use" =>
                      r.op = "use" /\ r.at = "next" /\ r.copy = Known(t)
    BY <1>1, <1>5, ProceedGivesUse
  <2>2. CASE task[t].op = "use"
    <3>1. r.op = "use" /\ r.at = "next" /\ r.copy = task[t].copy
      BY <1>5, <2>1, <2>2, KnownIs
    <3>2. ~Claiming(r) /\ r.at \notin {"save", "claim"}
          /\ task[t].at \notin {"unqueue", "read", "unwind", "failed", "save"}
      BY <1>5, <3>1 DEF Claiming
    <3>3. QED
      BY <1>1, <1>3, <1>4, <2>1, <2>2, <3>1, <3>2, SameCopy
  <2>3. CASE task[t].op # "use"
    <3>1. r = NoTask \/ (r.op # "use" /\ ~Claiming(r))
      BY <2>1, <2>3 DEF Claiming
    <3>2. QED
      BY <1>1, <1>3, <1>5, <2>1, <3>1, OtherStep
  <2>4. QED
    BY <2>2, <2>3
<1>6. CASE task[t].at = "unwind" /\ Go(t, "failed")
  <2> DEFINE r == [task[t] EXCEPT !.at = "failed", !.via = NoObject]
  <2>1. task' = [task EXCEPT ![t] = r]
    BY <1>1, <1>6, GoGives
  <2>2. /\ r.op = task[t].op /\ r.at = "failed" /\ r.copy = task[t].copy
        /\ r.creds = task[t].creds
    BY <1>1 DEF RequestType
  <2> HIDE DEF r
  <2>3. ~Claiming(r) /\ r.at # "save" /\ r.at # "claim" /\ task[t].at # "save"
    BY <1>6, <2>2 DEF Claiming
  <2>4. CASE task[t].op = "use"
    <3>1. Current(r, Cred(t), stored[Cred(t)], issued[Cred(t)])
      BY <2>2 DEF Current, InHand, Cred
    <3>2. \A c \in Creds \ {Cred(t)} :
            /\ r.copy[c] = task[t].copy[c]
            /\ h[Main(c)] # NoObject => held[t][Main(c)] # NoObject
      BY <1>4, <2>2
    <3>3. QED
      BY <1>1, <1>3, <2>1, <2>2, <2>3, <2>4, <3>1, <3>2, NodeStep
  <2>5. CASE task[t].op # "use"
    BY <1>1, <1>3, <2>1, <2>2, <2>3, <2>5, OtherStep
  <2>6. QED
    BY <2>4, <2>5
<1>7. QED
  BY <1>5, <1>6 DEF ReleaseRefresh, At

LEMMA RaiseUse == ASSUME IInv, InUse, NEW t \in Tasks, Raise(t) PROVE InUse'
<1>1. ~Idle(t) /\ task[t].at = "failed" /\ task[t].creds # << >> /\ UNCHANGED tokens
  BY InHandOf DEF Raise
<1>2. QED
  BY <1>1, GiveUpUse DEF Raise

LEMMA RemoveUse == ASSUME IInv, InUse, NEW t \in Tasks, Remove(t) PROVE InUse'
<1>1. /\ ~Idle(t) /\ task[t].at = "remove" /\ Cred(t) \in Creds /\ task[t] # NoTask
      /\ task[t] \in RequestType(Nat) /\ task[t].creds # << >> /\ task[t].op = "delete"
      /\ UNCHANGED redis /\ issued' = issued /\ strayed' = strayed /\ bypassed' = bypassed
      /\ stored' = [stored EXCEPT ![Cred(t)] = 0] /\ Go(t, "removed")
  BY InHandOf, Stage DEF Remove
<1> DEFINE r == [task[t] EXCEPT !.at = "removed", !.via = NoObject]
<1>2. task' = [task EXCEPT ![t] = r]
  BY <1>1, GoGives
<1>3. /\ r.op = task[t].op /\ r.creds = task[t].creds /\ r.at = "removed"
      /\ r.copy = task[t].copy
  BY <1>1 DEF RequestType
<1> HIDE DEF r
<1>4. stored \in [Creds -> Nat]
  BY DEF IInv, CountersOK
<1>5. /\ stored'[Cred(t)] = 0
      /\ \A d \in Creds \ {Cred(t)} : stored'[d] = stored[d] /\ issued'[d] = issued[d]
      /\ \A d \in Creds \ {Cred(t)} : r.copy[d] = task[t].copy[d]
  BY <1>1, <1>3, <1>4
<1>6. Claiming(task[t]) /\ r.at # "claim" /\ r.op # "use" /\ Astray \subseteq Astray'
  BY <1>1, <1>3 DEF Claiming, Astray
<1>7. QED
  BY <1>1, <1>2, <1>3, <1>5, <1>6, TokenStep

LEMMA RemovedUse == ASSUME IInv, InUse, NEW t \in Tasks, Removed(t) PROVE InUse'
<1>1. /\ task[t].at = "removed" /\ Cred(t) \in Creds /\ UNCHANGED tokens
      /\ Release(t, Main(Cred(t))) /\ task' = [task EXCEPT ![t] = NoTask]
  BY InHandOf DEF Removed
<1>2. PICK h : held' = [held EXCEPT ![t] = h] /\ Loyal
  BY <1>1, MainIsLock, ReleaseGives
<1>3. QED
  BY <1>1, <1>2, OtherStep

LEMMA ReleaseNodeUse == ASSUME IInv, InUse, NEW t \in Tasks, ReleaseNode(t) PROVE InUse'
<1>1. /\ ~Idle(t) /\ task[t].at = "using" /\ task[t].op = "use"
      /\ task[t] \in RequestType(Nat) /\ UNCHANGED tokens
  BY InHandOf, Stage DEF ReleaseNode, OfNodes
<1>2. CASE End(t)
  BY <1>1, <1>2, EndUse
<1>3. ASSUME NEW l \in Held(t), Release(t, l), Go(t, "using") PROVE InUse'
  <2> DEFINE h == [held[t] EXCEPT ![l] = NoObject]
             r == [task[t] EXCEPT !.at = "using", !.via = NoObject]
  <2>1. l \in Locks
    BY DEF Held
  <2>2. held' = [held EXCEPT ![t] = h] /\ Loyal
    BY <1>3, <2>1, ReleaseGives
  <2>3. task' = [task EXCEPT ![t] = r]
    BY <1>1, <1>3, GoGives
  <2>4. r.op = "use" /\ r.at = "using" /\ r.copy = task[t].copy
    BY <1>1 DEF RequestType
  <2>5. \A c \in Creds : h[Main(c)] # NoObject => held[t][Main(c)] # NoObject
    BY HeldFunction, MainIsLock
  <2> HIDE DEF h, r
  <2>6. ~Claiming(r) /\ r.at \notin {"save", "claim"}
        /\ task[t].at \notin {"unqueue", "read", "unwind", "failed", "save"}
    BY <1>1, <2>4 DEF Claiming
  <2>7. QED
    BY <1>1, <2>2, <2>3, <2>4, <2>5, <2>6, SameCopy
<1>4. QED
  BY <1>2, <1>3 DEF ReleaseNode

\* A request begins, with nothing in its hands.
LEMMA ServeUse == ASSUME IInv, InUse, NEW t \in Tasks, Serve(t) PROVE InUse'
<1>1. ASSUME NEW op, NEW creds, NEW at \in {"next", "read"}, op # "use" \/ at = "next",
             Begin(t), task' = [task EXCEPT ![t] = Request(op, creds, at)]
      PROVE  InUse'
  <2> DEFINE r == Request(op, creds, at)
  <2>1. task[t] = NoTask /\ UNCHANGED redis /\ UNCHANGED tokens
    BY <1>1 DEF Begin, Idle
  <2>2. held' = [held EXCEPT ![t] = held[t]] /\ Loyal
    BY <2>1, SameHands DEF redis, Loyal
  <2>3. r.op = op /\ r.at = at
    BY DEF Request
  <2>4. task' = [task EXCEPT ![t] = r]
    BY <1>1
  <2> HIDE DEF r
  <2>5. ~Claiming(r) /\ r.at # "claim"
    BY <1>1, <2>3 DEF Claiming
  <2>6. HeldIn(held[t]) = {}
    BY <2>1 DEF IInv, HandsOK, Hands
  <2>7. \A c \in Creds : ~NodeHolds(r, held[t], c)
    BY <2>6, MainIsLock DEF NodeHolds, HeldIn
  <2>8. QED
    BY <2>1, <2>2, <2>4, <2>5, <2>7, CalmStep
<1>2. ASSUME NEW list \in Lists, ExecuteNode(t, list) PROVE InUse'
  BY <1>1, <1>2 DEF ExecuteNode
<1>3. ASSUME NEW list \in Lists, Activate(t, list) PROVE InUse'
  BY <1>1, <1>3 DEF Activate
<1>4. ASSUME NEW c \in Creds, Get(t, c) PROVE InUse'
  BY <1>1, <1>4 DEF Get
<1>5. ASSUME NEW c \in Creds, Delete(t, c) PROVE InUse'
  BY <1>1, <1>5 DEF Delete
<1>6. ASSUME NEW c \in Creds, Peek(t, c) PROVE InUse'
  BY <1>1, <1>6 DEF Peek
<1>7. QED
  BY <1>2, <1>3, <1>4, <1>5, <1>6 DEF Serve

\* A key expires: whoever holds the lock holds one that has lapsed.
LEMMA ExpireUse == ASSUME IInv, InUse, NEW l \in Locks, Expire(l) PROVE InUse'
<1>1. UNCHANGED <<task, held, stored, issued, strayed, bypassed>> /\ lapsed \subseteq lapsed'
  BY DEF Expire, tokens
<1>2. Loyal
  BY <1>1 DEF Loyal
<1>3. Astray' = Astray
  BY <1>1 DEF Astray
<1>4. QED
  BY <1>1, <1>2, <1>3, NobodyMoves

LEMMA TokensUse ==
  ASSUME IInv, InUse, NEW c \in Creds, ReplaceMCP(c) \/ Age(c)
  PROVE  InUse'
<1>1. UNCHANGED <<task, held, lapsed, issued>> /\ Astray \subseteq Astray'
  BY DEF ReplaceMCP, Age, redis, Astray
<1>2. stored \in [Creds -> Nat]
  BY DEF IInv, CountersOK
<1>3. \A d \in Creds \ Astray' : stored'[d] = stored[d]
  BY <1>2 DEF ReplaceMCP, Age, Astray
<1>4. Loyal
  BY <1>1 DEF Loyal
<1>5. QED
  BY <1>1, <1>3, <1>4, NobodyMoves

\* A process dies: what it was about to save is lost, and the credential strays.
LEMMA CrashUse == ASSUME IInv, InUse, NEW m \in Managers, Crash(m) PROVE InUse'
<1> DEFINE gone == {t \in Tasks : ManagerOf[t] = m}
<1>1. /\ task' = [t \in Tasks |-> IF t \in gone THEN NoTask ELSE task[t]]
      /\ held' = [t \in Tasks |-> IF t \in gone THEN HoldsNothing ELSE held[t]]
      /\ lapsed' = {l \in lapsed : \E t \in Tasks \ gone : Holds(t, l)}
      /\ strayed' = strayed \cup {Cred(t) : t \in {u \in gone : At(u, "save")}}
      /\ UNCHANGED <<stored, issued, bypassed>>
  BY DEF Crash
<1>2. gone \subseteq Tasks
  OBVIOUS
<1>3. \A t \in gone : task[t] # NoTask /\ task[t].at = "save" => Cred(t) \in Astray'
  BY <1>1 DEF At, Idle, Astray
<1>0. Astray \subseteq Astray'
  BY <1>1 DEF Astray
<1> HIDE DEF gone
<1>4. \A t \in Tasks :
        IF t \in gone THEN task'[t] = NoTask /\ held'[t] = HoldsNothing
        ELSE task'[t] = task[t] /\ held'[t] = held[t]
  BY <1>1
<1>5. \A l \in Locks : HoldsNothing[l] = NoObject
  BY DEF HoldsNothing
<1>6. Loyal
  <2> SUFFICES ASSUME NEW u \in Tasks, NEW l \in Locks, held'[u][l] # NoObject,
                      l \notin lapsed'
               PROVE  l \notin lapsed
    BY DEF Loyal
  <2>1. u \notin gone /\ held[u][l] # NoObject
    BY <1>4, <1>5
  <2>2. QED
    BY <1>1, <2>1 DEF Holds
<1>7. Claims' /\ AskedOnce'
  <2>1. Claims'
    <3> SUFFICES ASSUME NEW t \in Tasks, task'[t] # NoTask, Claiming(task'[t])
                 PROVE  held'[t][Main(Head(task'[t].creds))] # NoObject
      BY DEF Claims
    <3>1. task'[t] = task[t] /\ held'[t] = held[t]
      BY <1>4
    <3>2. QED
      BY <3>1 DEF InUse, Claims
  <2>2. AskedOnce'
    BY <1>4 DEF InUse, AskedOnce
  <2>3. QED
    BY <2>1, <2>2
<1>8. Agrees'
  <2> SUFFICES ASSUME NEW c \in Creds \ Astray', stored[c] # 0, stored[c] # issued[c]
               PROVE  \E t \in Tasks : Saving(task'[t], c)
    BY <1>1 DEF Agrees
  <2>1. c \in Creds \ Astray
    BY <1>0
  <2>2. PICK t \in Tasks : Saving(task[t], c)
    BY <2>1 DEF InUse, Agrees
  <2>3. t \notin gone
    BY <1>3, <2>2 DEF Saving, InHand, Cred
  <2>4. QED
    BY <1>4, <2>2, <2>3
<1>9. Copies'
  <2> SUFFICES ASSUME NEW t \in Tasks, NEW c \in Creds \ Astray',
                      NodeHolds(task'[t], held'[t], c), Main(c) \notin lapsed'
               PROVE  Current(task'[t], c, stored[c], issued[c])
    BY <1>1 DEF Copies
  <2>1. task'[t] = task[t] /\ held'[t] = held[t]
    BY <1>4 DEF NodeHolds
  <2>2. Main(c) \notin lapsed
    BY <1>6, MainIsLock DEF Loyal, NodeHolds
  <2>3. c \in Creds \ Astray
    BY <1>0
  <2>4. QED
    BY <2>1, <2>2, <2>3 DEF InUse, Copies
<1>10. QED
  BY <1>7, <1>8, <1>9 DEF InUse

LEMMA NextUse == IInv /\ InUse /\ [Next]_vars => InUse'
<1> SUFFICES ASSUME IInv, InUse, [Next]_vars PROVE InUse'
  OBVIOUS
<1>1. ASSUME NEW t \in Tasks, Step(t) PROVE InUse'
  BY <1>1, NextFieldUse, TakeQueueUse, TakeMainUse, LeaveQueueUse, ReadUse,
     ReadAndLockUse, TakeRefreshUse, TakeClaimUse, RenewUse, RenewFailsUse, SaveUse,
     ReleaseClaimUse, ReleaseRefreshUse, RaiseUse, RemoveUse, RemovedUse,
     ReleaseNodeUse DEF Step
<1>2. ASSUME NEW t \in Tasks, Serve(t) PROVE InUse'
  BY <1>2, ServeUse
<1>3. ASSUME NEW l \in Locks, Expire(l) PROVE InUse'
  BY <1>3, ExpireUse
<1>4. ASSUME NEW c \in Creds, ReplaceMCP(c) \/ Age(c) PROVE InUse'
  BY <1>4, TokensUse
<1>5. ASSUME NEW m \in Managers, Crash(m) PROVE InUse'
  BY <1>5, CrashUse
<1>6. CASE UNCHANGED vars
  <2>1. UNCHANGED <<task, held, lapsed, stored, issued, strayed, bypassed>>
    BY <1>6 DEF vars, redis, tokens
  <2>2. Loyal
    BY <2>1 DEF Loyal
  <2>3. Astray' = Astray
    BY <2>1 DEF Astray
  <2>4. QED
    BY <2>1, <2>2, <2>3, NobodyMoves
<1>7. QED
  BY <1>1, <1>2, <1>3, <1>4, <1>5, <1>6 DEF Next

\* A block that runs and whose lock has not expired runs with the tokens in the
\* database, which are the newest ones, against everybody who renews or deletes
\* credentials under their main lock.  (Against the copilot's get(lock=False)
\* nothing keeps them: UsedIsCurrent is violated.)
THEOREM BlocksRunWithCurrentTokens == Spec => []LockKeepsCurrent
<1>1. Init => InUse
  BY DEF Init, InUse, Claims, Agrees, Copies, AskedOnce, NodeHolds
<1>2. IInv /\ InUse /\ [Next]_vars => InUse'
  BY NextUse
<1>3. IInv /\ InUse => LockKeepsCurrent
  <2> SUFFICES ASSUME IInv, InUse, NEW t \in Tasks, NEW c \in Creds,
                      At(t, "using"), Holds(t, Main(c)),
                      Main(c) \notin lapsed, c \notin Astray
               PROVE  task[t].copy[c] = stored[c] /\ stored[c] = issued[c]
    BY DEF LockKeepsCurrent, Astray
  <2>1. ~Idle(t) /\ task[t].at = "using" /\ task[t].op = "use" /\ c \in Creds \ Astray
    BY Stage DEF OfNodes
  <2>2. NodeHolds(task[t], held[t], c)
    BY <2>1 DEF NodeHolds, Holds, Idle
  <2>3. task[t].copy[c] = stored[c] /\ task[t].copy[c] # 0
    BY <2>1, <2>2 DEF InUse, Copies, Current, InHand
  <2>4. ASSUME NEW u \in Tasks, Saving(task[u], c) PROVE FALSE
    <3>1. held[u][Main(c)] # NoObject /\ u # t
      BY <2>1, <2>4 DEF Saving, InHand, InUse, Claims, Claiming
    <3>2. Holds(u, Main(c)) /\ Main(c) \in Locks
      BY <3>1, MainIsLock DEF Holds
    <3>3. QED
      BY <3>1, <3>2 DEF IInv, HolderSetKey
  <2>5. stored[c] = issued[c]
    BY <2>1, <2>3, <2>4 DEF InUse, Agrees
  <2>6. QED
    BY <2>3, <2>5
<1>4. QED
  BY <1>1, <1>2, <1>3, Invariance, PTL DEF Spec

=============================================================================
