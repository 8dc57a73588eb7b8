-------------------------- MODULE NodeEngineProofs --------------------------
(***************************************************************************)
(* Proofs about NodeEngine, for every set of nodes and every set of graphs *)
(* on them.                                                                *)
(***************************************************************************)
EXTENDS NodeEngine, WellFoundedInduction, NaturalsInduction, FiniteSetTheorems, TLAPS

(***************************************************************************)
(* The inductive invariant.                                                *)
(***************************************************************************)

Output == [row : Nat, k : Nat]
Inputs == UNION {[D -> Output] : D \in SUBSET STRING}
RowType == [node : Nodes, status : Statuses, in : Inputs, at : Nat]
WorkType == [at : {"none", "start", "run", "write", "over", "broken"},
             turn : Nat, sent : Nat,
             end : {"none", "COMPLETED", "FAILED", "TERMINATED"},
             future : {"none", "open", "done", "cancelled"}, out : Seq(Nat)]
EvalType == [at : {"none", "find", "insert", "complete", "others", "done"},
             val : Output, todo : SUBSET Nat, row : Nat, mine : Seq(Nat), found : Seq(Nat)]

\* Every variable has its type.
Typed ==
  /\ graph \in Shapes
  /\ rows \in Seq(RowType) /\ work \in Seq(WorkType) /\ Len(work) = Len(rows)
  /\ tasks \in [Nodes -> Seq(Nat)] /\ eval \in [Nodes -> EvalType] /\ queue \in Seq(Nat)
  /\ engine \in {"idle", "dispatch", "poll", "verdict", "stop", "drain", "ended"}
  /\ verdict \in {"RUNNING", "COMPLETED", "FAILED", "TERMINATED"}
  /\ error \in BOOLEAN /\ cancel \in BOOLEAN /\ trouble \in Troubles \cup {"none"}

\* The rows that an evaluation has queued in the table and not yet in memory.
Carried(n) == eval[n].found \o eval[n].mine

\* What is tracked, queued or evaluated is a row of the table.
Known ==
  /\ Range(queue) \subseteq Rows
  /\ \A n \in Nodes : /\ Range(tasks[n]) \subseteq Of(n) /\ Range(Carried(n)) \subseteq Rows
                      /\ eval[n].row \in Rows \cup {0}

Busy(i) == work[i].at \in {"start", "run", "write"}
Polling == engine \in {"dispatch", "poll", "verdict", "stop"}
Leaving == engine \in {"drain", "ended"}
Evaluating(n) == eval[n].at \in {"find", "insert", "complete", "others"}
Inside(n) == eval[n].at \in {"insert", "complete", "others"}

\* The future of a task is open or cancelled for as long as its coroutine runs.
Futures ==
  \A i \in Rows :
    /\ Busy(i) => work[i].future \in {"open", "cancelled"}
    /\ work[i].future = "open" => Busy(i)
    /\ work[i].at = "none" => work[i].future = "none" /\ work[i].out = <<>>
    /\ work[i].at = "over" => work[i].future \in {"done", "cancelled"}

\* The engine still reads every task that runs or has outputs left.
Tracked ==
  /\ engine = "idle" =>
       Idle /\ queue = <<>> /\ \A i \in Rows : work[i].at = "none"
  /\ ~Leaving => \A i \in Rows : work[i].future # "cancelled"
  /\ Polling => \A i \in Rows : work[i].future = "open" \/ work[i].out # <<>> =>
                  i \in Range(tasks[rows[i].node])
  /\ Leaving => \A i \in Rows : work[i].future # "open" /\ work[i].out = <<>>

Finished == Idle /\ queue = <<>>

\* The loop is left, and the run COMPLETED, with nothing queued and nothing at work.
LeftIdle ==
  /\ engine = "dispatch" => queue # <<>> \/ cancel \/ Idle
  /\ engine = "verdict" => cancel \/ error \/ Finished
  /\ engine = "stop" \/ Leaving => verdict \in Terminal
  /\ engine = "stop" /\ verdict = "COMPLETED" => Finished
  /\ Leaving /\ verdict = "COMPLETED" =>
       /\ queue = <<>> /\ \A n \in Nodes : eval[n].at = "none"
       /\ \A i \in Rows : work[i].future # "cancelled"
  /\ engine = "ended" => queue = <<>> /\ \A n \in Nodes : ~Evaluating(n)

\* An evaluation at work on a link owns an incomplete row of the link's sink.
Evaluations ==
  \A n \in Nodes :
    /\ Inside(n) => eval[n].todo # {}
    /\ eval[n].at # "others" => eval[n].mine = <<>>
    /\ ~Evaluating(n) => eval[n].found = <<>>
    /\ eval[n].todo \subseteq DOMAIN graph.links
    /\ eval[n].at \in {"complete", "others"} => eval[n].row \in Rows
    /\ Inside(n) /\ eval[n].row \in Rows =>
         /\ rows[eval[n].row].node = Link(n).to
         /\ eval[n].at # "others" => rows[eval[n].row].status = "INCOMPLETE"

\* synchronized: at most one evaluation is inside for each sink.
OneInside ==
  \A m, n \in Nodes : m # n /\ Inside(m) /\ Inside(n) => Link(m).to # Link(n).to

\* A row that waits for a task is in one place, once.
Placed ==
  /\ IsInjective(queue)
  /\ \A n \in Nodes : IsInjective(Carried(n)) /\ Range(Carried(n)) \cap Range(queue) = {}
  /\ \A m, n \in Nodes : m # n => Range(Carried(m)) \cap Range(Carried(n)) = {}
  /\ \A i \in Range(queue) : work[i].at = "none"
  /\ \A n \in Nodes : \A i \in Range(Carried(n)) : work[i].at = "none"

Owed == {"RUNNING", "QUEUED", "TERMINATED", "REVIEW"}

\* The status of a row goes with where its execution is.
Standing ==
  /\ \A i \in Range(queue) : rows[i].status \in Owed
  /\ \A n \in Nodes : \A i \in Range(Carried(n)) : rows[i].status \in Owed
  /\ \A i \in Rows :
       /\ work[i].at = "start" => rows[i].status \in Owed
       /\ work[i].at = "run" => rows[i].status = "RUNNING"
       /\ work[i].at = "write" => \/ rows[i].status = "RUNNING" /\ work[i].end # "none"
                                  \/ rows[i].status \in Owed /\ work[i].end \in {"FAILED", "TERMINATED"}
       /\ work[i].at = "over" => rows[i].status \notin Live \cup {"INCOMPLETE"}
       /\ work[i].at = "broken" => rows[i].status # "INCOMPLETE"

\* No live row is left behind.
Settled ==
  engine # "idle" =>
    \A i \in Rows : rows[i].status \in Live =>
      \/ i \in Range(queue)
      \/ \E n \in Nodes : i \in Range(Carried(n))
      \/ Busy(i) \/ work[i].at = "broken"

(***************************************************************************)
(* Lemmas about numbers and sequences.                                     *)
(***************************************************************************)

\* A set of natural numbers that is not empty has a least element.
LEMMA LeastNumber ==
  ASSUME NEW T \in SUBSET Nat, T # {}
  PROVE  \E x \in T : \A y \in T : x <= y
<1>1. PICK x \in T : \A y \in T : ~ (<<y, x>> \in OpToRel(<, Nat))
  BY NatLessThanWellFounded, WFMin
<1>2. \A y \in T : ~ (<<y, x>> \in {ss \in Nat \X Nat : ss[1] < ss[2]})
  BY <1>1, Zenon DEF OpToRel
<1>3. \A y \in T : ~(y < x)
  BY <1>2
<1> QED
  BY <1>3

\* Min returns it.
LEMMA MinIsLeast ==
  ASSUME NEW T \in SUBSET Nat, T # {}
  PROVE  Min(T) \in T /\ \A y \in T : Min(T) <= y
BY LeastNumber DEF Min

\* Max of a set with a bound.
LEMMA MaxIsGreatest ==
  ASSUME NEW T \in SUBSET Nat, T # {}, NEW b \in Nat, \A x \in T : x <= b
  PROVE  Max(T) \in T /\ \A y \in T : y <= Max(T)
<1> DEFINE above == {c \in Nat : \A x \in T : x <= c}
<1>1. PICK c \in above : \A d \in above : c <= d
  BY LeastNumber
<1>2. c \in T
  <2> SUFFICES ASSUME c \notin T PROVE FALSE
    OBVIOUS
  <2>1. \A x \in T : x <= c - 1
    BY <1>1
  <2>2. PICK x \in T : TRUE
    OBVIOUS
  <2>3. c - 1 \in Nat
    BY <2>1, <2>2, <1>1
  <2>4. c - 1 \in above
    BY <2>1, <2>3
  <2> QED
    BY <2>4, <1>1
<1> QED
  BY <1>1, <1>2 DEF Max

\* The values of a sequence of numbers have a bound.
LEMMA Bounded ==
  ASSUME NEW n \in Nat, NEW f \in [1..n -> Nat]
  PROVE  \E b \in Nat : \A i \in 1..n : f[i] <= b
<1> DEFINE unbounded == {m \in 0..n : ~ \E b \in Nat : \A i \in 1..m : f[i] <= b}
<1>1. SUFFICES ASSUME unbounded # {} PROVE FALSE
  <2>1. n \in 0..n
    OBVIOUS
  <2>2. n \notin unbounded => \E b \in Nat : \A i \in 1..n : f[i] <= b
    BY <2>1
  <2> QED
    BY <2>2
<1>2. PICK m \in unbounded : \A k \in unbounded : m <= k
  <2>1. unbounded \in SUBSET Nat
    OBVIOUS
  <2> HIDE DEF unbounded
  <2> QED
    BY <1>1, <2>1, LeastNumber
<1>3. m # 0
  <2>1. 1..0 = {}
    OBVIOUS
  <2> QED
    BY <2>1, <1>2
<1>4. m - 1 \in 0..n /\ m - 1 \notin unbounded
  <2>1. m \in 0..n
    OBVIOUS
  <2> HIDE DEF unbounded
  <2> QED
    BY <1>2, <1>3, <2>1
<1>5. PICK b \in Nat : \A i \in 1..(m - 1) : f[i] <= b
  BY <1>4
<1>6. f[m] \in Nat /\ m \in 1..n
  BY <1>2, <1>3
<1>7. \A i \in 1..m : f[i] <= b + f[m]
  <2> TAKE i \in 1..m
  <2>1. CASE i = m
    BY <2>1, <1>6
  <2>2. CASE i # m
    BY <2>2, <1>5, <1>6
  <2> QED
    BY <2>1, <2>2
<1>8. b + f[m] \in Nat
  BY <1>6
<1> QED
  BY <1>2, <1>7, <1>8

\* What one more than the greatest of a column of numbers is.
LEMMA NextNumber ==
  ASSUME NEW n \in Nat, n > 0, NEW f \in [1..n -> Nat]
  PROVE  /\ 1 + Max({f[i] : i \in 1..n}) \in Nat
         /\ \A i \in 1..n : f[i] < 1 + Max({f[j] : j \in 1..n})
<1> DEFINE T == {f[i] : i \in 1..n}
<1>1. T \in SUBSET Nat /\ T # {}
  <2>1. f[1] \in T
    OBVIOUS
  <2> QED
    BY <2>1
<1>2. PICK b \in Nat : \A x \in T : x <= b
  BY Bounded
<1>3. Max(T) \in T /\ \A x \in T : x <= Max(T)
  <2> HIDE DEF T
  <2> QED
    BY <1>1, <1>2, MaxIsGreatest
<1>4. \A i \in 1..n : f[i] \in T /\ f[i] \in Nat
  OBVIOUS
<1>5. Max(T) \in Nat
  BY <1>1, <1>3
<1> HIDE DEF T
<1>6. 1 + Max(T) \in Nat /\ \A i \in 1..n : f[i] < 1 + Max(T)
  BY <1>3, <1>4, <1>5
<1> QED
  BY <1>6 DEF T

LEMMA RangeOfTail ==
  ASSUME NEW s \in Seq(Nat), s # <<>>
  PROVE  /\ Tail(s) \in Seq(Nat) /\ Head(s) \in Nat
         /\ Range(s) = {Head(s)} \cup Range(Tail(s))
         /\ IsInjective(s) => IsInjective(Tail(s)) /\ Head(s) \notin Range(Tail(s))
<1> DEFINE n == Len(s)
<1>1. n \in Nat /\ n >= 1 /\ DOMAIN s = 1..n /\ Head(s) = s[1]
  OBVIOUS
<1>2. /\ Tail(s) \in Seq(Nat) /\ Len(Tail(s)) = n - 1 /\ DOMAIN Tail(s) = 1..(n - 1)
      /\ \A k \in 1..(n - 1) : Tail(s)[k] = s[k + 1]
  OBVIOUS
<1>3. \A k \in 1..(n - 1) : k + 1 \in 1..n /\ k + 1 # 1
  BY <1>1
<1>4. \A k \in 1..n : k = 1 \/ (k - 1 \in 1..(n - 1) /\ (k - 1) + 1 = k)
  BY <1>1
<1> HIDE DEF n
<1>5. Range(s) = {s[1]} \cup Range(Tail(s))
  <2>1. 1 \in 1..n
    BY <1>1
  <2>2. ASSUME NEW k \in 1..n PROVE s[k] \in {s[1]} \cup Range(Tail(s))
    <3>1. CASE k = 1
      BY <3>1
    <3>2. CASE k - 1 \in 1..(n - 1) /\ (k - 1) + 1 = k
      <4>1. Tail(s)[k - 1] = s[k]
        BY <1>2, <3>2
      <4> QED
        BY <1>2, <3>2, <4>1 DEF Range
    <3> QED
      BY <1>4, <3>1, <3>2
  <2>3. ASSUME NEW k \in 1..(n - 1) PROVE Tail(s)[k] \in Range(s)
    BY <1>1, <1>2, <1>3 DEF Range
  <2> QED
    BY <1>1, <1>2, <2>1, <2>2, <2>3 DEF Range
<1>6. ASSUME IsInjective(s) PROVE IsInjective(Tail(s)) /\ s[1] \notin Range(Tail(s))
  <2>1. \A j, k \in 1..n : s[j] = s[k] => j = k
    BY <1>1, <1>6 DEF IsInjective
  <2>2. ASSUME NEW j \in 1..(n - 1), NEW k \in 1..(n - 1), Tail(s)[j] = Tail(s)[k] PROVE j = k
    <3>1. j + 1 = k + 1
      BY <1>2, <1>3, <2>1, <2>2
    <3> QED
      BY <3>1
  <2>3. ASSUME NEW j \in 1..(n - 1) PROVE Tail(s)[j] # s[1]
    <3>1. 1 \in 1..n
      BY <1>1
    <3> QED
      BY <1>2, <1>3, <2>1, <3>1
  <2> QED
    BY <1>2, <2>2, <2>3 DEF IsInjective, Range
<1> QED
  BY <1>1, <1>2, <1>5, <1>6

LEMMA RangeOfConcat ==
  ASSUME NEW s \in Seq(Nat), NEW t \in Seq(Nat)
  PROVE  /\ s \o t \in Seq(Nat) /\ Range(s \o t) = Range(s) \cup Range(t)
         /\ IsInjective(s) /\ IsInjective(t) /\ Range(s) \cap Range(t) = {} => IsInjective(s \o t)
         /\ IsInjective(s \o t) =>
              IsInjective(s) /\ IsInjective(t) /\ Range(s) \cap Range(t) = {}
<1> DEFINE m == Len(s)
           n == Len(t)
           u == s \o t
<1>1. m \in Nat /\ n \in Nat /\ DOMAIN s = 1..m /\ DOMAIN t = 1..n
  OBVIOUS
<1>2. u \in Seq(Nat) /\ DOMAIN u = 1..(m + n)
  OBVIOUS
<1>3. \A k \in 1..m : k \in 1..(m + n) /\ u[k] = s[k]
  OBVIOUS
<1>4. \A k \in 1..n : m + k \in 1..(m + n) /\ u[m + k] = t[k]
  OBVIOUS
<1>5. \A k \in 1..(m + n) : k \in 1..m \/ (k - m \in 1..n /\ m + (k - m) = k)
  BY <1>1
<1> HIDE DEF m, n, u
<1>6. Range(u) = Range(s) \cup Range(t)
  <2>1. ASSUME NEW k \in 1..(m + n) PROVE u[k] \in Range(s) \cup Range(t)
    BY <1>1, <1>3, <1>4, <1>5 DEF Range
  <2>2. ASSUME NEW k \in 1..m PROVE s[k] \in Range(u)
    BY <1>2, <1>3 DEF Range
  <2>3. ASSUME NEW k \in 1..n PROVE t[k] \in Range(u)
    BY <1>2, <1>4 DEF Range
  <2>4. Range(u) \subseteq Range(s) \cup Range(t)
    BY <1>2, <2>1 DEF Range
  <2>5. Range(s) \subseteq Range(u)
    BY <1>1, <2>2 DEF Range
  <2>6. Range(t) \subseteq Range(u)
    BY <1>1, <2>3 DEF Range
  <2> QED
    BY <2>4, <2>5, <2>6
<1>7. ASSUME IsInjective(s), IsInjective(t), Range(s) \cap Range(t) = {} PROVE IsInjective(u)
  <2>1. ASSUME NEW j \in 1..(m + n), NEW k \in 1..(m + n), u[j] = u[k] PROVE j = k
    <3>1. CASE j \in 1..m /\ k \in 1..m
      BY <1>1, <1>3, <1>7, <2>1, <3>1 DEF IsInjective
    <3>2. CASE j \in 1..m /\ k - m \in 1..n /\ m + (k - m) = k
      <4>1. u[j] \in Range(s) /\ u[k] \in Range(t)
        BY <1>1, <1>3, <1>4, <3>2 DEF Range
      <4> QED
        BY <1>7, <2>1, <4>1
    <3>3. CASE k \in 1..m /\ j - m \in 1..n /\ m + (j - m) = j
      <4>1. u[k] \in Range(s) /\ u[j] \in Range(t)
        BY <1>1, <1>3, <1>4, <3>3 DEF Range
      <4> QED
        BY <1>7, <2>1, <4>1
    <3>4. CASE j - m \in 1..n /\ m + (j - m) = j /\ k - m \in 1..n /\ m + (k - m) = k
      <4>0. t[j - m] = u[j] /\ t[k - m] = u[k]
        BY <1>4, <3>4
      <4>1. j - m = k - m
        BY <1>1, <1>7, <2>1, <3>4, <4>0 DEF IsInjective
      <4> QED
        BY <3>4, <4>1
    <3> QED
      BY <1>5, <3>1, <3>2, <3>3, <3>4
  <2> QED
    BY <1>2, <2>1 DEF IsInjective
<1>8. ASSUME IsInjective(u) PROVE IsInjective(s) /\ IsInjective(t) /\ Range(s) \cap Range(t) = {}
  <2>1. \A j, k \in 1..(m + n) : u[j] = u[k] => j = k
    BY <1>2, <1>8 DEF IsInjective
  <2>2. IsInjective(s)
    BY <1>1, <1>3, <2>1 DEF IsInjective
  <2>3. ASSUME NEW j \in 1..n, NEW k \in 1..n, t[j] = t[k] PROVE j = k
    <3>1. m + j = m + k
      BY <1>4, <2>1, <2>3
    <3> QED
      BY <1>1, <3>1
  <2>4. ASSUME NEW j \in 1..m, NEW k \in 1..n PROVE s[j] # t[k]
    <3>1. j # m + k
      BY <1>1
    <3> QED
      BY <1>3, <1>4, <2>1, <3>1
  <2> QED
    BY <1>1, <2>2, <2>3, <2>4 DEF IsInjective, Range
<1> QED
  BY <1>2, <1>6, <1>7, <1>8 DEF u

\* A sequence is one of whatever holds its values.
LEMMA SeqOfValues ==
  ASSUME NEW S, NEW s \in Seq(S), NEW T, Range(s) \subseteq T
  PROVE  s \in Seq(T)
<1>1. DOMAIN s = 1..Len(s) /\ Len(s) \in Nat /\ s \in [1..Len(s) -> S]
  OBVIOUS
<1>2. \A j \in 1..Len(s) : s[j] \in T
  BY <1>1 DEF Range
<1>3. s \in [1..Len(s) -> T]
  BY <1>1, <1>2
<1> QED
  BY <1>1, <1>3

LEMMA RangeOfAppend ==
  ASSUME NEW s \in Seq(Nat), NEW x \in Nat
  PROVE  /\ Append(s, x) \in Seq(Nat) /\ Append(s, x) = s \o <<x>>
         /\ Range(Append(s, x)) = Range(s) \cup {x}
         /\ IsInjective(s) /\ x \notin Range(s) => IsInjective(Append(s, x))
         /\ <<x>> \in Seq(Nat) /\ Range(<<x>>) = {x} /\ IsInjective(<<x>>)
<1>1. <<x>> \in Seq(Nat) /\ Range(<<x>>) = {x} /\ IsInjective(<<x>>)
  BY DEF Range, IsInjective
<1>2. Append(s, x) = s \o <<x>> /\ Append(s, x) \in Seq(Nat)
  OBVIOUS
<1>3. PICK t \in Seq(Nat) : t = <<x>> /\ Range(t) = {x} /\ IsInjective(t)
  BY <1>1, Zenon
<1>4. Append(s, x) = s \o t
  BY <1>2, <1>3
<1>5. /\ Range(s \o t) = Range(s) \cup Range(t)
      /\ IsInjective(s) /\ IsInjective(t) /\ Range(s) \cap Range(t) = {} => IsInjective(s \o t)
  BY RangeOfConcat
<1> QED
  BY <1>1, <1>2, <1>3, <1>4, <1>5

LEMMA ConcatIs ==
  ASSUME NEW s \in Seq(Nat), NEW t \in Seq(Nat), NEW x \in Nat
  PROVE  /\ s \o <<>> = s /\ <<>> \o s = s
         /\ s \o Append(t, x) = Append(s \o t, x) /\ s \o <<x>> = Append(s, x)
<1>1. s \o <<>> = s
  OBVIOUS
<1>2. <<>> \o s = s
  OBVIOUS
<1>3. s \o <<x>> = Append(s, x)
  OBVIOUS
<1>4. s \o Append(t, x) = Append(s \o t, x)
  OBVIOUS
<1> QED
  BY <1>1, <1>2, <1>3, <1>4

LEMMA RangeOfEmpty == Range(<<>>) = {} /\ IsInjective(<<>>) /\ <<>> \in Seq(Nat)
BY DEF Range, IsInjective

(***************************************************************************)
(* Lemmas about the operators of the model.                                *)
(***************************************************************************)

\* A conditional update changes nothing but one status.
LEMMA SetsStatus ==
  ASSUME NEW rs \in Seq(RowType), NEW i \in DOMAIN rs, NEW to \in Statuses
  PROVE  /\ Set(rs, i, to) \in Seq(RowType)
         /\ Len(Set(rs, i, to)) = Len(rs) /\ DOMAIN Set(rs, i, to) = DOMAIN rs
         /\ \A j \in DOMAIN rs :
              /\ Set(rs, i, to)[j].node = rs[j].node /\ Set(rs, i, to)[j].in = rs[j].in
              /\ Set(rs, i, to)[j].at = rs[j].at
              /\ j # i => Set(rs, i, to)[j] = rs[j]
         /\ Set(rs, i, to)[i].status = Moved(rs[i].status, to)
<1>0. rs[i] \in RowType /\ rs \in [1..Len(rs) -> RowType]
  OBVIOUS
<1>1. Moved(rs[i].status, to) \in Statuses
  BY <1>0 DEF Moved, RowType
<1> DEFINE m == Moved(rs[i].status, to)
<1>2. Set(rs, i, to) = [rs EXCEPT ![i] = [rs[i] EXCEPT !.status = m]]
  BY DEF Set
<1>3. [rs[i] EXCEPT !.status = m] = [node |-> rs[i].node, status |-> m, in |-> rs[i].in, at |-> rs[i].at]
  <2>1. \A r \in RowType : \A x :
          [r EXCEPT !.status = x] = [node |-> r.node, status |-> x, in |-> r.in, at |-> r.at]
    BY DEF RowType
  <2> QED
    BY <1>0, <2>1
<1> HIDE DEF m
<1>4. [rs[i] EXCEPT !.status = m] \in RowType
  BY <1>0, <1>1, <1>3 DEF m, RowType
<1>5. Set(rs, i, to) \in Seq(RowType) /\ Len(Set(rs, i, to)) = Len(rs)
  BY <1>0, <1>2, <1>4
<1>6. \A j \in DOMAIN rs : j # i => Set(rs, i, to)[j] = rs[j]
  BY <1>0, <1>2
<1>7. Set(rs, i, to)[i] = [node |-> rs[i].node, status |-> m, in |-> rs[i].in, at |-> rs[i].at]
  BY <1>0, <1>2, <1>3
<1> QED
  BY <1>0, <1>5, <1>6, <1>7 DEF m

\* The inputs of a row with those of an earlier one are inputs.
LEMMA FillsInputs ==
  ASSUME NEW in \in Inputs, NEW n \in Nodes, NEW from \in SUBSET Inputs,
         StaticPins(n) \subseteq STRING
  PROVE  /\ Filled(in, n, from) \in Inputs
         /\ DOMAIN in \subseteq DOMAIN Filled(in, n, from)
         /\ DOMAIN Filled(in, n, from) \subseteq DOMAIN in \cup StaticPins(n)
         /\ \A p \in DOMAIN in : Filled(in, n, from)[p] = in[p]
         /\ \A p \in DOMAIN Filled(in, n, from) \ DOMAIN in :
              \E f \in from : p \in DOMAIN f /\ Filled(in, n, from)[p] = f[p]
<1> DEFINE lent == {p \in StaticPins(n) \ DOMAIN in : \E f \in from : p \in DOMAIN f}
           filled == [p \in DOMAIN in \cup lent |->
                        IF p \in lent THEN (CHOOSE f \in from : p \in DOMAIN f)[p] ELSE in[p]]
<1>1. Filled(in, n, from) = filled
  BY DEF Filled
<1>2. ASSUME NEW p \in lent PROVE \E f \in from : p \in DOMAIN f /\ filled[p] = f[p]
  OBVIOUS
<1>3. ASSUME NEW p \in DOMAIN in PROVE filled[p] = in[p]
  OBVIOUS
<1>4. \A f \in Inputs : DOMAIN f \in SUBSET STRING /\ f \in [DOMAIN f -> Output]
  BY DEF Inputs
<1>5. ASSUME NEW f \in from, NEW p \in DOMAIN f PROVE f[p] \in Output
  BY <1>4
<1>6. filled \in [DOMAIN in \cup lent -> Output]
  BY <1>2, <1>3, <1>4, <1>5
<1>7. DOMAIN in \cup lent \in SUBSET STRING /\ lent \subseteq StaticPins(n)
  BY <1>4
<1> HIDE DEF lent
<1>8. filled \in Inputs
  BY <1>6, <1>7 DEF Inputs
<1> QED
  BY <1>1, <1>2, <1>3, <1>7, <1>8

\* Queueing an incomplete row changes that row alone.
LEMMA QueuesRow ==
  ASSUME NEW rs \in Seq(RowType), NEW i \in DOMAIN rs, NEW data \in Inputs,
         rs[i].status = "INCOMPLETE"
  PROVE  /\ Queued(rs, i, data) \in Seq(RowType)
         /\ Len(Queued(rs, i, data)) = Len(rs) /\ DOMAIN Queued(rs, i, data) = DOMAIN rs
         /\ \A j \in DOMAIN rs : j # i => Queued(rs, i, data)[j] = rs[j]
         /\ Queued(rs, i, data)[i].node = rs[i].node
         /\ Queued(rs, i, data)[i].status = "QUEUED"
         /\ Queued(rs, i, data)[i].in = data
<1>1. rs[i] \in RowType /\ rs \in [1..Len(rs) -> RowType] /\ Len(rs) \in Nat
  OBVIOUS
<1> DEFINE at == [j \in 1..Len(rs) |-> rs[j].at]
           next == 1 + Max({rs[j].at : j \in DOMAIN rs})
<1>2. next \in Nat
  <2>1. at \in [1..Len(rs) -> Nat] /\ Len(rs) > 0
    BY <1>1 DEF RowType
  <2>2. {at[j] : j \in 1..Len(rs)} = {rs[j].at : j \in DOMAIN rs}
    BY <1>1
  <2>3. 1 + Max({at[j] : j \in 1..Len(rs)}) \in Nat
    <3> HIDE DEF at
    <3> QED
      BY <1>1, <2>1, NextNumber
  <2> QED
    BY <2>2, <2>3
<1> DEFINE r == [node |-> rs[i].node, status |-> "QUEUED", in |-> data, at |-> next]
<1>3. Queued(rs, i, data) = [rs EXCEPT ![i] = r]
  BY DEF Queued, AllowedFrom
<1> HIDE DEF next
<1>4. r \in RowType
  BY <1>1, <1>2 DEF RowType, Statuses
<1>5. r.node = rs[i].node /\ r.status = "QUEUED" /\ r.in = data
  OBVIOUS
<1> HIDE DEF r
<1> QED
  BY <1>1, <1>3, <1>4, <1>5

(***************************************************************************)
(* What the steps of a task change.                                        *)
(***************************************************************************)

\* A step of the task of row i changes that row, and neither its node nor its inputs.
TaskFrame(i) ==
  /\ UNCHANGED <<graph, tasks, eval, queue, engine, verdict, error, cancel>>
  /\ Len(rows') = Len(rows) /\ Len(work') = Len(work)
  /\ rows' \in Seq(RowType) /\ work' \in Seq(WorkType)
  /\ \A j \in Rows : /\ rows'[j].node = rows[j].node /\ rows'[j].in = rows[j].in
                     /\ j # i => rows'[j] = rows[j] /\ work'[j] = work[j]
                     /\ work'[j].turn = work[j].turn

\* What becomes of the row and of its task.
SameFuture(i) == work'[i].future = work[i].future
FutureEnds(i) ==
  work'[i].future = IF work[i].future = "open" THEN "done" ELSE work[i].future
SameEnd(i) == work'[i].end = work[i].end
SameOut(i) == work'[i].out = work[i].out /\ work'[i].sent = work[i].sent
SameStatus(i) == rows'[i].status = rows[i].status

Started(i) ==
  /\ work[i].at = "start" /\ work'[i].at = "run"
  /\ SameFuture(i) /\ SameEnd(i) /\ SameOut(i)
  /\ rows'[i].status = Moved(rows[i].status, "RUNNING")
Yielded(i) ==
  /\ work[i].at = "run" /\ work'[i].at = "run"
  /\ SameFuture(i) /\ SameEnd(i) /\ SameStatus(i)
  /\ work[i].sent < Len(graph.yields[rows[i].node])
  /\ work'[i].sent = work[i].sent + 1
  /\ work'[i].out = Reported(i, work[i].sent + 1)
Returned(i) ==
  /\ work[i].at = "run" /\ work'[i].at = "write" /\ work'[i].end = "COMPLETED"
  /\ SameFuture(i) /\ SameOut(i) /\ SameStatus(i)
Raised(i) ==
  /\ work[i].at \in {"start", "run"} /\ work'[i].at = "write" /\ work'[i].end = "FAILED"
  /\ SameFuture(i) /\ SameStatus(i) /\ work'[i].sent = work[i].sent
  /\ work'[i].out = Reported(i, ErrorOutput(i))
Wrote(i) ==
  /\ work[i].at = "write" /\ work'[i].at = "over"
  /\ FutureEnds(i) /\ SameEnd(i) /\ SameOut(i)
  /\ rows'[i].status = Moved(rows[i].status, work[i].end)
Broke(i) ==
  /\ work[i].at \in {"start", "write"} /\ work'[i].at = "broken"
  /\ FutureEnds(i) /\ SameEnd(i) /\ SameOut(i) /\ SameStatus(i)
Interrupted(i) ==
  /\ work[i].at \in {"start", "run"} /\ work'[i].at = "write" /\ work'[i].end = "TERMINATED"
  /\ work[i].future = "cancelled" /\ SameFuture(i) /\ SameOut(i) /\ SameStatus(i)

TaskEffect(i) == \/ Started(i) \/ Yielded(i) \/ Returned(i) \/ Raised(i)
                 \/ Wrote(i) \/ Broke(i) \/ Interrupted(i)

LEMMA RowTyped ==
  ASSUME Typed, NEW i \in Rows
  PROVE  /\ rows[i] \in RowType /\ work[i] \in WorkType /\ i \in DOMAIN rows
         /\ ErrorOutput(i) \in Nat /\ Len(graph.yields[rows[i].node]) \in Nat
<1>1. rows[i] \in RowType /\ work[i] \in WorkType
  BY DEF Typed, Rows
<1>2. graph.yields[rows[i].node] \in Seq(STRING)
  BY <1>1, EngineConstants DEF Typed, IsShape, RowType
<1> QED
  BY <1>1, <1>2 DEF ErrorOutput, Rows

LEMMA TaskChanges ==
  ASSUME Typed, NEW i \in Rows, OnlyWork, NEW w \in WorkType, work' = [work EXCEPT ![i] = w],
         w.turn = work[i].turn,
         \/ rows' = rows
         \/ \E to \in Statuses : rows' = Set(rows, i, to)
  PROVE  TaskFrame(i) /\ work'[i] = w
<1>1. work \in [1..Len(work) -> WorkType] /\ i \in 1..Len(work) /\ DOMAIN rows = DOMAIN work
  BY DEF Typed, Rows
<1>2. /\ work' \in Seq(WorkType) /\ Len(work') = Len(work) /\ work'[i] = w
      /\ \A j \in Rows : j # i => work'[j] = work[j]
      /\ \A j \in Rows : work'[j].turn = work[j].turn
  BY <1>1 DEF Typed, Rows
<1>3. /\ rows' \in Seq(RowType) /\ Len(rows') = Len(rows)
      /\ \A j \in Rows : /\ rows'[j].node = rows[j].node /\ rows'[j].in = rows[j].in
                         /\ j # i => rows'[j] = rows[j]
  <2>1. CASE rows' = rows
    BY <2>1 DEF Typed
  <2>2. ASSUME NEW to \in Statuses, rows' = Set(rows, i, to) PROVE <1>3!1 /\ <1>3!2
    BY <2>2, SetsStatus DEF Typed, Rows
  <2> QED
    BY <2>1, <2>2
<1> QED
  BY <1>2, <1>3 DEF TaskFrame, OnlyWork

LEMMA TaskSteps ==
  ASSUME Typed, Standing, NEW i \in Rows, TaskNext(i)
  PROVE  Typed' /\ TaskFrame(i) /\ TaskEffect(i)
<1>0. /\ rows[i] \in RowType /\ work[i] \in WorkType /\ i \in DOMAIN rows
      /\ ErrorOutput(i) \in Nat /\ Len(graph.yields[rows[i].node]) \in Nat
  BY RowTyped
<1>1. rows \in Seq(RowType) /\ work \in Seq(WorkType) /\ i \in DOMAIN work
  BY DEF Typed, Rows
<1>2. trouble' \in Troubles \cup {"none"}
  BY DEF Typed, TaskNext, TaskStarts, TaskYields, TaskReturns, TaskRaises, TaskWrites,
         TaskBreaks, TaskInterrupted, Strikes, Troubles
<1>3. TaskFrame(i) /\ TaskEffect(i)
  <2>0. ASSUME NEW k \in Nat PROVE Reported(i, k) \in Seq(Nat)
    BY <1>0 DEF Reported, WorkType
  <2>1. CASE TaskStarts(i)
    <3> DEFINE w == [work[i] EXCEPT !.at = "run"]
    <3>1. w \in WorkType
      BY <1>0, <2>0 DEF WorkType
    <3>2. work' = [work EXCEPT ![i] = w]
      BY <1>0, <1>1, <2>1 DEF TaskStarts, WorkType
    <3>3. /\ w.at = "run" /\ w.end = work[i].end
          /\ w.turn = work[i].turn
          /\ w.future = work[i].future
          /\ w.sent = work[i].sent /\ w.out = work[i].out
      BY <1>0 DEF WorkType
    <3>4. rows' = Set(rows, i, "RUNNING") /\ "RUNNING" \in Statuses
      BY <2>1 DEF TaskStarts, Statuses
    <3> HIDE DEF w
    <3>5. TaskFrame(i) /\ work'[i] = w
      BY <2>1, <3>1, <3>2, <3>3, <3>4, TaskChanges DEF TaskStarts
    <3>6. rows'[i].status = Moved(rows[i].status, "RUNNING")
      BY <1>0, <1>1, <3>4, SetsStatus
    <3>7. Started(i)
      BY <2>1, <3>3, <3>5, <3>6
         DEF Started, TaskStarts, SameFuture, FutureEnds, SameEnd, SameOut
    <3> QED
      BY <3>5, <3>7 DEF TaskEffect
  <2>2. CASE TaskYields(i)
    <3> DEFINE w == [work[i] EXCEPT !.sent = @ + 1, !.out = Reported(i, work[i].sent + 1)]
    <3>0. work[i].sent + 1 \in Nat
      BY <1>0 DEF WorkType
    <3>a. Reported(i, work[i].sent + 1) \in Seq(Nat)
      BY <2>0, <3>0
    <3>1. w \in WorkType
      BY <1>0, <3>0, <3>a DEF WorkType
    <3>2. work' = [work EXCEPT ![i] = w]
      BY <1>0, <1>1, <2>2 DEF TaskYields, WorkType
    <3>3. /\ w.at = work[i].at /\ w.end = work[i].end
          /\ w.turn = work[i].turn
          /\ w.future = work[i].future
          /\ w.sent = work[i].sent + 1 /\ w.out = Reported(i, work[i].sent + 1)
      BY <1>0 DEF WorkType
    <3>4. rows' = rows
      BY <2>2 DEF TaskYields
    <3> HIDE DEF w
    <3>5. TaskFrame(i) /\ work'[i] = w
      BY <2>2, <3>1, <3>2, <3>3, <3>4, TaskChanges DEF TaskYields
    <3>6. Yielded(i)
      BY <2>2, <3>3, <3>4, <3>5
         DEF Yielded, TaskYields, SameFuture, FutureEnds, SameEnd, SameOut, SameStatus
    <3> QED
      BY <3>5, <3>6 DEF TaskEffect
  <2>3. CASE TaskReturns(i)
    <3> DEFINE w == [work[i] EXCEPT !.at = "write", !.end = "COMPLETED"]
    <3>1. w \in WorkType
      BY <1>0, <2>0 DEF WorkType
    <3>2. work' = [work EXCEPT ![i] = w]
      BY <1>0, <1>1, <2>3 DEF TaskReturns, WorkType
    <3>3. /\ w.at = "write" /\ w.end = "COMPLETED"
          /\ w.turn = work[i].turn
          /\ w.future = work[i].future
          /\ w.sent = work[i].sent /\ w.out = work[i].out
      BY <1>0 DEF WorkType
    <3>4. rows' = rows
      BY <2>3 DEF TaskReturns
    <3> HIDE DEF w
    <3>5. TaskFrame(i) /\ work'[i] = w
      BY <2>3, <3>1, <3>2, <3>3, <3>4, TaskChanges DEF TaskReturns
    <3>6. Returned(i)
      BY <2>3, <3>3, <3>4, <3>5
         DEF Returned, TaskReturns, SameFuture, FutureEnds, SameEnd, SameOut, SameStatus
    <3> QED
      BY <3>5, <3>6 DEF TaskEffect
  <2>4. CASE TaskRaises(i)
    <3> DEFINE w == [work[i] EXCEPT !.at = "write", !.end = "FAILED",
                             !.out = Reported(i, ErrorOutput(i))]
    <3>1. w \in WorkType
      BY <1>0, <2>0 DEF WorkType
    <3>2. work' = [work EXCEPT ![i] = w]
      BY <1>0, <1>1, <2>4 DEF TaskRaises, WorkType
    <3>3. /\ w.at = "write" /\ w.end = "FAILED"
          /\ w.turn = work[i].turn
          /\ w.future = work[i].future
          /\ w.sent = work[i].sent /\ w.out = Reported(i, ErrorOutput(i))
      BY <1>0 DEF WorkType
    <3>4. rows' = rows
      BY <2>4 DEF TaskRaises
    <3> HIDE DEF w
    <3>5. TaskFrame(i) /\ work'[i] = w
      BY <2>4, <3>1, <3>2, <3>3, <3>4, TaskChanges DEF TaskRaises
    <3>6. Raised(i)
      BY <2>4, <3>3, <3>4, <3>5
         DEF Raised, TaskRaises, SameFuture, FutureEnds, SameEnd, SameOut, SameStatus
    <3> QED
      BY <3>5, <3>6 DEF TaskEffect
  <2>5. CASE TaskWrites(i)
    <3> DEFINE w == [work[i] EXCEPT !.at = "over", !.future = IF @ = "open" THEN "done" ELSE @]
    <3>1. w \in WorkType
      BY <1>0, <2>0 DEF WorkType
    <3>2. work' = [work EXCEPT ![i] = w]
      BY <1>0, <1>1, <2>5 DEF TaskWrites, WorkType
    <3>3. /\ w.at = "over" /\ w.end = work[i].end
          /\ w.turn = work[i].turn
          /\ w.future = (IF work[i].future = "open" THEN "done" ELSE work[i].future)
          /\ w.sent = work[i].sent /\ w.out = work[i].out
      BY <1>0 DEF WorkType
    <3>4. rows' = Set(rows, i, work[i].end) /\ work[i].end \in Statuses
      BY <1>0, <2>5 DEF TaskWrites, Statuses, WorkType, Standing, Rows
    <3> HIDE DEF w
    <3>5. TaskFrame(i) /\ work'[i] = w
      BY <2>5, <3>1, <3>2, <3>3, <3>4, TaskChanges DEF TaskWrites
    <3>6. rows'[i].status = Moved(rows[i].status, work[i].end)
      BY <1>0, <1>1, <3>4, SetsStatus
    <3>7. Wrote(i)
      BY <2>5, <3>3, <3>5, <3>6
         DEF Wrote, TaskWrites, SameFuture, FutureEnds, SameEnd, SameOut
    <3> QED
      BY <3>5, <3>7 DEF TaskEffect
  <2>6. CASE TaskBreaks(i)
    <3> DEFINE w == [work[i] EXCEPT !.at = "broken", !.future = IF @ = "open" THEN "done" ELSE @]
    <3>1. w \in WorkType
      BY <1>0, <2>0 DEF WorkType
    <3>2. work' = [work EXCEPT ![i] = w]
      BY <1>0, <1>1, <2>6 DEF TaskBreaks, WorkType
    <3>3. /\ w.at = "broken" /\ w.end = work[i].end
          /\ w.turn = work[i].turn
          /\ w.future = (IF work[i].future = "open" THEN "done" ELSE work[i].future)
          /\ w.sent = work[i].sent /\ w.out = work[i].out
      BY <1>0 DEF WorkType
    <3>4. rows' = rows
      BY <2>6 DEF TaskBreaks
    <3> HIDE DEF w
    <3>5. TaskFrame(i) /\ work'[i] = w
      BY <2>6, <3>1, <3>2, <3>3, <3>4, TaskChanges DEF TaskBreaks
    <3>6. Broke(i)
      BY <2>6, <3>3, <3>4, <3>5
         DEF Broke, TaskBreaks, SameFuture, FutureEnds, SameEnd, SameOut, SameStatus
    <3> QED
      BY <3>5, <3>6 DEF TaskEffect
  <2>7. ASSUME work[i].at \in {"start", "run"}, TaskInterrupted(i),
               work' = [work EXCEPT ![i].at = "write", ![i].end = "TERMINATED"]
        PROVE  TaskFrame(i) /\ TaskEffect(i)
    <3> DEFINE w == [work[i] EXCEPT !.at = "write", !.end = "TERMINATED"]
    <3>1. w \in WorkType
      BY <1>0 DEF WorkType
    <3>2. work' = [work EXCEPT ![i] = w]
      BY <1>0, <1>1, <2>7 DEF WorkType
    <3>3. /\ w.at = "write" /\ w.end = "TERMINATED" /\ w.future = work[i].future
          /\ w.turn = work[i].turn
          /\ w.sent = work[i].sent /\ w.out = work[i].out
      BY <1>0 DEF WorkType
    <3>4. rows' = rows
      BY <2>7 DEF TaskInterrupted
    <3> HIDE DEF w
    <3>5. TaskFrame(i) /\ work'[i] = w
      BY <2>7, <3>1, <3>2, <3>3, <3>4, TaskChanges DEF TaskInterrupted
    <3>6. Interrupted(i)
      BY <2>7, <3>3, <3>4, <3>5
         DEF Interrupted, TaskInterrupted, SameFuture, SameOut, SameStatus
    <3> QED
      BY <3>5, <3>6 DEF TaskEffect
  <2>8. ASSUME work[i].at \in {"start", "write"}, TaskInterrupted(i),
               work' = [work EXCEPT ![i].at = "broken"]
        PROVE  TaskFrame(i) /\ TaskEffect(i)
    <3> DEFINE w == [work[i] EXCEPT !.at = "broken"]
    <3>1. w \in WorkType
      BY <1>0 DEF WorkType
    <3>2. work' = [work EXCEPT ![i] = w]
      BY <1>0, <1>1, <2>8 DEF WorkType
    <3>3. /\ w.at = "broken" /\ w.end = work[i].end /\ w.future = work[i].future
          /\ w.turn = work[i].turn
          /\ w.sent = work[i].sent /\ w.out = work[i].out
      BY <1>0 DEF WorkType
    <3>4. rows' = rows
      BY <2>8 DEF TaskInterrupted
    <3> HIDE DEF w
    <3>5. TaskFrame(i) /\ work'[i] = w
      BY <2>8, <3>1, <3>2, <3>3, <3>4, TaskChanges DEF TaskInterrupted
    <3>6. Broke(i)
      BY <2>8, <3>3, <3>4, <3>5
         DEF Broke, TaskInterrupted, FutureEnds, SameEnd, SameOut, SameStatus
    <3> QED
      BY <3>5, <3>6 DEF TaskEffect
  <2>9. TaskInterrupted(i) => TaskFrame(i) /\ TaskEffect(i)
    BY <2>7, <2>8 DEF TaskInterrupted
  <2> QED
    BY <2>1, <2>2, <2>3, <2>4, <2>5, <2>6, <2>9 DEF TaskNext
<1>4. graph' \in Shapes /\ tasks' \in [Nodes -> Seq(Nat)] /\ eval' \in [Nodes -> EvalType]
  BY <1>3 DEF Typed, TaskFrame
<1> QED
  BY <1>2, <1>3, <1>4 DEF Typed, TaskFrame

(***************************************************************************)
(* What the steps of an evaluation change.                                 *)
(***************************************************************************)

LEMMA LinkTyped ==
  ASSUME Typed, NEW n \in Nodes, eval[n].todo # {}, eval[n].todo \subseteq DOMAIN graph.links
  PROVE  /\ Min(eval[n].todo) \in eval[n].todo
         /\ Link(n) \in ToSet(graph.links)
         /\ Link(n).to \in Nodes /\ Link(n).pin \in STRING /\ Link(n).static \in BOOLEAN
         /\ Link(n).pin \in Pins(Link(n).to)
<1> DEFINE L == [from : Nodes, out : STRING, to : Nodes, pin : STRING, static : BOOLEAN]
<1>1. graph.links \in Seq(L)
  BY EngineConstants DEF Typed, IsShape
<1>2. eval[n].todo \in SUBSET Nat
  BY DEF Typed, EvalType
<1>3. Min(eval[n].todo) \in eval[n].todo
  BY <1>2, MinIsLeast
<1> HIDE DEF L
<1>4. Link(n) \in ToSet(graph.links) /\ Link(n) \in L
  BY <1>1, <1>3 DEF Link, ToSet
<1> QED
  BY <1>3, <1>4 DEF Pins, L

\* The pins of a graph are strings.
LEMMA PinsTyped ==
  ASSUME Typed, NEW n \in Nodes
  PROVE  StaticPins(n) \subseteq STRING /\ StaticPins(n) \subseteq Pins(n)
<1> DEFINE L == [from : Nodes, out : STRING, to : Nodes, pin : STRING, static : BOOLEAN]
<1>1. graph.links \in Seq(L)
  BY EngineConstants DEF Typed, IsShape
<1> HIDE DEF L
<1>2. ToSet(graph.links) \subseteq L
  BY <1>1 DEF ToSet
<1> QED
  BY <1>2 DEF Pins, StaticPins, L

\* One more input, added to others.
LEMMA AddsInput ==
  ASSUME NEW in \in Inputs, NEW p \in STRING, NEW v \in Output
  PROVE  /\ With(in, p, v) \in Inputs /\ DOMAIN With(in, p, v) = DOMAIN in \cup {p}
         /\ With(in, p, v)[p] = v
         /\ \A q \in DOMAIN in : q # p => With(in, p, v)[q] = in[q]
<1>1. DOMAIN in \in SUBSET STRING /\ in \in [DOMAIN in -> Output]
  BY DEF Inputs
<1>2. With(in, p, v) \in [DOMAIN in \cup {p} -> Output] /\ DOMAIN in \cup {p} \in SUBSET STRING
  BY <1>1 DEF With
<1>3. With(in, p, v) \in Inputs
  BY <1>2 DEF Inputs
<1> QED
  BY <1>3 DEF With

LEMMA NoInputs == <<>> \in Inputs /\ DOMAIN <<>> = {}
<1>1. DOMAIN <<>> = {} /\ <<>> \in [{} -> Output]
  OBVIOUS
<1> QED
  BY <1>1 DEF Inputs

\* A step of the evaluation of node n changes no other evaluation, and no row's node.
EvalFrame(n) ==
  /\ UNCHANGED <<graph, tasks, engine, verdict, error, cancel>>
  /\ rows' \in Seq(RowType) /\ work' \in Seq(WorkType)
  /\ Len(rows') >= Len(rows) /\ Len(work') = Len(rows')
  /\ eval' \in [Nodes -> EvalType] /\ queue' \in Seq(Nat)
  /\ \A m \in Nodes : m # n => eval'[m] = eval[m]
  /\ \A j \in Rows : rows'[j].node = rows[j].node

SameLink(n) == eval'[n].todo = eval[n].todo /\ eval'[n].val = eval[n].val
SameRow(n) == eval'[n].row = eval[n].row
SamePlaces(n) == eval'[n].mine = eval[n].mine /\ eval'[n].found = eval[n].found
NewLink(n) ==
  /\ eval'[n].at = "find" /\ eval'[n].row = 0 /\ eval'[n].mine = <<>>
  /\ eval'[n].val = eval[n].val /\ eval'[n].todo = eval[n].todo \ {Min(eval[n].todo)}
OnlyRow(i) ==
  /\ Len(rows') = Len(rows) /\ UNCHANGED work /\ i \in Rows
  /\ \A j \in Rows : j # i => rows'[j] = rows[j]

LookedUp(n) ==
  /\ eval[n].at = "find" /\ eval[n].todo # {} /\ SinkFree(n) /\ eval'[n].at = "insert"
  /\ eval'[n].row = Earliest(Waiting(Link(n).to, Link(n).pin))
  /\ SameLink(n) /\ SamePlaces(n) /\ UNCHANGED <<rows, work, queue>>
Opened(n) ==
  /\ eval[n].at = "insert" /\ eval[n].row = 0 /\ eval'[n].at = "complete"
  /\ eval'[n].row = Len(rows) + 1 /\ Len(rows') = Len(rows) + 1
  /\ \A j \in Rows : rows'[j] = rows[j] /\ work'[j] = work[j]
  /\ rows'[Len(rows) + 1] = [node |-> Link(n).to, status |-> "INCOMPLETE",
                             in |-> With(<<>>, Link(n).pin, eval[n].val), at |-> 0]
  /\ work'[Len(rows) + 1] = NoWork
  /\ SameLink(n) /\ SamePlaces(n) /\ UNCHANGED queue
Inserted(n) ==
  /\ eval[n].at = "insert" /\ eval[n].row \in Rows /\ eval'[n].at = "complete"
  /\ OnlyRow(eval[n].row) /\ SameRow(n)
  /\ rows'[eval[n].row].status = rows[eval[n].row].status
  /\ rows'[eval[n].row].in = With(rows[eval[n].row].in, Link(n).pin, eval[n].val)
  /\ SameLink(n) /\ SamePlaces(n) /\ UNCHANGED queue
\* Row i of the sink is queued in the table, with more inputs.
Readied(n, i) ==
  /\ OnlyRow(i) /\ rows[i].node = Link(n).to /\ rows[i].status = "INCOMPLETE"
  /\ rows'[i].status = "QUEUED"
  /\ DOMAIN rows[i].in \subseteq DOMAIN rows'[i].in
  /\ DOMAIN rows'[i].in \subseteq DOMAIN rows[i].in \cup StaticPins(Link(n).to)
  /\ \A p \in DOMAIN rows[i].in : rows'[i].in[p] = rows[i].in[p]
  /\ \A p \in DOMAIN rows'[i].in \ DOMAIN rows[i].in :
       \E j \in Rows : p \in DOMAIN rows[j].in /\ rows'[i].in[p] = rows[j].in[p]
CompletedOne(n) ==
  /\ eval[n].at = "complete" /\ Readied(n, eval[n].row) /\ UNCHANGED queue
  /\ NewLink(n) /\ eval'[n].found = (eval[n].found \o eval[n].mine) \o <<eval[n].row>>
CompletedStatic(n) ==
  /\ eval[n].at = "complete" /\ Readied(n, eval[n].row) /\ UNCHANGED queue
  /\ eval'[n].at = "others" /\ SameLink(n) /\ SameRow(n)
  /\ eval'[n].mine = <<eval[n].row>> /\ eval'[n].found = eval[n].found
Passed(n) ==
  /\ eval[n].at \in {"complete", "others"} /\ UNCHANGED <<rows, work, queue>>
  /\ NewLink(n) /\ eval'[n].found = eval[n].found \o eval[n].mine
CompletedOther(n) ==
  /\ eval[n].at = "others" /\ UNCHANGED queue /\ eval'[n].at = "others"
  /\ \E i \in Rows : Readied(n, i) /\ eval'[n].mine = Append(eval[n].mine, i)
  /\ SameLink(n) /\ SameRow(n) /\ eval'[n].found = eval[n].found
Failed(n) ==
  /\ Evaluating(n) /\ eval[n].todo # {} /\ UNCHANGED <<rows, queue>>
  /\ trouble' = "evaluation"
  /\ \A i \in Rows :
       /\ i \in Range(eval[n].mine) =>
            /\ work'[i].at = "broken" /\ work'[i].future = work[i].future
            /\ SameOut(i) /\ SameEnd(i) /\ work'[i].turn = work[i].turn
       /\ i \notin Range(eval[n].mine) => work'[i] = work[i]
  /\ NewLink(n) /\ eval'[n].found = eval[n].found
Over(n) ==
  /\ eval[n].at = "find" /\ eval[n].todo = {} /\ eval'[n].at = "done"
  /\ eval'[n].mine = <<>> /\ eval'[n].found = <<>> /\ eval'[n].todo = {} /\ eval'[n].row = 0
  /\ queue' = queue \o eval[n].found /\ UNCHANGED <<rows, work>>

EvalEffect(n) ==
  \/ LookedUp(n) \/ Opened(n) \/ Inserted(n)
  \/ CompletedOne(n) \/ CompletedStatic(n) \/ CompletedOther(n) \/ Passed(n)
  \/ Failed(n) \/ Over(n)

LEMMA EvalChanges ==
  ASSUME Typed, NEW n \in Nodes, NEW e \in EvalType, eval' = [eval EXCEPT ![n] = e]
  PROVE  /\ eval' \in [Nodes -> EvalType] /\ eval'[n] = e
         /\ \A m \in Nodes : m # n => eval'[m] = eval[m]
BY DEF Typed

LEMMA NextLinkIs ==
  ASSUME Typed, NEW n \in Nodes
  PROVE  /\ NextLink(n) \in EvalType
         /\ NextLink(n).at = "find" /\ NextLink(n).row = 0 /\ NextLink(n).mine = <<>>
         /\ NextLink(n).val = eval[n].val /\ NextLink(n).todo = eval[n].todo \ {Min(eval[n].todo)}
         /\ NextLink(n).found = eval[n].found \o eval[n].mine
<1>1. eval[n] \in EvalType
  BY DEF Typed
<1>2. eval[n].found \o eval[n].mine \in Seq(Nat) /\ <<>> \in Seq(Nat)
  BY <1>1 DEF EvalType
<1>3. eval[n].todo \ {Min(eval[n].todo)} \in SUBSET Nat
  BY <1>1 DEF EvalType
<1> QED
  BY <1>1, <1>2, <1>3 DEF NextLink, EvalType

LEMMA FindSteps ==
  ASSUME Typed, Known, Evaluations, NEW n \in Nodes, EvalFinds(n)
  PROVE  Typed' /\ EvalFrame(n) /\ LookedUp(n)
<1> DEFINE r == Earliest(Waiting(Link(n).to, Link(n).pin))
           e == [eval[n] EXCEPT !.at = "insert", !.row = r]
<1>1. eval[n] \in EvalType
  BY DEF Typed
<1>2. r \in Nat
  <2>1. Waiting(Link(n).to, Link(n).pin) \in SUBSET Nat
    BY DEF Waiting, Incomplete, Of, Rows, Typed
  <2> QED
    BY <2>1, MinIsLeast DEF Earliest
<1>3. eval' = [eval EXCEPT ![n] = e]
  BY <1>1 DEF EvalFinds, Typed, EvalType
<1> HIDE DEF r
<1>4. e \in EvalType /\ e.at = "insert" /\ e.row = r /\ e.todo = eval[n].todo
      /\ e.val = eval[n].val /\ e.mine = eval[n].mine /\ e.found = eval[n].found
  BY <1>1, <1>2 DEF EvalType
<1> HIDE DEF e
<1>5. /\ eval' \in [Nodes -> EvalType] /\ eval'[n] = e
      /\ \A m \in Nodes : m # n => eval'[m] = eval[m]
  BY <1>3, <1>4, EvalChanges
<1>6. EvalFrame(n)
  BY <1>5 DEF EvalFrame, EvalFinds, OnlyEval, Typed
<1>7. LookedUp(n)
  BY <1>4, <1>5 DEF LookedUp, EvalFinds, SameLink, SamePlaces, r
<1> QED
  BY <1>6, <1>7 DEF Typed, EvalFrame, EvalFinds, LookedUp

\* The value carried over a link is an output, and the row under it, if any, is of the sink.
LEMMA InsideTyped ==
  ASSUME Typed, Known, Evaluations, NEW n \in Nodes, Inside(n)
  PROVE  /\ eval[n] \in EvalType /\ eval[n].val \in Output
         /\ eval[n].row \in Rows \cup {0}
         /\ Link(n).to \in Nodes /\ Link(n).pin \in STRING /\ Link(n).static \in BOOLEAN
         /\ Link(n).pin \in Pins(Link(n).to)
         /\ eval[n].row \in Rows => /\ rows[eval[n].row] \in RowType
                                    /\ rows[eval[n].row].node = Link(n).to
         /\ eval[n].at \in {"complete", "others"} => eval[n].row \in Rows
<1>1. eval[n] \in EvalType
  BY DEF Typed
<1>2. eval[n].todo # {} /\ eval[n].todo \subseteq DOMAIN graph.links
  BY DEF Evaluations
<1> QED
  BY <1>1, <1>2, LinkTyped, RowTyped DEF EvalType, Evaluations, Known

LEMMA InsertSteps ==
  ASSUME Typed, Known, Evaluations, NEW n \in Nodes, EvalInserts(n)
  PROVE  Typed' /\ EvalFrame(n) /\ (Opened(n) \/ Inserted(n))
<1> DEFINE i == eval[n].row
<1>0. Inside(n)
  BY DEF EvalInserts, Inside
<1>1. /\ eval[n] \in EvalType /\ eval[n].val \in Output /\ i \in Rows \cup {0}
      /\ Link(n).to \in Nodes /\ Link(n).pin \in STRING
      /\ i \in Rows => rows[i] \in RowType
  BY <1>0, InsideTyped
<1>2. CASE i = 0
  <2> DEFINE r == [node |-> Link(n).to, status |-> "INCOMPLETE",
                   in |-> With(<<>>, Link(n).pin, eval[n].val), at |-> 0]
             e == [eval[n] EXCEPT !.at = "complete", !.row = Len(rows) + 1]
  <2>1. rows' = Append(rows, r) /\ work' = Append(work, NoWork)
    BY <1>2 DEF EvalInserts
  <2>2. r \in RowType
    BY <1>1, NoInputs, AddsInput DEF RowType, Statuses
  <2>3. NoWork \in WorkType
    BY DEF NoWork, WorkType
  <2>4. eval' = [eval EXCEPT ![n] = e]
    BY <1>1, <1>2 DEF EvalInserts, Typed, EvalType
  <2>5. e \in EvalType /\ e.at = "complete" /\ e.row = Len(rows) + 1 /\ e.todo = eval[n].todo
        /\ e.val = eval[n].val /\ e.mine = eval[n].mine /\ e.found = eval[n].found
    <3>1. Len(rows) + 1 \in Nat
      BY DEF Typed
    <3> QED
      BY <1>1, <3>1 DEF EvalType
  <2> HIDE DEF r, e
  <2>6. /\ eval' \in [Nodes -> EvalType] /\ eval'[n] = e
        /\ \A m \in Nodes : m # n => eval'[m] = eval[m]
    BY <2>4, <2>5, EvalChanges
  <2>7. /\ rows' \in Seq(RowType) /\ Len(rows') = Len(rows) + 1 /\ rows'[Len(rows) + 1] = r
        /\ \A j \in Rows : rows'[j] = rows[j]
    BY <2>1, <2>2 DEF Typed, Rows
  <2>8. /\ work' \in Seq(WorkType) /\ Len(work') = Len(work) + 1 /\ work'[Len(work) + 1] = NoWork
        /\ \A j \in Rows : work'[j] = work[j]
    BY <2>1, <2>3 DEF Typed, Rows
  <2>9. EvalFrame(n)
    BY <2>6, <2>7, <2>8 DEF EvalFrame, EvalInserts, OnlyEval, Typed
  <2>10. Opened(n)
    BY <1>2, <2>5, <2>6, <2>7, <2>8 DEF Opened, EvalInserts, SameLink, SamePlaces, r, Typed
  <2> QED
    BY <2>9, <2>10 DEF Typed, EvalFrame, EvalInserts
<1>3. CASE i \in Rows /\ i # 0
  <2> DEFINE in == With(rows[i].in, Link(n).pin, eval[n].val)
             r == [node |-> rows[i].node, status |-> rows[i].status, in |-> in, at |-> rows[i].at]
             e == [eval[n] EXCEPT !.at = "complete"]
  <2>1. rows' = [rows EXCEPT ![i] = r] /\ UNCHANGED work
    <3>1. rows' = [rows EXCEPT ![i].in = in] /\ UNCHANGED work
      BY <1>3 DEF EvalInserts
    <3>2. \A w \in RowType : \A x :
            [w EXCEPT !.in = x] = [node |-> w.node, status |-> w.status, in |-> x, at |-> w.at]
      BY DEF RowType
    <3>3. [rows[i] EXCEPT !.in = in] = r
      BY <1>1, <1>3, <3>2
    <3> HIDE DEF in, r
    <3> QED
      BY <1>3, <3>1, <3>3 DEF Rows
  <2>2. r \in RowType
    BY <1>1, <1>3, AddsInput DEF RowType
  <2>3. eval' = [eval EXCEPT ![n] = e]
    BY <1>1, <1>3 DEF EvalInserts, Typed, EvalType
  <2>4. e \in EvalType /\ e.at = "complete" /\ e.row = eval[n].row /\ e.todo = eval[n].todo
        /\ e.val = eval[n].val /\ e.mine = eval[n].mine /\ e.found = eval[n].found
    BY <1>1 DEF EvalType
  <2>5. r.node = rows[i].node /\ r.status = rows[i].status /\ r.in = in
    OBVIOUS
  <2> HIDE DEF r, e, in
  <2>6. /\ eval' \in [Nodes -> EvalType] /\ eval'[n] = e
        /\ \A m \in Nodes : m # n => eval'[m] = eval[m]
    BY <2>3, <2>4, EvalChanges
  <2>7. /\ rows' \in Seq(RowType) /\ Len(rows') = Len(rows) /\ rows'[i] = r
        /\ \A j \in Rows : j # i => rows'[j] = rows[j]
    BY <1>3, <2>1, <2>2 DEF Typed, Rows
  <2>8. EvalFrame(n)
    BY <1>3, <2>1, <2>5, <2>6, <2>7 DEF EvalFrame, EvalInserts, OnlyEval, Typed
  <2>9. Inserted(n)
    BY <1>3, <2>1, <2>4, <2>5, <2>6, <2>7
       DEF Inserted, EvalInserts, SameLink, SameRow, SamePlaces, OnlyRow, in
  <2> QED
    BY <2>8, <2>9 DEF Typed, EvalFrame, EvalInserts
<1> QED
  BY <1>1, <1>2, <1>3

\* Queueing a row of the sink whose inputs are filled from other rows.
LEMMA ReadiesRow ==
  ASSUME Typed, NEW n \in Nodes, Link(n).to \in Nodes, UNCHANGED work, NEW i \in Rows,
         rows[i].node = Link(n).to, rows[i].status = "INCOMPLETE",
         NEW from \in SUBSET Rows,
         rows' = Queued(rows, i, Filled(rows[i].in, Link(n).to, {rows[j].in : j \in from}))
  PROVE  /\ Readied(n, i) /\ rows' \in Seq(RowType)
         /\ \A j \in Rows : rows'[j].node = rows[j].node
<1> DEFINE lent == {rows[j].in : j \in from}
           in == Filled(rows[i].in, Link(n).to, lent)
<1>1. rows[i] \in RowType /\ i \in DOMAIN rows /\ rows \in Seq(RowType)
  BY RowTyped DEF Typed
<1>2. lent \in SUBSET Inputs
  BY RowTyped DEF RowType
<1>3. StaticPins(Link(n).to) \subseteq STRING
  BY PinsTyped
<1>4. rows[i].in \in Inputs
  BY <1>1 DEF RowType
<1>5. /\ in \in Inputs
      /\ DOMAIN rows[i].in \subseteq DOMAIN in
      /\ DOMAIN in \subseteq DOMAIN rows[i].in \cup StaticPins(Link(n).to)
      /\ \A p \in DOMAIN rows[i].in : in[p] = rows[i].in[p]
      /\ \A p \in DOMAIN in \ DOMAIN rows[i].in : \E f \in lent : p \in DOMAIN f /\ in[p] = f[p]
  <2> HIDE DEF lent
  <2> QED
    BY <1>2, <1>3, <1>4, FillsInputs
<1>6. \A p \in DOMAIN in \ DOMAIN rows[i].in :
        \E j \in Rows : p \in DOMAIN rows[j].in /\ in[p] = rows[j].in[p]
  BY <1>5
<1> HIDE DEF in
<1>7. rows' = Queued(rows, i, in)
  BY DEF in
<1>8. /\ rows' \in Seq(RowType) /\ Len(rows') = Len(rows)
      /\ \A j \in DOMAIN rows : j # i => rows'[j] = rows[j]
      /\ rows'[i].node = rows[i].node /\ rows'[i].status = "QUEUED" /\ rows'[i].in = in
  <2>1. /\ Queued(rows, i, in) \in Seq(RowType) /\ Len(Queued(rows, i, in)) = Len(rows)
        /\ \A j \in DOMAIN rows : j # i => Queued(rows, i, in)[j] = rows[j]
        /\ Queued(rows, i, in)[i].node = rows[i].node
        /\ Queued(rows, i, in)[i].status = "QUEUED" /\ Queued(rows, i, in)[i].in = in
    BY <1>1, <1>5, QueuesRow
  <2> QED
    BY <1>7, <2>1
<1>9. Readied(n, i)
  BY <1>5, <1>6, <1>8 DEF Readied, OnlyRow, Rows
<1> QED
  BY <1>8, <1>9 DEF Rows

LEMMA CompleteSteps ==
  ASSUME Typed, Known, Evaluations, NEW n \in Nodes, EvalCompletes(n)
  PROVE  Typed' /\ EvalFrame(n) /\ (CompletedOne(n) \/ CompletedStatic(n) \/ Passed(n))
<1> DEFINE i == eval[n].row
           from == Latest(Link(n).to)
           in == Filled(rows[i].in, Link(n).to, {rows[j].in : j \in from})
<1>0. Inside(n) /\ eval[n].at = "complete"
  BY DEF EvalCompletes, Inside
<1>1. /\ eval[n] \in EvalType /\ i \in Rows /\ i \in Nat
      /\ Link(n).to \in Nodes /\ rows[i].node = Link(n).to
  BY <1>0, InsideTyped DEF EvalType
<1>2. rows[i].status = "INCOMPLETE"
  BY <1>0, <1>1 DEF Evaluations
<1>3. from \in SUBSET Rows
  BY DEF Latest, Of
<1>4. /\ NextLink(n) \in EvalType
      /\ NextLink(n).at = "find" /\ NextLink(n).row = 0 /\ NextLink(n).mine = <<>>
      /\ NextLink(n).val = eval[n].val /\ NextLink(n).todo = eval[n].todo \ {Min(eval[n].todo)}
      /\ NextLink(n).found = eval[n].found \o eval[n].mine
  BY NextLinkIs
<1>5. work' = work /\ queue' = queue
  BY DEF EvalCompletes
<1>6. trouble' = trouble /\ UNCHANGED <<graph, tasks, engine, verdict, error, cancel>>
  BY DEF EvalCompletes, OnlyEval
<1> HIDE DEF from
<1>7. ASSUME NEW e \in EvalType, eval' = [eval EXCEPT ![n] = e], rows' \in Seq(RowType),
             Len(rows') = Len(rows), \A j \in Rows : rows'[j].node = rows[j].node
      PROVE  Typed' /\ EvalFrame(n) /\ eval'[n] = e
  <2>1. /\ eval' \in [Nodes -> EvalType] /\ eval'[n] = e
        /\ \A m \in Nodes : m # n => eval'[m] = eval[m]
    BY <1>7, EvalChanges
  <2>2. EvalFrame(n)
    BY <1>5, <1>6, <1>7, <2>1 DEF EvalFrame, Typed
  <2> QED
    BY <1>5, <1>6, <1>7, <2>1, <2>2 DEF Typed
<1>8. CASE Complete(in, Link(n).to) /\ Link(n).static
  <2> DEFINE e == [eval[n] EXCEPT !.at = "others", !.mine = <<i>>]
  <2>1. rows' = Queued(rows, i, in) /\ eval' = [eval EXCEPT ![n] = e]
    BY <1>8 DEF EvalCompletes, from
  <2>2. Readied(n, i) /\ rows' \in Seq(RowType) /\ \A j \in Rows : rows'[j].node = rows[j].node
    BY <1>1, <1>2, <1>3, <1>5, <2>1, ReadiesRow
  <2>3. <<i>> \in Seq(Nat)
    BY <1>1
  <2>4. /\ e \in EvalType /\ e.at = "others" /\ e.row = i /\ e.mine = <<i>>
        /\ e.val = eval[n].val /\ e.todo = eval[n].todo /\ e.found = eval[n].found
    BY <1>1, <2>3 DEF EvalType
  <2> HIDE DEF e, in
  <2>5. Typed' /\ EvalFrame(n) /\ eval'[n] = e
    BY <1>7, <2>1, <2>2, <2>4 DEF Readied, OnlyRow
  <2>6. CompletedStatic(n)
    BY <1>0, <1>5, <2>2, <2>4, <2>5 DEF CompletedStatic, SameLink, SameRow
  <2> QED
    BY <2>5, <2>6
<1>9. CASE Complete(in, Link(n).to) /\ ~Link(n).static
  <2> DEFINE found == (eval[n].found \o eval[n].mine) \o <<i>>
             e == [NextLink(n) EXCEPT !.found = NextLink(n).found \o <<i>>]
  <2>1. rows' = Queued(rows, i, in) /\ eval' = [eval EXCEPT ![n] = e]
    BY <1>9 DEF EvalCompletes, from
  <2>2. Readied(n, i) /\ rows' \in Seq(RowType) /\ \A j \in Rows : rows'[j].node = rows[j].node
    BY <1>1, <1>2, <1>3, <1>5, <2>1, ReadiesRow
  <2>3. NextLink(n).found \o <<i>> \in Seq(Nat)
    BY <1>1, <1>4 DEF EvalType
  <2>4. /\ e \in EvalType /\ e.at = "find" /\ e.row = 0 /\ e.mine = <<>> /\ e.val = eval[n].val
        /\ e.todo = eval[n].todo \ {Min(eval[n].todo)} /\ e.found = found
    <3>1. \A w \in EvalType : \A x \in Seq(Nat) :
            LET v == [w EXCEPT !.found = x] IN
            /\ v \in EvalType /\ v.at = w.at /\ v.row = w.row /\ v.mine = w.mine
            /\ v.val = w.val /\ v.todo = w.todo /\ v.found = x
      BY DEF EvalType
    <3>2. NextLink(n).found \o <<i>> = found
      BY <1>4
    <3> QED
      BY <1>4, <2>3, <3>1, <3>2
  <2> HIDE DEF e, in
  <2>5. Typed' /\ EvalFrame(n) /\ eval'[n] = e
    BY <1>7, <2>1, <2>2, <2>4 DEF Readied, OnlyRow
  <2>6. CompletedOne(n)
    BY <1>0, <1>5, <2>2, <2>4, <2>5 DEF CompletedOne, NewLink
  <2> QED
    BY <2>5, <2>6
<1>10. CASE ~Complete(in, Link(n).to)
  <2>1. rows' = rows /\ eval' = [eval EXCEPT ![n] = NextLink(n)]
    BY <1>10 DEF EvalCompletes, from
  <2>2. Typed' /\ EvalFrame(n) /\ eval'[n] = NextLink(n)
    BY <1>4, <1>7, <2>1 DEF Typed
  <2>3. Passed(n)
    BY <1>0, <1>4, <1>5, <2>1, <2>2 DEF Passed, NewLink
  <2> QED
    BY <2>2, <2>3
<1> QED
  BY <1>8, <1>9, <1>10

LEMMA OthersSteps ==
  ASSUME Typed, Known, Evaluations, NEW n \in Nodes, EvalOthers(n)
  PROVE  Typed' /\ EvalFrame(n) /\ (CompletedOther(n) \/ Passed(n))
<1> DEFINE from == {eval[n].row}
           lent == {rows[j].in : j \in from}
           sink == Link(n).to
           ready == {i \in Incomplete(sink) : Complete(Filled(rows[i].in, sink, lent), sink)}
           i == Max(ready)
<1>0. Inside(n) /\ eval[n].at = "others"
  BY DEF EvalOthers, Inside
<1>1. /\ eval[n] \in EvalType /\ eval[n].row \in Rows /\ sink \in Nodes
  BY <1>0, InsideTyped
<1>2. ready \in SUBSET Incomplete(sink) /\ Incomplete(sink) \in SUBSET Rows
  BY DEF Incomplete, Of
<1>3. ready # {} => i \in ready
  <2>1. \A x \in ready : x \in Nat /\ x <= Len(rows)
    BY <1>2 DEF Rows, Typed
  <2>2. Len(rows) \in Nat
    BY DEF Typed
  <2> HIDE DEF ready
  <2>3. ready \in SUBSET Nat
    BY <2>1
  <2> QED
    BY <2>1, <2>2, <2>3, MaxIsGreatest
<1>4. {rows[eval[n].row].in} = lent
  OBVIOUS
<1>5. /\ NextLink(n) \in EvalType
      /\ NextLink(n).at = "find" /\ NextLink(n).row = 0 /\ NextLink(n).mine = <<>>
      /\ NextLink(n).val = eval[n].val /\ NextLink(n).todo = eval[n].todo \ {Min(eval[n].todo)}
      /\ NextLink(n).found = eval[n].found \o eval[n].mine
  BY NextLinkIs
<1>6. /\ work' = work /\ queue' = queue /\ trouble' = trouble
      /\ UNCHANGED <<graph, tasks, engine, verdict, error, cancel>>
  BY DEF EvalOthers, OnlyEval
<1>7. ASSUME NEW e \in EvalType, eval' = [eval EXCEPT ![n] = e], rows' \in Seq(RowType),
             Len(rows') = Len(rows), \A j \in Rows : rows'[j].node = rows[j].node
      PROVE  Typed' /\ EvalFrame(n) /\ eval'[n] = e
  <2>1. /\ eval' \in [Nodes -> EvalType] /\ eval'[n] = e
        /\ \A m \in Nodes : m # n => eval'[m] = eval[m]
    BY <1>7, EvalChanges
  <2>2. EvalFrame(n)
    BY <1>6, <1>7, <2>1 DEF EvalFrame, Typed
  <2> QED
    BY <1>6, <1>7, <2>1, <2>2 DEF Typed
<1>8. CASE ready = {}
  <2>1. rows' = rows /\ eval' = [eval EXCEPT ![n] = NextLink(n)]
    BY <1>4, <1>8 DEF EvalOthers
  <2>2. Typed' /\ EvalFrame(n) /\ eval'[n] = NextLink(n)
    BY <1>5, <1>7, <2>1 DEF Typed
  <2>3. Passed(n)
    BY <1>0, <1>5, <1>6, <2>1, <2>2 DEF Passed, NewLink
  <2> QED
    BY <2>2, <2>3
<1>9. CASE ready # {}
  <2> DEFINE e == [eval[n] EXCEPT !.mine = Append(eval[n].mine, i)]
  <2>1. /\ rows' = Queued(rows, i, Filled(rows[i].in, sink, lent))
        /\ eval' = [eval EXCEPT ![n].mine = Append(@, i)]
    BY <1>4, <1>9 DEF EvalOthers
  <2>2. eval' = [eval EXCEPT ![n] = e]
    BY <1>1, <2>1 DEF Typed, EvalType
  <2>3. i \in Rows /\ rows[i].node = sink /\ rows[i].status = "INCOMPLETE" /\ i \in Nat
    <3>1. i \in Incomplete(sink)
      BY <1>2, <1>3, <1>9
    <3> HIDE DEF i
    <3> QED
      BY <3>1 DEF Incomplete, Of, Rows, Typed
  <2> HIDE DEF i
  <2>4. Readied(n, i) /\ rows' \in Seq(RowType) /\ \A j \in Rows : rows'[j].node = rows[j].node
    <3>1. from \in SUBSET Rows
      BY <1>1
    <3> HIDE DEF from
    <3> QED
      BY <1>1, <1>6, <2>1, <2>3, <3>1, ReadiesRow
  <2>5. Append(eval[n].mine, i) \in Seq(Nat)
    BY <1>1, <2>3 DEF EvalType
  <2>6. /\ e \in EvalType /\ e.at = "others" /\ e.row = eval[n].row
        /\ e.mine = Append(eval[n].mine, i)
        /\ e.val = eval[n].val /\ e.todo = eval[n].todo /\ e.found = eval[n].found
    BY <1>0, <1>1, <2>5 DEF EvalType
  <2> HIDE DEF e
  <2>7. Typed' /\ EvalFrame(n) /\ eval'[n] = e
    BY <1>7, <2>2, <2>4, <2>6 DEF Readied, OnlyRow
  <2>8. CompletedOther(n)
    BY <1>0, <1>6, <2>3, <2>4, <2>6, <2>7 DEF CompletedOther, SameLink, SameRow
  <2> QED
    BY <2>7, <2>8
<1> QED
  BY <1>8, <1>9

LEMMA FailSteps ==
  ASSUME Typed, Known, Evaluations, NEW n \in Nodes, EvalFails(n)
  PROVE  Typed' /\ EvalFrame(n) /\ Failed(n)
<1> DEFINE e == [NextLink(n) EXCEPT !.found = eval[n].found]
<1>1. eval[n] \in EvalType
  BY DEF Typed
<1>2. /\ e \in EvalType /\ e.at = "find" /\ e.row = 0 /\ e.mine = <<>> /\ e.val = eval[n].val
      /\ e.todo = eval[n].todo \ {Min(eval[n].todo)} /\ e.found = eval[n].found
  <2>1. \A w \in EvalType : \A x \in Seq(Nat) :
          LET v == [w EXCEPT !.found = x] IN
          /\ v \in EvalType /\ v.at = w.at /\ v.row = w.row /\ v.mine = w.mine
          /\ v.val = w.val /\ v.todo = w.todo /\ v.found = x
    BY DEF EvalType
  <2>2. eval[n].found \in Seq(Nat)
    BY <1>1 DEF EvalType
  <2>3. /\ NextLink(n) \in EvalType
        /\ NextLink(n).at = "find" /\ NextLink(n).row = 0 /\ NextLink(n).mine = <<>>
        /\ NextLink(n).val = eval[n].val /\ NextLink(n).todo = eval[n].todo \ {Min(eval[n].todo)}
    BY NextLinkIs
  <2> QED
    BY <2>1, <2>2, <2>3
<1>3. eval' = [eval EXCEPT ![n] = e]
  BY DEF EvalFails
<1> HIDE DEF e
<1>4. /\ eval' \in [Nodes -> EvalType] /\ eval'[n] = e
      /\ \A m \in Nodes : m # n => eval'[m] = eval[m]
  BY <1>2, <1>3, EvalChanges
<1> DEFINE lost == ToSet(eval[n].mine)
           broken(w) == [w EXCEPT !.at = "broken"]
<1>5. \A w \in WorkType : /\ broken(w) \in WorkType /\ broken(w).at = "broken"
                          /\ broken(w).future = w.future /\ broken(w).out = w.out
                          /\ broken(w).sent = w.sent /\ broken(w).end = w.end
                          /\ broken(w).turn = w.turn
  BY DEF WorkType
<1>6. work' = [i \in DOMAIN work |-> IF i \in lost THEN broken(work[i]) ELSE work[i]]
  BY DEF EvalFails
<1>7. lost = Range(eval[n].mine)
  BY DEF ToSet, Range
<1>8. work \in Seq(WorkType) /\ work \in [1..Len(work) -> WorkType] /\ DOMAIN work = Rows
  BY DEF Typed, Rows
<1> HIDE DEF lost, broken
<1>9. work' \in [1..Len(work) -> WorkType]
  BY <1>5, <1>6, <1>8
<1>10. work' \in Seq(WorkType) /\ Len(work') = Len(work)
  BY <1>8, <1>9
<1>11. \A i \in Rows :
         /\ i \in Range(eval[n].mine) => /\ work'[i].at = "broken" /\ work'[i].future = work[i].future
                                         /\ SameOut(i) /\ SameEnd(i) /\ work'[i].turn = work[i].turn
         /\ i \notin Range(eval[n].mine) => work'[i] = work[i]
  BY <1>5, <1>6, <1>7, <1>8 DEF SameOut, SameEnd
<1>12. EvalFrame(n)
  BY <1>4, <1>10 DEF EvalFrame, EvalFails, OnlyEval, Typed
<1>13. Failed(n)
  BY <1>2, <1>4, <1>11 DEF Failed, EvalFails, Evaluating, NewLink, Strikes
<1>14. trouble' \in Troubles \cup {"none"}
  BY DEF EvalFails, Strikes, Troubles
<1> QED
  BY <1>10, <1>12, <1>13, <1>14 DEF Typed, EvalFrame, EvalFails

LEMMA NoEvalIs ==
  /\ NoEval \in EvalType /\ [NoEval EXCEPT !.at = "done"] \in EvalType
  /\ NoEval.at = "none" /\ NoEval.mine = <<>> /\ NoEval.found = <<>> /\ NoEval.todo = {}
  /\ NoEval.row = 0
  /\ LET e == [NoEval EXCEPT !.at = "done"] IN
     e.at = "done" /\ e.mine = <<>> /\ e.found = <<>> /\ e.todo = {} /\ e.row = 0
<1>1. NoEval \in EvalType
  BY DEF NoEval, EvalType, Output
<1>2. \A w \in EvalType :
        LET v == [w EXCEPT !.at = "done"] IN
        /\ v \in EvalType /\ v.at = "done" /\ v.row = w.row /\ v.mine = w.mine
        /\ v.val = w.val /\ v.todo = w.todo /\ v.found = w.found
  BY DEF EvalType
<1>3. NoEval.at = "none" /\ NoEval.mine = <<>> /\ NoEval.found = <<>> /\ NoEval.todo = {}
      /\ NoEval.row = 0
  BY DEF NoEval
<1> HIDE DEF NoEval
<1> QED
  BY <1>1, <1>2, <1>3

LEMMA EndSteps ==
  ASSUME Typed, Known, Evaluations, NEW n \in Nodes, EvalEnds(n)
  PROVE  Typed' /\ EvalFrame(n) /\ Over(n)
<1> DEFINE e == [NoEval EXCEPT !.at = "done"]
<1>1. eval' = [eval EXCEPT ![n] = e] /\ queue' = queue \o eval[n].found
  BY DEF EvalEnds
<1>2. /\ e \in EvalType /\ e.at = "done" /\ e.mine = <<>> /\ e.found = <<>> /\ e.todo = {}
      /\ e.row = 0
  BY NoEvalIs
<1> HIDE DEF e
<1>3. /\ eval' \in [Nodes -> EvalType] /\ eval'[n] = e
      /\ \A m \in Nodes : m # n => eval'[m] = eval[m]
  BY <1>1, <1>2, EvalChanges
<1>4. eval[n].found \in Seq(Nat)
  BY DEF Typed, EvalType
<1>5. queue' \in Seq(Nat)
  BY <1>1, <1>4 DEF Typed
<1>6. EvalFrame(n)
  BY <1>3, <1>5 DEF EvalFrame, EvalEnds, OnlyEval, Typed
<1>7. Over(n)
  BY <1>1, <1>2, <1>3 DEF Over, EvalEnds
<1> QED
  BY <1>5, <1>6, <1>7 DEF Typed, EvalFrame, EvalEnds

LEMMA EvalSteps ==
  ASSUME Typed, Known, Evaluations, NEW n \in Nodes, EvalNext(n)
  PROVE  Typed' /\ EvalFrame(n) /\ EvalEffect(n)
BY FindSteps, InsertSteps, CompleteSteps, OthersSteps, FailSteps, EndSteps
   DEF EvalNext, EvalEffect

(***************************************************************************)
(* What the steps of the engine change.                                    *)
(***************************************************************************)

\* The executions owed are queued, each once.
Begun ==
  /\ engine = "idle" /\ engine' = "dispatch"
  /\ IsInjective(queue') /\ Range(queue') = {i \in Rows : rows[i].status \in Owed}
  /\ UNCHANGED <<graph, rows, work, tasks, eval, verdict, error, cancel, trouble>>

\* The first of the queue has a task.
Dispatched ==
  /\ engine = "dispatch" /\ ~cancel /\ queue # <<>> /\ engine' = "poll"
  /\ queue' = Tail(queue)
  /\ LET i == Head(queue) IN
     /\ work'[i].at = "start" /\ work'[i].future = "open" /\ work'[i].out = <<>>
     /\ work'[i].end = "none" /\ work'[i].sent = 0
     /\ \A j \in Rows : work[j].turn < work'[i].turn /\ (j # i => work'[j] = work[j])
     /\ tasks'[rows[i].node] = Append(tasks[rows[i].node], i)
     /\ \A n \in Nodes : n # rows[i].node => tasks'[n] = tasks[n]
  /\ UNCHANGED <<graph, rows, eval, verdict, error, cancel, trouble>>

\* Spent tasks of node n are dropped, and the next output, if any, is evaluated.
Visited(n) ==
  /\ engine = "poll" /\ ~cancel /\ ~Evaluating(n)
  /\ Range(tasks'[n]) \subseteq Range(tasks[n])
  /\ \A i \in Range(tasks[n]) : ~Spent(i) => i \in Range(tasks'[n])
  /\ \E d \in Nat : \A k \in DOMAIN tasks'[n] :
       k + d \in DOMAIN tasks[n] /\ tasks'[n][k] = tasks[n][k + d]
  /\ \A m \in Nodes : m # n => tasks'[m] = tasks[m] /\ eval'[m] = eval[m]
  /\ eval'[n].mine = <<>> /\ eval'[n].found = <<>> /\ eval'[n].row = 0
  /\ \/ eval'[n].at = "none" /\ eval'[n].todo = {} /\ UNCHANGED work
     \/ \E i \in Range(tasks'[n]) :
          /\ work[i].out # <<>> /\ eval'[n].at = "find" /\ tasks'[n] # <<>>
          /\ eval'[n].val = [row |-> i, k |-> Head(work[i].out)]
          /\ eval'[n].todo = LinksOf(n, OutName(eval'[n].val))
          /\ work'[i].at = work[i].at /\ work'[i].future = work[i].future
          /\ work'[i].out = Tail(work[i].out) /\ work'[i].sent = work[i].sent
          /\ work'[i].end = work[i].end /\ work'[i].turn = work[i].turn
          /\ i = Head(tasks'[n])
          /\ \A j \in Rows : j # i => work'[j] = work[j]
  /\ UNCHANGED <<graph, rows, queue, engine, verdict, error, cancel, trouble>>

Stopped ==
  /\ engine = "stop" /\ engine' = "drain"
  /\ \A i \in Rows :
       /\ work'[i].future = IF work[i].future = "open" THEN "cancelled" ELSE work[i].future
       /\ work'[i].out = <<>> /\ work'[i].at = work[i].at
       /\ work'[i].end = work[i].end /\ work'[i].sent = work[i].sent
       /\ work'[i].turn = work[i].turn
  /\ \A n \in Nodes : tasks'[n] = <<>>
  /\ UNCHANGED <<graph, rows, eval, queue, verdict, error, cancel, trouble>>

Died ==
  /\ engine' = "idle" /\ queue' = <<>> /\ verdict' = "RUNNING" /\ trouble' = "crash"
  /\ \A i \in Rows : work'[i] = NoWork
  /\ \A n \in Nodes : tasks'[n] = <<>> /\ eval'[n] = NoEval
  /\ UNCHANGED <<graph, rows, error, cancel>>

\* The last of the four ways the head of the queue goes: its row gets a final status.
Closed(to) ==
  /\ queue # <<>> /\ queue' = Tail(queue)
  /\ LET i == Head(queue) IN
     /\ rows'[i].status = Moved(rows[i].status, to) /\ rows'[i].in = rows[i].in
     /\ rows'[i].node = rows[i].node
     /\ \A j \in Rows : j # i => rows'[j] = rows[j]
  /\ Len(rows') = Len(rows)
  /\ UNCHANGED <<graph, work, tasks, eval, verdict, cancel>>

LEMMA BeginSteps ==
  ASSUME Typed, Begin
  PROVE  Typed' /\ Begun
<1> DEFINE owed == {i \in Rows : rows[i].status \in {"RUNNING", "QUEUED", "TERMINATED", "REVIEW"}}
<1>1. PICK q \in [1..Cardinality(owed) -> owed] :
        ToSet(q) = owed /\ IsInjective(q) /\ queue' = q
  BY DEF Begin
<1>2. owed \subseteq 1..Len(rows) /\ Len(rows) \in Nat
  BY DEF Typed, Rows
<1>3. Cardinality(owed) \in Nat
  <2> HIDE DEF owed
  <2>1. IsFiniteSet(1..Len(rows))
    BY <1>2, FS_Interval
  <2> QED
    BY <1>2, <2>1, FS_Subset, FS_CardinalityType
<1>4. queue' \in Seq(owed) /\ owed \subseteq Nat
  <2> HIDE DEF owed
  <2>1. q \in Seq(owed)
    BY <1>3
  <2> QED
    BY <1>1, <1>2, <2>1
<1>5. Begun
  BY <1>1 DEF Begun, Begin, ToSet, Range, Owed
<1> QED
  BY <1>4, <1>5 DEF Typed, Begun

LEMMA DispatchSteps ==
  ASSUME Typed, Known, Dispatch
  PROVE  Typed' /\ Dispatched
<1> DEFINE i == Head(queue)
           t == 1 + Max({work[j].turn : j \in Rows})
           w == [NoWork EXCEPT !.at = "start", !.future = "open", !.turn = t]
<1>1. i \in Rows /\ queue # <<>> /\ queue \in Seq(Nat) /\ i \in Nat
  BY DEF Dispatch, Known, Typed, Range
<1>2. t \in Nat /\ \A j \in Rows : work[j].turn < t
  <2> DEFINE turn == [j \in 1..Len(rows) |-> work[j].turn]
  <2>0. Rows = 1..Len(rows) /\ Len(rows) \in Nat
    BY DEF Typed, Rows
  <2>1. turn \in [1..Len(rows) -> Nat] /\ Len(rows) > 0
    BY <1>1, <2>0, RowTyped DEF WorkType
  <2>2. {turn[j] : j \in 1..Len(rows)} = {work[j].turn : j \in Rows}
    BY <2>0
  <2>3. /\ 1 + Max({turn[j] : j \in 1..Len(rows)}) \in Nat
        /\ \A j \in 1..Len(rows) : turn[j] < 1 + Max({turn[k] : k \in 1..Len(rows)})
    <3> HIDE DEF turn
    <3> QED
      BY <2>0, <2>1, NextNumber
  <2>4. 1 + Max({turn[j] : j \in 1..Len(rows)}) = t
    BY <2>2
  <2>5. \A j \in Rows : turn[j] = work[j].turn
    BY <2>0
  <2> HIDE DEF t, turn
  <2> QED
    BY <2>0, <2>3, <2>4, <2>5
<1>3. w \in WorkType /\ w.at = "start" /\ w.future = "open" /\ w.out = <<>>
      /\ w.end = "none" /\ w.sent = 0 /\ w.turn = t
  <2> HIDE DEF t
  <2>1. \A v \in WorkType :
          LET u == [v EXCEPT !.at = "start", !.future = "open", !.turn = t] IN
          /\ u \in WorkType /\ u.at = "start" /\ u.future = "open" /\ u.out = v.out
          /\ u.end = v.end /\ u.sent = v.sent /\ u.turn = t
    BY <1>2 DEF WorkType
  <2>2. NoWork \in WorkType /\ NoWork.out = <<>> /\ NoWork.end = "none" /\ NoWork.sent = 0
    BY DEF NoWork, WorkType
  <2> HIDE DEF NoWork
  <2> QED
    BY <2>1, <2>2
<1>4. /\ work' = [work EXCEPT ![i] = w] /\ queue' = Tail(queue)
      /\ tasks' = [tasks EXCEPT ![rows[i].node] = Append(tasks[rows[i].node], i)]
  BY DEF Dispatch, Typed
<1> HIDE DEF w, i
<1>5. /\ work' \in Seq(WorkType) /\ Len(work') = Len(work) /\ work'[i] = w
      /\ \A j \in Rows : j # i => work'[j] = work[j]
  BY <1>1, <1>3, <1>4 DEF Typed, Rows
<1>6. rows[i].node \in Nodes
  BY <1>1, RowTyped DEF RowType
<1>7. /\ tasks' \in [Nodes -> Seq(Nat)]
      /\ tasks'[rows[i].node] = Append(tasks[rows[i].node], i)
      /\ \A n \in Nodes : n # rows[i].node => tasks'[n] = tasks[n]
  <2> DEFINE n == rows[i].node
             q == Append(tasks[n], i)
  <2>1. tasks \in [Nodes -> Seq(Nat)] /\ i \in Nat /\ n \in Nodes
    BY <1>1, <1>6 DEF Typed, Rows
  <2>2. q \in Seq(Nat)
    BY <2>1
  <2>3. tasks' = [tasks EXCEPT ![n] = q]
    BY <1>4
  <2> HIDE DEF n, q
  <2>4. tasks' \in [Nodes -> Seq(Nat)] /\ tasks'[n] = q
        /\ \A m \in Nodes : m # n => tasks'[m] = tasks[m]
    BY <2>1, <2>2, <2>3
  <2> QED
    BY <2>4 DEF n, q
<1>8. Dispatched
  <2> HIDE DEF t
  <2> QED
    BY <1>1, <1>2, <1>3, <1>4, <1>5, <1>7 DEF Dispatched, Dispatch, i
<1> QED
  BY <1>1, <1>5, <1>7, <1>8 DEF Typed, Dispatched

\* What is left of a sequence from one of its places on.
LEMMA SuffixIs ==
  ASSUME NEW s \in Seq(Nat), NEW f \in 1..Len(s)
  PROVE  LET r == SubSeq(s, f, Len(s)) IN
         /\ r \in Seq(Nat) /\ Len(r) = Len(s) - f + 1
         /\ \A k \in 1..Len(r) : f + k - 1 \in 1..Len(s) /\ r[k] = s[f + k - 1]
         /\ \A k \in 1..Len(s) : f <= k => k - f + 1 \in 1..Len(r) /\ r[k - f + 1] = s[k]
<1> DEFINE len == Len(s)
           r == SubSeq(s, f, len)
<1>1. len \in Nat /\ f \in 1..len /\ DOMAIN s = 1..len
  OBVIOUS
<1>2. r = [k \in 1..(len - f + 1) |-> s[f + k - 1]]
  OBVIOUS
<1>3. r \in Seq(Nat) /\ Len(r) = len - f + 1
  <2>1. len - f + 1 \in Nat
    BY <1>1
  <2>2. \A k \in 1..(len - f + 1) : s[f + k - 1] \in Nat
    OBVIOUS
  <2> HIDE DEF r, len
  <2> QED
    BY <1>2, <2>1, <2>2
<1> HIDE DEF r, len
<1>4. \A k \in 1..(len - f + 1) : f + k - 1 \in 1..len /\ r[k] = s[f + k - 1]
  BY <1>1, <1>2
<1>5. ASSUME NEW k \in 1..len, f <= k PROVE k - f + 1 \in 1..(len - f + 1) /\ r[k - f + 1] = s[k]
  <2>1. k - f + 1 \in 1..(len - f + 1) /\ f + (k - f + 1) - 1 = k
    BY <1>1, <1>5
  <2> QED
    BY <1>4, <2>1
<1> QED
  BY <1>3, <1>4, <1>5 DEF r, len

\* What is_done leaves of a node's tasks.
LEMMA RemainingIs ==
  ASSUME Typed, NEW n \in Nodes
  PROVE  /\ Remaining(n) \in Seq(Nat)
         /\ Range(Remaining(n)) \subseteq Range(tasks[n])
         /\ \A i \in Range(tasks[n]) : ~Spent(i) => i \in Range(Remaining(n))
         /\ \E d \in Nat : \A k \in DOMAIN Remaining(n) :
              k + d \in DOMAIN tasks[n] /\ Remaining(n)[k] = tasks[n][k + d]
<1> DEFINE t == tasks[n]
           kept == {k \in DOMAIN t : ~Spent(t[k])}
           len == Len(t)
           f == Min(kept)
           r == SubSeq(t, f, len)
<1>1. t \in Seq(Nat) /\ len \in Nat /\ DOMAIN t = 1..len
  BY DEF Typed
<1>2. Remaining(n) = IF kept = {} THEN <<>> ELSE r
  BY DEF Remaining
<1>3. CASE kept = {}
  <2>1. Remaining(n) = <<>>
    BY <1>2, <1>3
  <2>2. \A i \in Range(t) : Spent(i)
    BY <1>3 DEF Range
  <2>3. DOMAIN <<>> = {} /\ 0 \in Nat
    OBVIOUS
  <2> HIDE DEF t
  <2> QED
    BY <2>1, <2>2, <2>3, RangeOfEmpty DEF t
<1>4. CASE kept # {}
  <2>1. f \in kept /\ \A k \in kept : f <= k
    <3>1. kept \in SUBSET Nat
      BY <1>1
    <3> HIDE DEF kept
    <3> QED
      BY <1>4, <3>1, MinIsLeast
  <2>2. f \in 1..len
    BY <1>1, <2>1
  <2>3. Remaining(n) = r
    BY <1>2, <1>4
  <2> HIDE DEF f, t
  <2>4. /\ r \in Seq(Nat) /\ Len(r) = len - f + 1
        /\ \A k \in 1..Len(r) : f + k - 1 \in 1..len /\ r[k] = t[f + k - 1]
        /\ \A k \in 1..len : f <= k => k - f + 1 \in 1..Len(r) /\ r[k - f + 1] = t[k]
    BY <1>1, <2>2, SuffixIs
  <2>5. DOMAIN r = 1..Len(r)
    BY <2>4
  <2> HIDE DEF r, len
  <2>6. Range(r) \subseteq Range(t)
    BY <1>1, <2>4, <2>5 DEF Range
  <2>7. ASSUME NEW i \in Range(t), ~Spent(i) PROVE i \in Range(r)
    <3>1. PICK k \in 1..len : i = t[k]
      BY <1>1 DEF Range
    <3>2. k \in kept
      BY <1>1, <2>7, <3>1
    <3>3. k - f + 1 \in 1..Len(r) /\ r[k - f + 1] = t[k]
      BY <2>1, <2>4, <3>1, <3>2
    <3> QED
      BY <2>5, <3>1, <3>3 DEF Range
  <2>8. \E d \in Nat : \A k \in DOMAIN r : k + d \in DOMAIN t /\ r[k] = t[k + d]
    <3>1. f - 1 \in Nat
      BY <1>1, <2>2
    <3>2. \A k \in 1..Len(r) : k + (f - 1) = f + k - 1
      BY <2>2, <1>1, <2>4
    <3>3. \A k \in 1..Len(r) : k + (f - 1) \in 1..len /\ r[k] = t[k + (f - 1)]
      BY <2>4, <3>2
    <3> QED
      BY <1>1, <2>5, <3>1, <3>3
  <2>9. r \in Seq(Nat)
    BY <2>4
  <2> QED
    BY <2>3, <2>6, <2>7, <2>8, <2>9 DEF t
<1> QED
  BY <1>3, <1>4

LEMMA VisitSteps ==
  ASSUME Typed, Known, NEW n \in Nodes, Visit(n)
  PROVE  Typed' /\ Visited(n)
<1> DEFINE first == Remaining(n)
<1>1. /\ first \in Seq(Nat) /\ Range(first) \subseteq Range(tasks[n])
      /\ \A i \in Range(tasks[n]) : ~Spent(i) => i \in Range(first)
      /\ \E d \in Nat : \A k \in DOMAIN first :
           k + d \in DOMAIN tasks[n] /\ first[k] = tasks[n][k + d]
  BY RemainingIs
<1>2. tasks' = [tasks EXCEPT ![n] = first]
  BY DEF Visit
<1>3. \A i \in Range(tasks[n]) : i \in Rows
  BY DEF Known, Of
<1>4. ~Evaluating(n) /\ engine = "poll" /\ ~cancel
      /\ UNCHANGED <<graph, rows, queue, engine, verdict, error, cancel, trouble>>
  BY DEF Visit, Evaluating
<1>5. /\ NoEval \in EvalType /\ NoEval.at = "none" /\ NoEval.mine = <<>> /\ NoEval.found = <<>>
      /\ NoEval.todo = {} /\ NoEval.row = 0
  BY NoEvalIs
<1> HIDE DEF first
<1>6. /\ tasks' \in [Nodes -> Seq(Nat)] /\ tasks'[n] = first
      /\ \A m \in Nodes : m # n => tasks'[m] = tasks[m]
  BY <1>1, <1>2 DEF Typed
<1>7. CASE first # <<>> /\ work[Head(first)].out # <<>>
  <2> DEFINE i == Head(first)
             v == [row |-> i, k |-> Head(work[i].out)]
             w == [work[i] EXCEPT !.out = Tail(work[i].out)]
             e == [NoEval EXCEPT !.at = "find", !.val = v, !.todo = LinksOf(n, OutName(v))]
  <2>1. i \in Range(first) /\ i \in Rows
    BY <1>1, <1>3, <1>7 DEF Range
  <2>2. work[i] \in WorkType /\ i \in Nat
    BY <2>1, RowTyped DEF Rows, Typed
  <2>3. work' = [work EXCEPT ![i].out = Tail(@)] /\ eval' = [eval EXCEPT ![n] = e]
    BY <1>7 DEF Visit, first
  <2>4. w \in WorkType /\ w.out = Tail(work[i].out) /\ w.at = work[i].at
        /\ w.future = work[i].future /\ w.sent = work[i].sent /\ w.end = work[i].end
        /\ w.turn = work[i].turn
    <3>1. \A u \in WorkType : \A x \in Seq(Nat) :
            LET f == [u EXCEPT !.out = x] IN
            /\ f \in WorkType /\ f.out = x /\ f.at = u.at /\ f.future = u.future
            /\ f.sent = u.sent /\ f.end = u.end /\ f.turn = u.turn
      BY DEF WorkType
    <3>2. work[i].out \in Seq(Nat) /\ work[i].out # <<>>
      BY <1>7, <2>2 DEF WorkType
    <3>3. Tail(work[i].out) \in Seq(Nat)
      BY <3>2
    <3> HIDE DEF i
    <3> QED
      BY <2>2, <3>1, <3>3
  <2>5. work' = [work EXCEPT ![i] = w]
    BY <2>1, <2>2, <2>3 DEF Typed, WorkType, Rows
  <2>6. v \in Output
    BY <1>7, <2>2 DEF Output, WorkType
  <2>7. LinksOf(n, OutName(v)) \in SUBSET Nat
    <3>1. graph.links \in Seq([from : Nodes, out : STRING, to : Nodes, pin : STRING,
                               static : BOOLEAN])
      BY EngineConstants DEF Typed, IsShape
    <3> HIDE DEF v
    <3> QED
      BY <3>1 DEF LinksOf
  <2>8. /\ e \in EvalType /\ e.at = "find" /\ e.val = v /\ e.todo = LinksOf(n, OutName(v))
        /\ e.mine = <<>> /\ e.found = <<>> /\ e.row = 0
    <3> HIDE DEF v
    <3>1. \A u \in EvalType : \A x \in SUBSET Nat :
            LET f == [u EXCEPT !.at = "find", !.val = v, !.todo = x] IN
            /\ f \in EvalType /\ f.at = "find" /\ f.val = v /\ f.todo = x
            /\ f.mine = u.mine /\ f.found = u.found /\ f.row = u.row
      BY <2>6 DEF EvalType
    <3> QED
      BY <1>5, <2>7, <3>1
  <2> HIDE DEF e, w
  <2>9. /\ eval' \in [Nodes -> EvalType] /\ eval'[n] = e
        /\ \A m \in Nodes : m # n => eval'[m] = eval[m]
    BY <2>3, <2>8, EvalChanges
  <2>10. /\ work' \in Seq(WorkType) /\ Len(work') = Len(work) /\ work'[i] = w
         /\ \A j \in Rows : j # i => work'[j] = work[j]
    BY <2>1, <2>4, <2>5 DEF Typed, Rows
  <2>11. Visited(n)
    <3>0. i = Head(tasks'[n])
      BY <1>6
    <3> HIDE DEF i
    <3>1. work[i].out # <<>> /\ v = [row |-> i, k |-> Head(work[i].out)] /\ tasks'[n] # <<>>
      BY <1>6, <1>7 DEF i
    <3> HIDE DEF v
    <3>2. eval'[n].todo = LinksOf(n, OutName(eval'[n].val)) /\ eval'[n].at = "find"
          /\ eval'[n].val = v /\ eval'[n].mine = <<>> /\ eval'[n].found = <<>> /\ eval'[n].row = 0
      BY <2>8, <2>9
    <3>3. i \in Range(tasks'[n]) /\ i = Head(tasks'[n])
      BY <1>6, <2>1, <3>0
    <3> QED
      BY <1>1, <1>4, <1>6, <2>4, <2>9, <2>10, <3>1, <3>2, <3>3 DEF Visited
  <2> QED
    BY <1>4, <1>6, <2>9, <2>10, <2>11 DEF Typed
<1>8. CASE ~(first # <<>> /\ work[Head(first)].out # <<>>)
  <2>1. eval' = [eval EXCEPT ![n] = NoEval] /\ work' = work
    BY <1>8 DEF Visit, first
  <2> HIDE DEF NoEval
  <2>2. /\ eval' \in [Nodes -> EvalType] /\ eval'[n] = NoEval
        /\ \A m \in Nodes : m # n => eval'[m] = eval[m]
    BY <1>5, <2>1, EvalChanges
  <2>3. Visited(n)
    BY <1>1, <1>4, <1>5, <1>6, <2>1, <2>2 DEF Visited
  <2> QED
    BY <1>4, <1>6, <2>1, <2>2, <2>3 DEF Typed
<1> QED
  BY <1>7, <1>8

LEMMA StopSteps ==
  ASSUME Typed, StopTasks
  PROVE  Typed' /\ Stopped
<1> DEFINE f(w) == IF w.future = "open" THEN "cancelled" ELSE w.future
           c(w) == [w EXCEPT !.future = f(w), !.out = <<>>]
<1>1. \A w \in WorkType : /\ c(w) \in WorkType /\ c(w).future = f(w) /\ c(w).out = <<>>
                          /\ c(w).at = w.at /\ c(w).end = w.end /\ c(w).sent = w.sent /\ c(w).turn = w.turn
  <2>2. ASSUME NEW w \in WorkType PROVE f(w) \in {"none", "open", "done", "cancelled"}
    BY DEF WorkType
  <2>3. PICK o \in Seq(Nat) : o = <<>>
    <3>1. <<>> \in Seq(Nat)
      OBVIOUS
    <3> QED
      BY <3>1, Zenon
  <2>4. ASSUME NEW w \in WorkType
        PROVE  /\ c(w) \in WorkType /\ c(w).future = f(w) /\ c(w).out = <<>>
               /\ c(w).at = w.at /\ c(w).end = w.end /\ c(w).sent = w.sent /\ c(w).turn = w.turn
    <3>1. PICK x \in {"none", "open", "done", "cancelled"} : x = f(w)
      BY <2>2
    <3>2. c(w) = [w EXCEPT !.future = x, !.out = o]
      BY <2>3, <3>1
    <3> DEFINE v == [w EXCEPT !.future = x, !.out = o]
    <3>3. /\ v \in WorkType /\ v.future = x /\ v.out = o
          /\ v.at = w.at /\ v.end = w.end /\ v.sent = w.sent /\ v.turn = w.turn
      BY DEF WorkType
    <3> HIDE DEF f, c, v
    <3>4. c(w) = v
      BY <3>2 DEF v
    <3> QED
      BY <2>3, <3>1, <3>3, <3>4
  <2> QED
    BY <2>4
<1>2. work' = [i \in DOMAIN work |-> c(work[i])]
  BY DEF StopTasks
<1>3. work \in [1..Len(work) -> WorkType] /\ Rows = 1..Len(work) /\ Len(work) \in Nat
      /\ DOMAIN work = 1..Len(work)
  BY DEF Typed, Rows
<1> HIDE DEF c
<1>4. work' \in [1..Len(work) -> WorkType]
  BY <1>1, <1>2, <1>3
<1>5. work' \in Seq(WorkType) /\ Len(work') = Len(work)
  BY <1>3, <1>4
<1>6. tasks' \in [Nodes -> Seq(Nat)] /\ \A n \in Nodes : tasks'[n] = <<>>
  <2>1. tasks' = [n \in Nodes |-> <<>>]
    BY DEF StopTasks
  <2> QED
    BY <2>1
<1>7. Stopped
  <2>1. \A i \in Rows : work'[i] = c(work[i]) /\ work[i] \in WorkType
    BY <1>2, <1>3
  <2>2. \A i \in Rows :
          /\ work'[i].future = f(work[i]) /\ work'[i].out = <<>> /\ work'[i].at = work[i].at
          /\ work'[i].end = work[i].end /\ work'[i].sent = work[i].sent
          /\ work'[i].turn = work[i].turn
    BY <1>1, <2>1
  <2>3. /\ engine = "stop" /\ engine' = "drain"
        /\ UNCHANGED <<graph, rows, eval, queue, verdict, error, cancel, trouble>>
    BY DEF StopTasks
  <2> QED
    BY <1>6, <2>2, <2>3 DEF Stopped
<1> QED
  BY <1>5, <1>6, <1>7 DEF Typed, Stopped

LEMMA CrashSteps ==
  ASSUME Typed, Crash
  PROVE  Typed' /\ Died
<1>1. NoWork \in WorkType /\ NoEval \in EvalType
  BY NoEvalIs DEF NoWork, WorkType
<1>2. Rows = 1..Len(work) /\ Len(work) \in Nat /\ DOMAIN work = 1..Len(work)
  BY DEF Typed, Rows
<1> HIDE DEF NoWork, NoEval
<1>3. work' \in [1..Len(work) -> WorkType]
  BY <1>1, <1>2 DEF Crash
<1>4. work' \in Seq(WorkType) /\ Len(work') = Len(work)
  BY <1>2, <1>3
<1>5. tasks' \in [Nodes -> Seq(Nat)] /\ eval' \in [Nodes -> EvalType] /\ queue' \in Seq(Nat)
  BY <1>1 DEF Crash
<1>6. Died
  BY <1>2 DEF Died, Crash, Strikes
<1>7. trouble' \in Troubles
  BY DEF Crash, Strikes, Troubles
<1> QED
  BY <1>4, <1>5, <1>6, <1>7 DEF Typed, Died

\* The head of the queue gets its final status.
LEMMA CloseSteps ==
  ASSUME Typed, Known, queue # <<>>, queue' = Tail(queue), NEW to \in Statuses,
         rows' = Set(rows, Head(queue), to),
         UNCHANGED <<graph, work, tasks, eval, verdict, cancel>>
  PROVE  Closed(to) /\ rows' \in Seq(RowType) /\ queue' \in Seq(Nat)
<1>1. Head(queue) \in DOMAIN rows /\ rows \in Seq(RowType) /\ queue' \in Seq(Nat)
  BY DEF Typed, Known, Rows, Range
<1> DEFINE i == Head(queue)
<1> HIDE DEF i
<1>2. i \in DOMAIN rows /\ rows' = Set(rows, i, to)
  BY <1>1 DEF i
<1>3. /\ rows' \in Seq(RowType) /\ Len(rows') = Len(rows)
      /\ \A j \in DOMAIN rows : rows'[j].node = rows[j].node /\ rows'[j].in = rows[j].in
                                /\ (j # i => rows'[j] = rows[j])
      /\ rows'[i].status = Moved(rows[i].status, to)
  BY <1>1, <1>2, SetsStatus
<1>4. Closed(to)
  BY <1>2, <1>3 DEF Closed, i, Rows
<1> QED
  BY <1>1, <1>3, <1>4

(***************************************************************************)
(* Every step.                                                             *)
(***************************************************************************)

CreditsOut ==
  /\ engine = "dispatch" /\ ~cancel /\ engine' = "verdict" /\ error' = TRUE
  /\ Closed("FAILED")
Drained ==
  /\ engine = "drain" /\ engine' = "drain" /\ UNCHANGED error
  /\ \A n \in Nodes : ~Evaluating(n)
  /\ Closed(verdict)
RunOver ==
  /\ engine = "drain" /\ engine' = "ended" /\ queue = <<>>
  /\ \A n \in Nodes : ~Evaluating(n)
  /\ UNCHANGED <<graph, rows, work, tasks, eval, queue, verdict, error, cancel, trouble>>
\* The engine goes on to another place, or the cancel event is set.
EngineMoves == LoopEnds \/ PollEnds \/ Judge \/ RunOver \/ Cancel \/ UNCHANGED vars

Effect ==
  \/ Begun \/ Dispatched \/ CreditsOut \/ Drained \/ Stopped \/ Died \/ EngineMoves
  \/ \E n \in Nodes : Visited(n) \/ (EvalFrame(n) /\ EvalEffect(n))
  \/ \E i \in Rows : TaskFrame(i) /\ TaskEffect(i)

LEMMA Steps ==
  ASSUME Typed, Known, Evaluations, Standing, LeftIdle, [Next]_vars
  PROVE  Typed' /\ Effect
<1>1. CASE EngineNext
  <2>1. CASE Begin
    BY <2>1, BeginSteps DEF Effect
  <2>2. CASE Dispatch
    BY <2>2, DispatchSteps DEF Effect
  <2>3. CASE OutOfCredits
    <3>1. /\ queue # <<>> /\ queue' = Tail(queue) /\ rows' = Set(rows, Head(queue), "FAILED")
          /\ UNCHANGED <<graph, work, tasks, eval, verdict, cancel>>
          /\ engine = "dispatch" /\ ~cancel /\ engine' = "verdict" /\ error' = TRUE
          /\ trouble' = "credits"
      BY <2>3 DEF OutOfCredits, Strikes
    <3>2. Closed("FAILED") /\ rows' \in Seq(RowType) /\ queue' \in Seq(Nat)
      BY <3>1, CloseSteps DEF Statuses
    <3>3. Effect
      BY <3>1, <3>2 DEF CreditsOut, Effect
    <3>4. Len(rows') = Len(rows)
      BY <3>2 DEF Closed
    <3> QED
      BY <3>1, <3>2, <3>3, <3>4 DEF Typed, Troubles
  <2>4. CASE LoopEnds
    BY <2>4 DEF LoopEnds, Effect, EngineMoves, Typed
  <2>5. CASE PollEnds
    BY <2>5 DEF PollEnds, Effect, EngineMoves, Typed
  <2>6. CASE Judge
    BY <2>6 DEF Judge, Effect, EngineMoves, Typed
  <2>7. CASE StopTasks
    BY <2>7, StopSteps DEF Effect
  <2>8. CASE Drain /\ queue = <<>>
    <3>1. RunOver
      BY <2>8 DEF Drain, RunOver, Evaluating
    <3>2. Typed'
      BY <3>1 DEF RunOver, Typed
    <3> QED
      BY <3>1, <3>2 DEF Effect, EngineMoves
  <2>9. CASE Drain /\ queue # <<>>
    <3>1. /\ queue' = Tail(queue) /\ rows' = Set(rows, Head(queue), verdict)
          /\ UNCHANGED <<graph, work, tasks, eval, verdict, cancel>>
          /\ engine = "drain" /\ engine' = "drain" /\ UNCHANGED <<error, trouble>>
          /\ \A n \in Nodes : ~Evaluating(n)
      BY <2>9 DEF Drain, Evaluating
    <3>2. verdict \in Statuses
      BY <3>1 DEF LeftIdle, Leaving, Terminal, Statuses
    <3>3. Closed(verdict) /\ rows' \in Seq(RowType) /\ queue' \in Seq(Nat)
      BY <2>9, <3>1, <3>2, CloseSteps
    <3>4. Effect
      BY <3>1, <3>3 DEF Drained, Effect
    <3>5. Len(rows') = Len(rows)
      BY <3>3 DEF Closed
    <3> QED
      BY <3>1, <3>3, <3>4, <3>5 DEF Typed
  <2>10. CASE \E n \in Nodes : Visit(n)
    BY <2>10, VisitSteps DEF Effect
  <2> QED
    BY <1>1, <2>1, <2>2, <2>3, <2>4, <2>5, <2>6, <2>7, <2>8, <2>9, <2>10 DEF EngineNext
<1>2. CASE Cancel
  BY <1>2 DEF Cancel, Strikes, Troubles, Effect, EngineMoves, Typed
<1>3. CASE Crash
  BY <1>3, CrashSteps DEF Effect
<1>4. CASE \E i \in Rows : TaskNext(i)
  BY <1>4, TaskSteps DEF Effect
<1>5. CASE \E n \in Nodes : EvalNext(n)
  BY <1>5, EvalSteps DEF Effect
<1>6. CASE UNCHANGED vars
  BY <1>6 DEF vars, volatile, Typed, Effect, EngineMoves
<1> QED
  BY <1>1, <1>2, <1>3, <1>4, <1>5, <1>6 DEF Next

(***************************************************************************)
(* Where a step of an evaluation leaves the rows it carries.               *)
(***************************************************************************)

KeepsCarried(n) == UNCHANGED queue /\ Carried(n)' = Carried(n)
Carries(n, i) == UNCHANGED queue /\ Readied(n, i) /\ Carried(n)' = Append(Carried(n), i)
DropsMine(n) ==
  /\ Failed(n) /\ Carried(n)' = eval[n].found
  /\ Range(Carried(n)) = Range(eval[n].found) \cup Range(eval[n].mine)
HandsOver(n) ==
  /\ Over(n) /\ Carried(n)' = <<>> /\ queue' = queue \o Carried(n)

LEMMA NodeTyped ==
  ASSUME Typed
  PROVE  /\ queue \in Seq(Nat) /\ Rows = 1..Len(rows) /\ Len(rows) \in Nat
         /\ \A n \in Nodes : /\ tasks[n] \in Seq(Nat) /\ eval[n].mine \in Seq(Nat)
                             /\ eval[n].found \in Seq(Nat) /\ Carried(n) \in Seq(Nat)
<1>1. \A n \in Nodes : /\ tasks[n] \in Seq(Nat) /\ eval[n].mine \in Seq(Nat)
                       /\ eval[n].found \in Seq(Nat)
  BY DEF Typed, EvalType
<1> QED
  BY <1>1 DEF Typed, Rows, Carried

LEMMA EvalCarries ==
  ASSUME Typed, Evaluations, NEW n \in Nodes, EvalFrame(n), EvalEffect(n)
  PROVE  \/ KeepsCarried(n) /\ ~CompletedOne(n) /\ ~CompletedStatic(n) /\ ~CompletedOther(n)
         \/ \E i \in Rows : Carries(n, i)
         \/ DropsMine(n) \/ HandsOver(n)
<1> DEFINE f == eval[n].found
           m == eval[n].mine
           f1 == eval'[n].found
           m1 == eval'[n].mine
<1>1. f \in Seq(Nat) /\ m \in Seq(Nat)
  BY NodeTyped
<1>2. f1 \in Seq(Nat) /\ m1 \in Seq(Nat)
  BY DEF EvalFrame, EvalType
<1>3. Carried(n) = f \o m /\ Carried(n)' = f1 \o m1
  BY DEF Carried
<1>4. eval[n].at # "others" => m = <<>>
  BY DEF Evaluations
<1>5. f \o <<>> = f /\ (f \o m) \o <<>> = f \o m /\ <<>> \o <<>> = <<>>
  <2> HIDE DEF f, m
  <2>1. f \o m \in Seq(Nat)
    BY <1>1
  <2> QED
    BY <1>1, <2>1, RangeOfEmpty
<1>6. \A i \in Nat : /\ f \o Append(m, i) = Append(f \o m, i) /\ f \o <<i>> = Append(f, i)
                    /\ ((f \o m) \o <<i>>) \o <<>> = Append(f \o m, i)
  <2> HIDE DEF f, m
  <2> TAKE i \in Nat
  <2>1. f \o m \in Seq(Nat) /\ Append(f \o m, i) \in Seq(Nat)
    BY <1>1
  <2>2. (f \o m) \o <<i>> = Append(f \o m, i)
    BY <1>1, <2>1, ConcatIs
  <2>3. Append(f \o m, i) \o <<>> = Append(f \o m, i)
    BY <2>1, ConcatIs
  <2> QED
    BY <1>1, <2>2, <2>3, ConcatIs
<1>7. Rows \subseteq Nat
  BY NodeTyped
<1> HIDE DEF f, m, f1, m1
<1>8. CASE LookedUp(n) \/ Opened(n) \/ Inserted(n)
  <2>1. f1 = f /\ m1 = m /\ queue' = queue
    BY <1>8 DEF LookedUp, Opened, Inserted, SamePlaces, f, m, f1, m1
  <2>2. ~CompletedOne(n) /\ ~CompletedStatic(n) /\ ~CompletedOther(n)
    BY <1>8 DEF LookedUp, Opened, Inserted, CompletedOne, CompletedStatic, CompletedOther
  <2> QED
    BY <1>3, <2>1, <2>2 DEF KeepsCarried
<1>9. CASE Passed(n)
  <2>1. f1 = f \o m /\ m1 = <<>> /\ queue' = queue /\ rows' = rows
    BY <1>9 DEF Passed, NewLink, f, m, f1, m1
  <2>2. ~CompletedOne(n) /\ ~CompletedStatic(n) /\ ~CompletedOther(n)
    BY <2>1 DEF CompletedOne, CompletedStatic, CompletedOther, Readied
  <2> QED
    BY <1>3, <1>5, <2>1, <2>2 DEF KeepsCarried
<1>10. CASE CompletedOne(n)
  <2>1. f1 = (f \o m) \o <<eval[n].row>> /\ m1 = <<>> /\ eval[n].row \in Rows
        /\ Readied(n, eval[n].row) /\ queue' = queue
    BY <1>10 DEF CompletedOne, NewLink, Readied, OnlyRow, f, m, f1, m1
  <2>2. Carries(n, eval[n].row)
    BY <1>3, <1>6, <1>7, <2>1 DEF Carries
  <2> QED
    BY <2>1, <2>2
<1>11. CASE CompletedStatic(n)
  <2>1. f1 = f /\ m1 = <<eval[n].row>> /\ eval[n].row \in Rows /\ m = <<>>
        /\ Readied(n, eval[n].row) /\ queue' = queue
    BY <1>4, <1>11 DEF CompletedStatic, Readied, OnlyRow, f, m, f1, m1
  <2>2. Carries(n, eval[n].row)
    BY <1>3, <1>5, <1>6, <1>7, <2>1 DEF Carries
  <2> QED
    BY <2>1, <2>2
<1>12. CASE CompletedOther(n)
  <2>1. PICK i \in Rows : Readied(n, i) /\ m1 = Append(m, i)
    BY <1>12 DEF CompletedOther, m, m1
  <2>2. f1 = f /\ queue' = queue
    BY <1>12 DEF CompletedOther, f, f1
  <2>3. Carries(n, i)
    BY <1>3, <1>6, <1>7, <2>1, <2>2 DEF Carries
  <2> QED
    BY <2>3
<1>13. CASE Failed(n)
  <2>1. f1 = f /\ m1 = <<>>
    BY <1>13 DEF Failed, NewLink, f, f1, m1
  <2>2. Range(Carried(n)) = Range(f) \cup Range(m)
    BY <1>1, <1>3, RangeOfConcat
  <2> QED
    BY <1>3, <1>5, <1>13, <2>1, <2>2 DEF DropsMine, f, m
<1>14. CASE Over(n)
  <2>1. f1 = <<>> /\ m1 = <<>> /\ m = <<>> /\ queue' = queue \o f
    BY <1>4, <1>14 DEF Over, f, f1, m1
  <2> QED
    BY <1>3, <1>5, <1>14, <2>1 DEF HandsOver
<1> QED
  BY <1>8, <1>9, <1>10, <1>11, <1>12, <1>13, <1>14 DEF EvalEffect

LEMMA CarriedSame ==
  /\ UNCHANGED eval => \A n \in Nodes : Carried(n)' = Carried(n)
  /\ \A n \in Nodes : eval'[n] = eval[n] => Carried(n)' = Carried(n)
  /\ \A n \in Nodes : eval'[n].mine = <<>> /\ eval'[n].found = <<>> => Carried(n)' = <<>>
<1>1. <<>> \o <<>> = <<>>
  OBVIOUS
<1> QED
  BY <1>1 DEF Carried

(***************************************************************************)
(* The steps keep each part of the invariant.                              *)
(***************************************************************************)

LEMMA KnownKept ==
  ASSUME Typed, Known, Evaluations, Typed', Effect
  PROVE  Known'
<1>0. /\ queue \in Seq(Nat) /\ Rows = 1..Len(rows) /\ Len(rows) \in Nat
      /\ \A n \in Nodes : tasks[n] \in Seq(Nat) /\ Carried(n) \in Seq(Nat)
  BY NodeTyped
<1>1. Rows' = 1..Len(rows') /\ Len(rows') \in Nat
  BY DEF Typed, Rows
<1>2. ASSUME UNCHANGED <<rows, eval>>, Range(queue') \subseteq Rows,
             \A n \in Nodes : Range(tasks'[n]) \subseteq Of(n)
      PROVE  Known'
  BY <1>2, CarriedSame DEF Known, Of, Rows
<1>3. CASE Begun
  BY <1>2, <1>3 DEF Known, Begun
<1>4. CASE Dispatched
  <2> DEFINE i == Head(queue)
  <2>1. Range(queue) = {i} \cup Range(Tail(queue)) /\ i \in Nat /\ i \in Rows
    BY <1>0, <1>4, RangeOfTail DEF Dispatched, Known
  <2>2. rows' = rows /\ eval' = eval /\ queue' = Tail(queue)
    BY <1>4 DEF Dispatched
  <2>3. /\ tasks'[rows[i].node] = Append(tasks[rows[i].node], i)
        /\ \A n \in Nodes : n # rows[i].node => tasks'[n] = tasks[n]
    BY <1>4 DEF Dispatched
  <2> HIDE DEF i
  <2>4. ASSUME NEW n \in Nodes PROVE Range(tasks'[n]) \subseteq Of(n)
    <3>1. CASE n = rows[i].node
      <4>1. tasks'[n] = Append(tasks[n], i)
        BY <2>3, <3>1
      <4>2. Range(tasks'[n]) = Range(tasks[n]) \cup {i}
        BY <1>0, <2>1, <4>1, RangeOfAppend
      <4> QED
        BY <2>1, <3>1, <4>2 DEF Known, Of
    <3>2. CASE n # rows[i].node
      BY <2>3, <3>2 DEF Known
    <3> QED
      BY <3>1, <3>2
  <2> QED
    BY <1>2, <2>1, <2>2, <2>4 DEF Known
<1>5. ASSUME NEW to, Closed(to) PROVE Known'
  <2>1. Range(queue) = {Head(queue)} \cup Range(Tail(queue)) /\ Head(queue) \in Rows
    BY <1>0, <1>5, RangeOfTail DEF Closed, Known
  <2>2. Rows' = Rows /\ \A j \in Rows : rows'[j].node = rows[j].node
    BY <1>0, <1>1, <1>5, <2>1 DEF Closed
  <2>3. /\ queue' = Tail(queue) /\ tasks' = tasks /\ eval' = eval
        /\ \A n \in Nodes : Carried(n)' = Carried(n)
    BY <1>5, CarriedSame DEF Closed
  <2> QED
    BY <2>1, <2>2, <2>3 DEF Known, Of
<1>6. CASE Stopped
  BY <1>2, <1>6, RangeOfEmpty DEF Known, Stopped
<1>7. CASE Died
  <2>1. \A n \in Nodes : eval'[n].row = 0 /\ eval'[n].mine = <<>> /\ eval'[n].found = <<>>
    BY <1>7, NoEvalIs DEF Died
  <2>2. \A n \in Nodes : Carried(n)' = <<>> /\ tasks'[n] = <<>>
    BY <1>7, <2>1, CarriedSame DEF Died
  <2> QED
    BY <1>7, <2>1, <2>2, RangeOfEmpty DEF Known, Of, Rows, Died
<1>8. CASE EngineMoves
  <2>1. UNCHANGED <<rows, eval, queue, tasks>>
    BY <1>8 DEF EngineMoves, LoopEnds, PollEnds, Judge, RunOver, Cancel, vars, volatile
  <2> QED
    BY <1>2, <2>1 DEF Known
<1>9. ASSUME NEW n \in Nodes, Visited(n) PROVE Known'
  <2>1. rows' = rows /\ queue' = queue /\ Rows' = Rows /\ \A m \in Nodes : Of(m)' = Of(m)
    BY <1>9 DEF Visited, Of, Rows
  <2>2. \A m \in Nodes : Range(tasks'[m]) \subseteq Range(tasks[m])
    BY <1>9 DEF Visited
  <2>3. \A m \in Nodes : Carried(m)' = Carried(m) \/ Carried(m)' = <<>>
    BY <1>9, CarriedSame DEF Visited
  <2>4. \A m \in Nodes : eval'[m].row = eval[m].row \/ eval'[m].row = 0
    BY <1>9 DEF Visited
  <2> QED
    BY <2>1, <2>2, <2>3, <2>4, RangeOfEmpty DEF Known
<1>10. ASSUME NEW n \in Nodes, EvalFrame(n), EvalEffect(n) PROVE Known'
  <2>1. Rows \subseteq Rows' /\ \A j \in Rows : rows'[j].node = rows[j].node
    BY <1>0, <1>1, <1>10 DEF EvalFrame
  <2>2. \A m \in Nodes : Of(m) \subseteq Of(m)'
    BY <2>1 DEF Of
  <2>3. \A m \in Nodes : Range(tasks'[m]) \subseteq Of(m)'
    BY <1>10, <2>2 DEF EvalFrame, Known
  <2>4. \A m \in Nodes : m # n => Carried(m)' = Carried(m)
    BY <1>10, CarriedSame DEF EvalFrame
  <2>5. Range(queue') \subseteq Rows /\ Range(Carried(n)') \subseteq Rows
    <3>1. CASE KeepsCarried(n)
      BY <3>1 DEF KeepsCarried, Known
    <3>2. ASSUME NEW i \in Rows, Carries(n, i) PROVE <2>5
      <4>1. i \in Nat /\ Carried(n) \in Seq(Nat) /\ Carried(n)' = Append(Carried(n), i)
        BY <1>0, <3>2 DEF Carries
      <4>2. Range(Append(Carried(n), i)) = Range(Carried(n)) \cup {i}
        BY <4>1, RangeOfAppend
      <4> QED
        BY <3>2, <4>1, <4>2 DEF Carries, Known
    <3>3. CASE DropsMine(n)
      BY <3>3 DEF DropsMine, Failed, Known
    <3>4. CASE HandsOver(n)
      <4>1. Range(queue') = Range(queue) \cup Range(Carried(n))
        BY <1>0, <3>4, RangeOfConcat DEF HandsOver
      <4> QED
        BY <3>4, <4>1, RangeOfEmpty DEF HandsOver, Known
    <3> QED
      BY <1>10, <3>1, <3>2, <3>3, <3>4, EvalCarries
  <2>6. eval'[n].row \in Rows' \cup {0}
    <3>1. CASE LookedUp(n)
      <4> DEFINE S == Waiting(Link(n).to, Link(n).pin)
      <4>1. S \subseteq Rows /\ Rows \subseteq Nat
        BY <1>0 DEF Waiting, Incomplete, Of
      <4>2. S # {} => Min(S) \in S
        <5> HIDE DEF S
        <5> QED
          BY <4>1, MinIsLeast
      <4>3. eval'[n].row = IF S = {} THEN 0 ELSE Min(S)
        BY <3>1 DEF LookedUp, Earliest
      <4> QED
        BY <2>1, <4>1, <4>2, <4>3
    <3>2. CASE Opened(n)
      BY <1>0, <1>1, <3>2 DEF Opened
    <3>3. CASE Inserted(n) \/ CompletedStatic(n) \/ CompletedOther(n)
      BY <2>1, <3>3 DEF Inserted, CompletedStatic, CompletedOther, SameRow, Known
    <3>4. CASE CompletedOne(n) \/ Passed(n) \/ Failed(n) \/ Over(n)
      BY <3>4 DEF CompletedOne, Passed, Failed, Over, NewLink
    <3> QED
      BY <1>10, <3>1, <3>2, <3>3, <3>4 DEF EvalEffect
  <2>7. \A m \in Nodes : m # n => eval'[m] = eval[m]
    BY <1>10 DEF EvalFrame
  <2> QED
    BY <2>1, <2>3, <2>4, <2>5, <2>6, <2>7 DEF Known
<1>11. ASSUME NEW i \in Rows, TaskFrame(i) PROVE Known'
  <2>1. Rows' = Rows /\ UNCHANGED <<queue, tasks, eval>>
    BY <1>0, <1>1, <1>11 DEF TaskFrame
  <2>2. \A n \in Nodes : Of(n)' = Of(n)
    BY <1>11, <2>1 DEF TaskFrame, Of
  <2> QED
    BY <2>1, <2>2, CarriedSame DEF Known
<1> QED
  BY <1>3, <1>4, <1>5, <1>6, <1>7, <1>8, <1>9, <1>10, <1>11 DEF Effect, CreditsOut, Drained

\* The rows there are after a step of each kind.
LEMMA RowsAre ==
  ASSUME Typed, Typed'
  PROVE  /\ Rows = 1..Len(rows) /\ Rows' = 1..Len(rows') /\ Rows = DOMAIN work
         /\ Len(rows) \in Nat /\ Len(rows') \in Nat
         /\ Len(rows') = Len(rows) => Rows' = Rows
         /\ \A i \in Rows : work[i] \in WorkType /\ rows[i] \in RowType
         /\ \A i \in Rows' : work'[i] \in WorkType /\ rows'[i] \in RowType
BY DEF Typed, Rows

\* What a step of an evaluation does to the tasks' records.
LEMMA EvalWork ==
  ASSUME Typed, Typed', Placed, NEW n \in Nodes, EvalFrame(n), EvalEffect(n)
  PROVE  /\ Rows \subseteq Rows' /\ Evaluating(n)
         /\ \A i \in Rows : /\ work'[i].future = work[i].future /\ work'[i].out = work[i].out
                            /\ \/ work'[i] = work[i]
                               \/ work[i].at = "none" /\ work'[i].at = "broken"
                            /\ work'[i].sent = work[i].sent /\ work'[i].end = work[i].end
                            /\ work'[i].turn = work[i].turn
         /\ \A i \in Rows' \ Rows : work'[i] = NoWork
<1>1. /\ Rows = 1..Len(rows) /\ Rows' = 1..Len(rows') /\ Len(rows) \in Nat /\ Len(rows') \in Nat
  BY RowsAre
<1>2. Rows \subseteq Rows'
  BY <1>1 DEF EvalFrame
<1>3. CASE Opened(n)
  <2>1. \A i \in Rows' \ Rows : i = Len(rows) + 1
    BY <1>1, <1>3 DEF Opened
  <2> QED
    BY <1>2, <1>3, <2>1 DEF Opened, Evaluating
<1>4. CASE Failed(n)
  <2>1. Rows' = Rows
    BY <1>4 DEF Failed, Rows
  <2>2. Range(eval[n].mine) \subseteq Range(Carried(n))
    BY NodeTyped, RangeOfConcat DEF Carried
  <2>3. \A i \in Range(eval[n].mine) : work[i].at = "none"
    BY <2>2 DEF Placed
  <2> QED
    BY <1>4, <2>1, <2>3 DEF Failed, SameOut, SameEnd
<1>5. CASE LookedUp(n) \/ Passed(n) \/ Over(n)
  <2>1. UNCHANGED <<rows, work>> /\ Evaluating(n)
    BY <1>5 DEF LookedUp, Passed, Over, Evaluating
  <2> QED
    BY <2>1 DEF Rows
<1>6. CASE Inserted(n) \/ CompletedOne(n) \/ CompletedStatic(n) \/ CompletedOther(n)
  <2>1. Len(rows') = Len(rows) /\ UNCHANGED work /\ Evaluating(n)
    BY <1>6 DEF Inserted, CompletedOne, CompletedStatic, CompletedOther, Readied, OnlyRow, Evaluating
  <2> QED
    BY <1>1, <2>1
<1> QED
  BY <1>3, <1>4, <1>5, <1>6 DEF EvalEffect

LEMMA FuturesKept ==
  ASSUME Typed, Typed', Known, Placed, Futures, Effect
  PROVE  Futures'
<1>0. /\ Rows = 1..Len(rows) /\ Rows' = 1..Len(rows') /\ Len(rows) \in Nat /\ Len(rows') \in Nat
      /\ Len(rows') = Len(rows) => Rows' = Rows
  BY RowsAre
<1>1. ASSUME Rows' = Rows,
             \A i \in Rows : /\ work'[i].at = work[i].at /\ work'[i].future = work[i].future
                             /\ work[i].out = <<>> => work'[i].out = <<>>
      PROVE  Futures'
  BY <1>1 DEF Futures, Busy
<1>2. CASE Begun \/ CreditsOut \/ Drained \/ EngineMoves
  <2>1. Len(rows') = Len(rows) /\ work' = work
    BY <1>2 DEF Begun, CreditsOut, Drained, Closed, EngineMoves, LoopEnds, PollEnds, Judge, RunOver,
                Cancel, vars, volatile
  <2> QED
    BY <1>0, <1>1, <2>1
<1>3. CASE Dispatched
  <2>1. Rows' = Rows
    BY <1>3 DEF Dispatched, Rows
  <2> QED
    BY <1>3, <2>1 DEF Dispatched, Futures, Busy
<1>4. CASE Stopped
  <2>1. Rows' = Rows
    BY <1>4 DEF Stopped, Rows
  <2> QED
    BY <1>4, <2>1 DEF Stopped, Futures, Busy
<1>5. CASE Died
  <2>1. Rows' = Rows
    BY <1>5 DEF Died, Rows
  <2> QED
    BY <1>5, <2>1 DEF Died, Futures, Busy, NoWork
<1>6. ASSUME NEW n \in Nodes, Visited(n) PROVE Futures'
  <2>1. Rows' = Rows
    BY <1>6 DEF Visited, Rows
  <2>2. CASE work' = work
    BY <1>1, <2>1, <2>2
  <2>3. ASSUME NEW i \in Nat, work[i].out # <<>>, work'[i].at = work[i].at,
               work'[i].future = work[i].future, \A j \in Rows : j # i => work'[j] = work[j]
        PROVE  Futures'
    BY <1>1, <2>1, <2>3
  <2>4. \A i \in Range(tasks'[n]) : i \in Nat
    BY RowsAre DEF Typed, Range
  <2> QED
    BY <1>6, <2>2, <2>3, <2>4 DEF Visited
<1>7. ASSUME NEW n \in Nodes, EvalFrame(n), EvalEffect(n) PROVE Futures'
  <2>1. /\ Rows \subseteq Rows'
        /\ \A i \in Rows : /\ work'[i].future = work[i].future /\ work'[i].out = work[i].out
                            /\ \/ work'[i] = work[i]
                               \/ work[i].at = "none" /\ work'[i].at = "broken"
        /\ \A i \in Rows' \ Rows : work'[i] = NoWork
    BY <1>7, EvalWork
  <2>2. ASSUME NEW i \in Rows
        PROVE  /\ Busy(i)' => work'[i].future \in {"open", "cancelled"}
               /\ work'[i].future = "open" => Busy(i)'
               /\ work'[i].at = "none" => work'[i].future = "none" /\ work'[i].out = <<>>
               /\ work'[i].at = "over" => work'[i].future \in {"done", "cancelled"}
    BY <2>1 DEF Futures, Busy
  <2>3. ASSUME NEW i \in Rows' \ Rows
        PROVE  /\ Busy(i)' => work'[i].future \in {"open", "cancelled"}
               /\ work'[i].future = "open" => Busy(i)'
               /\ work'[i].at = "none" => work'[i].future = "none" /\ work'[i].out = <<>>
               /\ work'[i].at = "over" => work'[i].future \in {"done", "cancelled"}
    BY <2>1 DEF NoWork, Busy
  <2> QED
    BY <2>2, <2>3 DEF Futures
<1>8. ASSUME NEW i \in Rows, TaskFrame(i), TaskEffect(i) PROVE Futures'
  <2>1. Rows' = Rows /\ \A j \in Rows : j # i => work'[j] = work[j]
    BY <1>0, <1>8 DEF TaskFrame
  <2>2. /\ Busy(i)' => work'[i].future \in {"open", "cancelled"}
        /\ work'[i].future = "open" => Busy(i)'
        /\ work'[i].at # "none"
        /\ work'[i].at = "over" => work'[i].future \in {"done", "cancelled"}
    BY <1>8 DEF TaskEffect, Started, Yielded, Returned, Raised, Wrote, Broke, Interrupted,
                SameFuture, FutureEnds, Futures, Busy
  <2> QED
    BY <2>1, <2>2 DEF Futures, Busy
<1> QED
  BY <1>2, <1>3, <1>4, <1>5, <1>6, <1>7, <1>8 DEF Effect

\* While the engine is idle no task or evaluation takes a step.
LEMMA NothingInIdle ==
  ASSUME Tracked, engine = "idle"
  PROVE  /\ \A n \in Nodes : ~EvalEffect(n) /\ tasks[n] = <<>> /\ eval[n].at = "none"
         /\ \A i \in Rows : ~TaskEffect(i) /\ work[i].at = "none"
         /\ queue = <<>>
<1>1. \A n \in Nodes : eval[n].at = "none" /\ tasks[n] = <<>>
  BY DEF Tracked, Idle
<1>2. \A i \in Rows : work[i].at = "none"
  BY DEF Tracked
<1>3. \A n \in Nodes : ~EvalEffect(n)
  BY <1>1 DEF EvalEffect, LookedUp, Opened, Inserted, CompletedOne, CompletedStatic, CompletedOther,
              Passed, Failed, Over, Evaluating
<1>4. \A i \in Rows : ~TaskEffect(i)
  BY <1>2 DEF TaskEffect, Started, Yielded, Returned, Raised, Wrote, Broke, Interrupted
<1> QED
  BY <1>1, <1>2, <1>3, <1>4 DEF Tracked

LEMMA TrackedKept ==
  ASSUME Typed, Typed', Known, Placed, Futures, Tracked, Effect
  PROVE  Tracked'
<1>0. /\ Rows = 1..Len(rows) /\ Rows' = 1..Len(rows') /\ Len(rows) \in Nat /\ Len(rows') \in Nat
      /\ Len(rows') = Len(rows) => Rows' = Rows
      /\ \A i \in Rows : work[i] \in WorkType /\ rows[i] \in RowType
  BY RowsAre
<1>1. ASSUME Len(rows') = Len(rows), \A i \in Rows : rows'[i].node = rows[i].node,
             UNCHANGED <<work, tasks>>, engine' # "idle",
             Polling' => Polling \/ engine = "idle", Leaving <=> Leaving'
      PROVE  Tracked'
  <2>1. Rows' = Rows
    BY <1>0, <1>1
  <2>2. engine = "idle" => \A i \in Rows : work[i].future = "none" /\ work[i].out = <<>>
    BY NothingInIdle DEF Futures
  <2> QED
    BY <1>1, <2>1, <2>2 DEF Tracked
<1>2. CASE Begun
  BY <1>1, <1>2 DEF Begun, Leaving
<1>3. CASE CreditsOut \/ Drained
  <2>1. /\ Len(rows') = Len(rows) /\ \A i \in Rows : rows'[i].node = rows[i].node
        /\ UNCHANGED <<work, tasks>>
    BY <1>3 DEF CreditsOut, Drained, Closed
  <2> QED
    BY <1>1, <1>3, <2>1 DEF CreditsOut, Drained, Leaving, Polling
<1>4. CASE EngineMoves
  <2>0. UNCHANGED <<rows, work, tasks>>
    BY <1>4 DEF EngineMoves, LoopEnds, PollEnds, Judge, RunOver, Cancel, vars, volatile
  <2>1. CASE LoopEnds \/ PollEnds \/ Judge \/ RunOver \/ Cancel
    BY <1>1, <2>0, <2>1 DEF LoopEnds, PollEnds, Judge, RunOver, Cancel, Leaving, Polling
  <2>2. CASE UNCHANGED vars
    BY <2>2 DEF vars, volatile, Tracked, Idle, Rows, Polling, Leaving
  <2> QED
    BY <1>4, <2>1, <2>2 DEF EngineMoves
<1>5. CASE Dispatched
  <2> DEFINE i == Head(queue)
  <2>1. Rows' = Rows /\ i \in Nat /\ i \in Rows /\ rows' = rows
    BY <1>0, <1>5, NodeTyped, RangeOfTail DEF Dispatched, Known
  <2>2. /\ engine = "dispatch" /\ engine' = "poll"
        /\ \A j \in Rows : j # i => work'[j] = work[j]
        /\ tasks'[rows[i].node] = Append(tasks[rows[i].node], i)
        /\ \A n \in Nodes : n # rows[i].node => tasks'[n] = tasks[n]
        /\ work'[i].future = "open"
    BY <1>5 DEF Dispatched
  <2> HIDE DEF i
  <2>3. tasks[rows[i].node] \in Seq(Nat) /\ rows[i].node \in Nodes
    BY <1>0, <2>1, NodeTyped DEF RowType
  <2>4. Range(tasks'[rows[i].node]) = Range(tasks[rows[i].node]) \cup {i}
    BY <2>1, <2>2, <2>3, RangeOfAppend
  <2>5. \A j \in Rows : rows[j].node \in Nodes
    BY <1>0 DEF RowType
  <2>6. \A j \in Rows : Range(tasks[rows[j].node]) \subseteq Range(tasks'[rows[j].node])
    BY <2>2, <2>4, <2>5
  <2>7. \A j \in Rows : work'[j].future = "open" \/ work'[j].out # <<>> =>
          j \in Range(tasks'[rows[j].node])
    BY <2>2, <2>4, <2>6 DEF Tracked, Polling
  <2> QED
    BY <2>1, <2>2, <2>7 DEF Tracked, Polling, Leaving
<1>6. CASE Stopped
  <2>1. Rows' = Rows
    BY <1>6 DEF Stopped, Rows
  <2> QED
    BY <1>6, <2>1 DEF Stopped, Tracked, Polling, Leaving
<1>7. CASE Died
  <2>1. Rows' = Rows /\ NoEval.at = "none"
    BY <1>7, NoEvalIs DEF Died, Rows
  <2> QED
    BY <1>7, <2>1 DEF Died, Tracked, Polling, Leaving, Idle, NoWork
<1>8. ASSUME NEW n \in Nodes, Visited(n) PROVE Tracked'
  <2>1. Rows' = Rows /\ rows' = rows /\ engine = "poll" /\ engine' = "poll"
    BY <1>8 DEF Visited, Rows
  <2>2. \A j \in Rows : /\ work'[j].future = work[j].future
                        /\ work'[j].out # <<>> => work[j].out # <<>>
    <3>1. CASE work' = work
      BY <3>1
    <3>2. ASSUME NEW i, work[i].out # <<>>, work'[i].future = work[i].future,
                 \A j \in Rows : j # i => work'[j] = work[j]
          PROVE  <2>2
      BY <3>2
    <3> QED
      BY <1>8, <3>1, <3>2 DEF Visited
  <2>3. ASSUME NEW j \in Rows, work'[j].future = "open" \/ work'[j].out # <<>>
        PROVE  j \in Range(tasks'[rows[j].node])
    <3>1. j \in Range(tasks[rows[j].node]) /\ ~Spent(j)
      BY <2>1, <2>2, <2>3 DEF Tracked, Polling, Spent
    <3>2. rows[j].node \in Nodes
      BY <1>0 DEF RowType
    <3> QED
      BY <1>8, <3>1, <3>2 DEF Visited
  <2> QED
    BY <2>1, <2>2, <2>3 DEF Tracked, Polling, Leaving
<1>9. ASSUME NEW n \in Nodes, EvalFrame(n), EvalEffect(n) PROVE Tracked'
  <2>1. /\ Rows \subseteq Rows'
        /\ \A i \in Rows : work'[i].future = work[i].future /\ work'[i].out = work[i].out
        /\ \A i \in Rows' \ Rows : work'[i] = NoWork
    BY <1>9, EvalWork
  <2>2. engine # "idle" /\ engine' = engine /\ tasks' = tasks
    BY <1>9, NothingInIdle DEF EvalFrame
  <2>3. NoWork.future = "none" /\ NoWork.out = <<>>
    BY DEF NoWork
  <2>4. \A i \in Rows : rows'[i].node = rows[i].node
    BY <1>9 DEF EvalFrame
  <2> QED
    BY <2>1, <2>2, <2>3, <2>4 DEF Tracked, Polling, Leaving
<1>10. ASSUME NEW i \in Rows, TaskFrame(i), TaskEffect(i) PROVE Tracked'
  <2>1. /\ Rows' = Rows /\ \A j \in Rows : j # i => work'[j] = work[j]
        /\ \A j \in Rows : rows'[j].node = rows[j].node
        /\ engine' = engine /\ tasks' = tasks
    BY <1>0, <1>10 DEF TaskFrame
  <2>2. engine # "idle"
    BY <1>10, NothingInIdle
  <2>3. work'[i].future = "open" => work[i].future = "open"
    BY <1>10 DEF TaskEffect, Started, Yielded, Returned, Raised, Wrote, Broke, Interrupted,
                 SameFuture, FutureEnds
  <2>4. work'[i].future = "cancelled" => work[i].future = "cancelled"
    BY <1>10 DEF TaskEffect, Started, Yielded, Returned, Raised, Wrote, Broke, Interrupted,
                 SameFuture, FutureEnds
  <2>5. work'[i].out = work[i].out \/ work[i].future = "open"
    BY <1>10 DEF TaskEffect, Started, Yielded, Returned, Raised, Wrote, Broke, Interrupted,
                 SameOut, Reported
  <2> QED
    BY <2>1, <2>2, <2>3, <2>4, <2>5 DEF Tracked, Polling, Leaving
<1> QED
  BY <1>2, <1>3, <1>4, <1>5, <1>6, <1>7, <1>8, <1>9, <1>10 DEF Effect

LEMMA LeftIdleKept ==
  ASSUME Typed, Typed', Known, Placed, Futures, Tracked, LeftIdle, Effect
  PROVE  LeftIdle'
<1>0. /\ Len(rows') = Len(rows) => Rows' = Rows
      /\ \A i \in Rows : work[i] \in WorkType /\ rows[i] \in RowType
      /\ queue \in Seq(Nat)
  BY RowsAre, NodeTyped
<1>1. CASE Begun
  <2>1. Idle'
    BY <1>1 DEF Begun, Tracked, Idle
  <2> QED
    BY <1>1, <2>1 DEF Begun, LeftIdle, Leaving
<1>2. CASE Dispatched
  BY <1>2 DEF Dispatched, LeftIdle, Leaving
<1>3. CASE CreditsOut
  BY <1>3 DEF CreditsOut, LeftIdle, Leaving
<1>4. CASE Drained
  <2>1. verdict # "COMPLETED" /\ verdict' = verdict /\ verdict \in Terminal
    BY <1>4 DEF Drained, Closed, LeftIdle, Leaving
  <2> QED
    BY <1>4, <2>1 DEF Drained, LeftIdle, Leaving
<1>5. CASE Stopped
  <2>1. Rows' = Rows /\ verdict \in Terminal /\ verdict' = verdict /\ engine' = "drain"
    BY <1>5 DEF Stopped, Rows, LeftIdle
  <2>2. ASSUME verdict = "COMPLETED"
        PROVE  /\ queue' = <<>> /\ \A n \in Nodes : eval'[n].at = "none"
               /\ \A i \in Rows : work'[i].future # "cancelled"
    <3>1. Idle /\ queue = <<>>
      BY <1>5, <2>2 DEF Stopped, LeftIdle, Finished
    <3>2. ASSUME NEW i \in Rows PROVE work[i].future \notin {"open", "cancelled"}
      <4>1. tasks[rows[i].node] = <<>>
        BY <1>0, <3>1 DEF Idle, RowType
      <4>2. work[i].future # "open"
        BY <1>5, <4>1, RangeOfEmpty DEF Stopped, Tracked, Polling
      <4> QED
        BY <1>5, <4>2 DEF Stopped, Tracked, Leaving
    <3> QED
      BY <1>5, <3>1, <3>2 DEF Stopped, Idle
  <2> QED
    BY <2>1, <2>2 DEF LeftIdle, Leaving
<1>6. CASE Died
  BY <1>6 DEF Died, LeftIdle, Leaving
<1>7. CASE EngineMoves
  <2>1. CASE LoopEnds
    BY <2>1 DEF LoopEnds, LeftIdle, Leaving, Finished, Idle
  <2>2. CASE PollEnds
    BY <2>2 DEF PollEnds, LeftIdle, Leaving, Idle
  <2>3. CASE Judge
    BY <2>3 DEF Judge, LeftIdle, Leaving, Finished, Idle, Terminal
  <2>4. CASE RunOver
    BY <2>4 DEF RunOver, LeftIdle, Leaving, Rows, Evaluating
  <2>5. CASE Cancel
    BY <2>5 DEF Cancel, LeftIdle, Leaving, Rows, Evaluating, Finished, Idle
  <2>6. CASE UNCHANGED vars
    BY <2>6 DEF vars, volatile, LeftIdle, Leaving, Rows, Evaluating, Finished, Idle
  <2> QED
    BY <1>7, <2>1, <2>2, <2>3, <2>4, <2>5, <2>6 DEF EngineMoves
<1>8. ASSUME NEW n \in Nodes, Visited(n) PROVE LeftIdle'
  BY <1>8 DEF Visited, LeftIdle, Leaving
<1>9. ASSUME NEW n \in Nodes, EvalFrame(n), EvalEffect(n) PROVE LeftIdle'
  <2>1. Evaluating(n) /\ ~Idle /\ ~Finished
    BY <1>9, EvalWork DEF Evaluating, Idle, Finished
  <2>2. UNCHANGED <<engine, verdict, error, cancel>>
    BY <1>9 DEF EvalFrame
  <2>3. eval[n].at # "none"
    BY <2>1 DEF Evaluating
  <2>4. engine # "ended" /\ (engine = "stop" \/ Leaving => verdict # "COMPLETED")
    BY <2>1, <2>3 DEF LeftIdle
  <2>5. queue # <<>> => queue' # <<>>
    <3>1. CASE queue' = queue
      BY <3>1
    <3>2. CASE Over(n)
      <4>1. eval[n].found \in Seq(Nat)
        BY NodeTyped
      <4> QED
        BY <1>0, <3>2, <4>1 DEF Over
    <3> QED
      BY <1>9, <3>1, <3>2 DEF EvalEffect, LookedUp, Opened, Inserted, CompletedOne,
                              CompletedStatic, CompletedOther, Passed, Failed
  <2> QED
    BY <2>1, <2>2, <2>4, <2>5 DEF LeftIdle, Leaving
<1>10. ASSUME NEW i \in Rows, TaskFrame(i), TaskEffect(i) PROVE LeftIdle'
  <2>1. /\ Rows' = Rows /\ \A j \in Rows : j # i => work'[j] = work[j]
        /\ UNCHANGED <<engine, tasks, eval, queue, verdict, error, cancel>>
    BY <1>0, <1>10 DEF TaskFrame
  <2>2. work'[i].future = "cancelled" => work[i].future = "cancelled"
    BY <1>10 DEF TaskEffect, Started, Yielded, Returned, Raised, Wrote, Broke, Interrupted,
                 SameFuture, FutureEnds
  <2> QED
    BY <2>1, <2>2 DEF LeftIdle, Leaving, Finished, Idle, Evaluating
<1> QED
  BY <1>1, <1>2, <1>3, <1>4, <1>5, <1>6, <1>7, <1>8, <1>9, <1>10 DEF Effect

\* An evaluation that stays on its link is inside for the same sink.
LEMMA LinkSame ==
  ASSUME graph' = graph
  PROVE  \A n \in Nodes : /\ eval'[n].todo = eval[n].todo => Link(n)' = Link(n)
                          /\ eval'[n] = eval[n] => Link(n)' = Link(n) /\ (Inside(n)' <=> Inside(n))
BY DEF Link, Inside

\* A step that is not one of an evaluation leaves the evaluations as they are, or
\* outside of their sinks.
LEMMA EvalsLeft ==
  ASSUME Effect, NEW n \in Nodes, ~ \E m \in Nodes : EvalFrame(m) /\ EvalEffect(m)
  PROVE  /\ graph' = graph
         /\ \/ eval'[n] = eval[n]
            \/ /\ eval'[n].at \in {"none", "find"} /\ eval'[n].mine = <<>> /\ eval'[n].found = <<>>
               /\ eval'[n].row = 0 /\ ~Inside(n)'
               /\ eval'[n].todo = {} \/ eval'[n].todo = LinksOf(n, OutName(eval'[n].val))
<1>1. CASE Begun \/ Dispatched \/ CreditsOut \/ Drained \/ Stopped \/ EngineMoves
  BY <1>1 DEF Begun, Dispatched, CreditsOut, Drained, Closed, Stopped, EngineMoves, LoopEnds,
              PollEnds, Judge, RunOver, Cancel, vars, volatile
<1>2. CASE Died
  BY <1>2, NoEvalIs DEF Died, Inside
<1>3. ASSUME NEW m \in Nodes, Visited(m)
      PROVE  /\ graph' = graph
             /\ m # n => eval'[n] = eval[n]
             /\ m = n => /\ eval'[n].at \in {"none", "find"}
                         /\ eval'[n].mine = <<>> /\ eval'[n].found = <<>> /\ eval'[n].row = 0
                         /\ \/ eval'[n].todo = {}
                            \/ eval'[n].todo = LinksOf(n, OutName(eval'[n].val))
  BY <1>3 DEF Visited
<1>4. ASSUME NEW i \in Rows, TaskFrame(i) PROVE graph' = graph /\ eval' = eval
  BY <1>4 DEF TaskFrame
<1> QED
  BY <1>1, <1>2, <1>3, <1>4 DEF Effect, Inside

LEMMA OneInsideKept ==
  ASSUME Typed, Typed', OneInside, Effect
  PROVE  OneInside'
<1>1. CASE ~ \E m \in Nodes : EvalFrame(m) /\ EvalEffect(m)
  <2>1. \A n \in Nodes : Inside(n)' => Inside(n) /\ Link(n)' = Link(n)
    <3> TAKE n \in Nodes
    <3>1. graph' = graph /\ (eval'[n] = eval[n] \/ ~Inside(n)')
      BY <1>1, EvalsLeft
    <3> QED
      BY <3>1, LinkSame
  <2> QED
    BY <2>1 DEF OneInside
<1>2. ASSUME NEW n \in Nodes, EvalFrame(n), EvalEffect(n) PROVE OneInside'
  <2>1. graph' = graph /\ \A m \in Nodes : m # n => eval'[m] = eval[m]
    BY <1>2 DEF EvalFrame
  <2>2. \A m \in Nodes : m # n => Link(m)' = Link(m) /\ (Inside(m)' <=> Inside(m))
    BY <2>1, LinkSame
  <2>3. CASE LookedUp(n)
    <3>1. eval'[n].todo = eval[n].todo /\ SinkFree(n)
      BY <2>3 DEF LookedUp, SameLink
    <3>2. Link(n)' = Link(n)
      BY <2>1, <3>1, LinkSame
    <3>3. \A m \in Nodes : Inside(m) => Link(m).to # Link(n).to
      BY <3>1 DEF SinkFree, Holds, Inside
    <3> QED
      BY <2>2, <3>2, <3>3 DEF OneInside
  <2>4. CASE Opened(n) \/ Inserted(n) \/ CompletedStatic(n) \/ CompletedOther(n)
    <3>1. eval'[n].todo = eval[n].todo /\ Inside(n)
      BY <2>4 DEF Opened, Inserted, CompletedStatic, CompletedOther, SameLink, Inside
    <3>2. Link(n)' = Link(n)
      BY <2>1, <3>1, LinkSame
    <3> QED
      BY <2>2, <3>1, <3>2 DEF OneInside
  <2>5. CASE CompletedOne(n) \/ Passed(n) \/ Failed(n) \/ Over(n)
    <3>1. ~Inside(n)'
      BY <2>5 DEF CompletedOne, Passed, Failed, Over, NewLink, Inside
    <3> QED
      BY <2>2, <3>1 DEF OneInside
  <2> QED
    BY <1>2, <2>3, <2>4, <2>5 DEF EvalEffect
<1> QED
  BY <1>1, <1>2

\* What Evaluations says of one node.
Sound(n) ==
  /\ Inside(n) => eval[n].todo # {}
  /\ eval[n].at # "others" => eval[n].mine = <<>>
  /\ ~Evaluating(n) => eval[n].found = <<>>
  /\ eval[n].todo \subseteq DOMAIN graph.links
  /\ eval[n].at \in {"complete", "others"} => eval[n].row \in Rows
  /\ Inside(n) /\ eval[n].row \in Rows =>
       /\ rows[eval[n].row].node = Link(n).to
       /\ eval[n].at # "others" => rows[eval[n].row].status = "INCOMPLETE"

LEMMA SoundIs == (Evaluations <=> \A n \in Nodes : Sound(n)) /\ (Evaluations' <=> \A n \in Nodes : Sound(n)')
BY DEF Evaluations, Sound

\* It stays so when the evaluation does not move and its row keeps its status.
LEMMA SoundSame ==
  ASSUME NEW n \in Nodes, Sound(n), graph' = graph, eval'[n] = eval[n], 0 \notin Rows',
         eval[n].row \in Rows \cup {0}, Rows \subseteq Rows',
         \A i \in Rows : rows'[i].node = rows[i].node,
         Inside(n) /\ eval[n].row \in Rows /\ rows[eval[n].row].status = "INCOMPLETE"
           /\ eval[n].at # "others" => rows'[eval[n].row].status = "INCOMPLETE"
  PROVE  Sound(n)'
<1>1. Link(n)' = Link(n) /\ (Inside(n)' <=> Inside(n)) /\ (Evaluating(n)' <=> Evaluating(n))
  BY LinkSame DEF Evaluating
<1> QED
  BY <1>1 DEF Sound

\* The status of a row at each place of its task.
StatusAt(i) ==
  /\ work[i].at = "start" => rows[i].status \in Owed
  /\ work[i].at = "run" => rows[i].status = "RUNNING"
  /\ work[i].at = "write" => \/ rows[i].status = "RUNNING" /\ work[i].end # "none"
                             \/ rows[i].status \in Owed /\ work[i].end \in {"FAILED", "TERMINATED"}
  /\ work[i].at = "over" => rows[i].status \notin Live \cup {"INCOMPLETE"}
  /\ work[i].at = "broken" => rows[i].status # "INCOMPLETE"

\* A row whose task has begun to run is not incomplete.
LEMMA BegunRows ==
  ASSUME Typed, Standing, NEW i \in Rows
  PROVE  /\ StatusAt(i)
         /\ rows[i].status = "INCOMPLETE" => work[i].at = "none"
         /\ TaskEffect(i) => rows[i].status # "INCOMPLETE"
<1>1. work[i] \in WorkType /\ StatusAt(i)
  BY RowsAre DEF Typed, Rows, Standing, StatusAt
<1>2. rows[i].status = "INCOMPLETE" => work[i].at = "none"
  BY <1>1 DEF StatusAt, WorkType, Owed
<1>3. TaskEffect(i) => work[i].at # "none"
  BY DEF TaskEffect, Started, Yielded, Returned, Raised, Wrote, Broke, Interrupted
<1> QED
  BY <1>1, <1>2, <1>3

\* A step that is not one of an evaluation leaves the incomplete rows alone, and
\* the node of every row.
LEMMA OthersLeaveRows ==
  ASSUME Typed, Typed', Known, Standing, Effect, ~ \E m \in Nodes : EvalFrame(m) /\ EvalEffect(m)
  PROVE  /\ Rows' = Rows
         /\ \A j \in Rows : /\ rows'[j].node = rows[j].node /\ rows'[j].in = rows[j].in
                            /\ rows[j].status = "INCOMPLETE" => rows'[j] = rows[j]
<1>0. Len(rows') = Len(rows) => Rows' = Rows
  BY RowsAre
<1>1. CASE Begun \/ Dispatched \/ Stopped \/ EngineMoves \/ Died \/ \E n \in Nodes : Visited(n)
  <2>1. rows' = rows
    BY <1>1 DEF Begun, Dispatched, Stopped, EngineMoves, LoopEnds, PollEnds, Judge, RunOver,
                Cancel, vars, volatile, Died, Visited
  <2> QED
    BY <1>0, <2>1
<1>2. CASE CreditsOut \/ Drained
  <2>1. PICK to : Closed(to)
    BY <1>2 DEF CreditsOut, Drained
  <2>2. Head(queue) \in Range(queue)
    BY <2>1, NodeTyped, RangeOfTail DEF Closed
  <2>3. rows[Head(queue)].status # "INCOMPLETE"
    BY <2>2 DEF Standing, Owed
  <2> QED
    BY <1>0, <2>1, <2>3 DEF Closed
<1>3. ASSUME NEW i \in Rows, TaskFrame(i), TaskEffect(i)
      PROVE  /\ Rows' = Rows
             /\ \A j \in Rows : /\ rows'[j].node = rows[j].node /\ rows'[j].in = rows[j].in
                                /\ rows[j].status = "INCOMPLETE" => rows'[j] = rows[j]
  <2>1. rows[i].status # "INCOMPLETE"
    BY <1>3, BegunRows
  <2> QED
    BY <1>0, <1>3, <2>1 DEF TaskFrame
<1> QED
  BY <1>1, <1>2, <1>3 DEF Effect

LEMMA EvaluationsKept ==
  ASSUME Typed, Typed', Known, Standing, OneInside, Evaluations, Effect
  PROVE  Evaluations'
<1>0. /\ Rows = 1..Len(rows) /\ Rows' = 1..Len(rows') /\ Len(rows) \in Nat /\ Len(rows') \in Nat
      /\ 0 \notin Rows' /\ 0 \notin Rows
  BY RowsAre
<1>1. \A n \in Nodes : Sound(n) /\ eval[n].row \in Rows \cup {0}
  BY SoundIs DEF Known
<1>2. CASE ~ \E m \in Nodes : EvalFrame(m) /\ EvalEffect(m)
  <2>1. ASSUME NEW n \in Nodes PROVE Sound(n)'
    <3>0. graph' = graph
      BY <1>2, EvalsLeft
    <3>1. CASE eval'[n] = eval[n]
      <4>1. /\ Rows' = Rows
            /\ \A j \in Rows : /\ rows'[j].node = rows[j].node
                               /\ rows[j].status = "INCOMPLETE" => rows'[j] = rows[j]
        BY <1>2, OthersLeaveRows
      <4> QED
        BY <1>0, <1>1, <3>0, <3>1, <4>1, SoundSame
    <3>2. CASE eval'[n] # eval[n]
      <4>1. /\ eval'[n].at \in {"none", "find"} /\ eval'[n].mine = <<>> /\ eval'[n].found = <<>>
            /\ ~Inside(n)' /\ (eval'[n].todo = {} \/ eval'[n].todo = LinksOf(n, OutName(eval'[n].val)))
        BY <1>2, <3>2, EvalsLeft
      <4>2. eval'[n].todo \subseteq DOMAIN graph.links
        BY <4>1 DEF LinksOf
      <4> QED
        BY <3>0, <4>1, <4>2 DEF Sound
    <3> QED
      BY <3>1, <3>2
  <2> QED
    BY <2>1, SoundIs
<1>3. ASSUME NEW n \in Nodes, EvalFrame(n), EvalEffect(n) PROVE Evaluations'
  <2>0. /\ graph' = graph /\ Rows \subseteq Rows' /\ \A m \in Nodes : m # n => eval'[m] = eval[m]
        /\ \A i \in Rows : rows'[i].node = rows[i].node
    BY <1>0, <1>3 DEF EvalFrame
  <2>1. ASSUME NEW m \in Nodes, m # n PROVE Sound(m)'
    <3>1. \/ \A i \in Rows : rows'[i].status = rows[i].status
          \/ \E i \in Rows : Readied(n, i) /\ Inside(n)
      BY <1>3 DEF EvalEffect, LookedUp, Opened, Inserted, OnlyRow, CompletedOne, CompletedStatic,
                  CompletedOther, Readied, Passed, Failed, Over, Inside
    <3>2. CASE \A i \in Rows : rows'[i].status = rows[i].status
      BY <1>0, <1>1, <2>0, <2>1, <3>2, SoundSame
    <3>3. ASSUME NEW i \in Rows, Readied(n, i), Inside(n) PROVE Sound(m)'
      <4>1. ASSUME Inside(m), eval[m].row \in Rows PROVE eval[m].row # i
        <5>1. rows[eval[m].row].node = Link(m).to
          BY <1>1, <4>1 DEF Sound
        <5>2. rows[i].node = Link(n).to
          BY <3>3 DEF Readied
        <5> QED
          BY <2>1, <3>3, <4>1, <5>1, <5>2 DEF OneInside
      <4>2. Inside(m) /\ eval[m].row \in Rows => rows'[eval[m].row] = rows[eval[m].row]
        BY <3>3, <4>1 DEF Readied, OnlyRow
      <4> QED
        BY <1>0, <1>1, <2>0, <2>1, <4>2, SoundSame
    <3> QED
      BY <3>1, <3>2, <3>3
  <2>2. Sound(n)
    BY <1>1
  <2>3. eval'[n].todo = eval[n].todo => Link(n)' = Link(n)
    BY <2>0, LinkSame
  <2>4. Sound(n)'
    <3>4. CASE LookedUp(n)
      <4> DEFINE S == Waiting(Link(n).to, Link(n).pin)
      <4>1. S \subseteq Rows /\ Rows \subseteq Nat
        BY <1>0 DEF Waiting, Incomplete, Of
      <4>2. \A i \in S : rows[i].node = Link(n).to /\ rows[i].status = "INCOMPLETE"
        BY DEF Waiting, Incomplete, Of
      <4>3. S # {} => Min(S) \in S
        <5> HIDE DEF S
        <5> QED
          BY <4>1, MinIsLeast
      <4>4. eval'[n].row = IF S = {} THEN 0 ELSE Min(S)
        BY <3>4 DEF LookedUp, Earliest
      <4> HIDE DEF S
      <4>5. /\ eval[n].at = "find" /\ eval'[n].at = "insert" /\ eval[n].todo # {}
            /\ eval'[n].todo = eval[n].todo /\ eval'[n].mine = eval[n].mine
            /\ rows' = rows
        BY <3>4 DEF LookedUp, SameLink, SamePlaces
      <4>6. Rows' = Rows /\ eval'[n].row \in Rows => eval'[n].row \in S
        BY <1>0, <4>3, <4>4, <4>5
      <4>7. Rows' = Rows
        BY <1>0, <4>5
      <4> QED
        BY <2>0, <2>2, <2>3, <4>2, <4>5, <4>6, <4>7 DEF Sound, Inside, Evaluating
    <3>5. CASE Opened(n)
      <4>1. /\ eval[n].at = "insert" /\ eval'[n].at = "complete" /\ eval'[n].row = Len(rows) + 1
            /\ eval'[n].todo = eval[n].todo /\ eval'[n].mine = eval[n].mine
            /\ rows'[Len(rows) + 1].node = Link(n).to
            /\ rows'[Len(rows) + 1].status = "INCOMPLETE" /\ Len(rows') = Len(rows) + 1
        BY <3>5 DEF Opened, SameLink, SamePlaces
      <4>2. Len(rows) + 1 \in Rows'
        BY <1>0, <4>1
      <4> QED
        BY <2>0, <2>2, <2>3, <4>1, <4>2 DEF Sound, Inside, Evaluating
    <3>6. CASE Inserted(n)
      <4>1. /\ eval[n].at = "insert" /\ eval'[n].at = "complete" /\ eval'[n].row = eval[n].row
            /\ eval[n].row \in Rows
            /\ eval'[n].todo = eval[n].todo /\ eval'[n].mine = eval[n].mine
            /\ rows'[eval[n].row].status = rows[eval[n].row].status
        BY <3>6 DEF Inserted, SameLink, SameRow, SamePlaces
      <4> QED
        BY <2>0, <2>2, <2>3, <4>1 DEF Sound, Inside, Evaluating
    <3>7. CASE CompletedStatic(n) \/ CompletedOther(n)
      <4>1. /\ eval[n].at \in {"complete", "others"} /\ eval'[n].at = "others"
            /\ eval'[n].row = eval[n].row /\ eval'[n].todo = eval[n].todo
        BY <3>7 DEF CompletedStatic, CompletedOther, SameLink, SameRow
      <4> QED
        BY <2>0, <2>2, <2>3, <4>1 DEF Sound, Inside, Evaluating
    <3>8. CASE CompletedOne(n) \/ Passed(n) \/ Failed(n) \/ Over(n)
      <4>1. /\ \/ eval'[n].at = "find"
               \/ eval'[n].at = "done" /\ eval'[n].found = <<>>
            /\ eval'[n].mine = <<>> /\ eval'[n].todo \subseteq eval[n].todo
        BY <3>8 DEF CompletedOne, Passed, Failed, Over, NewLink
      <4> QED
        BY <2>0, <2>2, <4>1 DEF Sound, Inside, Evaluating
    <3> QED
      BY <1>3, <3>4, <3>5, <3>6, <3>7, <3>8 DEF EvalEffect
  <2> QED
    BY <2>1, <2>4, SoundIs
<1> QED
  BY <1>2, <1>3

\* Placed, of the rows that a set of places holds.
LEMMA CarriedMove ==
  ASSUME Effect, NEW n \in Nodes, ~ \E m \in Nodes : EvalFrame(m) /\ EvalEffect(m)
  PROVE  Carried(n)' = Carried(n) \/ Carried(n)' = <<>>
BY EvalsLeft, CarriedSame

\* Nothing is carried by an evaluation that does not run.
LEMMA NothingCarried ==
  ASSUME Evaluations, NEW n \in Nodes, ~Evaluating(n)
  PROVE  Carried(n) = <<>>
<1>1. eval[n].mine = <<>> /\ eval[n].found = <<>> /\ <<>> \o <<>> = <<>>
  BY DEF Evaluations, Evaluating
<1> QED
  BY <1>1 DEF Carried

LEMMA PlacedKept ==
  ASSUME Typed, Typed', Known, Tracked, Evaluations, Standing, Placed, Effect
  PROVE  Placed'
<1>0. /\ Rows = 1..Len(rows) /\ Rows' = 1..Len(rows') /\ Len(rows) \in Nat /\ Len(rows') \in Nat
      /\ queue \in Seq(Nat) /\ \A n \in Nodes : Carried(n) \in Seq(Nat)
  BY RowsAre, NodeTyped
<1>1. ASSUME IsInjective(queue'), Range(queue') \subseteq Range(queue),
             \A n \in Nodes : Carried(n)' = Carried(n) \/ Carried(n)' = <<>>,
             \A i \in Range(queue') : work'[i].at = "none",
             \A n \in Nodes : \A i \in Range(Carried(n)) : work'[i].at = "none"
      PROVE  Placed'
  <2>1. \A n \in Nodes : /\ IsInjective(Carried(n)') /\ Range(Carried(n)') \subseteq Range(Carried(n))
                         /\ Range(Carried(n)') \cap Range(queue') = {}
    BY <1>1, RangeOfEmpty DEF Placed
  <2>2. \A m, n \in Nodes : m # n => Range(Carried(m)') \cap Range(Carried(n)') = {}
    BY <2>1 DEF Placed
  <2> QED
    BY <1>1, <2>1, <2>2 DEF Placed
<1>2. ASSUME UNCHANGED queue, ~ \E m \in Nodes : EvalFrame(m) /\ EvalEffect(m),
             \A i \in Rows : work[i].at = "none" => work'[i].at = "none"
      PROVE  Placed'
  <2>1. Range(queue) \subseteq Rows /\ \A n \in Nodes : Range(Carried(n)) \subseteq Rows
    BY DEF Known
  <2> QED
    BY <1>1, <1>2, <2>1, CarriedMove DEF Placed
<1>3. CASE \E m \in Nodes : EvalFrame(m) /\ EvalEffect(m)
  <2> PICK n \in Nodes : EvalFrame(n) /\ EvalEffect(n)
    BY <1>3
  <2>1. \A m \in Nodes : m # n => Carried(m)' = Carried(m)
    BY CarriedSame DEF EvalFrame
  <2>2. /\ Range(queue) \subseteq Rows /\ \A m \in Nodes : Range(Carried(m)) \subseteq Rows
    BY DEF Known
  <2>3. CASE KeepsCarried(n) \/ \E i \in Rows : Carries(n, i)
    <3>1. CASE Failed(n)
      <4>1. Range(eval[n].mine) = {} \/ KeepsCarried(n) \/ \E i \in Rows : Carries(n, i)
        BY <2>3
      <4>2. Carried(n)' = eval[n].found /\ queue' = queue
        <5>1. eval'[n].mine = <<>> /\ eval'[n].found = eval[n].found
          BY <3>1 DEF Failed, NewLink
        <5>2. eval[n].found \o <<>> = eval[n].found
          BY NodeTyped
        <5> QED
          BY <3>1, <5>1, <5>2 DEF Failed, Carried
      <4>3. /\ Range(Carried(n)) = Range(eval[n].found) \cup Range(eval[n].mine)
            /\ IsInjective(eval[n].found) /\ Range(eval[n].found) \cap Range(eval[n].mine) = {}
        BY NodeTyped, RangeOfConcat DEF Carried, Placed
      <4>4. \A m \in Nodes : Range(Carried(m)') \subseteq Range(Carried(m)) /\ IsInjective(Carried(m)')
        BY <2>1, <4>2, <4>3 DEF Placed
      <4>5. \A i \in Rows : i \notin Range(eval[n].mine) => work'[i] = work[i]
        BY <3>1 DEF Failed
      <4>6. \A i \in Range(queue) : i \notin Range(eval[n].mine)
        BY <4>3 DEF Placed
      <4>7. \A m \in Nodes : \A i \in Range(Carried(m)') : i \notin Range(eval[n].mine)
        BY <2>1, <4>2, <4>3 DEF Placed
      <4> QED
        BY <2>2, <4>2, <4>4, <4>5, <4>6, <4>7 DEF Placed
    <3>2. CASE ~Failed(n)
      <4>1. \A i \in Rows : work'[i] = work[i]
        BY <3>2 DEF EvalEffect, LookedUp, Opened, Inserted, OnlyRow, CompletedOne, CompletedStatic,
                    CompletedOther, Readied, Passed, Over
      <4>2. CASE KeepsCarried(n)
        <5>1. queue' = queue /\ \A m \in Nodes : Carried(m)' = Carried(m)
          BY <2>1, <4>2 DEF KeepsCarried
        <5> QED
          BY <1>1, <2>2, <4>1, <5>1 DEF Placed
      <4>3. ASSUME NEW i \in Rows, Carries(n, i) PROVE Placed'
        <5>1. queue' = queue /\ Carried(n)' = Append(Carried(n), i) /\ rows[i].status = "INCOMPLETE"
          BY <4>3 DEF Carries, Readied
        <5>2. i \notin Range(queue) /\ \A m \in Nodes : i \notin Range(Carried(m))
          BY <5>1 DEF Standing, Owed
        <5>3. work[i].at = "none"
          BY <5>1, BegunRows
        <5>4. i \in Nat /\ Carried(n) \in Seq(Nat)
          BY <1>0
        <5>5. /\ Range(Append(Carried(n), i)) = Range(Carried(n)) \cup {i}
              /\ IsInjective(Append(Carried(n), i))
          BY <5>2, <5>4, RangeOfAppend DEF Placed
        <5>6. Range(Carried(n)') = Range(Carried(n)) \cup {i} /\ IsInjective(Carried(n)')
          BY <5>1, <5>5
        <5>7. \A m \in Nodes : /\ IsInjective(Carried(m)')
                               /\ Range(Carried(m)') \cap Range(queue') = {}
          BY <2>1, <5>1, <5>2, <5>6 DEF Placed
        <5>8. \A l, m \in Nodes : l # m => Range(Carried(l)') \cap Range(Carried(m)') = {}
          BY <2>1, <5>2, <5>6 DEF Placed
        <5>9. \A m \in Nodes : \A j \in Range(Carried(m)') : work'[j].at = "none"
          BY <2>1, <2>2, <4>1, <5>3, <5>6 DEF Placed
        <5>10. IsInjective(queue') /\ \A j \in Range(queue') : work'[j].at = "none"
          BY <2>2, <4>1, <5>1 DEF Placed
        <5> QED
          BY <5>7, <5>8, <5>9, <5>10 DEF Placed
      <4> QED
        BY <2>3, <4>2, <4>3
    <3> QED
      BY <3>1, <3>2
  <2>4. CASE DropsMine(n)
    <3>1. /\ Carried(n)' = eval[n].found /\ queue' = queue
          /\ Range(Carried(n)) = Range(eval[n].found) \cup Range(eval[n].mine)
          /\ \A i \in Rows : i \notin Range(eval[n].mine) => work'[i] = work[i]
      BY <2>4 DEF DropsMine, Failed
    <3>2. IsInjective(eval[n].found) /\ Range(eval[n].found) \cap Range(eval[n].mine) = {}
      BY NodeTyped, RangeOfConcat DEF Carried, Placed
    <3>3. \A m \in Nodes : Range(Carried(m)') \subseteq Range(Carried(m)) /\ IsInjective(Carried(m)')
      BY <2>1, <3>1, <3>2 DEF Placed
    <3>4. \A i \in Range(queue) : i \notin Range(eval[n].mine)
      BY <3>1 DEF Placed
    <3>5. \A m \in Nodes : \A i \in Range(Carried(m)') : i \notin Range(eval[n].mine)
      BY <2>1, <3>1, <3>2 DEF Placed
    <3> QED
      BY <2>2, <3>1, <3>3, <3>4, <3>5 DEF Placed
  <2>5. CASE HandsOver(n)
    <3>1. Carried(n)' = <<>> /\ queue' = queue \o Carried(n) /\ work' = work
      BY <2>5 DEF HandsOver, Over
    <3>2. /\ Range(queue') = Range(queue) \cup Range(Carried(n)) /\ IsInjective(queue')
      BY <1>0, <3>1, RangeOfConcat DEF Placed
    <3>3. \A m \in Nodes : /\ IsInjective(Carried(m)') /\ Range(Carried(m)') \subseteq Range(Carried(m))
                           /\ Range(Carried(m)') \cap Range(queue') = {}
      BY <2>1, <3>1, <3>2, RangeOfEmpty DEF Placed
    <3>4. \A l, m \in Nodes : l # m => Range(Carried(l)') \cap Range(Carried(m)') = {}
      BY <3>3 DEF Placed
    <3> QED
      BY <3>1, <3>2, <3>3, <3>4 DEF Placed
  <2> QED
    BY <2>3, <2>4, <2>5, EvalCarries
<1>4. CASE ~ \E m \in Nodes : EvalFrame(m) /\ EvalEffect(m)
  <2>1. CASE Begun
    <3>1. /\ \A n \in Nodes : eval[n].at = "none" /\ eval'[n] = eval[n]
          /\ \A i \in Rows : work[i].at = "none" /\ work' = work
      BY <2>1, NothingInIdle DEF Begun
    <3>2. \A n \in Nodes : Carried(n)' = <<>>
      BY <3>1, NothingCarried, CarriedSame DEF Evaluating
    <3>3. IsInjective(queue') /\ Range(queue') \subseteq Rows
      BY <2>1 DEF Begun
    <3>4. \A i \in Range(queue') : work'[i].at = "none"
      BY <3>1, <3>3
    <3> QED
      BY <3>2, <3>3, <3>4, RangeOfEmpty DEF Placed
  <2>2. CASE Dispatched
    <3> DEFINE i == Head(queue)
    <3>1. /\ queue' = Tail(queue) /\ eval' = eval /\ \A j \in Rows : j # i => work'[j] = work[j]
      BY <2>2 DEF Dispatched
    <3>2. /\ Range(queue) = {i} \cup Range(Tail(queue)) /\ IsInjective(Tail(queue))
          /\ i \notin Range(Tail(queue))
      BY <1>0, <2>2, RangeOfTail DEF Dispatched, Placed
    <3> HIDE DEF i
    <3>3. \A n \in Nodes : i \notin Range(Carried(n)) /\ Carried(n)' = Carried(n)
      BY <3>1, <3>2, CarriedSame DEF Placed
    <3>4. \A j \in Range(queue') : work'[j].at = "none"
      BY <3>1, <3>2 DEF Placed, Known
    <3>5. \A n \in Nodes : \A j \in Range(Carried(n)) : work'[j].at = "none"
      BY <3>1, <3>3 DEF Placed, Known
    <3> QED
      BY <1>1, <3>1, <3>2, <3>3, <3>4, <3>5
  <2>3. CASE CreditsOut \/ Drained
    <3>1. queue' = Tail(queue) /\ queue # <<>> /\ eval' = eval /\ work' = work
      BY <2>3 DEF CreditsOut, Drained, Closed
    <3>2. Range(queue) = {Head(queue)} \cup Range(Tail(queue)) /\ IsInjective(Tail(queue))
      BY <1>0, <3>1, RangeOfTail DEF Placed
    <3>3. Range(queue') \subseteq Range(queue) /\ IsInjective(queue')
      BY <3>1, <3>2
    <3> QED
      BY <1>1, <3>1, <3>3, CarriedSame DEF Placed
  <2>4. CASE Stopped \/ EngineMoves
    <3>1. queue' = queue /\ \A i \in Rows : work'[i].at = work[i].at
      BY <2>4 DEF Stopped, EngineMoves, LoopEnds, PollEnds, Judge, RunOver, Cancel, vars, volatile
    <3> QED
      BY <1>2, <1>4, <3>1
  <2>5. CASE Died
    <3>1. queue' = <<>> /\ \A n \in Nodes : eval'[n].mine = <<>> /\ eval'[n].found = <<>>
      BY <2>5, NoEvalIs DEF Died
    <3>2. \A n \in Nodes : Carried(n)' = <<>>
      BY <3>1, CarriedSame
    <3> QED
      BY <3>1, <3>2, RangeOfEmpty DEF Placed
  <2>6. ASSUME NEW n \in Nodes, Visited(n) PROVE Placed'
    <3>1. queue' = queue
      BY <2>6 DEF Visited
    <3>2. \A i \in Rows : work'[i].at = work[i].at
      <4>1. CASE work' = work
        BY <4>1
      <4>2. ASSUME NEW i, work'[i].at = work[i].at, \A j \in Rows : j # i => work'[j] = work[j]
            PROVE  <3>2
        BY <4>2
      <4> QED
        BY <2>6, <4>1, <4>2 DEF Visited
    <3> QED
      BY <1>2, <1>4, <3>1, <3>2
  <2>7. ASSUME NEW i \in Rows, TaskFrame(i), TaskEffect(i) PROVE Placed'
    <3>1. queue' = queue /\ \A j \in Rows : j # i => work'[j] = work[j]
      BY <2>7 DEF TaskFrame
    <3>2. work[i].at # "none"
      BY <2>7 DEF TaskEffect, Started, Yielded, Returned, Raised, Wrote, Broke, Interrupted
    <3> QED
      BY <1>2, <1>4, <3>1, <3>2
  <2> QED
    BY <1>4, <2>1, <2>2, <2>3, <2>4, <2>5, <2>6, <2>7 DEF Effect
<1> QED
  BY <1>3, <1>4

LEMMA StandingIs ==
  /\ Standing <=> /\ \A i \in Range(queue) : rows[i].status \in Owed
                  /\ \A n \in Nodes : \A i \in Range(Carried(n)) : rows[i].status \in Owed
                  /\ \A i \in Rows : StatusAt(i)
  /\ Standing' <=> /\ \A i \in Range(queue') : rows'[i].status \in Owed
                   /\ \A n \in Nodes : \A i \in Range(Carried(n)') : rows'[i].status \in Owed
                   /\ \A i \in Rows' : StatusAt(i)'
<1>1. Standing <=> /\ \A i \in Range(queue) : rows[i].status \in Owed
                   /\ \A n \in Nodes : \A i \in Range(Carried(n)) : rows[i].status \in Owed
                   /\ \A i \in Rows : StatusAt(i)
  BY DEF Standing, StatusAt
<1>2. Standing' <=> /\ \A i \in Range(queue') : rows'[i].status \in Owed
                    /\ \A n \in Nodes : \A i \in Range(Carried(n)') : rows'[i].status \in Owed
                    /\ \A i \in Rows' : StatusAt(i)'
  BY DEF Standing, StatusAt
<1> QED
  BY <1>1, <1>2

\* A step of a task leaves its row with a status that fits its place.
LEMMA TaskStanding ==
  ASSUME Typed, NEW i \in Rows, StatusAt(i), TaskEffect(i)
  PROVE  StatusAt(i)'
<1>1. /\ rows[i].status \in Statuses
      /\ work[i].end \in {"none", "COMPLETED", "FAILED", "TERMINATED"}
  BY RowTyped DEF RowType, WorkType
<1>2. CASE Started(i)
  BY <1>2 DEF Started, StatusAt, Owed, Moved, AllowedFrom
<1>3. CASE Yielded(i) \/ Returned(i)
  BY <1>3 DEF Yielded, Returned, StatusAt, Owed, SameStatus
<1>4. CASE Raised(i) \/ Interrupted(i)
  BY <1>4 DEF Raised, Interrupted, StatusAt, Owed, SameStatus
<1>5. CASE Wrote(i)
  BY <1>1, <1>5 DEF Wrote, StatusAt, Owed, Live, Moved, AllowedFrom
<1>6. CASE Broke(i)
  BY <1>6 DEF Broke, StatusAt, Owed, SameStatus
<1> QED
  BY <1>2, <1>3, <1>4, <1>5, <1>6 DEF TaskEffect

LEMMA StandingKept ==
  ASSUME Typed, Typed', Known, Tracked, Evaluations, Placed, Standing, Effect
  PROVE  Standing'
<1>0. /\ Rows = 1..Len(rows) /\ Rows' = 1..Len(rows') /\ Len(rows) \in Nat /\ Len(rows') \in Nat
      /\ queue \in Seq(Nat) /\ \A n \in Nodes : Carried(n) \in Seq(Nat)
      /\ Len(rows') = Len(rows) => Rows' = Rows
  BY RowsAre, NodeTyped
<1>1. /\ \A i \in Range(queue) : i \in Rows /\ rows[i].status \in Owed
      /\ \A n \in Nodes : \A i \in Range(Carried(n)) : i \in Rows /\ rows[i].status \in Owed
      /\ \A i \in Rows : StatusAt(i)
  BY StandingIs DEF Known
<1>2. ASSUME rows' = rows, Range(queue') \subseteq Range(queue),
             \A n \in Nodes : Carried(n)' = Carried(n) \/ Carried(n)' = <<>>,
             \A i \in Rows : \/ work'[i].at = work[i].at /\ work'[i].end = work[i].end
                             \/ work'[i].at = "none"
                             \/ work'[i].at = "start" /\ rows[i].status \in Owed
      PROVE  Standing'
  <2>1. Rows' = Rows
    BY <1>0, <1>2
  <2>2. \A i \in Rows : StatusAt(i)'
    BY <1>1, <1>2 DEF StatusAt
  <2>3. \A n \in Nodes : Range(Carried(n)') \subseteq Range(Carried(n))
    BY <1>2, RangeOfEmpty
  <2> QED
    BY <1>1, <1>2, <2>1, <2>2, <2>3, StandingIs
<1>3. CASE ~ \E m \in Nodes : EvalFrame(m) /\ EvalEffect(m)
  <2>0. \A n \in Nodes : Carried(n)' = Carried(n) \/ Carried(n)' = <<>>
    BY <1>3, CarriedMove
  <2>1. CASE Begun
    <3>1. /\ \A i \in Range(queue') : rows'[i].status \in Owed
          /\ work' = work /\ rows' = rows
      BY <2>1 DEF Begun
    <3>2. \A i \in Rows' : StatusAt(i)'
      BY <1>0, <1>1, <3>1 DEF StatusAt
    <3>3. \A n \in Nodes : Range(Carried(n)') \subseteq Range(Carried(n))
      BY <2>0, RangeOfEmpty
    <3> QED
      BY <1>1, <3>1, <3>2, <3>3, StandingIs
  <2>2. CASE Dispatched
    <3> DEFINE i == Head(queue)
    <3>1. queue' = Tail(queue) /\ rows' = rows /\ work'[i].at = "start"
          /\ \A j \in Rows : j # i => work'[j] = work[j]
      BY <2>2 DEF Dispatched
    <3>2. Range(queue) = {i} \cup Range(Tail(queue))
      BY <1>0, <2>2, RangeOfTail DEF Dispatched
    <3>3. i \in Rows /\ rows[i].status \in Owed
      BY <1>1, <3>2
    <3> HIDE DEF i
    <3>4. \A j \in Rows : \/ work'[j].at = work[j].at /\ work'[j].end = work[j].end
                          \/ work'[j].at = "start" /\ rows[j].status \in Owed
      BY <3>1, <3>3
    <3> QED
      BY <1>2, <2>0, <3>1, <3>2, <3>4
  <2>3. ASSUME NEW to, Closed(to) PROVE Standing'
    <3> DEFINE i == Head(queue)
    <3>1. queue' = Tail(queue) /\ queue # <<>> /\ eval' = eval /\ work' = work
          /\ Len(rows') = Len(rows) /\ \A j \in Rows : j # i => rows'[j] = rows[j]
      BY <2>3 DEF Closed
    <3>2. /\ Range(queue) = {i} \cup Range(Tail(queue)) /\ i \notin Range(Tail(queue))
      BY <1>0, <3>1, RangeOfTail DEF Placed
    <3> HIDE DEF i
    <3>3. \A n \in Nodes : i \notin Range(Carried(n)) /\ Carried(n)' = Carried(n)
      BY <3>1, <3>2, CarriedSame DEF Placed
    <3>4. work[i].at = "none"
      BY <3>2 DEF Placed
    <3>5. \A j \in Rows' : StatusAt(j)'
      BY <1>0, <1>1, <3>1, <3>4 DEF StatusAt
    <3>6. \A j \in Range(queue') : rows'[j].status \in Owed
      BY <1>1, <3>1, <3>2
    <3>7. \A n \in Nodes : \A j \in Range(Carried(n)') : rows'[j].status \in Owed
      BY <1>1, <3>1, <3>3
    <3> QED
      BY <3>5, <3>6, <3>7, StandingIs
  <2>4. CASE Stopped \/ EngineMoves
    <3>1. /\ queue' = queue /\ rows' = rows
          /\ \A i \in Rows : work'[i].at = work[i].at /\ work'[i].end = work[i].end
      BY <2>4 DEF Stopped, EngineMoves, LoopEnds, PollEnds, Judge, RunOver, Cancel, vars, volatile
    <3> QED
      BY <1>2, <2>0, <3>1
  <2>5. CASE Died
    <3>1. queue' = <<>> /\ rows' = rows /\ \A i \in Rows : work'[i].at = "none"
      BY <2>5 DEF Died, NoWork
    <3> QED
      BY <1>2, <2>0, <3>1, RangeOfEmpty
  <2>6. ASSUME NEW n \in Nodes, Visited(n) PROVE Standing'
    <3>1. queue' = queue /\ rows' = rows
      BY <2>6 DEF Visited
    <3>2. \A i \in Rows : work'[i].at = work[i].at /\ work'[i].end = work[i].end
      <4>1. CASE work' = work
        BY <4>1
      <4>2. ASSUME NEW i, work'[i].at = work[i].at, work'[i].end = work[i].end,
                   \A j \in Rows : j # i => work'[j] = work[j]
            PROVE  <3>2
        BY <4>2
      <4> QED
        BY <2>6, <4>1, <4>2 DEF Visited
    <3> QED
      BY <1>2, <2>0, <3>1, <3>2
  <2>7. ASSUME NEW i \in Rows, TaskFrame(i), TaskEffect(i) PROVE Standing'
    <3>1. /\ queue' = queue /\ Rows' = Rows
          /\ \A j \in Rows : j # i => work'[j] = work[j] /\ rows'[j] = rows[j]
          /\ eval' = eval
      BY <1>0, <2>7 DEF TaskFrame
    <3>2. work[i].at # "none" /\ StatusAt(i)'
      BY <1>1, <2>7, TaskStanding
         DEF TaskEffect, Started, Yielded, Returned, Raised, Wrote, Broke, Interrupted
    <3>3. i \notin Range(queue) /\ \A n \in Nodes : i \notin Range(Carried(n))
      BY <3>2 DEF Placed
    <3>4. \A j \in Rows : j # i => StatusAt(j)'
      BY <1>1, <3>1 DEF StatusAt
    <3>5. \A n \in Nodes : Carried(n)' = Carried(n)
      BY <3>1, CarriedSame
    <3> QED
      BY <1>1, <3>1, <3>2, <3>3, <3>4, <3>5, StandingIs
  <2> QED
    BY <1>3, <2>1, <2>2, <2>3, <2>4, <2>5, <2>6, <2>7 DEF Effect, CreditsOut, Drained
<1>4. ASSUME NEW n \in Nodes, EvalFrame(n), EvalEffect(n) PROVE Standing'
  <2>0. \A m \in Nodes : m # n => Carried(m)' = Carried(m)
    BY <1>4, CarriedSame DEF EvalFrame
  <2>1. /\ Rows \subseteq Rows'
        /\ \A i \in Rows : \/ work'[i] = work[i]
                           \/ work[i].at = "none" /\ work'[i].at = "broken"
        /\ \A i \in Rows' \ Rows : work'[i] = NoWork
    BY <1>4, EvalWork
  <2>2. \A i \in Rows : \/ rows'[i].status = rows[i].status
                        \/ rows[i].status = "INCOMPLETE" /\ rows'[i].status = "QUEUED"
    BY <1>4 DEF EvalEffect, LookedUp, Opened, Inserted, OnlyRow, CompletedOne, CompletedStatic,
                CompletedOther, Readied, Passed, Failed, Over
  <2>3. \A i \in Rows : rows[i].status \in Owed => rows'[i].status \in Owed
    BY <2>2 DEF Owed
  <2>4. \A i \in Rows : work'[i].at = "broken" /\ work'[i] # work[i] =>
          rows[i].status \in Owed
    <3> SUFFICES ASSUME NEW i \in Rows, work'[i].at = "broken", work'[i] # work[i]
                 PROVE  rows[i].status \in Owed
      OBVIOUS
    <3>1. Failed(n) /\ i \in Range(eval[n].mine)
      BY <1>4 DEF EvalEffect, LookedUp, Opened, Inserted, OnlyRow, CompletedOne, CompletedStatic,
                  CompletedOther, Readied, Passed, Failed, Over
    <3>2. i \in Range(Carried(n))
      BY <3>1, NodeTyped, RangeOfConcat DEF Carried
    <3> QED
      BY <1>1, <3>2
  <2>5. ASSUME NEW i \in Rows PROVE StatusAt(i)'
    <3>1. CASE work'[i] = work[i] /\ rows'[i].status = rows[i].status
      BY <1>1, <3>1 DEF StatusAt
    <3>2. CASE work'[i] = work[i] /\ rows[i].status = "INCOMPLETE"
      <4>1. work[i].at = "none"
        BY <3>2, BegunRows
      <4> QED
        BY <3>2, <4>1 DEF StatusAt
    <3>3. CASE work'[i] # work[i]
      BY <2>1, <2>3, <2>4, <3>3 DEF StatusAt, Owed
    <3> QED
      BY <2>2, <3>1, <3>2, <3>3
  <2>6. ASSUME NEW i \in Rows' \ Rows PROVE StatusAt(i)'
    BY <2>1 DEF StatusAt, NoWork
  <2>7. /\ \A i \in Range(queue') : rows'[i].status \in Owed
        /\ \A i \in Range(Carried(n)') : rows'[i].status \in Owed
    <3>1. CASE KeepsCarried(n)
      BY <1>1, <2>3, <3>1 DEF KeepsCarried
    <3>2. ASSUME NEW i \in Rows, Carries(n, i) PROVE <2>7
      <4>1. /\ i \in Nat /\ Carried(n) \in Seq(Nat) /\ Carried(n)' = Append(Carried(n), i)
            /\ queue' = queue /\ rows'[i].status \in Owed
        BY <1>0, <3>2 DEF Carries, Readied, Owed
      <4>2. Range(Append(Carried(n), i)) = Range(Carried(n)) \cup {i}
        BY <4>1, RangeOfAppend
      <4> QED
        BY <1>1, <2>3, <4>1, <4>2
    <3>3. CASE DropsMine(n)
      BY <1>1, <2>3, <3>3 DEF DropsMine, Failed
    <3>4. CASE HandsOver(n)
      <4>1. Range(queue') = Range(queue) \cup Range(Carried(n))
        BY <1>0, <3>4, RangeOfConcat DEF HandsOver
      <4> QED
        BY <1>1, <2>3, <3>4, <4>1, RangeOfEmpty DEF HandsOver
    <3> QED
      BY <1>4, <3>1, <3>2, <3>3, <3>4, EvalCarries
  <2>8. \A m \in Nodes : \A i \in Range(Carried(m)') : rows'[i].status \in Owed
    BY <1>1, <2>0, <2>3, <2>7
  <2>9. \A i \in Rows' : StatusAt(i)'
    BY <2>5, <2>6
  <2> QED
    BY <2>7, <2>8, <2>9, StandingIs
<1> QED
  BY <1>3, <1>4

\* A live row waits in the queue or with an evaluation, or has a task.
Held(i) == i \in Range(queue) \/ \E n \in Nodes : i \in Range(Carried(n))
AtWork(i) == Busy(i) \/ work[i].at = "broken"

\* A final status but COMPLETED may be given to every live row.
LEMMA FinalIsNotLive ==
  \A s \in Statuses : Moved(s, "FAILED") \notin Live /\ Moved(s, "TERMINATED") \notin Live
<1>1. AllowedFrom("FAILED") = {"INCOMPLETE", "QUEUED", "RUNNING", "REVIEW"}
  BY DEF AllowedFrom
<1>2. AllowedFrom("TERMINATED") = {"INCOMPLETE", "QUEUED", "RUNNING", "REVIEW"}
  BY DEF AllowedFrom
<1> QED
  BY <1>1, <1>2 DEF Moved, Live, Statuses

LEMMA SettledKept ==
  ASSUME Typed, Typed', Known, LeftIdle, Evaluations, Placed, Standing, Standing', Settled, Effect
  PROVE  Settled'
<1>0. /\ Rows = 1..Len(rows) /\ Rows' = 1..Len(rows') /\ Len(rows) \in Nat /\ Len(rows') \in Nat
      /\ queue \in Seq(Nat) /\ \A n \in Nodes : Carried(n) \in Seq(Nat)
      /\ Len(rows') = Len(rows) => Rows' = Rows
      /\ \A i \in Rows : rows[i].status \in Statuses
  BY RowsAre, NodeTyped DEF RowType
<1>1. engine # "idle" => \A i \in Rows : rows[i].status \in Live => Held(i) \/ AtWork(i)
  BY DEF Settled, Held, AtWork
<1>2. SUFFICES ASSUME engine' # "idle", NEW i \in Rows', rows'[i].status \in Live
               PROVE  Held(i)' \/ AtWork(i)'
  BY DEF Settled, Held, AtWork
<1>3. ASSUME engine # "idle", rows' = rows, eval' = eval,
             \/ queue' = queue
             \/ /\ queue # <<>> /\ queue' = Tail(queue)
                /\ \E h \in Rows : h = Head(queue) /\ AtWork(h)',
             \A j \in Rows : AtWork(j) => AtWork(j)'
      PROVE  Held(i)' \/ AtWork(i)'
  <2>1. i \in Rows /\ rows[i].status \in Live
    BY <1>0, <1>2, <1>3
  <2>2. \A n \in Nodes : Carried(n)' = Carried(n)
    BY <1>3, CarriedSame
  <2>3. CASE queue' = queue
    BY <1>1, <1>3, <2>1, <2>2, <2>3 DEF Held
  <2>4. ASSUME NEW h \in Rows, h = Head(queue), AtWork(h)', queue # <<>>, queue' = Tail(queue)
        PROVE  Held(i)' \/ AtWork(i)'
    <3>1. Range(queue) = {h} \cup Range(queue')
      BY <1>0, <2>4, RangeOfTail
    <3>2. Held(i) \/ AtWork(i)
      BY <1>1, <1>3, <2>1
    <3> QED
      BY <1>3, <2>1, <2>2, <2>4, <3>1, <3>2 DEF Held
  <2> QED
    BY <1>3, <2>3, <2>4
<1>4. CASE Begun
  BY <1>0, <1>2, <1>4 DEF Begun, Held, Owed, Live
<1>5. CASE Dispatched
  <2> DEFINE h == Head(queue)
  <2>1. /\ rows' = rows /\ eval' = eval /\ queue # <<>> /\ queue' = Tail(queue) /\ engine # "idle"
        /\ work'[h].at = "start" /\ \A j \in Rows : j # h => work'[j] = work[j]
    BY <1>5 DEF Dispatched
  <2>2. h \in Range(queue)
    BY <1>0, <2>1, RangeOfTail
  <2>3. h \in Rows
    BY <2>2 DEF Known
  <2>4. PICK k \in Rows : k = h
    BY <2>3
  <2> HIDE DEF h
  <2>5. AtWork(k)' /\ \A j \in Rows : AtWork(j) => AtWork(j)'
    BY <2>1, <2>4 DEF AtWork, Busy
  <2> QED
    BY <1>3, <2>1, <2>4, <2>5 DEF h
<1>6. ASSUME NEW to \in {"FAILED", "TERMINATED"}, Closed(to), engine # "idle"
      PROVE  Held(i)' \/ AtWork(i)'
  <2> DEFINE h == Head(queue)
  <2>1. /\ queue' = Tail(queue) /\ queue # <<>> /\ eval' = eval /\ work' = work
        /\ Rows' = Rows /\ \A j \in Rows : j # h => rows'[j] = rows[j]
        /\ rows'[h].status = Moved(rows[h].status, to)
    BY <1>0, <1>6 DEF Closed
  <2>2. Range(queue) = {h} \cup Range(Tail(queue)) /\ h \in Rows
    BY <1>0, <2>1, RangeOfTail DEF Known
  <2> HIDE DEF h
  <2>3. rows'[h].status \notin Live
    <3>1. rows[h].status \in Statuses
      BY <1>0, <2>2
    <3> QED
      BY <2>1, <3>1, FinalIsNotLive
  <2>4. i # h /\ rows[i].status \in Live /\ i \in Rows
    BY <1>2, <2>1, <2>3
  <2>5. Held(i) \/ AtWork(i)
    BY <1>1, <1>6, <2>4
  <2>6. \A n \in Nodes : Carried(n)' = Carried(n)
    BY <2>1, CarriedSame
  <2> QED
    BY <2>1, <2>2, <2>4, <2>5, <2>6 DEF Held, AtWork, Busy
<1>7. CASE CreditsOut
  BY <1>6, <1>7 DEF CreditsOut
<1>8. CASE Drained
  <2>1. verdict \in {"FAILED", "TERMINATED"}
    BY <1>8 DEF Drained, Closed, LeftIdle, Leaving, Terminal
  <2> QED
    BY <1>6, <1>8, <2>1 DEF Drained
<1>9. CASE Stopped \/ EngineMoves
  <2>1. /\ queue' = queue /\ rows' = rows /\ eval' = eval /\ engine # "idle"
        /\ \A j \in Rows : work'[j].at = work[j].at
    BY <1>2, <1>9 DEF Stopped, EngineMoves, LoopEnds, PollEnds, Judge, RunOver, Cancel, vars, volatile
  <2> QED
    BY <1>3, <2>1 DEF AtWork, Busy
<1>10. CASE Died
  BY <1>2, <1>10 DEF Died
<1>11. ASSUME NEW n \in Nodes, Visited(n) PROVE Held(i)' \/ AtWork(i)'
  <2>1. queue' = queue /\ rows' = rows /\ engine # "idle" /\ ~Evaluating(n)
        /\ \A m \in Nodes : m # n => eval'[m] = eval[m]
    BY <1>11 DEF Visited
  <2>2. \A j \in Rows : work'[j].at = work[j].at
    <3>1. CASE work' = work
      BY <3>1
    <3>2. ASSUME NEW j, work'[j].at = work[j].at, \A k \in Rows : k # j => work'[k] = work[k]
          PROVE  <2>2
      BY <3>2
    <3> QED
      BY <1>11, <3>1, <3>2 DEF Visited
  <2>3. \A m \in Nodes : m = n \/ Carried(m)' = Carried(m)
    BY <2>1, CarriedSame
  <2>4. Range(Carried(n)) = {}
    BY <2>1, NothingCarried, RangeOfEmpty
  <2>5. i \in Rows /\ rows[i].status \in Live
    BY <1>0, <1>2, <2>1
  <2> QED
    BY <1>1, <2>1, <2>2, <2>3, <2>4, <2>5 DEF Held, AtWork, Busy
<1>12. ASSUME NEW n \in Nodes, EvalFrame(n), EvalEffect(n) PROVE Held(i)' \/ AtWork(i)'
  <2>0. \A m \in Nodes : m # n => Carried(m)' = Carried(m)
    BY <1>12, CarriedSame DEF EvalFrame
  <2>1. engine # "idle"
    BY <1>2, <1>12 DEF EvalFrame
  <2>2. /\ Rows \subseteq Rows'
        /\ \A j \in Rows : \/ work'[j] = work[j]
                           \/ work[j].at = "none" /\ work'[j].at = "broken"
    BY <1>12, EvalWork
  <2>3. \A j \in Rows : AtWork(j) => AtWork(j)'
    BY <2>2 DEF AtWork, Busy
  <2>4. CASE i \notin Rows
    <3>1. CASE Opened(n)
      <4>1. i = Len(rows) + 1
        BY <1>0, <1>2, <2>4, <3>1 DEF Opened
      <4> QED
        BY <1>2, <3>1, <4>1 DEF Opened, Live
    <3>2. CASE ~Opened(n)
      <4>1. Len(rows') = Len(rows)
        BY <1>12, <3>2 DEF EvalEffect, LookedUp, Inserted, OnlyRow, CompletedOne,
           CompletedStatic, CompletedOther, Readied, Passed, Failed, Over
      <4> QED
        BY <1>0, <1>2, <2>4, <4>1
    <3> QED
      BY <3>1, <3>2
  <2>5. CASE i \in Rows
    <3>1. \/ rows[i].status \in Live
          \/ Readied(n, i) /\ (CompletedOne(n) \/ CompletedStatic(n) \/ CompletedOther(n))
      <4>1. CASE rows'[i].status = rows[i].status
        BY <1>2, <4>1
      <4>2. CASE rows'[i].status # rows[i].status
        <5>1. CompletedOne(n) \/ CompletedStatic(n) \/ CompletedOther(n)
          BY <1>12, <2>5, <4>2 DEF EvalEffect, LookedUp, Opened, Inserted, OnlyRow, Passed, Failed, Over
        <5>2. PICK j \in Rows : Readied(n, j)
          BY <5>1 DEF CompletedOne, CompletedStatic, CompletedOther, Readied, OnlyRow
        <5>3. i = j
          BY <2>5, <4>2, <5>2 DEF Readied, OnlyRow
        <5> QED
          BY <5>1, <5>2, <5>3
      <4> QED
        BY <4>1, <4>2
    <3>2. CASE KeepsCarried(n) /\ ~CompletedOne(n) /\ ~CompletedStatic(n) /\ ~CompletedOther(n)
      <4>1. rows[i].status \in Live
        BY <3>1, <3>2
      <4> QED
        BY <1>1, <2>0, <2>1, <2>3, <2>5, <3>2, <4>1 DEF KeepsCarried, Held
    <3>3. ASSUME NEW j \in Rows, Carries(n, j) PROVE Held(i)' \/ AtWork(i)'
      <4>1. /\ j \in Nat /\ Carried(n) \in Seq(Nat) /\ Carried(n)' = Append(Carried(n), j)
            /\ queue' = queue /\ \A k \in Rows : k # j => rows'[k] = rows[k]
        BY <1>0, <3>3 DEF Carries, Readied, OnlyRow
      <4>2. Range(Append(Carried(n), j)) = Range(Carried(n)) \cup {j}
        BY <4>1, RangeOfAppend
      <4>3. CASE i = j
        BY <4>1, <4>2, <4>3 DEF Held
      <4>4. CASE i # j
        <5>1. rows[i].status \in Live
          BY <1>2, <2>5, <4>1, <4>4
        <5> QED
          BY <1>1, <2>0, <2>1, <2>3, <2>5, <4>1, <4>2, <5>1 DEF Held
      <4> QED
        BY <4>3, <4>4
    <3>4. CASE DropsMine(n)
      <4>1. /\ rows' = rows /\ queue' = queue /\ Carried(n)' = eval[n].found
            /\ Range(Carried(n)) = Range(eval[n].found) \cup Range(eval[n].mine)
            /\ \A j \in Rows : j \in Range(eval[n].mine) => work'[j].at = "broken"
        BY <3>4 DEF DropsMine, Failed
      <4>2. Held(i) \/ AtWork(i)
        BY <1>1, <1>2, <2>1, <2>5, <4>1
      <4> QED
        BY <2>0, <2>3, <2>5, <4>1, <4>2 DEF Held, AtWork
    <3>5. CASE HandsOver(n)
      <4>1. Range(queue') = Range(queue) \cup Range(Carried(n)) /\ rows' = rows
        BY <1>0, <3>5, RangeOfConcat DEF HandsOver, Over
      <4>2. Held(i) \/ AtWork(i)
        BY <1>1, <1>2, <2>1, <2>5, <4>1
      <4> QED
        BY <2>0, <2>3, <2>5, <4>1, <4>2 DEF Held
    <3> QED
      BY <1>12, <3>2, <3>3, <3>4, <3>5, EvalCarries
  <2> QED
    BY <2>4, <2>5
<1>13. ASSUME NEW j \in Rows, TaskFrame(j), TaskEffect(j) PROVE Held(i)' \/ AtWork(i)'
  <2>1. /\ queue' = queue /\ Rows' = Rows /\ eval' = eval /\ engine # "idle"
        /\ \A k \in Rows : k # j => work'[k] = work[k] /\ rows'[k] = rows[k]
    BY <1>0, <1>2, <1>13 DEF TaskFrame
  <2>2. CASE i = j
    <3>1. work'[i].at \in {"run", "write", "broken", "over"}
      BY <1>13, <2>2 DEF TaskEffect, Started, Yielded, Returned, Raised, Wrote, Broke, Interrupted
    <3>2. work'[i].at # "over"
      BY <1>2, <2>1 DEF Standing
    <3> QED
      BY <3>1, <3>2 DEF AtWork, Busy
  <2>3. CASE i # j
    <3>1. rows[i].status \in Live /\ work'[i] = work[i]
      BY <1>2, <2>1, <2>3
    <3>2. \A n \in Nodes : Carried(n)' = Carried(n)
      BY <2>1, CarriedSame
    <3> QED
      BY <1>1, <1>2, <2>1, <3>1, <3>2 DEF Held, AtWork, Busy
  <2> QED
    BY <2>2, <2>3
<1> QED
  BY <1>4, <1>5, <1>7, <1>8, <1>9, <1>10, <1>11, <1>12, <1>13 DEF Effect

(***************************************************************************)
(* What rows, tasks and evaluations hold.                                  *)
(***************************************************************************)

\* Inputs lie on pins of the row's node, and come from rows.
Fits(i) == /\ DOMAIN rows[i].in \subseteq Pins(rows[i].node)
           /\ \A p \in DOMAIN rows[i].in : rows[i].in[p].row \in Rows
Filling == \A i \in Rows : Fits(i)

\* A task has yielded some of its outputs, and left some of them for the engine.
Yielding ==
  \A i \in Rows : /\ work[i].sent <= Len(graph.yields[rows[i].node])
                  /\ Range(work[i].out) \subseteq 1..ErrorOutput(i)

\* An evaluation is of an output of a row, and of a node whose tasks are not done.
Carrying ==
  \A n \in Nodes : /\ Evaluating(n) => eval[n].val.row \in Rows
                   /\ eval[n].at # "none" => tasks[n] # <<>> \/ Leaving

LEMMA GraphSame ==
  ASSUME Typed, Typed', Effect
  PROVE  /\ graph' = graph /\ Rows \subseteq Rows'
         /\ \A n \in Nodes : Pins(n)' = Pins(n) /\ StaticPins(n)' = StaticPins(n)
         /\ \A i \in Rows : rows'[i].node = rows[i].node /\ ErrorOutput(i)' = ErrorOutput(i)
<1>0. /\ Rows = 1..Len(rows) /\ Rows' = 1..Len(rows') /\ Len(rows) \in Nat /\ Len(rows') \in Nat
  BY RowsAre
<1>1. CASE Begun \/ Dispatched \/ Stopped \/ EngineMoves \/ Died \/ \E n \in Nodes : Visited(n)
  <2>1. graph' = graph /\ rows' = rows
    BY <1>1 DEF Begun, Dispatched, Stopped, EngineMoves, LoopEnds, PollEnds, Judge, RunOver,
                Cancel, vars, volatile, Died, Visited
  <2> QED
    BY <2>1 DEF Pins, StaticPins, ErrorOutput, Rows
<1>2. ASSUME graph' = graph, Len(rows') >= Len(rows), \A i \in Rows : rows'[i].node = rows[i].node
      PROVE  /\ graph' = graph /\ Rows \subseteq Rows'
             /\ \A n \in Nodes : Pins(n)' = Pins(n) /\ StaticPins(n)' = StaticPins(n)
             /\ \A i \in Rows : rows'[i].node = rows[i].node /\ ErrorOutput(i)' = ErrorOutput(i)
  BY <1>0, <1>2 DEF Pins, StaticPins, ErrorOutput
<1>3. ASSUME NEW to, Closed(to)
      PROVE  /\ graph' = graph /\ Len(rows') = Len(rows)
             /\ \A i \in Rows : rows'[i].node = rows[i].node
  BY <1>3 DEF Closed
<1>4. ASSUME NEW n \in Nodes, EvalFrame(n)
      PROVE  /\ graph' = graph /\ Len(rows') >= Len(rows)
             /\ \A i \in Rows : rows'[i].node = rows[i].node
  BY <1>4 DEF EvalFrame
<1>5. ASSUME NEW i \in Rows, TaskFrame(i)
      PROVE  /\ graph' = graph /\ Len(rows') = Len(rows)
             /\ \A j \in Rows : rows'[j].node = rows[j].node
  BY <1>5 DEF TaskFrame
<1> QED
  BY <1>0, <1>1, <1>2, <1>3, <1>4, <1>5 DEF Effect, CreditsOut, Drained

\* How the inputs of the rows change.
SameInputs == Rows' = Rows /\ \A i \in Rows : rows'[i].in = rows[i].in

LEMMA InputsMove ==
  ASSUME Typed, Typed', Known, Standing, Effect
  PROVE  \/ SameInputs
         \/ \E n \in Nodes : /\ EvalFrame(n) /\ EvalEffect(n)
                             /\ \/ Opened(n) \/ Inserted(n)
                                \/ \E i \in Rows : Readied(n, i) /\ Inside(n)
<1>0. Len(rows') = Len(rows) => Rows' = Rows
  BY RowsAre
<1>1. CASE ~ \E m \in Nodes : EvalFrame(m) /\ EvalEffect(m)
  BY <1>1, OthersLeaveRows DEF SameInputs
<1>2. ASSUME NEW n \in Nodes, EvalFrame(n), EvalEffect(n)
      PROVE  SameInputs \/ Opened(n) \/ Inserted(n) \/ \E i \in Rows : Readied(n, i) /\ Inside(n)
  <2>1. CASE LookedUp(n) \/ Passed(n) \/ Failed(n) \/ Over(n)
    <3>1. rows' = rows
      BY <2>1 DEF LookedUp, Passed, Failed, Over
    <3> QED
      BY <1>0, <3>1 DEF SameInputs
  <2>2. CASE CompletedOne(n) \/ CompletedStatic(n) \/ CompletedOther(n)
    BY <2>2 DEF CompletedOne, CompletedStatic, CompletedOther, Readied, OnlyRow, Inside
  <2> QED
    BY <1>2, <2>1, <2>2 DEF EvalEffect
<1> QED
  BY <1>1, <1>2

\* The value that an evaluation carries is put on the link's pin of row k.
Put(n, k) ==
  /\ k \in Rows' /\ k = eval'[n].row /\ rows'[k].node = Link(n).to
  /\ Link(n).pin \in DOMAIN rows'[k].in /\ rows'[k].in[Link(n).pin] = eval[n].val
  /\ \A j \in Rows' : j # k => j \in Rows /\ rows'[j] = rows[j]
  /\ k \in Rows => /\ k = eval[n].row /\ rows'[k].status = rows[k].status
                   /\ DOMAIN rows'[k].in = DOMAIN rows[k].in \cup {Link(n).pin}
                   /\ \A q \in DOMAIN rows[k].in : q # Link(n).pin => rows'[k].in[q] = rows[k].in[q]
  /\ k \notin Rows => /\ k = Len(rows) + 1 /\ eval[n].row = 0 /\ rows'[k].status = "INCOMPLETE"
                      /\ DOMAIN rows'[k].in = {Link(n).pin}

LEMMA InsertPuts ==
  ASSUME Typed, Typed', Evaluations, NEW n \in Nodes, EvalFrame(n), Opened(n) \/ Inserted(n)
  PROVE  Put(n, eval'[n].row)
<1>0. /\ Rows = 1..Len(rows) /\ Rows' = 1..Len(rows') /\ Len(rows) \in Nat /\ Len(rows') \in Nat
      /\ \A i \in Rows : rows[i] \in RowType
  BY RowsAre
<1> DEFINE p == Link(n).pin
           v == eval[n].val
           to == Link(n).to
<1>1. to \in Nodes /\ p \in STRING
  <2>1. eval[n].todo # {} /\ eval[n].todo \subseteq DOMAIN graph.links
    BY DEF Evaluations, Opened, Inserted, Inside
  <2> QED
    BY <2>1, LinkTyped
<1>2. v \in Output
  BY DEF Typed, EvalType
<1>3. CASE Opened(n)
  <2> DEFINE k == Len(rows) + 1
             e == <<>>
             in == With(e, p, v)
  <2>1. /\ rows'[k] = [node |-> to, status |-> "INCOMPLETE", in |-> in, at |-> 0]
        /\ Len(rows') = Len(rows) + 1 /\ \A j \in Rows : rows'[j] = rows[j]
        /\ eval'[n].row = k /\ eval[n].row = 0
    BY <1>3 DEF Opened
  <2>2. e \in Inputs /\ DOMAIN e = {}
    BY NoInputs
  <2> HIDE DEF e, p, v
  <2>3. DOMAIN in = {p} /\ in[p] = v
    <3>1. DOMAIN in = DOMAIN e \cup {p} /\ in[p] = v
      BY <1>1, <1>2, <2>2, AddsInput
    <3> QED
      BY <2>2, <3>1
  <2> HIDE DEF in, to
  <2>4. rows'[k].node = to /\ rows'[k].in = in /\ rows'[k].status = "INCOMPLETE"
    BY <2>1
  <2>5. \A j \in Rows' : j # k => j \in Rows
    BY <1>0, <2>1
  <2>6. k \in Rows' /\ k \notin Rows
    BY <1>0, <2>1
  <2> HIDE DEF k
  <2>7. Put(n, k)
    BY <2>1, <2>3, <2>4, <2>5, <2>6 DEF Put, p, v, to, k
  <2> QED
    BY <2>1, <2>7
<1>4. CASE Inserted(n)
  <2> DEFINE k == eval[n].row
             e == rows[k].in
             in == With(e, p, v)
  <2>1. /\ k \in Rows /\ rows'[k].in = in /\ Len(rows') = Len(rows)
        /\ rows'[k].status = rows[k].status /\ eval'[n].row = k
        /\ \A j \in Rows : j # k => rows'[j] = rows[j]
    BY <1>4 DEF Inserted, OnlyRow, SameRow
  <2>2. rows'[k].node = to
    <3>1. rows[k].node = to
      BY <1>4, <2>1 DEF Inserted, Evaluations, Inside
    <3> QED
      BY <2>1, <3>1 DEF EvalFrame
  <2>3. e \in Inputs
    BY <1>0, <2>1 DEF RowType
  <2> HIDE DEF e, p, v
  <2>4. /\ DOMAIN in = DOMAIN e \cup {p} /\ in[p] = v
        /\ \A q \in DOMAIN e : q # p => in[q] = e[q]
    BY <1>1, <1>2, <2>3, AddsInput
  <2> HIDE DEF in, to, k
  <2>5. Rows' = Rows
    BY <1>0, <2>1
  <2>6. Put(n, k)
    BY <2>1, <2>2, <2>4, <2>5 DEF Put, p, v, to, k, e
  <2> QED
    BY <2>1, <2>6
<1> QED
  BY <1>3, <1>4

LEMMA FillingKept ==
  ASSUME Typed, Typed', Known, Standing, Evaluations, Carrying, Filling, Effect
  PROVE  Filling'
<1>0. /\ Rows = 1..Len(rows) /\ Rows' = 1..Len(rows') /\ Len(rows) \in Nat /\ Len(rows') \in Nat
      /\ \A i \in Rows : rows[i] \in RowType
  BY RowsAre
<1>1. /\ graph' = graph /\ Rows \subseteq Rows'
      /\ \A n \in Nodes : Pins(n)' = Pins(n) /\ StaticPins(n)' = StaticPins(n)
      /\ \A i \in Rows : rows'[i].node = rows[i].node
  BY GraphSame
<1>2. ASSUME NEW i \in Rows', DOMAIN rows'[i].in \subseteq Pins(rows'[i].node),
             \A p \in DOMAIN rows'[i].in : rows'[i].in[p].row \in Rows
      PROVE  Fits(i)'
  BY <1>1, <1>2 DEF Fits, Pins
<1>3. ASSUME NEW i \in Rows, rows'[i].in = rows[i].in PROVE Fits(i)'
  BY <1>1, <1>2, <1>3 DEF Filling, Fits
<1>4. CASE SameInputs
  BY <1>3, <1>4 DEF SameInputs, Filling
<1>5. ASSUME NEW n \in Nodes, EvalFrame(n), Opened(n) \/ Inserted(n)
      PROVE  Filling'
  <2> DEFINE k == eval'[n].row
             p == Link(n).pin
  <2>1. Put(n, k)
    BY <1>5, InsertPuts
  <2>2. p \in Pins(Link(n).to)
    <3>1. eval[n].todo # {} /\ eval[n].todo \subseteq DOMAIN graph.links
      BY <1>5 DEF Evaluations, Opened, Inserted, Inside
    <3> QED
      BY <3>1, LinkTyped
  <2>3. eval[n].val.row \in Rows
    BY <1>5 DEF Carrying, Opened, Inserted, Evaluating
  <2> HIDE DEF k
  <2>4. CASE k \in Rows
    <3>1. /\ DOMAIN rows[k].in \subseteq Pins(rows[k].node)
          /\ \A q \in DOMAIN rows[k].in : rows[k].in[q].row \in Rows
      BY <2>4 DEF Filling, Fits
    <3>2. rows'[k].node = rows[k].node /\ rows'[k].node = Link(n).to
      BY <1>1, <2>1, <2>4 DEF Put
    <3>3. DOMAIN rows'[k].in \subseteq Pins(rows'[k].node)
      BY <2>1, <2>2, <2>4, <3>1, <3>2 DEF Put
    <3>4. \A q \in DOMAIN rows'[k].in : rows'[k].in[q].row \in Rows
      BY <2>1, <2>3, <2>4, <3>1 DEF Put
    <3>5. k \in Rows'
      BY <2>1 DEF Put
    <3> QED
      BY <1>2, <1>3, <2>1, <3>3, <3>4, <3>5 DEF Put, Filling
  <2>5. CASE k \notin Rows
    <3>1. DOMAIN rows'[k].in \subseteq Pins(rows'[k].node)
      BY <2>1, <2>2, <2>5 DEF Put
    <3>2. \A q \in DOMAIN rows'[k].in : rows'[k].in[q].row \in Rows
      BY <2>1, <2>3, <2>5 DEF Put
    <3>3. k \in Rows'
      BY <2>1 DEF Put
    <3> QED
      BY <1>2, <1>3, <2>1, <3>1, <3>2, <3>3 DEF Put, Filling
  <2> QED
    BY <2>4, <2>5
<1>6. ASSUME NEW n \in Nodes, NEW i \in Rows, Readied(n, i), Inside(n)
      PROVE  Filling'
  <2> DEFINE in == rows[i].in
             in1 == rows'[i].in
             sink == Link(n).to
  <2>1. /\ Len(rows') = Len(rows) /\ \A j \in Rows : j # i => rows'[j] = rows[j]
        /\ rows[i].node = sink
        /\ DOMAIN in1 \subseteq DOMAIN in \cup StaticPins(sink)
        /\ \A p \in DOMAIN in : in1[p] = in[p]
        /\ \A p \in DOMAIN in1 \ DOMAIN in : \E j \in Rows : /\ p \in DOMAIN rows[j].in
                                                             /\ in1[p] = rows[j].in[p]
    BY <1>6 DEF Readied, OnlyRow
  <2>2. sink \in Nodes
    BY <1>0, <2>1 DEF RowType
  <2> HIDE DEF sink
  <2>3. StaticPins(sink) \subseteq Pins(sink)
    BY <2>2, PinsTyped
  <2>4. DOMAIN in \subseteq Pins(sink) /\ \A p \in DOMAIN in : in[p].row \in Rows
    BY <2>1 DEF Filling, Fits
  <2>5. \A j \in Rows : \A p \in DOMAIN rows[j].in : rows[j].in[p].row \in Rows
    BY DEF Filling, Fits
  <2>6. rows'[i].node = sink
    BY <1>1, <2>1
  <2> HIDE DEF in
  <2> HIDE DEF in1
  <2>7. DOMAIN in1 \subseteq Pins(sink) /\ \A p \in DOMAIN in1 : in1[p].row \in Rows
    BY <2>1, <2>3, <2>4, <2>5
  <2>8. Rows' = Rows
    BY <1>0, <2>1
  <2>9. Fits(i)'
    BY <1>2, <2>6, <2>7, <2>8 DEF in1
  <2> QED
    BY <1>3, <2>1, <2>8, <2>9 DEF Filling
<1> QED
  BY <1>4, <1>5, <1>6, InputsMove

\* Yielding, of one row.
YieldsOf(i) == /\ work[i].sent <= Len(graph.yields[rows[i].node])
               /\ Range(work[i].out) \subseteq 1..ErrorOutput(i)

\* The first outputs left, and those left when one more is handed over or one is read.
LEMMA YieldingKept ==
  ASSUME Typed, Typed', Known, Placed, Standing, Yielding, Effect
  PROVE  Yielding'
<1>0. /\ Rows = 1..Len(rows) /\ Rows' = 1..Len(rows') /\ Len(rows) \in Nat /\ Len(rows') \in Nat
      /\ Len(rows') = Len(rows) => Rows' = Rows
      /\ \A i \in Rows : work[i] \in WorkType /\ rows[i] \in RowType
      /\ \A i \in Rows' : rows'[i] \in RowType
  BY RowsAre
<1>1. /\ graph' = graph /\ Rows \subseteq Rows'
      /\ \A i \in Rows : rows'[i].node = rows[i].node /\ ErrorOutput(i)' = ErrorOutput(i)
  BY GraphSame
<1>2. \A i \in Rows : YieldsOf(i)
  BY DEF Yielding, YieldsOf
<1>3. ASSUME NEW i \in Rows, work'[i].sent = work[i].sent, work'[i].out = work[i].out
      PROVE  YieldsOf(i)'
  BY <1>1, <1>2, <1>3 DEF YieldsOf
<1>4. \A i \in Rows' : Len(graph.yields[rows'[i].node]) \in Nat
  <2> TAKE i \in Rows'
  <2>1. rows'[i].node \in Nodes
    BY <1>0 DEF RowType
  <2>2. graph.yields[rows'[i].node] \in Seq(STRING)
    BY <2>1, EngineConstants DEF Typed, IsShape
  <2> QED
    BY <2>2
<1>5. ASSUME NEW i \in Rows', work'[i].sent = 0, work'[i].out = <<>> PROVE YieldsOf(i)'
  BY <1>1, <1>4, <1>5, RangeOfEmpty DEF YieldsOf
<1>6. SUFFICES \A i \in Rows' : YieldsOf(i)'
  BY DEF Yielding, YieldsOf
<1>7. CASE Begun \/ CreditsOut \/ Drained \/ EngineMoves
  <2>1. Len(rows') = Len(rows) /\ work' = work
    BY <1>7 DEF Begun, CreditsOut, Drained, Closed, EngineMoves, LoopEnds, PollEnds, Judge, RunOver,
                Cancel, vars, volatile
  <2> QED
    BY <1>0, <1>3, <2>1
<1>8. CASE Dispatched
  <2> DEFINE h == Head(queue)
  <2>1. /\ Rows' = Rows /\ work'[h].sent = 0 /\ work'[h].out = <<>>
        /\ \A j \in Rows : j # h => work'[j] = work[j]
    BY <1>8 DEF Dispatched, Rows
  <2> HIDE DEF h
  <2> QED
    BY <1>3, <1>5, <2>1
<1>9. CASE Stopped
  <2>1. Rows' = Rows /\ \A i \in Rows : work'[i].sent = work[i].sent /\ work'[i].out = <<>>
    BY <1>9 DEF Stopped, Rows
  <2> QED
    BY <1>1, <1>2, <2>1, RangeOfEmpty DEF YieldsOf
<1>10. CASE Died
  <2>1. Rows' = Rows /\ \A i \in Rows : work'[i].sent = 0 /\ work'[i].out = <<>>
    BY <1>10 DEF Died, Rows, NoWork
  <2> QED
    BY <1>5, <2>1
<1>11. ASSUME NEW n \in Nodes, Visited(n) PROVE \A i \in Rows' : YieldsOf(i)'
  <2>1. Rows' = Rows
    BY <1>11 DEF Visited, Rows
  <2>2. CASE work' = work
    BY <1>3, <2>1, <2>2
  <2>3. ASSUME NEW i \in Range(tasks'[n]), work[i].out # <<>>, work'[i].sent = work[i].sent,
               work'[i].out = Tail(work[i].out), \A j \in Rows : j # i => work'[j] = work[j]
        PROVE  \A j \in Rows' : YieldsOf(j)'
    <3>1. i \in Rows
      BY <1>11 DEF Visited, Known, Of
    <3>2. work[i].out \in Seq(Nat)
      BY <1>0, <3>1 DEF WorkType
    <3>3. Range(Tail(work[i].out)) \subseteq Range(work[i].out)
      BY <2>3, <3>2, RangeOfTail
    <3>4. YieldsOf(i)'
      BY <1>1, <1>2, <2>3, <3>1, <3>3 DEF YieldsOf
    <3> QED
      BY <1>3, <2>1, <2>3, <3>4
  <2> QED
    BY <1>11, <2>2, <2>3 DEF Visited
<1>12. ASSUME NEW n \in Nodes, EvalFrame(n), EvalEffect(n) PROVE \A i \in Rows' : YieldsOf(i)'
  <2>1. /\ \A i \in Rows : work'[i].sent = work[i].sent /\ work'[i].out = work[i].out
        /\ \A i \in Rows' \ Rows : work'[i] = NoWork
    BY <1>12, EvalWork
  <2>2. \A i \in Rows' \ Rows : work'[i].sent = 0 /\ work'[i].out = <<>>
    BY <2>1 DEF NoWork
  <2> QED
    BY <1>3, <1>5, <2>1, <2>2
<1>13. ASSUME NEW i \in Rows, TaskFrame(i), TaskEffect(i) PROVE \A j \in Rows' : YieldsOf(j)'
  <2>1. Rows' = Rows /\ \A j \in Rows : j # i => work'[j] = work[j]
    BY <1>0, <1>13 DEF TaskFrame
  <2> DEFINE y == Len(graph.yields[rows[i].node])
             s == work[i].sent
             o == work[i].out
  <2>2. /\ y \in Nat /\ s \in Nat /\ o \in Seq(Nat) /\ s <= y /\ ErrorOutput(i) = 1 + y
        /\ Range(o) \subseteq 1..(1 + y)
    BY <1>0, <1>2, RowTyped DEF YieldsOf, WorkType, ErrorOutput
  <2>3. \/ work'[i].sent = s /\ work'[i].out = o
        \/ work'[i].sent = s /\ work'[i].out = Append(o, 1 + y)
        \/ s < y /\ work'[i].sent = s + 1 /\ (work'[i].out = Append(o, s + 1) \/ work'[i].out = o)
    BY <1>13, <2>2 DEF TaskEffect, Started, Yielded, Returned, Raised, Wrote, Broke, Interrupted,
                       SameOut, Reported
  <2> HIDE DEF s, o
  <2>4. work'[i].sent <= y /\ Range(work'[i].out) \subseteq 1..(1 + y)
    <3>1. \A k \in Nat : Range(Append(o, k)) = Range(o) \cup {k}
      BY <2>2, RangeOfAppend
    <3> HIDE DEF y
    <3>2. CASE work'[i].sent = s /\ work'[i].out = o
      BY <2>2, <3>2
    <3>3. CASE work'[i].sent = s /\ work'[i].out = Append(o, 1 + y)
      <4>1. Range(Append(o, 1 + y)) = Range(o) \cup {1 + y}
        BY <2>2, <3>1
      <4> QED
        BY <2>2, <3>3, <4>1
    <3>4. CASE s < y /\ work'[i].sent = s + 1 /\ (work'[i].out = Append(o, s + 1) \/ work'[i].out = o)
      <4>1. Range(Append(o, s + 1)) = Range(o) \cup {s + 1}
        BY <2>2, <3>1
      <4>2. s + 1 \in 1..(1 + y) /\ s + 1 <= y
        BY <2>2, <3>4
      <4>3. Range(work'[i].out) \subseteq Range(o) \cup {s + 1}
        BY <3>4, <4>1
      <4> QED
        BY <2>2, <3>4, <4>2, <4>3
    <3> QED
      BY <2>3, <3>2, <3>3, <3>4
  <2>5. YieldsOf(i)'
    BY <1>1, <2>2, <2>4 DEF YieldsOf
  <2> QED
    BY <1>3, <2>1, <2>5
<1> QED
  BY <1>7, <1>8, <1>9, <1>10, <1>11, <1>12, <1>13 DEF Effect

LEMMA CarryingKept ==
  ASSUME Typed, Typed', Known, Tracked, Carrying, Effect
  PROVE  Carrying'
<1>0. /\ Len(rows') = Len(rows) => Rows' = Rows
      /\ \A i \in Rows : rows[i] \in RowType
  BY RowsAre
<1>1. Rows \subseteq Rows'
  BY GraphSame
<1>2. ASSUME eval' = eval, \A n \in Nodes : tasks[n] # <<>> => tasks'[n] # <<>> \/ Leaving',
             Leaving => Leaving'
      PROVE  Carrying'
  BY <1>1, <1>2 DEF Carrying, Evaluating
<1>3. CASE Begun \/ CreditsOut \/ Drained \/ EngineMoves
  <2>1. UNCHANGED <<eval, tasks>> /\ (Leaving => Leaving')
    BY <1>3 DEF Begun, CreditsOut, Drained, Closed, EngineMoves, LoopEnds, PollEnds, Judge, RunOver,
                Cancel, vars, volatile, Leaving
  <2> QED
    BY <1>2, <2>1
<1>4. CASE Dispatched
  <2> DEFINE h == Head(queue)
  <2>1. /\ eval' = eval /\ ~Leaving
        /\ tasks'[rows[h].node] = Append(tasks[rows[h].node], h)
        /\ \A n \in Nodes : n # rows[h].node => tasks'[n] = tasks[n]
    BY <1>4 DEF Dispatched, Leaving
  <2>2. h \in Rows /\ h \in Nat
    BY <1>4, NodeTyped, RangeOfTail DEF Dispatched, Known
  <2> HIDE DEF h
  <2>3. rows[h].node \in Nodes
    BY <1>0, <2>2 DEF RowType
  <2>4. tasks[rows[h].node] \in Seq(Nat)
    BY <2>3, NodeTyped
  <2>5. tasks'[rows[h].node] # <<>>
    BY <2>1, <2>2, <2>4
  <2> QED
    BY <1>2, <2>1, <2>5
<1>5. CASE Stopped
  BY <1>2, <1>5 DEF Stopped, Leaving
<1>6. CASE Died
  BY <1>6, NoEvalIs DEF Died, Carrying, Evaluating
<1>7. ASSUME NEW n \in Nodes, Visited(n) PROVE Carrying'
  <2>1. /\ rows' = rows /\ engine' = engine
        /\ \A m \in Nodes : m # n => tasks'[m] = tasks[m] /\ eval'[m] = eval[m]
    BY <1>7 DEF Visited
  <2>2. Range(tasks'[n]) \subseteq Rows
    <3>1. Range(tasks[n]) \subseteq Of(n) /\ Range(tasks'[n]) \subseteq Range(tasks[n])
      BY <1>7 DEF Visited, Known
    <3> QED
      BY <3>1 DEF Of
  <2>3. ASSUME eval'[n].at # "none"
        PROVE  tasks'[n] # <<>> /\ eval'[n].val.row \in Rows
    <3>1. PICK i \in Range(tasks'[n]) : /\ tasks'[n] # <<>>
                                       /\ eval'[n].val = [row |-> i, k |-> Head(work[i].out)]
      BY <1>7, <2>3 DEF Visited
    <3> DEFINE k == Head(work[i].out)
    <3> HIDE DEF k
    <3>2. eval'[n].val = [row |-> i, k |-> k]
      BY <3>1 DEF k
    <3>3. eval'[n].val.row = i
      BY <3>2
    <3> QED
      BY <2>2, <3>1, <3>3
  <2> QED
    BY <1>1, <2>1, <2>3 DEF Carrying, Evaluating, Leaving
<1>8. ASSUME NEW n \in Nodes, EvalFrame(n), EvalEffect(n) PROVE Carrying'
  <2>1. /\ \A m \in Nodes : m # n => eval'[m] = eval[m]
        /\ tasks' = tasks /\ engine' = engine
    BY <1>8 DEF EvalFrame
  <2>2. /\ Evaluating(n) /\ (Evaluating(n)' => eval'[n].val = eval[n].val)
    BY <1>8 DEF EvalEffect, LookedUp, Opened, Inserted, CompletedOne, CompletedStatic,
       CompletedOther, Passed, Failed, Over, Evaluating, SameLink, NewLink
  <2> QED
    BY <1>1, <2>1, <2>2 DEF Carrying, Evaluating, Leaving
<1>9. ASSUME NEW i \in Rows, TaskFrame(i) PROVE Carrying'
  BY <1>2, <1>9 DEF TaskFrame, Leaving
<1> QED
  BY <1>3, <1>4, <1>5, <1>6, <1>7, <1>8, <1>9 DEF Effect


(***************************************************************************)
(* Where the outputs of the tasks are.                                     *)
(***************************************************************************)

\* The row that an evaluation is about to fill has not got the input yet.
Fresh ==
  \A n \in Nodes : eval[n].at = "insert" /\ eval[n].row \in Rows =>
    Link(n).pin \notin DOMAIN rows[eval[n].row].in

\* The row that an evaluation has filled has the input from then on.
Landed ==
  \A n \in Nodes : eval[n].at \in {"complete", "others"} =>
    /\ Link(n).pin \in DOMAIN rows[eval[n].row].in
    /\ rows[eval[n].row].in[Link(n).pin] = eval[n].val

\* No input of a row is replaced or taken away.
InputsKept ==
  /\ Rows \subseteq Rows'
  /\ \A j \in Rows : /\ rows'[j].node = rows[j].node
                     /\ \A p \in DOMAIN rows[j].in :
                          p \in DOMAIN rows'[j].in /\ rows'[j].in[p] = rows[j].in[p]

LEMMA InputsStay ==
  ASSUME Typed, Typed', Known, Standing, Evaluations, Fresh, Effect
  PROVE  InputsKept
<1>1. Rows \subseteq Rows' /\ \A j \in Rows : rows'[j].node = rows[j].node
  BY GraphSame
<1>2. CASE SameInputs
  BY <1>1, <1>2 DEF SameInputs, InputsKept
<1>3. ASSUME NEW n \in Nodes, EvalFrame(n), Opened(n) \/ Inserted(n) PROVE InputsKept
  <2> DEFINE k == eval'[n].row
             p == Link(n).pin
  <2>1. Put(n, k)
    BY <1>3, InsertPuts
  <2>2. k \in Rows => p \notin DOMAIN rows[k].in
    <3>1. CASE Inserted(n)
      BY <3>1 DEF Inserted, SameRow, Fresh
    <3>2. CASE Opened(n)
      BY <2>1, <3>2, RowsAre DEF Opened
    <3> QED
      BY <1>3, <3>1, <3>2
  <2> HIDE DEF k
  <2>3. ASSUME NEW j \in Rows, NEW q \in DOMAIN rows[j].in
        PROVE  q \in DOMAIN rows'[j].in /\ rows'[j].in[q] = rows[j].in[q]
    <3>1. CASE j = k
      BY <1>1, <2>1, <2>2, <2>3, <3>1 DEF Put
    <3>2. CASE j # k
      <4>1. rows'[j] = rows[j]
        BY <1>1, <2>1, <3>2 DEF Put
      <4> QED
        BY <2>3, <4>1
    <3> QED
      BY <3>1, <3>2
  <2> QED
    BY <1>1, <2>3 DEF InputsKept
<1>4. ASSUME NEW n \in Nodes, NEW i \in Rows, Readied(n, i) PROVE InputsKept
  <2>1. ASSUME NEW j \in Rows, NEW q \in DOMAIN rows[j].in
        PROVE  q \in DOMAIN rows'[j].in /\ rows'[j].in[q] = rows[j].in[q]
    BY <1>4, <2>1 DEF Readied, OnlyRow
  <2> QED
    BY <1>1, <2>1 DEF InputsKept
<1> QED
  BY <1>2, <1>3, <1>4, InputsMove

\* Fresh and Landed, of one node.
FreshAt(n) == eval[n].at = "insert" /\ eval[n].row \in Rows =>
                Link(n).pin \notin DOMAIN rows[eval[n].row].in
LandedAt(n) == eval[n].at \in {"complete", "others"} =>
                 /\ Link(n).pin \in DOMAIN rows[eval[n].row].in
                 /\ rows[eval[n].row].in[Link(n).pin] = eval[n].val

\* An evaluation that takes a step moves.
LEMMA EvalMoves ==
  ASSUME Typed, NEW n \in Nodes, EvalEffect(n)
  PROVE  eval'[n] # eval[n]
<1>1. CASE LookedUp(n) \/ Opened(n) \/ Inserted(n) \/ CompletedOne(n) \/ CompletedStatic(n)
           \/ Passed(n) \/ Over(n)
  <2>1. eval'[n].at # eval[n].at
    BY <1>1 DEF LookedUp, Opened, Inserted, CompletedOne, CompletedStatic, Passed, Over, NewLink
  <2> QED
    BY <2>1
<1>2. CASE CompletedOther(n)
  <2>1. PICK i \in Rows : eval'[n].mine = Append(eval[n].mine, i)
    BY <1>2 DEF CompletedOther
  <2> DEFINE m == eval[n].mine
  <2>2. m \in Seq(Nat)
    BY NodeTyped
  <2> HIDE DEF m
  <2>3. Len(Append(m, i)) # Len(m)
    BY <2>2
  <2> QED
    BY <2>1, <2>3 DEF m
<1>3. CASE Failed(n)
  <2>1. eval[n].todo # {} /\ eval[n].todo \in SUBSET Nat
    BY <1>3 DEF Failed, Typed, EvalType
  <2>2. Min(eval[n].todo) \in eval[n].todo
    BY <2>1, MinIsLeast
  <2>3. eval'[n].todo = eval[n].todo \ {Min(eval[n].todo)}
    BY <1>3 DEF Failed, NewLink
  <2> QED
    BY <2>2, <2>3
<1> QED
  BY <1>1, <1>2, <1>3 DEF EvalEffect

\* A step of another evaluation does not touch the row of one that is inside.
LEMMA RowsApart ==
  ASSUME Typed, Typed', Known, Standing, Evaluations, OneInside, Effect,
         NEW n \in Nodes, eval'[n] = eval[n], Inside(n), eval[n].row \in Rows
  PROVE  rows'[eval[n].row].in = rows[eval[n].row].in
<1> DEFINE i == eval[n].row
<1>1. i \in Rows /\ rows[i].node = Link(n).to
  BY DEF Evaluations
<1>2. CASE SameInputs
  BY <1>1, <1>2 DEF SameInputs
<1>3. ASSUME NEW m \in Nodes, Inside(m), m # n PROVE Link(m).to # rows[i].node
  BY <1>1, <1>3 DEF OneInside
<1> HIDE DEF i
<1>4. ASSUME NEW m \in Nodes, EvalFrame(m), Opened(m) \/ Inserted(m)
      PROVE  rows'[i].in = rows[i].in
  <2> DEFINE k == eval'[m].row
  <2>1. Put(m, k)
    BY <1>4, InsertPuts
  <2>2. m # n /\ Inside(m)
    BY <1>4 DEF Opened, Inserted, Inside
  <2> HIDE DEF k
  <2>3. rows'[k].node = Link(m).to
    BY <2>1 DEF Put
  <2>4. rows'[i].node = rows[i].node /\ i \in Rows'
    BY <1>1, <1>4, GraphSame
  <2>5. i # k
    BY <1>3, <2>2, <2>3, <2>4
  <2> QED
    BY <2>1, <2>4, <2>5 DEF Put
<1>5. ASSUME NEW m \in Nodes, NEW j \in Rows, Readied(m, j), Inside(m), EvalFrame(m), EvalEffect(m)
      PROVE  rows'[i].in = rows[i].in
  <2>1. m # n
    BY <1>5, EvalMoves
  <2> QED
    BY <1>1, <1>3, <1>5, <2>1 DEF Readied, OnlyRow
<1> QED
  BY <1>1, <1>2, <1>4, <1>5, InputsMove DEF i


LEMMA FreshKept ==
  ASSUME Typed, Typed', Known, Standing, Evaluations, OneInside, Fresh, Effect
  PROVE  Fresh'
<1>0. /\ Rows = 1..Len(rows) /\ Rows' = 1..Len(rows') /\ Len(rows) \in Nat /\ Len(rows') \in Nat
  BY RowsAre
<1>1. SUFFICES ASSUME NEW n \in Nodes PROVE FreshAt(n)'
  BY DEF Fresh, FreshAt
<1>2. graph' = graph
  BY GraphSame
<1>3. CASE eval'[n] = eval[n]
  <2>1. CASE Inside(n) /\ eval[n].row \in Rows
    <3>1. rows'[eval[n].row].in = rows[eval[n].row].in
      BY <1>3, <2>1, RowsApart
    <3>2. Link(n)' = Link(n)
      BY <1>2, <1>3, LinkSame
    <3> QED
      BY <1>3, <2>1, <3>1, <3>2 DEF Fresh, FreshAt
  <2>2. CASE ~Inside(n)
    BY <1>3, <2>2 DEF FreshAt, Inside
  <2>3. CASE eval[n].row = 0
    BY <1>0, <1>3, <2>3 DEF FreshAt
  <2> QED
    BY <2>1, <2>2, <2>3 DEF Known
<1>4. CASE ~Inside(n)'
  BY <1>4 DEF FreshAt, Inside
<1>5. CASE EvalFrame(n) /\ EvalEffect(n)
  <2>1. CASE LookedUp(n)
    <3> DEFINE W == Waiting(Link(n).to, Link(n).pin)
    <3>1. Link(n)' = Link(n)
      BY <1>2, <2>1, LinkSame DEF LookedUp, SameLink
    <3>2. eval'[n].row = Earliest(W) /\ rows' = rows
      BY <2>1 DEF LookedUp
    <3>3. W \in SUBSET Nat /\ \A i \in W : Link(n).pin \notin DOMAIN rows[i].in
      BY <1>0 DEF Waiting, Incomplete, Of
    <3> HIDE DEF W
    <3>4. eval'[n].row = 0 \/ eval'[n].row \in W
      BY <3>2, <3>3, MinIsLeast DEF Earliest
    <3> QED
      BY <1>0, <3>1, <3>2, <3>3, <3>4 DEF FreshAt
  <2>2. CASE ~LookedUp(n)
    <3>1. eval'[n].at # "insert"
      BY <1>5, <2>2 DEF EvalEffect, Opened, Inserted, CompletedOne, CompletedStatic, CompletedOther,
                        Passed, Failed, Over, NewLink
    <3> QED
      BY <3>1 DEF FreshAt
  <2> QED
    BY <2>1, <2>2
<1>6. ASSUME NEW m \in Nodes, EvalFrame(m), m # n PROVE eval'[n] = eval[n]
  BY <1>6 DEF EvalFrame
<1> QED
  BY <1>3, <1>4, <1>5, <1>6, EvalsLeft

LEMMA LandedKept ==
  ASSUME Typed, Typed', Known, Standing, Evaluations, OneInside, Fresh, Landed, Effect
  PROVE  Landed'
<1>1. SUFFICES ASSUME NEW n \in Nodes PROVE LandedAt(n)'
  BY DEF Landed, LandedAt
<1>2. graph' = graph /\ InputsKept
  BY GraphSame, InputsStay
<1>3. ASSUME eval'[n].at \in {"complete", "others"} => eval[n].at \in {"complete", "others"},
             eval'[n].row = eval[n].row, eval'[n].todo = eval[n].todo, eval'[n].val = eval[n].val
      PROVE  LandedAt(n)'
  <2>1. Link(n)' = Link(n)
    BY <1>2, <1>3, LinkSame
  <2>2. SUFFICES ASSUME eval[n].at \in {"complete", "others"} PROVE LandedAt(n)'
    BY <1>3 DEF LandedAt
  <2>3. /\ eval[n].row \in Rows /\ Link(n).pin \in DOMAIN rows[eval[n].row].in
        /\ rows[eval[n].row].in[Link(n).pin] = eval[n].val
    BY <2>2 DEF Evaluations, Landed
  <2> QED
    BY <1>2, <1>3, <2>1, <2>3 DEF LandedAt, InputsKept
<1>4. CASE eval'[n] = eval[n]
  BY <1>3, <1>4
<1>5. CASE ~Inside(n)'
  BY <1>5 DEF LandedAt, Inside
<1>6. CASE EvalFrame(n) /\ EvalEffect(n)
  <2>1. CASE Opened(n) \/ Inserted(n)
    <3>1. Put(n, eval'[n].row)
      BY <1>6, <2>1, InsertPuts
    <3>2. Link(n)' = Link(n) /\ eval'[n].val = eval[n].val
      BY <1>2, <2>1, LinkSame DEF Opened, Inserted, SameLink
    <3> QED
      BY <3>1, <3>2 DEF LandedAt, Put
  <2>2. CASE CompletedStatic(n) \/ CompletedOther(n)
    BY <1>3, <2>2 DEF CompletedStatic, CompletedOther, SameLink, SameRow
  <2>3. CASE LookedUp(n) \/ CompletedOne(n) \/ Passed(n) \/ Failed(n) \/ Over(n)
    <3>1. eval'[n].at \notin {"complete", "others"}
      BY <2>3 DEF LookedUp, CompletedOne, Passed, Failed, Over, NewLink
    <3> QED
      BY <3>1 DEF LandedAt
  <2> QED
    BY <1>6, <2>1, <2>2, <2>3 DEF EvalEffect
<1>7. ASSUME NEW m \in Nodes, EvalFrame(m), m # n PROVE eval'[n] = eval[n]
  BY <1>7 DEF EvalFrame
<1> QED
  BY <1>4, <1>5, <1>6, <1>7, EvalsLeft


\* Some execution of the sink of link x has value v on the link's pin.
Arrived(v, x) ==
  \E j \in Of(graph.links[x].to) : /\ graph.links[x].pin \in DOMAIN rows[j].in
                                   /\ rows[j].in[graph.links[x].pin] = v
\* An evaluation has yet to carry it over the link.
OnItsWay(v, x) == \E n \in Nodes : Evaluating(n) /\ eval[n].val = v /\ x \in eval[n].todo

\* An output is left for the engine, or it has arrived or is on its way over each link.
Delivered(i, k) ==
  LET v == [row |-> i, k |-> k] IN
  \/ k \in Range(work[i].out)
  \/ \A x \in LinksOf(rows[i].node, OutName(v)) : Arrived(v, x) \/ OnItsWay(v, x)

\* The runs whose outputs must not get lost.
Undisturbed == trouble \notin {"crash", "evaluation"} /\ (Leaving => verdict = "COMPLETED")

Delivering == Undisturbed => \A i \in Rows : \A k \in Emitted(i) : Delivered(i, k)

\* Trouble does not go away.
LEMMA TroubleStays ==
  ASSUME [Next]_vars, trouble # "none"
  PROVE  trouble' = trouble
<1>1. CASE EngineNext
  BY <1>1 DEF EngineNext, Begin, Dispatch, OutOfCredits, LoopEnds, PollEnds, Judge, StopTasks, Drain,
              Visit, Strikes
<1>2. CASE Cancel \/ Crash
  BY <1>2 DEF Cancel, Crash, Strikes
<1>3. CASE \E i \in Rows : TaskNext(i)
  BY <1>3 DEF TaskNext, TaskStarts, TaskYields, TaskReturns, TaskRaises, TaskWrites, TaskBreaks,
              TaskInterrupted, Strikes
<1>4. CASE \E n \in Nodes : EvalNext(n)
  BY <1>4 DEF EvalNext, EvalFinds, EvalInserts, EvalCompletes, EvalOthers, EvalFails, EvalEnds, Strikes
<1>5. CASE UNCHANGED vars
  BY <1>5 DEF vars, volatile
<1> QED
  BY <1>1, <1>2, <1>3, <1>4, <1>5 DEF Next

\* What arrived has arrived for good, and an output has the name it had.
LEMMA ArrivedStays ==
  ASSUME Typed, Typed', Known, Standing, Evaluations, Fresh, Effect, NEW i \in Rows, NEW k
  PROVE  /\ LinksOf(rows[i].node, OutName([row |-> i, k |-> k]))'
              = LinksOf(rows[i].node, OutName([row |-> i, k |-> k]))
         /\ \A x : Arrived([row |-> i, k |-> k], x) => Arrived([row |-> i, k |-> k], x)'
<1>1. graph' = graph /\ rows'[i].node = rows[i].node
  BY GraphSame
<1>2. InputsKept
  BY InputsStay
<1> DEFINE v == [row |-> i, k |-> k]
<1>3. v.row = i
  OBVIOUS
<1> HIDE DEF v
<1>4. OutName(v)' = OutName(v)
  BY <1>1, <1>3 DEF OutName
<1>5. LinksOf(rows[i].node, OutName(v))' = LinksOf(rows[i].node, OutName(v))
  BY <1>1, <1>4 DEF LinksOf
<1>6. ASSUME NEW x, Arrived(v, x) PROVE Arrived(v, x)'
  <2> DEFINE l == graph.links[x]
  <2>1. PICK j \in Of(l.to) : l.pin \in DOMAIN rows[j].in /\ rows[j].in[l.pin] = v
    BY <1>6 DEF Arrived
  <2>2. j \in Rows /\ rows[j].node = l.to
    BY <2>1 DEF Of
  <2>3. /\ j \in Rows' /\ rows'[j].node = l.to
        /\ l.pin \in DOMAIN rows'[j].in /\ rows'[j].in[l.pin] = v
    BY <1>2, <2>1, <2>2 DEF InputsKept
  <2> QED
    BY <1>1, <2>3 DEF Arrived, Of
<1> QED
  BY <1>5, <1>6 DEF v


LEMMA DeliveringKept ==
  ASSUME Typed, Typed', Known, Standing, Placed, Futures, Tracked, LeftIdle, Evaluations, Fresh,
         Landed, Delivering, Effect, trouble # "none" => trouble' = trouble
  PROVE  Delivering'
<1>0. /\ Len(rows') = Len(rows) => Rows' = Rows
      /\ \A i \in Rows : work[i] \in WorkType
  BY RowsAre
<1>1. SUFFICES ASSUME Undisturbed', NEW i \in Rows', NEW k \in Emitted(i)'
               PROVE  Delivered(i, k)'
  BY DEF Delivering
<1>2. ~Died /\ \A n \in Nodes : ~Failed(n)
  BY <1>1 DEF Undisturbed, Died, Failed
<1>3. Leaving => Leaving' /\ verdict' = verdict
  BY <1>2 DEF Effect, Begun, Dispatched, CreditsOut, Drained, Closed, Stopped, EngineMoves, LoopEnds,
              PollEnds, Judge, RunOver, Cancel, vars, volatile, Visited, EvalFrame, TaskFrame, Leaving
<1>4. Undisturbed
  BY <1>1, <1>3 DEF Undisturbed
<1> DEFINE v == [row |-> i, k |-> k]
<1>5. ASSUME i \in Rows, k \in Emitted(i), k \in Range(work[i].out) => k \in Range(work'[i].out),
             \A x : OnItsWay(v, x) => OnItsWay(v, x)' \/ Arrived(v, x)'
      PROVE  Delivered(i, k)'
  <2>1. Delivered(i, k)
    BY <1>4, <1>5 DEF Delivering
  <2> DEFINE L == LinksOf(rows[i].node, OutName(v))
  <2>2. L' = L /\ \A x : Arrived(v, x) => Arrived(v, x)'
    BY <1>5, ArrivedStays
  <2>3. k \in Range(work[i].out) \/ \A x \in L : Arrived(v, x) \/ OnItsWay(v, x)
    BY <2>1 DEF Delivered
  <2>4. k \in Range(work'[i].out) \/ \A x \in L : Arrived(v, x)' \/ OnItsWay(v, x)'
    BY <1>5, <2>2, <2>3
  <2> QED
    BY <2>2, <2>4 DEF Delivered
<1>6. ASSUME i \in Rows, work'[i].sent = work[i].sent, work'[i].end = work[i].end
      PROVE  k \in Emitted(i)
  <2>1. ErrorOutput(i)' = ErrorOutput(i)
    BY <1>6, GraphSame
  <2> QED
    BY <1>1, <1>6, <2>1 DEF Emitted
<1>7. eval' = eval => \A x : OnItsWay(v, x) => OnItsWay(v, x)'
  BY DEF OnItsWay, Evaluating
<1> HIDE DEF v
<1>8. CASE Begun \/ CreditsOut \/ Drained \/ EngineMoves
  <2>1. Len(rows') = Len(rows) /\ work' = work /\ eval' = eval
    BY <1>8 DEF Begun, CreditsOut, Drained, Closed, EngineMoves, LoopEnds, PollEnds, Judge, RunOver,
                Cancel, vars, volatile
  <2> QED
    BY <1>0, <1>1, <1>5, <1>6, <1>7, <2>1
<1>9. CASE Dispatched
  <2> DEFINE h == Head(queue)
  <2>1. /\ rows' = rows /\ eval' = eval /\ work'[h].sent = 0 /\ work'[h].end = "none"
        /\ \A j \in Rows : j # h => work'[j] = work[j]
    BY <1>9 DEF Dispatched
  <2> HIDE DEF h
  <2>2. i # h
    BY <1>1, <2>1 DEF Emitted
  <2> QED
    BY <1>0, <1>1, <1>5, <1>6, <1>7, <2>1, <2>2
<1>10. CASE Stopped
  <2>1. /\ rows' = rows /\ eval' = eval /\ work'[i].sent = work[i].sent /\ work'[i].end = work[i].end
        /\ i \in Rows
    BY <1>0, <1>1, <1>10 DEF Stopped
  <2>2. Idle
    BY <1>1, <1>10 DEF Stopped, Undisturbed, Leaving, LeftIdle, Finished
  <2>3. tasks[rows[i].node] = <<>>
    BY <2>1, <2>2, RowTyped DEF Idle, RowType
  <2>4. work[i].out = <<>>
    BY <1>10, <2>1, <2>3, RangeOfEmpty DEF Stopped, Tracked, Polling
  <2> QED
    BY <1>5, <1>6, <1>7, <2>1, <2>4, RangeOfEmpty
<1>11. ASSUME NEW n \in Nodes, Visited(n) PROVE Delivered(i, k)'
  <2>1. /\ rows' = rows /\ ~Evaluating(n) /\ \A m \in Nodes : m # n => eval'[m] = eval[m]
        /\ i \in Rows
    BY <1>0, <1>1, <1>11 DEF Visited
  <2>2. \A x : OnItsWay(v, x) => OnItsWay(v, x)'
    BY <2>1 DEF OnItsWay, Evaluating
  <2>3. CASE work' = work
    BY <1>5, <1>6, <2>1, <2>2, <2>3
  <2>4. CASE work' # work
    <3>1. PICK r \in Range(tasks'[n]) :
            /\ work[r].out # <<>> /\ eval'[n].at = "find"
            /\ eval'[n].val = [row |-> r, k |-> Head(work[r].out)]
            /\ eval'[n].todo = LinksOf(n, OutName(eval'[n].val))
            /\ work'[r].out = Tail(work[r].out) /\ work'[r].sent = work[r].sent
            /\ work'[r].end = work[r].end
            /\ \A j \in Rows : j # r => work'[j] = work[j]
      BY <1>11, <2>4 DEF Visited
    <3>2. r \in Rows /\ rows[r].node = n
      BY <1>11 DEF Visited, Known, Of
    <3>3. k \in Emitted(i)
      BY <1>6, <2>1, <3>1
    <3>4. CASE i = r /\ k = Head(work[r].out)
      <4>1. eval'[n].val = v
        BY <3>1, <3>4 DEF v
      <4>2. LinksOf(rows[i].node, OutName(v))' = LinksOf(rows[i].node, OutName(v))
        BY <2>1, ArrivedStays DEF v
      <4>3. \A x \in LinksOf(rows[i].node, OutName(v)) : OnItsWay(v, x)'
        BY <3>1, <3>2, <3>4, <4>1 DEF OnItsWay, Evaluating
      <4> QED
        BY <4>2, <4>3 DEF Delivered, v
    <3>5. CASE i = r /\ k # Head(work[r].out)
      <4>1. work[r].out \in Seq(Nat)
        BY <1>0, <3>2 DEF WorkType
      <4>2. Range(work[r].out) = {Head(work[r].out)} \cup Range(Tail(work[r].out))
        BY <3>1, <4>1, RangeOfTail
      <4> QED
        BY <1>5, <2>1, <2>2, <3>1, <3>3, <3>5, <4>2
    <3>6. CASE i # r
      BY <1>5, <2>1, <2>2, <3>1, <3>3, <3>6
    <3> QED
      BY <3>4, <3>5, <3>6
  <2> QED
    BY <2>3, <2>4
<1>12. ASSUME NEW n \in Nodes, EvalFrame(n), EvalEffect(n) PROVE Delivered(i, k)'
  <2>1. /\ Rows \subseteq Rows' /\ \A m \in Nodes : m # n => eval'[m] = eval[m]
        /\ \A j \in Rows : /\ work'[j].out = work[j].out /\ work'[j].sent = work[j].sent
                           /\ work'[j].end = work[j].end
        /\ \A j \in Rows' \ Rows : work'[j] = NoWork
    BY <1>12, EvalWork DEF EvalFrame
  <2>2. i \in Rows
    <3>1. NoWork.sent = 0 /\ NoWork.end = "none"
      BY DEF NoWork
    <3> QED
      BY <1>1, <2>1, <3>1 DEF Emitted
  <2>3. ASSUME NEW x, Evaluating(n), eval[n].val = v, x \in eval[n].todo
        PROVE  OnItsWay(v, x)' \/ Arrived(v, x)'
    <3>1. CASE LookedUp(n) \/ Opened(n) \/ Inserted(n) \/ CompletedStatic(n) \/ CompletedOther(n)
      BY <2>3, <3>1 DEF LookedUp, Opened, Inserted, CompletedStatic, CompletedOther, SameLink,
                        OnItsWay, Evaluating
    <3>2. CASE CompletedOne(n) \/ Passed(n)
      <4>1. NewLink(n) /\ eval[n].at \in {"complete", "others"}
        BY <3>2 DEF CompletedOne, Passed
      <4>2. CASE x # Min(eval[n].todo)
        BY <2>3, <4>1, <4>2 DEF NewLink, OnItsWay, Evaluating
      <4>3. CASE x = Min(eval[n].todo)
        <5>1. /\ eval[n].row \in Rows /\ rows[eval[n].row].node = Link(n).to
              /\ Link(n).pin \in DOMAIN rows[eval[n].row].in
              /\ rows[eval[n].row].in[Link(n).pin] = v
          BY <2>3, <4>1 DEF Evaluations, Inside, Landed
        <5>2. Arrived(v, x)
          BY <4>3, <5>1 DEF Arrived, Of, Link
        <5> QED
          BY <2>2, <5>2, ArrivedStays DEF v
      <4> QED
        BY <4>2, <4>3
    <3>3. CASE Over(n)
      BY <2>3, <3>3 DEF Over
    <3> QED
      BY <1>2, <1>12, <3>1, <3>2, <3>3 DEF EvalEffect
  <2>4. \A x : OnItsWay(v, x) => OnItsWay(v, x)' \/ Arrived(v, x)'
    <3> TAKE x
    <3>1. ASSUME NEW m \in Nodes, m # n, Evaluating(m), eval[m].val = v, x \in eval[m].todo
          PROVE  OnItsWay(v, x)'
      BY <2>1, <3>1 DEF OnItsWay, Evaluating
    <3> QED
      BY <2>3, <3>1 DEF OnItsWay
  <2> QED
    BY <1>5, <1>6, <2>1, <2>2, <2>4
<1>13. ASSUME NEW r \in Rows, TaskFrame(r), TaskEffect(r) PROVE Delivered(i, k)'
  <2>1. /\ Rows' = Rows /\ \A j \in Rows : j # r => work'[j] = work[j]
        /\ eval' = eval /\ engine' = engine /\ verdict' = verdict
    BY <1>0, <1>13 DEF TaskFrame
  <2>2. CASE i # r
    BY <1>1, <1>5, <1>6, <1>7, <2>1, <2>2
  <2>3. CASE i = r
    <3>1. Busy(i)
      BY <1>13, <2>3 DEF TaskEffect, Started, Yielded, Returned, Raised, Wrote, Broke, Interrupted, Busy
    <3>2. work[i].future = "open"
      BY <1>4, <2>1, <3>1, <1>1 DEF Futures, Tracked, LeftIdle, Undisturbed
    <3>3. work[i].out \in Seq(Nat) /\ work[i].sent \in Nat /\ ErrorOutput(i) \in Nat /\ i \in Rows
      BY <1>0, <1>1, <2>1, RowTyped DEF WorkType
    <3>4. ErrorOutput(i)' = ErrorOutput(i)
      BY <3>3, GraphSame
    <3>5. \A y \in Nat : Range(Append(work[i].out, y)) = Range(work[i].out) \cup {y}
      BY <3>3, RangeOfAppend
    <3>6. \A x : OnItsWay(v, x) => OnItsWay(v, x)'
      BY <1>7, <2>1
    <3>7. ASSUME k \in Range(work'[i].out) PROVE Delivered(i, k)'
      BY <3>7 DEF Delivered
    <3>8. CASE Started(i) \/ Wrote(i) \/ Broke(i)
      BY <1>5, <1>6, <3>3, <3>6, <3>8 DEF Started, Wrote, Broke, SameOut, SameEnd
    <3>9. CASE Returned(i)
      <4>1. k \in Emitted(i)
        BY <1>1, <3>9 DEF Returned, SameOut, Emitted
      <4> QED
        BY <1>5, <3>3, <3>6, <3>9, <4>1 DEF Returned, SameOut
    <3>10. CASE Raised(i)
      <4>1. /\ Range(work'[i].out) = Range(work[i].out) \cup {ErrorOutput(i)}
            /\ work'[i].sent = work[i].sent /\ work'[i].end = "FAILED"
        BY <3>2, <3>3, <3>5, <3>10 DEF Raised, Reported
      <4>2. k \in 1..work[i].sent \/ k = ErrorOutput(i)
        BY <1>1, <3>4, <4>1 DEF Emitted
      <4>3. CASE k = ErrorOutput(i)
        BY <3>7, <4>1, <4>3
      <4>4. CASE k \in 1..work[i].sent
        BY <1>5, <3>3, <3>6, <4>1, <4>4 DEF Emitted
      <4> QED
        BY <4>2, <4>3, <4>4
    <3>11. CASE Yielded(i)
      <4>1. /\ Range(work'[i].out) = Range(work[i].out) \cup {work[i].sent + 1}
            /\ work'[i].sent = work[i].sent + 1 /\ work'[i].end = work[i].end
        BY <3>2, <3>3, <3>5, <3>11 DEF Yielded, Reported, SameEnd
      <4>2. k \in Emitted(i) \/ k = work[i].sent + 1
        BY <1>1, <3>3, <3>4, <4>1 DEF Emitted
      <4>3. CASE k = work[i].sent + 1
        BY <3>7, <4>1, <4>3
      <4>4. CASE k \in Emitted(i)
        BY <1>5, <3>3, <3>6, <4>1, <4>4
      <4> QED
        BY <4>2, <4>3, <4>4
    <3>12. ~Interrupted(i)
      BY <3>2 DEF Interrupted
    <3> QED
      BY <1>13, <2>3, <3>8, <3>9, <3>10, <3>11, <3>12 DEF TaskEffect
  <2> QED
    BY <2>2, <2>3
<1> QED
  BY <1>2, <1>8, <1>9, <1>10, <1>11, <1>12, <1>13 DEF Effect

(***************************************************************************)
(* The order in which outputs arrive.                                      *)
(***************************************************************************)

\* A lookup still holds when its row is filled.
Chosen ==
  \A n \in Nodes : eval[n].at = "insert" =>
    eval[n].row = Earliest(Waiting(Link(n).to, Link(n).pin))

\* The rows of a node that wait get each input from the earliest on.
Staircase ==
  \A i, j \in Rows :
    i < j /\ rows[i].node = rows[j].node /\ rows[i].status = "INCOMPLETE" =>
      DOMAIN rows[j].in \ StaticPins(rows[i].node) \subseteq DOMAIN rows[i].in

\* No row becomes incomplete again.
LEMMA StatusLeft ==
  ASSUME Typed, Typed', Known, Standing, Evaluations, Effect, NEW i \in Rows,
         rows'[i].status = "INCOMPLETE"
  PROVE  rows[i].status = "INCOMPLETE"
<1>0. i \in Rows' /\ work[i] \in WorkType
  BY GraphSame, RowsAre
<1>1. ASSUME NEW to, to # "INCOMPLETE", rows'[i].status = Moved(rows[i].status, to)
      PROVE  rows[i].status = "INCOMPLETE"
  BY <1>1 DEF Moved
<1>2. CASE Begun \/ Dispatched \/ Stopped \/ EngineMoves \/ Died \/ \E n \in Nodes : Visited(n)
  <2>1. rows' = rows
    BY <1>2 DEF Begun, Dispatched, Stopped, EngineMoves, LoopEnds, PollEnds, Judge, RunOver,
                Cancel, vars, volatile, Died, Visited
  <2> QED
    BY <2>1
<1>3. CASE CreditsOut \/ Drained
  <2>1. PICK to : Closed(to) /\ to # "INCOMPLETE"
    BY <1>3 DEF CreditsOut, Drained, Typed
  <2>2. rows'[i] = rows[i] \/ rows'[i].status = Moved(rows[i].status, to)
    BY <2>1 DEF Closed
  <2> QED
    BY <1>1, <2>1, <2>2
<1>4. ASSUME NEW n \in Nodes, EvalFrame(n), EvalEffect(n) PROVE rows[i].status = "INCOMPLETE"
  <2>1. CASE Opened(n) \/ Inserted(n)
    <3>1. Put(n, eval'[n].row)
      BY <1>4, <2>1, InsertPuts
    <3> QED
      BY <1>0, <3>1 DEF Put
  <2>2. CASE LookedUp(n) \/ Passed(n) \/ Failed(n) \/ Over(n)
    BY <2>2 DEF LookedUp, Passed, Failed, Over
  <2>3. CASE CompletedOne(n) \/ CompletedStatic(n) \/ CompletedOther(n)
    <3>1. PICK j \in Rows : Readied(n, j)
      BY <2>3 DEF CompletedOne, CompletedStatic, CompletedOther, Readied, OnlyRow
    <3>2. i # j
      BY <3>1 DEF Readied
    <3> QED
      BY <3>1, <3>2 DEF Readied, OnlyRow
  <2> QED
    BY <1>4, <2>1, <2>2, <2>3 DEF EvalEffect
<1>5. ASSUME NEW r \in Rows, TaskFrame(r), TaskEffect(r) PROVE rows[i].status = "INCOMPLETE"
  <2>1. CASE i # r
    BY <1>5, <2>1 DEF TaskFrame
  <2>2. CASE i = r
    <3>1. work[i].end # "INCOMPLETE"
      BY <1>0 DEF WorkType
    <3> QED
      BY <1>1, <1>5, <2>2, <3>1 DEF TaskEffect, Started, Yielded, Returned, Raised, Wrote, Broke,
                                    Interrupted, SameStatus
  <2> QED
    BY <2>1, <2>2
<1> QED
  BY <1>2, <1>3, <1>4, <1>5 DEF Effect

\* While an evaluation is inside, no other changes what the rows of its sink wait for.
LEMMA SinkQuiet ==
  ASSUME Typed, Typed', Known, Standing, Evaluations, OneInside, Effect,
         NEW n \in Nodes, Inside(n), eval'[n] = eval[n],
         NEW i \in Rows', rows'[i].node = Link(n).to
  PROVE  /\ i \in Rows /\ rows'[i].in = rows[i].in
         /\ rows'[i].status = "INCOMPLETE" <=> rows[i].status = "INCOMPLETE"
<1>1. ASSUME NEW m \in Nodes, Inside(m), m # n PROVE Link(m).to # Link(n).to
  BY <1>1 DEF OneInside
<1>2. i \in Rows => rows'[i].node = rows[i].node
  BY GraphSame
<1>3. CASE ~ \E m \in Nodes : EvalFrame(m) /\ EvalEffect(m)
  BY <1>3, OthersLeaveRows, StatusLeft
<1>4. ASSUME NEW m \in Nodes, EvalFrame(m), EvalEffect(m)
      PROVE  /\ i \in Rows /\ rows'[i].in = rows[i].in
             /\ rows'[i].status = "INCOMPLETE" <=> rows[i].status = "INCOMPLETE"
  <2>0. m # n
    BY <1>4, EvalMoves
  <2>1. CASE Opened(m) \/ Inserted(m)
    <3>1. Put(m, eval'[m].row) /\ Inside(m)
      BY <1>4, <2>1, InsertPuts DEF Opened, Inserted, Inside
    <3> QED
      BY <1>1, <2>0, <3>1 DEF Put
  <2>2. CASE LookedUp(m) \/ Passed(m) \/ Failed(m) \/ Over(m)
    BY <2>2 DEF LookedUp, Passed, Failed, Over, Rows
  <2>3. CASE CompletedOne(m) \/ CompletedStatic(m) \/ CompletedOther(m)
    <3>1. PICK j \in Rows : Readied(m, j) /\ Inside(m)
      BY <2>3 DEF CompletedOne, CompletedStatic, CompletedOther, Readied, OnlyRow, Inside
    <3>2. i \in Rows
      BY <3>1, RowsAre DEF Readied, OnlyRow
    <3>3. i # j
      BY <1>1, <1>2, <2>0, <3>1, <3>2 DEF Readied
    <3> QED
      BY <3>1, <3>2, <3>3 DEF Readied, OnlyRow
  <2> QED
    BY <1>4, <2>1, <2>2, <2>3 DEF EvalEffect
<1> QED
  BY <1>3, <1>4

ChosenAt(n) == eval[n].at = "insert" => eval[n].row = Earliest(Waiting(Link(n).to, Link(n).pin))

LEMMA ChosenKept ==
  ASSUME Typed, Typed', Known, Standing, Evaluations, OneInside, Chosen, Effect
  PROVE  Chosen'
<1>1. SUFFICES ASSUME NEW n \in Nodes, eval'[n].at = "insert" PROVE ChosenAt(n)'
  BY DEF Chosen, ChosenAt
<1>2. /\ graph' = graph /\ Rows \subseteq Rows'
      /\ \A i \in Rows : rows'[i].node = rows[i].node
  BY GraphSame
<1>3. PICK to, pin : to = Link(n).to /\ pin = Link(n).pin
  OBVIOUS
<1>4. ASSUME Link(n)' = Link(n), Waiting(to, pin)' = Waiting(to, pin),
             eval'[n].row = Earliest(Waiting(to, pin))
      PROVE  ChosenAt(n)'
  BY <1>3, <1>4 DEF ChosenAt, Earliest
<1>5. CASE eval'[n] = eval[n]
  <2>1. Link(n)' = Link(n) /\ Inside(n)
    BY <1>1, <1>2, <1>5, LinkSame DEF Inside
  <2>2. ASSUME NEW i \in Rows', rows'[i].node = to
        PROVE  /\ i \in Rows /\ rows'[i].in = rows[i].in
               /\ rows'[i].status = "INCOMPLETE" <=> rows[i].status = "INCOMPLETE"
    BY <1>3, <1>5, <2>1, <2>2, SinkQuiet
  <2>3. Waiting(to, pin)' = Waiting(to, pin)
    BY <1>2, <2>2 DEF Waiting, Incomplete, Of
  <2>4. eval[n].row = Earliest(Waiting(to, pin))
    BY <1>1, <1>3, <1>5 DEF Chosen
  <2> QED
    BY <1>4, <1>5, <2>1, <2>3, <2>4
<1>6. CASE EvalFrame(n) /\ EvalEffect(n)
  <2>1. LookedUp(n)
    BY <1>1, <1>6 DEF EvalEffect, Opened, Inserted, CompletedOne, CompletedStatic, CompletedOther,
                      Passed, Failed, Over, NewLink
  <2>2. Link(n)' = Link(n) /\ rows' = rows /\ eval'[n].row = Earliest(Waiting(to, pin))
    BY <1>2, <1>3, <2>1, LinkSame DEF LookedUp, SameLink
  <2>3. Waiting(to, pin)' = Waiting(to, pin)
    BY <2>2 DEF Waiting, Incomplete, Of, Rows
  <2> QED
    BY <1>4, <2>2, <2>3
<1>7. ASSUME NEW m \in Nodes, EvalFrame(m), m # n PROVE eval'[n] = eval[n]
  BY <1>7 DEF EvalFrame
<1> QED
  BY <1>1, <1>5, <1>6, <1>7, EvalsLeft

\* What Chosen says of the row that is filled: the rows before it have the input already.
LEMMA EarlierHave ==
  ASSUME Typed, Chosen, NEW n \in Nodes, eval[n].at = "insert",
         NEW i \in Rows, rows[i].node = Link(n).to, rows[i].status = "INCOMPLETE",
         i < eval[n].row \/ eval[n].row = 0
  PROVE  Link(n).pin \in DOMAIN rows[i].in
<1> DEFINE W == Waiting(Link(n).to, Link(n).pin)
<1>1. eval[n].row = Earliest(W)
  BY DEF Chosen
<1>2. W \in SUBSET Nat /\ 0 \notin W
  BY NodeTyped DEF Waiting, Incomplete, Of
<1>3. i \in W \/ Link(n).pin \in DOMAIN rows[i].in
  BY DEF Waiting, Incomplete, Of
<1> HIDE DEF W
<1>4. i \in W => W # {} /\ Min(W) \in W /\ Min(W) <= i
  BY <1>2, MinIsLeast
<1>5. i \notin W
  <2> SUFFICES ASSUME i \in W PROVE FALSE
    OBVIOUS
  <2>1. eval[n].row = Min(W) /\ Min(W) \in Nat /\ i \in Nat /\ Min(W) # 0
    BY <1>1, <1>2, <1>4 DEF Earliest
  <2> QED
    BY <1>4, <2>1
<1> QED
  BY <1>3, <1>5

LEMMA StaircaseKept ==
  ASSUME Typed, Typed', Known, Standing, Evaluations, Fresh, Chosen, Staircase, Effect
  PROVE  Staircase'
<1>0. /\ Rows = 1..Len(rows) /\ Rows' = 1..Len(rows') /\ Len(rows) \in Nat
      /\ \A i \in Rows : rows[i] \in RowType
      /\ \A i \in Rows' : rows'[i] \in RowType
  BY RowsAre
<1>1. /\ graph' = graph /\ Rows \subseteq Rows'
      /\ \A i \in Rows : rows'[i].node = rows[i].node
  BY GraphSame
<1>2. SUFFICES ASSUME NEW n \in Nodes, NEW i \in Rows', NEW j \in Rows', i < j,
                      rows'[i].node = n, rows'[j].node = n, rows'[i].status = "INCOMPLETE"
               PROVE  DOMAIN rows'[j].in \ StaticPins(n) \subseteq DOMAIN rows'[i].in
  BY <1>0, <1>1 DEF Staircase, StaticPins, RowType
<1>3. i \in Rows => rows[i].status = "INCOMPLETE"
  BY <1>2, StatusLeft
<1>4. i \in Rows /\ j \in Rows => DOMAIN rows[j].in \ StaticPins(n) \subseteq DOMAIN rows[i].in
  BY <1>1, <1>2, <1>3 DEF Staircase
<1>5. InputsKept
  BY InputsStay
<1>6. i \in Rows => DOMAIN rows[i].in \subseteq DOMAIN rows'[i].in
  BY <1>5 DEF InputsKept
<1>7. CASE SameInputs
  BY <1>4, <1>7 DEF SameInputs
<1>8. ASSUME NEW m \in Nodes, EvalFrame(m), Opened(m) \/ Inserted(m)
      PROVE  DOMAIN rows'[j].in \ StaticPins(n) \subseteq DOMAIN rows'[i].in
  <2> DEFINE k == eval'[m].row
             p == Link(m).pin
  <2>1. Put(m, k) /\ eval[m].at = "insert"
    BY <1>8, InsertPuts DEF Opened, Inserted
  <2> HIDE DEF k
  <2>2. CASE j = k
    <3>1. i \in Rows /\ Link(m).to = n /\ rows[i].node = n
      BY <1>1, <1>2, <2>1, <2>2 DEF Put
    <3>2. i < eval[m].row \/ eval[m].row = 0
      BY <1>2, <2>1, <2>2 DEF Put
    <3>3. p \in DOMAIN rows[i].in
      BY <1>3, <2>1, <3>1, <3>2, EarlierHave
    <3>4. DOMAIN rows'[j].in \subseteq {p} \cup (IF j \in Rows THEN DOMAIN rows[j].in ELSE {})
      BY <2>1, <2>2 DEF Put
    <3> QED
      BY <1>4, <1>6, <3>1, <3>3, <3>4
  <2>3. CASE j # k
    <3>1. j \in Rows /\ rows'[j] = rows[j]
      BY <2>1, <2>3 DEF Put
    <3>2. i \in Rows
      BY <1>0, <1>2, <3>1
    <3> QED
      BY <1>4, <1>6, <3>1, <3>2
  <2> QED
    BY <2>2, <2>3
<1>9. ASSUME NEW m \in Nodes, NEW r \in Rows, Readied(m, r)
      PROVE  DOMAIN rows'[j].in \ StaticPins(n) \subseteq DOMAIN rows'[i].in
  <2>1. Rows' = Rows /\ \A q \in Rows : q # r => rows'[q] = rows[q]
    BY <1>0, <1>9 DEF Readied, OnlyRow
  <2>2. CASE j = r
    <3>1. rows[r].node = n /\ rows[r].node = Link(m).to
      BY <1>1, <1>2, <1>9, <2>2 DEF Readied
    <3>2. DOMAIN rows'[j].in \subseteq DOMAIN rows[j].in \cup StaticPins(n)
      BY <1>9, <2>2, <3>1 DEF Readied
    <3> QED
      BY <1>4, <1>6, <2>1, <3>2
  <2>3. CASE j # r
    BY <1>4, <1>6, <2>1, <2>3
  <2> QED
    BY <2>2, <2>3
<1> QED
  BY <1>7, <1>8, <1>9, InputsMove

\* How an evaluation comes to be at work: it was, on the same output, or a visit of the
\* engine has begun it.
Resumed(n) ==
  /\ Evaluating(n) /\ eval'[n].val = eval[n].val /\ eval'[n].todo \subseteq eval[n].todo
  /\ eval[n].at \in {"complete", "others"} =>
       \/ eval'[n].at \in {"complete", "others"} /\ eval'[n].todo = eval[n].todo
       \/ Min(eval[n].todo) \notin eval'[n].todo

LEMMA EvalComes ==
  ASSUME Effect, NEW n \in Nodes, Evaluating(n)'
  PROVE  Resumed(n) \/ Visited(n)
<1>1. CASE eval'[n] = eval[n]
  BY <1>1 DEF Evaluating, Resumed
<1>2. CASE Begun \/ Dispatched \/ CreditsOut \/ Drained \/ Stopped \/ EngineMoves
  <2>1. eval' = eval
    BY <1>2 DEF Begun, Dispatched, CreditsOut, Drained, Closed, Stopped, EngineMoves, LoopEnds,
                PollEnds, Judge, RunOver, Cancel, vars, volatile
  <2> QED
    BY <1>1, <2>1
<1>3. CASE Died
  BY <1>3, NoEvalIs DEF Died, Evaluating
<1>4. ASSUME NEW m \in Nodes, Visited(m) PROVE Resumed(n) \/ Visited(n)
  BY <1>1, <1>4 DEF Visited
<1>5. ASSUME NEW m \in Nodes, EvalFrame(m), EvalEffect(m) PROVE Resumed(n) \/ Visited(n)
  <2>1. CASE m # n
    BY <1>1, <1>5, <2>1 DEF EvalFrame
  <2>2. CASE m = n
    BY <1>5, <2>2 DEF EvalEffect, LookedUp, Opened, Inserted, CompletedOne, CompletedStatic,
       CompletedOther, Passed, Failed, Over, Evaluating, SameLink, NewLink, Resumed
  <2> QED
    BY <2>1, <2>2
<1>6. ASSUME NEW i \in Rows, TaskFrame(i) PROVE Resumed(n) \/ Visited(n)
  BY <1>1, <1>6 DEF TaskFrame
<1> QED
  BY <1>2, <1>3, <1>4, <1>5, <1>6 DEF Effect

\* What a visit that begins an evaluation takes: the first output left by the first task.
LEMMA VisitTakes ==
  ASSUME Typed, Known, NEW n \in Nodes, Visited(n), Evaluating(n)'
  PROVE  \E i \in Rows, k \in Nat :
           /\ rows[i].node = n /\ i = Head(tasks'[n]) /\ i \in Range(tasks'[n])
           /\ work[i].out # <<>> /\ k = Head(work[i].out)
           /\ eval'[n].val = [row |-> i, k |-> k] /\ eval'[n].at = "find"
           /\ eval'[n].todo = LinksOf(n, OutName(eval'[n].val))
           /\ work'[i].out = Tail(work[i].out)
<1>1. PICK i \in Range(tasks'[n]) :
        /\ work[i].out # <<>> /\ eval'[n].at = "find"
        /\ eval'[n].val = [row |-> i, k |-> Head(work[i].out)]
        /\ eval'[n].todo = LinksOf(n, OutName(eval'[n].val))
        /\ work'[i].out = Tail(work[i].out) /\ i = Head(tasks'[n])
  BY DEF Visited, Evaluating
<1>2. i \in Rows /\ rows[i].node = n
  <2>1. Range(tasks[n]) \subseteq Of(n) /\ Range(tasks'[n]) \subseteq Range(tasks[n])
    BY DEF Visited, Known
  <2> QED
    BY <1>1, <2>1 DEF Of
<1>3. work[i].out \in Seq(Nat)
  BY <1>2, RowTyped DEF WorkType
<1>4. Head(work[i].out) \in Nat
  BY <1>1, <1>3
<1> QED
  BY <1>1, <1>2, <1>4

\* An evaluation is of an output of its node, and has links of that output ahead.
Linked ==
  \A n \in Nodes : Evaluating(n) =>
    /\ rows[eval[n].val.row].node = n
    /\ eval[n].todo \subseteq LinksOf(n, OutName(eval[n].val))
LinkedAt(n) == /\ rows[eval[n].val.row].node = n
               /\ eval[n].todo \subseteq LinksOf(n, OutName(eval[n].val))

LEMMA LinkedKept ==
  ASSUME Typed, Typed', Known, Carrying, Linked, Effect
  PROVE  Linked'
<1>1. SUFFICES ASSUME NEW n \in Nodes, Evaluating(n)' PROVE LinkedAt(n)'
  BY DEF Linked, LinkedAt
<1>2. graph' = graph /\ \A i \in Rows : rows'[i].node = rows[i].node
  BY GraphSame
<1>3. ASSUME NEW v, v.row \in Rows, rows[v.row].node = n, eval'[n].val = v,
             eval'[n].todo \subseteq LinksOf(n, OutName(v))
      PROVE  LinkedAt(n)'
  <2>1. OutName(eval[n].val)' = OutName(v)
    BY <1>2, <1>3 DEF OutName
  <2>2. LinksOf(n, OutName(eval[n].val))' = LinksOf(n, OutName(v))
    BY <1>2, <2>1 DEF LinksOf
  <2> QED
    BY <1>2, <1>3, <2>2 DEF LinkedAt
<1>4. CASE Resumed(n)
  BY <1>3, <1>4 DEF Resumed, Linked, Carrying
<1>5. CASE Visited(n)
  <2>1. PICK i \in Rows, k \in Nat :
          /\ rows[i].node = n /\ eval'[n].val = [row |-> i, k |-> k]
          /\ eval'[n].todo = LinksOf(n, OutName(eval'[n].val))
    BY <1>1, <1>5, VisitTakes
  <2>2. PICK v : v = [row |-> i, k |-> k]
    OBVIOUS
  <2> QED
    BY <1>3, <2>1, <2>2
<1> QED
  BY <1>1, <1>4, <1>5, EvalComes

\* Two numbers of a list of numbers that grows, and the lists made from it.
Growing(s) == \A j, k \in DOMAIN s : j < k => s[j] < s[k]

LEMMA GrowsByOne ==
  ASSUME NEW s \in Seq(Nat), Growing(s), NEW x \in Nat, \A y \in Range(s) : y < x
  PROVE  Growing(Append(s, x))
<1> DEFINE t == Append(s, x)
<1>1. /\ DOMAIN s = 1..Len(s) /\ DOMAIN t = 1..(Len(s) + 1) /\ Len(s) \in Nat
      /\ \A k \in 1..Len(s) : t[k] = s[k] /\ s[k] \in Range(s)
      /\ t[Len(s) + 1] = x
  BY DEF Range
<1> HIDE DEF t
<1>2. ASSUME NEW j \in DOMAIN t, NEW k \in DOMAIN t, j < k PROVE t[j] < t[k]
  <2>1. j \in 1..Len(s)
    BY <1>1, <1>2
  <2>2. CASE k = Len(s) + 1
    BY <1>1, <2>1, <2>2
  <2>3. CASE k # Len(s) + 1
    BY <1>1, <1>2, <2>1, <2>3 DEF Growing
  <2> QED
    BY <2>2, <2>3
<1> QED
  BY <1>2 DEF Growing, t

LEMMA GrowsOn ==
  ASSUME NEW s \in Seq(Nat), s # <<>>, Growing(s)
  PROVE  Growing(Tail(s)) /\ \A y \in Range(Tail(s)) : Head(s) < y
<1> DEFINE t == Tail(s)
<1>1. /\ DOMAIN s = 1..Len(s) /\ DOMAIN t = 1..(Len(s) - 1) /\ Len(s) \in Nat /\ Len(s) >= 1
      /\ \A k \in 1..(Len(s) - 1) : t[k] = s[k + 1]
      /\ Head(s) = s[1]
  OBVIOUS
<1> HIDE DEF t
<1>2. ASSUME NEW j \in DOMAIN t, NEW k \in DOMAIN t, j < k PROVE t[j] < t[k]
  <2>1. j + 1 \in DOMAIN s /\ k + 1 \in DOMAIN s /\ j + 1 < k + 1
    BY <1>1, <1>2
  <2>2. s[j + 1] < s[k + 1]
    BY <2>1 DEF Growing
  <2> QED
    BY <1>1, <2>2
<1>3. ASSUME NEW k \in DOMAIN t PROVE Head(s) < t[k]
  <2>1. 1 \in DOMAIN s /\ k + 1 \in DOMAIN s /\ 1 < k + 1
    BY <1>1
  <2>2. s[1] < s[k + 1]
    BY <2>1 DEF Growing
  <2> QED
    BY <1>1, <2>2
<1>4. Growing(t)
  BY <1>2 DEF Growing
<1> QED
  BY <1>3, <1>4 DEF t, Range

\* How the record of a task moves: its row leaves it alone, or the engine reads or drops
\* what it left; it starts; it takes a step; or the process dies.
Left(i) ==
  /\ work'[i].sent = work[i].sent /\ work'[i].end = work[i].end /\ work'[i].turn = work[i].turn
  /\ work'[i].at = work[i].at \/ (work[i].at = "none" /\ work'[i].at = "broken")
  /\ \/ work'[i].out \in {work[i].out, <<>>}
     \/ work[i].out # <<>> /\ work'[i].out = Tail(work[i].out)
BegunAt(i) ==
  /\ work[i].at = "none" /\ work'[i].at = "start" /\ work'[i].out = <<>>
  /\ work'[i].sent = 0 /\ work'[i].end = "none"
  /\ \A j \in Rows : work[j].turn < work'[i].turn
WorkMove(i) ==
  \/ Left(i) \/ BegunAt(i)
  \/ TaskEffect(i) /\ work'[i].turn = work[i].turn
  \/ Died /\ work'[i] = NoWork

LEMMA WorkMoves ==
  ASSUME Typed, Typed', Known, Placed, Effect, NEW i \in Rows
  PROVE  WorkMove(i)
<1>1. CASE work'[i] = work[i]
  BY <1>1 DEF WorkMove, Left
<1>2. CASE Begun \/ CreditsOut \/ Drained \/ EngineMoves
  <2>1. work' = work
    BY <1>2 DEF Begun, CreditsOut, Drained, Closed, EngineMoves, LoopEnds, PollEnds, Judge, RunOver,
                Cancel, vars, volatile
  <2> QED
    BY <1>1, <2>1
<1>3. CASE Dispatched
  <2>1. Head(queue) \in Range(queue)
    BY <1>3, NodeTyped, RangeOfTail DEF Dispatched
  <2>2. work[Head(queue)].at = "none"
    BY <2>1 DEF Placed
  <2>3. CASE i = Head(queue)
    BY <1>3, <2>2, <2>3 DEF Dispatched, WorkMove, BegunAt
  <2>4. CASE i # Head(queue)
    BY <1>1, <1>3, <2>4 DEF Dispatched
  <2> QED
    BY <2>3, <2>4
<1>4. CASE Stopped
  BY <1>4 DEF Stopped, WorkMove, Left
<1>5. CASE Died
  BY <1>5 DEF Died, WorkMove
<1>6. ASSUME NEW n \in Nodes, Visited(n) PROVE WorkMove(i)
  <2>1. CASE work' = work
    BY <1>1, <2>1
  <2>2. ASSUME NEW r \in Range(tasks'[n]), work[r].out # <<>>,
               work'[r].at = work[r].at, work'[r].out = Tail(work[r].out),
               work'[r].sent = work[r].sent, work'[r].end = work[r].end,
               work'[r].turn = work[r].turn, \A j \in Rows : j # r => work'[j] = work[j]
        PROVE  WorkMove(i)
    BY <1>1, <2>2 DEF WorkMove, Left
  <2> QED
    BY <1>6, <2>1, <2>2 DEF Visited
<1>7. ASSUME NEW n \in Nodes, EvalFrame(n), EvalEffect(n) PROVE WorkMove(i)
  <2>1. /\ work'[i].out = work[i].out /\ work'[i].sent = work[i].sent
        /\ work'[i].end = work[i].end /\ work'[i].turn = work[i].turn
        /\ \/ work'[i] = work[i]
           \/ work[i].at = "none" /\ work'[i].at = "broken"
    BY <1>7, EvalWork
  <2> QED
    BY <1>1, <2>1 DEF WorkMove, Left
<1>8. ASSUME NEW r \in Rows, TaskFrame(r), TaskEffect(r) PROVE WorkMove(i)
  <2>1. CASE i = r
    BY <1>8, <2>1 DEF TaskFrame, WorkMove
  <2>2. CASE i # r
    BY <1>1, <1>8, <2>2 DEF TaskFrame
  <2> QED
    BY <2>1, <2>2
<1> QED
  BY <1>2, <1>3, <1>4, <1>5, <1>6, <1>7, <1>8 DEF Effect

LEMMA NewRows ==
  ASSUME Typed, Typed', Known, Placed, Standing, Effect, NEW i \in Rows', i \notin Rows
  PROVE  work'[i] = NoWork
<1>1. CASE \E m \in Nodes : EvalFrame(m) /\ EvalEffect(m)
  BY <1>1, EvalWork
<1>2. CASE ~ \E m \in Nodes : EvalFrame(m) /\ EvalEffect(m)
  BY <1>2, OthersLeaveRows
<1> QED
  BY <1>1, <1>2

\* The outputs a task left are in the order it emitted them; it fails only at its end.
ListedAt(i) == /\ Growing(work[i].out) /\ Range(work[i].out) \subseteq Emitted(i)
               /\ work[i].at \in {"none", "start", "run"} => work[i].end = "none"
Listed == \A i \in Rows : ListedAt(i)

\* A task that has started does not unsay an output.
LEMMA EmittedStays ==
  ASSUME Typed, Typed', Known, Placed, Effect, Listed, ~Died, NEW i \in Rows,
         work[i].at # "none"
  PROVE  /\ Emitted(i) \subseteq Emitted(i)'
         /\ work'[i].at # "none" /\ work'[i].turn = work[i].turn
<1>0. work[i].sent \in Nat /\ ErrorOutput(i)' = ErrorOutput(i)
  BY RowsAre, GraphSame DEF WorkType
<1>1. CASE Left(i)
  <2>1. Emitted(i)' = Emitted(i)
    BY <1>0, <1>1 DEF Left, Emitted
  <2> QED
    BY <1>1, <2>1 DEF Left
<1>2. CASE TaskEffect(i) /\ work'[i].turn = work[i].turn
  <2>1. work[i].at \in {"start", "run"} => work[i].end = "none"
    BY DEF Listed, ListedAt
  <2>2. \/ work'[i].sent = work[i].sent
        \/ work'[i].sent = work[i].sent + 1
    BY <1>2 DEF TaskEffect, Started, Yielded, Returned, Raised, Wrote, Broke, Interrupted, SameOut
  <2>3. 1..work[i].sent \subseteq 1..work'[i].sent
    BY <1>0, <2>2
  <2>4. work[i].end = "FAILED" => work'[i].end = "FAILED"
    BY <1>2, <2>1 DEF TaskEffect, Started, Yielded, Returned, Raised, Wrote, Broke, Interrupted, SameEnd
  <2>5. Emitted(i) \subseteq Emitted(i)'
    BY <1>0, <2>3, <2>4 DEF Emitted
  <2>6. work'[i].at # "none"
    BY <1>2 DEF TaskEffect, Started, Yielded, Returned, Raised, Wrote, Broke, Interrupted
  <2> QED
    BY <1>2, <2>5, <2>6
<1> QED
  BY <1>1, <1>2, WorkMoves DEF WorkMove, BegunAt

LEMMA ListedKept ==
  ASSUME Typed, Typed', Known, Placed, Standing, Yielding, Listed, Effect
  PROVE  Listed'
<1>1. SUFFICES ASSUME NEW i \in Rows' PROVE ListedAt(i)'
  BY DEF Listed
<1>2. Growing(<<>>) /\ Range(<<>>) = {}
  BY RangeOfEmpty DEF Growing
<1>3. CASE work'[i] = NoWork
  <2>1. work'[i].out = <<>> /\ work'[i].end = "none"
    BY <1>3 DEF NoWork
  <2> QED
    BY <1>2, <2>1 DEF ListedAt, Growing, Emitted
<1>4. CASE i \notin Rows
  BY <1>3, <1>4, NewRows
<1>5. CASE BegunAt(i)
  BY <1>2, <1>5 DEF BegunAt, ListedAt, Growing, Emitted
<1>6. CASE i \in Rows /\ Left(i)
  <2>0. ErrorOutput(i)' = ErrorOutput(i) /\ work[i].out \in Seq(Nat) /\ ListedAt(i)
    BY <1>6, RowsAre, GraphSame DEF WorkType, Listed
  <2>1. PICK s \in Seq(Nat) : s = work[i].out /\ Growing(s)
    BY <2>0 DEF ListedAt
  <2>2. PICK t : t = work'[i].out /\ (t \in {s, <<>>} \/ (s # <<>> /\ t = Tail(s)))
    BY <1>6, <2>1 DEF Left
  <2>3. Growing(t) /\ Range(t) \subseteq Range(s)
    BY <1>2, <2>1, <2>2, GrowsOn, RangeOfTail
  <2>4. Range(s) \subseteq Emitted(i) /\ Emitted(i)' = Emitted(i)
    BY <1>6, <2>0, <2>1 DEF ListedAt, Emitted, Left
  <2>5. work'[i].at \in {"none", "start", "run"} => work'[i].end = "none"
    BY <1>6, <2>0 DEF Left, ListedAt
  <2> QED
    BY <2>2, <2>3, <2>4, <2>5 DEF ListedAt
<1>7. CASE i \in Rows /\ TaskEffect(i)
  <2>0. /\ ErrorOutput(i)' = ErrorOutput(i) /\ work[i].out \in Seq(Nat) /\ ListedAt(i)
        /\ work[i].sent \in Nat
    BY <1>7, RowsAre, GraphSame DEF WorkType, Listed
  <2>1. PICK s \in Seq(Nat) : s = work[i].out /\ Growing(s) /\ Range(s) \subseteq Emitted(i)
    BY <2>0 DEF ListedAt
  <2>2. CASE SameOut(i)
    <3>1. work'[i].end = work[i].end \/ (work[i].at \in {"start", "run"} /\ work'[i].at = "write")
      BY <1>7 DEF TaskEffect, Started, Yielded, Returned, Raised, Wrote, Broke, Interrupted, SameEnd
    <3>2. work[i].end = "FAILED" => work'[i].end = "FAILED"
      BY <2>0, <3>1 DEF ListedAt
    <3>3. work'[i].at \in {"none", "start", "run"} => work'[i].end = "none"
      BY <1>7, <2>0 DEF TaskEffect, Started, Yielded, Returned, Raised, Wrote, Broke, Interrupted,
                        SameEnd, ListedAt
    <3>4. Emitted(i) \subseteq Emitted(i)'
      BY <2>0, <2>2, <3>2 DEF Emitted, SameOut
    <3> QED
      BY <2>1, <2>2, <3>3, <3>4 DEF ListedAt, SameOut
  <2>3. ASSUME NEW x \in Nat, work'[i].out = Reported(i, x), \A y \in Range(s) : y < x,
               Range(s) \subseteq Emitted(i)', x \in Emitted(i)'
        PROVE  Growing(work'[i].out) /\ Range(work'[i].out) \subseteq Emitted(i)'
    <3>1. PICK t : t = work'[i].out /\ t \in {s, Append(s, x)}
      BY <2>1, <2>3 DEF Reported
    <3>2. Growing(t)
      BY <2>1, <2>3, <3>1, GrowsByOne
    <3>3. Range(t) \subseteq Range(s) \cup {x}
      BY <3>1, RangeOfAppend
    <3> QED
      BY <2>3, <3>1, <3>2, <3>3
  <2>4. CASE Yielded(i)
    <3>1. work[i].end = "none" /\ work'[i].end = "none" /\ work'[i].at = "run"
      BY <2>0, <2>4 DEF Yielded, SameEnd, ListedAt
    <3>2. Emitted(i) = 1..work[i].sent /\ Emitted(i)' = 1..(work[i].sent + 1)
      BY <2>4, <3>1 DEF Emitted, Yielded
    <3>3. Growing(work'[i].out) /\ Range(work'[i].out) \subseteq Emitted(i)'
      <4>1. PICK x \in Nat : x = work[i].sent + 1
        BY <2>0
      <4>2. \A y \in Range(s) : y < x
        BY <2>0, <2>1, <3>2, <4>1
      <4>3. Range(s) \subseteq Emitted(i)' /\ x \in Emitted(i)'
        BY <2>0, <2>1, <3>2, <4>1
      <4>4. work'[i].out = Reported(i, x)
        BY <2>4, <4>1 DEF Yielded
      <4> QED
        BY <2>3, <4>2, <4>3, <4>4
    <3> QED
      BY <3>1, <3>3 DEF ListedAt
  <2>5. CASE Raised(i)
    <3>1. work[i].end = "none" /\ work'[i].end = "FAILED" /\ work'[i].at = "write"
      BY <2>0, <2>5 DEF Raised, ListedAt
    <3>2. /\ Emitted(i) = 1..work[i].sent
          /\ Emitted(i)' = 1..work[i].sent \cup {ErrorOutput(i)}
      BY <2>0, <2>5, <3>1 DEF Emitted, Raised
    <3>3. ErrorOutput(i) \in Nat /\ work[i].sent < ErrorOutput(i)
      BY <1>7, <2>0, RowTyped DEF ErrorOutput, Yielding
    <3>4. Growing(work'[i].out) /\ Range(work'[i].out) \subseteq Emitted(i)'
      <4>1. \A y \in Range(s) : y < ErrorOutput(i)
        BY <2>0, <2>1, <3>2, <3>3
      <4> QED
        BY <2>1, <2>3, <2>5, <3>2, <3>3, <4>1 DEF Raised
    <3> QED
      BY <3>1, <3>4 DEF ListedAt
  <2> QED
    BY <1>7, <2>2, <2>4, <2>5 DEF TaskEffect, Started, Returned, Wrote, Broke, Interrupted
<1> QED
  BY <1>3, <1>4, <1>5, <1>6, <1>7, WorkMoves DEF WorkMove

\* A task adds an output only after all those it emitted.
LEMMA OutGrows ==
  ASSUME Typed, Typed', Known, Placed, Yielding, Listed, Effect, ~Died, NEW i \in Rows,
         work[i].at # "none", NEW x \in Range(work'[i].out), x \notin Range(work[i].out)
  PROVE  \A y \in Emitted(i) : y < x
<1>0. /\ work[i].sent \in Nat /\ work[i].out \in Seq(Nat) /\ ListedAt(i)
      /\ ErrorOutput(i) \in Nat /\ work[i].sent < ErrorOutput(i)
  BY RowsAre, RowTyped DEF WorkType, Listed, Yielding, ErrorOutput
<1>1. PICK s \in Seq(Nat) : s = work[i].out
  BY <1>0
<1>2. ASSUME NEW y \in Nat, work'[i].out = Reported(i, y) PROVE x = y
  <2>1. PICK t : t = work'[i].out /\ t \in {s, Append(s, y)}
    BY <1>1, <1>2 DEF Reported
  <2>2. Range(t) \subseteq Range(s) \cup {y}
    BY <2>1, RangeOfAppend
  <2> QED
    BY <1>1, <2>1, <2>2
<1>3. CASE Left(i)
  <2>1. PICK t : t = work'[i].out /\ (t \in {s, <<>>} \/ (s # <<>> /\ t = Tail(s)))
    BY <1>1, <1>3 DEF Left
  <2>2. s # <<>> => Range(s) = {Head(s)} \cup Range(Tail(s))
    BY RangeOfTail
  <2>3. CASE t = s \/ t = <<>>
    BY <1>1, <2>1, <2>3, RangeOfEmpty
  <2>4. CASE s # <<>> /\ t = Tail(s)
    <3>1. x \in Range(s)
      BY <2>1, <2>2, <2>4
    <3> QED
      BY <1>1, <3>1
  <2> QED
    BY <2>1, <2>3, <2>4
<1>4. CASE Yielded(i)
  <2>1. Emitted(i) = 1..work[i].sent
    BY <1>0, <1>4 DEF Yielded, ListedAt, Emitted
  <2>2. PICK y \in Nat : y = work[i].sent + 1
    BY <1>0
  <2>3. x = y
    BY <1>2, <1>4, <2>2 DEF Yielded
  <2> QED
    BY <1>0, <2>1, <2>2, <2>3
<1>5. CASE Raised(i)
  <2>1. Emitted(i) = 1..work[i].sent
    BY <1>0, <1>5 DEF Raised, ListedAt, Emitted
  <2>2. x = ErrorOutput(i)
    BY <1>0, <1>2, <1>5 DEF Raised
  <2> QED
    BY <1>0, <2>1, <2>2
<1>6. CASE SameOut(i)
  BY <1>6 DEF SameOut
<1> QED
  BY <1>3, <1>4, <1>5, <1>6, WorkMoves
     DEF WorkMove, BegunAt, TaskEffect, Started, Returned, Wrote, Broke, Interrupted

\* How the tasks of a node move: the first of them are dropped, or one that begins is added.
Dropped(n) ==
  \E d \in Nat : \A k \in DOMAIN tasks'[n] :
    k + d \in DOMAIN tasks[n] /\ tasks'[n][k] = tasks[n][k + d]
Added(n) == \E h \in Rows : BegunAt(h) /\ tasks'[n] = Append(tasks[n], h)

LEMMA TasksMove ==
  ASSUME Typed, Known, Placed, Effect, NEW n \in Nodes
  PROVE  Dropped(n) \/ Added(n)
<1>1. CASE tasks'[n] = tasks[n]
  <2>1. tasks[n] \in Seq(Nat)
    BY NodeTyped
  <2>2. \A k \in DOMAIN tasks[n] : k + 0 = k
    BY <2>1
  <2> QED
    BY <1>1, <2>2 DEF Dropped
<1>2. CASE tasks'[n] = <<>>
  BY <1>2 DEF Dropped
<1>3. CASE Begun \/ CreditsOut \/ Drained \/ EngineMoves
  <2>1. tasks' = tasks
    BY <1>3 DEF Begun, CreditsOut, Drained, Closed, EngineMoves, LoopEnds, PollEnds, Judge, RunOver,
                Cancel, vars, volatile
  <2> QED
    BY <1>1, <2>1
<1>4. CASE Dispatched
  <2>1. PICK h \in Rows : h = Head(queue) /\ h \in Range(queue)
    BY <1>4, NodeTyped, RangeOfTail DEF Dispatched, Known
  <2>2. BegunAt(h)
    BY <1>4, <2>1 DEF Dispatched, BegunAt, Placed
  <2>3. tasks'[n] = tasks[n] \/ tasks'[n] = Append(tasks[n], h)
    BY <1>4, <2>1 DEF Dispatched
  <2> QED
    BY <1>1, <2>2, <2>3 DEF Added
<1>5. CASE Stopped \/ Died
  BY <1>2, <1>5 DEF Stopped, Died
<1>6. ASSUME NEW m \in Nodes, Visited(m) PROVE Dropped(n)
  <2>1. CASE m = n
    BY <1>6, <2>1 DEF Visited, Dropped
  <2>2. CASE m # n
    BY <1>1, <1>6, <2>2 DEF Visited, Added
  <2> QED
    BY <2>1, <2>2
<1>7. CASE (\E m \in Nodes : EvalFrame(m)) \/ \E i \in Rows : TaskFrame(i)
  BY <1>1, <1>7 DEF EvalFrame, TaskFrame
<1> QED
  BY <1>3, <1>4, <1>5, <1>6, <1>7 DEF Effect

\* The tasks of a node have started, in the order they are listed.
SortedAt(n) ==
  /\ \A i \in Range(tasks[n]) : work[i].at # "none"
  /\ \A j, k \in DOMAIN tasks[n] : j < k => work[tasks[n][j]].turn < work[tasks[n][k]].turn
Sorted == \A n \in Nodes : SortedAt(n)

LEMMA SortedKept ==
  ASSUME Typed, Typed', Known, Placed, Listed, Sorted, Effect
  PROVE  Sorted'
<1>1. SUFFICES ASSUME NEW n \in Nodes PROVE SortedAt(n)'
  BY DEF Sorted
<1>2. CASE Died
  <2>1. tasks'[n] = <<>>
    BY <1>2 DEF Died
  <2> QED
    BY <2>1, RangeOfEmpty DEF SortedAt
<1>3. CASE ~Died
  <2>0. tasks[n] \in Seq(Nat) /\ Range(tasks[n]) \subseteq Rows /\ SortedAt(n)
    BY NodeTyped DEF Known, Of, Sorted
  <2>1. PICK s \in Seq(Nat) : s = tasks[n]
    BY <2>0
  <2>2. PICK t : t = tasks'[n]
    OBVIOUS
  <2>3. \A k \in DOMAIN s : /\ s[k] \in Rows /\ work[s[k]].at # "none"
                            /\ work'[s[k]].at # "none" /\ work'[s[k]].turn = work[s[k]].turn
    <3> TAKE k \in DOMAIN s
    <3>1. PICK i \in Rows : i = s[k] /\ work[i].at # "none"
      BY <2>0, <2>1 DEF SortedAt, Range
    <3>2. work'[i].at # "none" /\ work'[i].turn = work[i].turn
      BY <1>3, <3>1, EmittedStays
    <3> QED
      BY <3>1, <3>2
  <2>4. \A j, k \in DOMAIN s : j < k => work[s[j]].turn < work[s[k]].turn
    BY <2>0, <2>1 DEF SortedAt
  <2>5. SUFFICES /\ \A k \in DOMAIN t : work'[t[k]].at # "none"
                 /\ \A j, k \in DOMAIN t : j < k => work'[t[j]].turn < work'[t[k]].turn
    BY <2>2 DEF SortedAt, Range
  <2>6. CASE Dropped(n)
    <3>1. PICK d \in Nat : \A k \in DOMAIN t : k + d \in DOMAIN s /\ t[k] = s[k + d]
      BY <2>1, <2>2, <2>6 DEF Dropped
    <3>2. DOMAIN t \subseteq Nat
      BY <2>2 DEF Typed
    <3>3. ASSUME NEW j \in DOMAIN t, NEW k \in DOMAIN t, j < k
          PROVE  work'[t[j]].turn < work'[t[k]].turn
      <4>1. j + d < k + d
        BY <3>2, <3>3
      <4>2. work[s[j + d]].turn < work[s[k + d]].turn
        BY <2>4, <3>1, <4>1
      <4> QED
        BY <2>3, <3>1, <4>2
    <3> QED
      BY <2>3, <3>1, <3>3
  <2>7. CASE Added(n)
    <3>1. PICK h \in Rows : BegunAt(h) /\ t = Append(s, h)
      BY <2>1, <2>2, <2>7 DEF Added
    <3>2. /\ DOMAIN s = 1..Len(s) /\ DOMAIN t = 1..(Len(s) + 1) /\ Len(s) \in Nat
          /\ \A k \in 1..Len(s) : t[k] = s[k]
          /\ t[Len(s) + 1] = h
      BY <3>1
    <3>3. work'[h].at # "none" /\ \A j \in Rows : work[j].turn < work'[h].turn
      BY <3>1 DEF BegunAt
    <3>4. \A k \in DOMAIN t : work'[t[k]].at # "none"
      BY <2>3, <3>2, <3>3
    <3>5. ASSUME NEW j \in DOMAIN t, NEW k \in DOMAIN t, j < k
          PROVE  work'[t[j]].turn < work'[t[k]].turn
      <4>1. j \in DOMAIN s /\ t[j] = s[j]
        BY <3>2, <3>5
      <4>2. CASE k = Len(s) + 1
        BY <2>3, <3>2, <3>3, <4>1, <4>2
      <4>3. CASE k # Len(s) + 1
        <5>1. k \in DOMAIN s /\ t[k] = s[k]
          BY <3>2, <3>5, <4>3
        <5> QED
          BY <2>3, <2>4, <3>5, <4>1, <5>1
      <4> QED
        BY <4>2, <4>3
    <3> QED
      BY <3>4, <3>5
  <2> QED
    BY <2>6, <2>7, TasksMove
<1> QED
  BY <1>2, <1>3

\* An output has been read: what its task has left comes after it, and so do the outputs of
\* the other tasks of the node that are still listed.
Past(v) ==
  /\ work[v.row].at # "none" /\ v.k \in Emitted(v.row)
  /\ \A k \in Range(work[v.row].out) : v.k < k
  /\ \A t \in Range(tasks[rows[v.row].node]) : t = v.row \/ work[v.row].turn < work[t].turn

LEMMA PastKept ==
  ASSUME Typed, Typed', Known, Placed, Yielding, Listed, Sorted, Effect, ~Died,
         NEW v, v.row \in Rows, Past(v)
  PROVE  Past(v)'
<1>1. PICK i \in Rows, n \in Nodes : i = v.row /\ n = rows[i].node
  BY RowsAre DEF RowType
<1>2. rows'[i].node = n
  BY <1>1, GraphSame
<1>3. work[i].at # "none" /\ v.k \in Emitted(i) /\ \A k \in Range(work[i].out) : v.k < k
  BY <1>1 DEF Past
<1>4. /\ Emitted(i) \subseteq Emitted(i)'
      /\ work'[i].at # "none" /\ work'[i].turn = work[i].turn
  BY <1>3, EmittedStays
<1>5. \A k \in Range(work'[i].out) : v.k < k
  <2> TAKE k \in Range(work'[i].out)
  <2>1. CASE k \in Range(work[i].out)
    BY <1>3, <2>1
  <2>2. CASE k \notin Range(work[i].out)
    BY <1>3, <2>2, OutGrows
  <2> QED
    BY <2>1, <2>2
<1>6. \A t \in Range(tasks[n]) : t = i \/ work[i].turn < work[t].turn
  BY <1>1 DEF Past
<1>7. /\ Range(tasks[n]) \subseteq Rows /\ tasks[n] \in Seq(Nat)
      /\ \A t \in Range(tasks[n]) : work[t].at # "none"
  BY NodeTyped DEF Known, Of, Sorted, SortedAt
<1>8. ASSUME NEW t \in Range(tasks[n]) PROVE t = i \/ work[i].turn < work'[t].turn
  <2>1. t \in Rows /\ work[t].at # "none"
    BY <1>7
  <2>2. work'[t].turn = work[t].turn
    BY <2>1, EmittedStays
  <2> QED
    BY <1>6, <2>2
<1>9. \A t \in Range(tasks'[n]) : t = i \/ work[i].turn < work'[t].turn
  <2>1. CASE Dropped(n)
    <3>1. PICK d \in Nat : \A k \in DOMAIN tasks'[n] : /\ k + d \in DOMAIN tasks[n]
                                                       /\ tasks'[n][k] = tasks[n][k + d]
      BY <2>1 DEF Dropped
    <3>2. Range(tasks'[n]) \subseteq Range(tasks[n])
      BY <3>1 DEF Range
    <3> QED
      BY <1>8, <3>2
  <2>2. CASE Added(n)
    <3>1. PICK h \in Rows : BegunAt(h) /\ tasks'[n] = Append(tasks[n], h)
      BY <2>2 DEF Added
    <3>2. PICK s \in Seq(Nat) : s = tasks[n]
      BY <1>7
    <3>3. Range(Append(s, h)) = Range(s) \cup {h}
      <4>1. h \in Nat
        BY RowsAre
      <4> QED
        BY <4>1, RangeOfAppend
    <3>4. work[i].turn < work'[h].turn
      BY <3>1 DEF BegunAt
    <3> QED
      BY <1>8, <3>1, <3>2, <3>3, <3>4
  <2> QED
    BY <2>1, <2>2, TasksMove
<1>10. v.k \in Emitted(i)'
  BY <1>3, <1>4
<1> QED
  BY <1>1, <1>2, <1>4, <1>5, <1>9, <1>10 DEF Past

\* The order of two outputs of tasks that have started does not change.
LEMMA BeforeKept ==
  ASSUME Typed, Typed', Known, Placed, Listed, Effect, ~Died,
         NEW v, NEW w, v.row \in Rows, w.row \in Rows,
         work[v.row].at # "none", work[w.row].at # "none", Before(v, w)
  PROVE  Before(v, w)'
<1>1. work'[v.row].turn = work[v.row].turn /\ work'[w.row].turn = work[w.row].turn
  BY EmittedStays
<1> QED
  BY <1>1 DEF Before

\* Row i has a value on pin p that it does not share with other rows.
Given(i, p) == p \in DOMAIN rows[i].in \ StaticPins(rows[i].node)
GivenBy(n, i, p, v) ==
  /\ Put(n, i) /\ eval[n].at = "insert" /\ eval'[n].at = "complete"
  /\ eval'[n].val = eval[n].val /\ eval'[n].todo = eval[n].todo
  /\ rows'[i].node = Link(n).to /\ p = Link(n).pin /\ v = eval[n].val

\* A row has what it was given, or is given it by an evaluation.
LEMMA GivenMoves ==
  ASSUME Typed, Typed', Known, Standing, Evaluations, Effect,
         NEW i \in Rows', NEW p, Given(i, p)', NEW v, v = rows'[i].in[p]
  PROVE  \/ i \in Rows /\ Given(i, p) /\ rows[i].in[p] = v
         \/ \E n \in Nodes : GivenBy(n, i, p, v)
<1>1. /\ \A n \in Nodes : StaticPins(n)' = StaticPins(n)
      /\ graph' = graph /\ \A j \in Rows : rows'[j].node = rows[j].node
  BY GraphSame
<1>2. \A j \in Rows : rows[j] \in RowType
  BY RowsAre
<1>3. p \in DOMAIN rows'[i].in
  BY DEF Given
<1>4. ASSUME i \in Rows, p \in DOMAIN rows[i].in, rows[i].in[p] = v
      PROVE  i \in Rows /\ Given(i, p) /\ rows[i].in[p] = v
  <2>1. PICK m \in Nodes : m = rows[i].node /\ m = rows'[i].node
    BY <1>1, <1>2, <1>4 DEF RowType
  <2>2. p \notin StaticPins(m)
    BY <1>1, <2>1 DEF Given, StaticPins
  <2> QED
    BY <1>4, <2>1, <2>2 DEF Given
<1>5. CASE SameInputs
  BY <1>3, <1>4, <1>5 DEF SameInputs
<1>6. ASSUME NEW n \in Nodes, EvalFrame(n), Opened(n) \/ Inserted(n)
      PROVE  (i \in Rows /\ Given(i, p) /\ rows[i].in[p] = v) \/ GivenBy(n, i, p, v)
  <2> DEFINE k == eval'[n].row
  <2>1. Put(n, k)
    BY <1>6, InsertPuts
  <2>2. /\ eval[n].at = "insert" /\ eval'[n].at = "complete"
        /\ eval'[n].val = eval[n].val /\ eval'[n].todo = eval[n].todo
    BY <1>6 DEF Opened, Inserted, SameLink
  <2> HIDE DEF k
  <2>3. CASE i # k
    BY <1>3, <1>4, <2>1, <2>3 DEF Put
  <2>4. CASE i = k /\ p = Link(n).pin
    <3>1. rows'[i].node = Link(n).to /\ v = eval[n].val
      BY <2>1, <2>4 DEF Put
    <3> QED
      BY <2>1, <2>2, <2>4, <3>1 DEF GivenBy
  <2>5. CASE i = k /\ p # Link(n).pin
    <3>1. i \in Rows /\ p \in DOMAIN rows[i].in
      BY <1>3, <2>1, <2>5 DEF Put
    <3>2. rows'[i].in[p] = rows[i].in[p]
      BY <2>1, <2>5, <3>1 DEF Put
    <3> QED
      BY <1>4, <3>1, <3>2
  <2> QED
    BY <2>3, <2>4, <2>5
<1>7. ASSUME NEW n \in Nodes, NEW r \in Rows, Readied(n, r)
      PROVE  i \in Rows /\ Given(i, p) /\ rows[i].in[p] = v
  <2>1. i \in Rows /\ (i # r => rows'[i] = rows[i])
    BY <1>7, RowsAre DEF Readied, OnlyRow
  <2>2. CASE i # r
    BY <1>3, <1>4, <2>1, <2>2
  <2>3. CASE i = r
    <3>1. PICK m \in Nodes : m = rows[i].node /\ m = rows'[i].node
      BY <1>1, <1>2, <2>1 DEF RowType
    <3>2. p \notin StaticPins(m)
      BY <1>1, <3>1 DEF Given, StaticPins
    <3>3. m = Link(n).to
      BY <1>7, <2>3, <3>1 DEF Readied
    <3>4. p \in DOMAIN rows[i].in
      BY <1>3, <1>7, <2>3, <3>2, <3>3 DEF Readied
    <3>5. rows'[i].in[p] = rows[i].in[p]
      BY <1>7, <2>3, <3>4 DEF Readied
    <3> QED
      BY <1>4, <2>1, <3>4, <3>5
  <2> QED
    BY <2>2, <2>3
<1> QED
  BY <1>5, <1>6, <1>7, InputsMove

\* The outputs that a row was given or an evaluation carries have been read, unless a crash
\* has made the turns start again.
Calm == trouble # "crash"
Read ==
  Calm => /\ \A i \in Rows : \A p \in DOMAIN rows[i].in : Given(i, p) => Past(rows[i].in[p])
          /\ \A n \in Nodes : Evaluating(n) => Past(eval[n].val)

\* What the rows were given and the evaluations carry.
LEMMA GivenIs ==
  ASSUME Typed, Filling, Carrying, Linked, Read, Calm
  PROVE  /\ \A i \in Rows : \A p : Given(i, p) =>
              rows[i].in[p].row \in Rows /\ Past(rows[i].in[p])
         /\ \A n \in Nodes : Evaluating(n) =>
              /\ eval[n].val.row \in Rows /\ Past(eval[n].val)
              /\ rows[eval[n].val.row].node = n
BY DEF Filling, Fits, Carrying, Linked, Read, Given

\* The output that a visit takes has not been read, and comes next.
LEMMA VisitReads ==
  ASSUME Typed, Typed', Known, Futures, Placed, Listed, Sorted', Effect, ~Died,
         NEW n \in Nodes, Visited(n), Evaluating(n)'
  PROVE  \E i \in Rows, k \in Nat :
           /\ eval'[n].val = [row |-> i, k |-> k] /\ rows[i].node = n /\ eval'[n].at = "find"
           /\ work[i].at # "none" /\ i \in Range(tasks[n]) /\ k \in Range(work[i].out)
           /\ Past([row |-> i, k |-> k])'
<1>1. PICK i \in Rows, k \in Nat :
        /\ rows[i].node = n /\ i = Head(tasks'[n]) /\ i \in Range(tasks'[n])
        /\ work[i].out # <<>> /\ k = Head(work[i].out)
        /\ eval'[n].val = [row |-> i, k |-> k] /\ eval'[n].at = "find"
        /\ work'[i].out = Tail(work[i].out)
  BY VisitTakes
<1>2. PICK s \in Seq(Nat) : s = work[i].out
  BY RowTyped DEF WorkType
<1>3. work[i].at # "none"
  BY <1>1 DEF Futures
<1>4. Growing(s) /\ Range(s) \subseteq Emitted(i)
  BY <1>2 DEF Listed, ListedAt
<1>5. k \in Range(s) /\ \A y \in Range(Tail(s)) : k < y
  BY <1>1, <1>2, <1>4, GrowsOn, RangeOfTail
<1>6. /\ Emitted(i) \subseteq Emitted(i)'
      /\ work'[i].at # "none" /\ work'[i].turn = work[i].turn
  BY <1>3, EmittedStays
<1>7. rows'[i].node = n
  BY <1>1, GraphSame
<1>8. \A t \in Range(tasks'[n]) : t = i \/ work'[i].turn < work'[t].turn
  <2>1. PICK r \in Seq(Nat) : r = tasks'[n]
    BY DEF Typed
  <2>2. \A j, l \in DOMAIN r : j < l => work'[r[j]].turn < work'[r[l]].turn
    BY <2>1 DEF Sorted, SortedAt
  <2>3. \A l \in DOMAIN r : 1 \in DOMAIN r /\ (l = 1 \/ 1 < l) /\ r[1] = Head(r)
    BY <2>1
  <2>4. ASSUME NEW t \in Range(r) PROVE t = i \/ work'[i].turn < work'[t].turn
    <3>1. PICK l \in DOMAIN r : r[l] = t
      BY <2>4 DEF Range
    <3>2. r[1] = i
      BY <1>1, <2>1, <2>3, <3>1
    <3> QED
      BY <2>2, <2>3, <3>1, <3>2
  <2> QED
    BY <2>1, <2>4
<1>9. Past([row |-> i, k |-> k])'
  <2>1. PICK v : v = [row |-> i, k |-> k]
    OBVIOUS
  <2>2. v.row = i /\ v.k = k
    BY <2>1
  <2>3. Past(v)'
    BY <1>1, <1>2, <1>4, <1>5, <1>6, <1>7, <1>8, <2>2 DEF Past
  <2> QED
    BY <2>1, <2>3
<1>10. i \in Range(tasks[n])
  BY <1>1 DEF Visited
<1> QED
  BY <1>1, <1>2, <1>3, <1>5, <1>9, <1>10

LEMMA ReadKept ==
  ASSUME Typed, Typed', Known, Futures, Placed, Standing, Evaluations, Filling, Yielding, Carrying,
         Linked, Listed, Sorted, Sorted', Read, Effect, Calm' => Calm /\ ~Died
  PROVE  Read'
<1>1. SUFFICES ASSUME Calm'
               PROVE  /\ \A i \in Rows' : \A p : Given(i, p)' => Past(rows[i].in[p])'
                      /\ \A n \in Nodes : Evaluating(n)' => Past(eval[n].val)'
  BY DEF Read
<1>2. ASSUME NEW v, v.row \in Rows, Past(v) PROVE Past(v)'
  BY <1>1, <1>2, PastKept
<1>3. ASSUME NEW i \in Rows', NEW p, Given(i, p)' PROVE Past(rows[i].in[p])'
  <2>1. PICK v : v = rows'[i].in[p]
    OBVIOUS
  <2>2. v.row \in Rows /\ Past(v)
    <3>1. CASE i \in Rows /\ Given(i, p) /\ rows[i].in[p] = v
      BY <1>1, <3>1, GivenIs
    <3>2. ASSUME NEW n \in Nodes, GivenBy(n, i, p, v) PROVE v.row \in Rows /\ Past(v)
      BY <1>1, <3>2, GivenIs DEF GivenBy, Evaluating
    <3> QED
      BY <1>3, <2>1, <3>1, <3>2, GivenMoves
  <2>3. Past(v)'
    BY <1>2, <2>2
  <2> QED
    BY <2>1, <2>3 DEF Past
<1>4. ASSUME NEW n \in Nodes, Evaluating(n)' PROVE Past(eval[n].val)'
  <2>1. PICK v : v = eval'[n].val
    OBVIOUS
  <2>2. Past(v)'
    <3>1. CASE Resumed(n)
      BY <1>1, <1>2, <2>1, <3>1, GivenIs DEF Resumed
    <3>2. CASE Visited(n)
      BY <1>1, <1>4, <2>1, <3>2, VisitReads
    <3> QED
      BY <1>4, <3>1, <3>2, EvalComes
  <2> QED
    BY <2>1, <2>2 DEF Past
<1> QED
  BY <1>3, <1>4

\* An evaluation carries the last of the outputs of its node that rows were given.
InTurnAt(n) ==
  \A i \in Rows : \A p \in DOMAIN rows[i].in :
    Given(i, p) /\ rows[rows[i].in[p].row].node = n =>
      rows[i].in[p] = eval[n].val \/ Before(rows[i].in[p], eval[n].val)
InTurn == Calm => \A n \in Nodes : Evaluating(n) => InTurnAt(n)

\* It has given it only over links that it has passed, or over the one it is at.
OnceAt(n) ==
  \A i \in Rows : \A p \in DOMAIN rows[i].in :
    Given(i, p) /\ rows[i].in[p] = eval[n].val =>
      \A x \in eval[n].todo : graph.links[x].to = rows[i].node /\ graph.links[x].pin = p =>
        eval[n].at \in {"complete", "others"} /\ x = Min(eval[n].todo)
Once == Calm => \A n \in Nodes : Evaluating(n) => OnceAt(n)

\* No two links of a graph lead from one output to one pin.
Untwinned(g) ==
  \A x, y \in DOMAIN g.links :
    LET k == g.links[x]
        l == g.links[y] IN
    k.from = l.from /\ k.out = l.out /\ k.to = l.to /\ k.pin = l.pin => x = y

LEMMA InTurnKept ==
  ASSUME Typed, Typed', Known, Futures, Placed, Standing, Evaluations, Filling, Yielding, Carrying,
         Linked, Listed, Sorted, Sorted', Read, InTurn, Effect, Calm' => Calm /\ ~Died
  PROVE  InTurn'
<1>1. SUFFICES ASSUME Calm', NEW n \in Nodes, Evaluating(n)' PROVE InTurnAt(n)'
  BY DEF InTurn
<1>2. /\ \A i \in Rows : \A p : Given(i, p) => rows[i].in[p].row \in Rows /\ Past(rows[i].in[p])
      /\ \A m \in Nodes : Evaluating(m) => /\ eval[m].val.row \in Rows /\ Past(eval[m].val)
                                           /\ rows[eval[m].val.row].node = m
  BY <1>1, GivenIs
<1>3. \A j \in Rows : rows'[j].node = rows[j].node
  BY GraphSame
<1>4. ASSUME NEW v, NEW w, v.row \in Rows, w.row \in Rows, Past(v), work[w.row].at # "none",
             Before(v, w)
      PROVE  Before(v, w)'
  BY <1>1, <1>4, BeforeKept DEF Past
<1>5. ASSUME NEW i \in Rows', NEW p, Given(i, p)', NEW v, v = rows'[i].in[p],
             rows'[v.row].node = n, NEW w, w = eval'[n].val
      PROVE  v = w \/ Before(v, w)'
  <2>1. CASE i \in Rows /\ Given(i, p) /\ rows[i].in[p] = v
    <3>1. v.row \in Rows /\ Past(v) /\ rows[v.row].node = n
      BY <1>2, <1>3, <1>5, <2>1
    <3>2. CASE Resumed(n)
      <4>1. Evaluating(n) /\ w = eval[n].val
        BY <1>5, <3>2 DEF Resumed
      <4>2. v = w \/ Before(v, w)
        BY <1>1, <2>1, <3>1, <4>1 DEF InTurn, InTurnAt, Given
      <4>3. w.row \in Rows /\ work[w.row].at # "none"
        BY <1>2, <4>1 DEF Past
      <4> QED
        BY <1>4, <3>1, <4>2, <4>3
    <3>3. CASE Visited(n)
      <4>1. PICK r \in Rows, k \in Nat :
              /\ w = [row |-> r, k |-> k] /\ work[r].at # "none"
              /\ r \in Range(tasks[n]) /\ k \in Range(work[r].out)
        BY <1>1, <1>5, <3>3, VisitReads
      <4>2. w.row = r /\ w.k = k
        BY <4>1
      <4>3. Before(v, w)
        BY <3>1, <4>1, <4>2 DEF Before, Past
      <4> QED
        BY <1>4, <3>1, <4>1, <4>2, <4>3
    <3> QED
      BY <1>1, <3>2, <3>3, EvalComes
  <2>2. ASSUME NEW m \in Nodes, GivenBy(m, i, p, v) PROVE v = w
    <3>1. Evaluating(m) /\ v = eval[m].val
      BY <2>2 DEF GivenBy, Evaluating
    <3>2. m = n
      BY <1>2, <1>3, <1>5, <3>1
    <3> QED
      BY <1>5, <2>2, <3>1, <3>2 DEF GivenBy
  <2> QED
    BY <1>5, <2>1, <2>2, GivenMoves
<1>6. ASSUME NEW i \in Rows', NEW p \in DOMAIN rows'[i].in, Given(i, p)',
             rows'[rows'[i].in[p].row].node = n
      PROVE  rows'[i].in[p] = eval'[n].val \/ Before(rows[i].in[p], eval[n].val)'
  <2>1. PICK v, w : v = rows'[i].in[p] /\ w = eval'[n].val
    OBVIOUS
  <2>2. v = w \/ Before(v, w)'
    BY <1>5, <1>6, <2>1
  <2> QED
    BY <2>1, <2>2 DEF Before
<1> QED
  BY <1>6 DEF InTurnAt

LEMMA OnceKept ==
  ASSUME Typed, Typed', Known, Futures, Placed, Standing, Evaluations, Filling, Yielding, Carrying,
         Linked, Listed, Sorted, Sorted', Read, Once, Untwinned(graph), Effect,
         Calm' => Calm /\ ~Died
  PROVE  Once'
<1>1. SUFFICES ASSUME Calm', NEW n \in Nodes, Evaluating(n)' PROVE OnceAt(n)'
  BY DEF Once
<1>2. /\ \A i \in Rows : \A p : Given(i, p) => rows[i].in[p].row \in Rows /\ Past(rows[i].in[p])
      /\ \A m \in Nodes : Evaluating(m) => /\ eval[m].val.row \in Rows /\ Past(eval[m].val)
                                           /\ rows[eval[m].val.row].node = m
  BY <1>1, GivenIs
<1>3. graph' = graph /\ \A j \in Rows : rows'[j].node = rows[j].node
  BY GraphSame
<1>4. SUFFICES ASSUME NEW i \in Rows', NEW p, NEW v, NEW x \in eval'[n].todo,
                      Given(i, p)', v = rows'[i].in[p], v = eval'[n].val,
                      graph.links[x].to = rows'[i].node, graph.links[x].pin = p
               PROVE  eval'[n].at \in {"complete", "others"} /\ x = Min(eval'[n].todo)
  BY <1>3 DEF OnceAt, Given
<1>5. v = eval'[n].val
  BY <1>4
<1>6. CASE i \in Rows /\ Given(i, p) /\ rows[i].in[p] = v
  <2>1. CASE Resumed(n)
    <3>1. Evaluating(n) /\ v = eval[n].val /\ x \in eval[n].todo
      BY <1>4, <2>1 DEF Resumed
    <3>2. eval[n].at \in {"complete", "others"} /\ x = Min(eval[n].todo)
      BY <1>1, <1>3, <1>4, <1>6, <3>1 DEF Once, OnceAt, Given
    <3> QED
      BY <1>4, <2>1, <3>2 DEF Resumed
  <2>2. CASE Visited(n)
    <3>1. PICK r \in Rows, k \in Nat :
            /\ v = [row |-> r, k |-> k] /\ k \in Range(work[r].out)
      BY <1>1, <1>5, <2>2, VisitReads
    <3>2. v.row = r /\ v.k = k
      BY <3>1
    <3>3. k < k
      BY <1>2, <1>6, <3>1, <3>2 DEF Past
    <3> QED
      BY <3>3
  <2> QED
    BY <1>1, <2>1, <2>2, EvalComes
<1>7. ASSUME NEW m \in Nodes, GivenBy(m, i, p, v)
      PROVE  eval'[n].at \in {"complete", "others"} /\ x = Min(eval'[n].todo)
  <2>1. Evaluating(m) /\ Inside(m) /\ v = eval[m].val
    BY <1>7 DEF GivenBy, Evaluating, Inside
  <2>2. m = n
    <3>1. CASE Resumed(n)
      <4>1. Evaluating(n) /\ v = eval[n].val
        BY <1>5, <3>1 DEF Resumed
      <4> QED
        BY <1>2, <2>1, <4>1
    <3>2. CASE Visited(n)
      <4>1. PICK r \in Rows, k \in Nat : v = [row |-> r, k |-> k] /\ rows[r].node = n
        BY <1>1, <1>5, <3>2, VisitReads
      <4>2. v.row = r
        BY <4>1
      <4> QED
        BY <1>2, <2>1, <4>1, <4>2
    <3> QED
      BY <1>1, <3>1, <3>2, EvalComes
  <2>3. eval'[n].at = "complete" /\ eval'[n].todo = eval[n].todo
    BY <1>7, <2>2 DEF GivenBy
  <2>4. PICK y : y = Min(eval[n].todo)
    OBVIOUS
  <2>5. y \in eval[n].todo /\ graph.links[y].to = rows'[i].node /\ graph.links[y].pin = p
    <3>1. eval[n].todo # {} /\ eval[n].todo \subseteq DOMAIN graph.links
      BY <2>1, <2>2 DEF Evaluations
    <3>2. y \in eval[n].todo
      BY <2>4, <3>1, LinkTyped
    <3> QED
      BY <1>7, <2>2, <2>4, <3>2 DEF GivenBy, Link
  <2>6. eval[n].todo \subseteq LinksOf(n, OutName(v))
    BY <2>1, <2>2 DEF Linked
  <2>7. x = y
    BY <1>4, <2>3, <2>5, <2>6 DEF LinksOf, Untwinned
  <2> QED
    BY <2>3, <2>4, <2>7
<1> QED
  BY <1>4, <1>6, <1>7, GivenMoves

LEMMA ConsumedKept ==
  ASSUME Typed, Typed', Known, Futures, Placed, Standing, Evaluations, Filling, Yielding, Carrying,
         Fresh, Staircase, Linked, Listed, Sorted, Read, InTurn, Once, ConsumedInOrder,
         Effect, Calm' => Calm /\ ~Died
  PROVE  ConsumedInOrder'
<1>1. /\ graph' = graph /\ \A j \in Rows : rows'[j].node = rows[j].node
      /\ Rows = 1..Len(rows) /\ Len(rows) \in Nat /\ Rows' = 1..Len(rows') /\ Len(rows') \in Nat
  BY GraphSame, RowsAre
<1>2. SUFFICES ASSUME NEW i \in Rows', NEW j \in Rows', NEW p, NEW v, NEW w, Calm', i < j,
                      rows'[i].node = rows'[j].node, Given(i, p)', Given(j, p)',
                      v = rows'[i].in[p], w = rows'[j].in[p],
                      rows'[v.row].node = rows'[w.row].node
               PROVE  Before(v, w)'
  <2>1. SUFFICES ASSUME Calm', NEW i \in Rows', NEW j \in Rows', i < j,
                        rows'[i].node = rows'[j].node,
                        NEW p \in DOMAIN rows'[i].in \cap DOMAIN rows'[j].in,
                        p \notin StaticPins(rows[i].node)',
                        rows'[rows'[i].in[p].row].node = rows'[rows'[j].in[p].row].node
                 PROVE  Before(rows[i].in[p], rows[j].in[p])'
    BY DEF ConsumedInOrder, Calm
  <2>2. PICK v, w : v = rows'[i].in[p] /\ w = rows'[j].in[p]
    OBVIOUS
  <2>3. Given(i, p)' /\ Given(j, p)'
    BY <2>1 DEF Given, StaticPins
  <2>4. Before(v, w)'
    BY <1>2, <2>1, <2>2, <2>3
  <2> QED
    BY <2>2, <2>4 DEF Before
<1>3. /\ \A k \in Rows : \A q : Given(k, q) => rows[k].in[q].row \in Rows /\ Past(rows[k].in[q])
      /\ \A m \in Nodes : Evaluating(m) => /\ eval[m].val.row \in Rows /\ Past(eval[m].val)
                                           /\ rows[eval[m].val.row].node = m
  BY <1>2, GivenIs
<1>4. ASSUME v.row \in Rows, w.row \in Rows, Past(v), Past(w), Before(v, w)
      PROVE  Before(v, w)'
  BY <1>2, <1>4, BeforeKept DEF Past
<1>5. CASE /\ i \in Rows /\ Given(i, p) /\ rows[i].in[p] = v
           /\ j \in Rows /\ Given(j, p) /\ rows[j].in[p] = w
  <2>1. v.row \in Rows /\ w.row \in Rows /\ Past(v) /\ Past(w)
    BY <1>3, <1>5
  <2>2. i < j /\ rows[i].node = rows[j].node /\ rows[v.row].node = rows[w.row].node
    BY <1>1, <1>2, <1>5, <2>1
  <2>3. p \in (DOMAIN rows[i].in \cap DOMAIN rows[j].in) \ StaticPins(rows[i].node)
    BY <1>5 DEF Given
  <2>4. Calm
    BY <1>2
  <2>5. Before(v, w)
    BY <1>5, <2>2, <2>3, <2>4 DEF ConsumedInOrder, Calm
  <2> QED
    BY <1>4, <2>1, <2>5
<1>6. ASSUME NEW n \in Nodes, GivenBy(n, j, p, w), i \in Rows, Given(i, p), rows[i].in[p] = v
      PROVE  Before(v, w)'
  <2>1. /\ Evaluating(n) /\ Inside(n) /\ w = eval[n].val /\ eval[n].at = "insert"
        /\ rows'[j].node = Link(n).to /\ p = Link(n).pin
    BY <1>6 DEF GivenBy, Evaluating, Inside
  <2>2. /\ v.row \in Rows /\ w.row \in Rows /\ Past(v) /\ Past(w) /\ rows[v.row].node = n
    <3>1. v.row \in Rows /\ Past(v)
      BY <1>3, <1>6
    <3>2. w.row \in Rows /\ Past(w) /\ rows[w.row].node = n
      BY <1>3, <2>1
    <3>3. rows'[v.row].node = rows'[w.row].node
      BY <1>2
    <3> QED
      BY <1>1, <3>1, <3>2, <3>3
  <2>3. v = w \/ Before(v, w)
    BY <1>2, <1>6, <2>1, <2>2 DEF InTurn, InTurnAt, Given
  <2>4. v # w
    <3>1. eval[n].todo # {} /\ eval[n].todo \subseteq DOMAIN graph.links
      BY <2>1 DEF Evaluations
    <3>2. PICK x : x = Min(eval[n].todo)
      OBVIOUS
    <3>3. x \in eval[n].todo /\ graph.links[x].to = rows[i].node /\ graph.links[x].pin = p
      BY <1>1, <1>2, <1>6, <2>1, <3>1, <3>2, LinkTyped DEF Link
    <3> QED
      BY <1>2, <1>6, <2>1, <3>3 DEF Once, OnceAt, Given
  <2> QED
    BY <1>4, <2>2, <2>3, <2>4
<1>7. ASSUME NEW n \in Nodes, GivenBy(n, i, p, v) PROVE FALSE
  <2>1. /\ Put(n, i) /\ Inside(n) /\ eval[n].at = "insert"
        /\ rows'[i].node = Link(n).to /\ p = Link(n).pin
    BY <1>7 DEF GivenBy, Inside
  <2>2. j \in Rows /\ rows'[j] = rows[j]
    <3>1. i # j
      BY <1>1, <1>2
    <3> QED
      BY <2>1, <3>1 DEF Put
  <2>3. i \in Rows /\ i = eval[n].row
    <3>1. i # Len(rows) + 1
      BY <1>1, <1>2, <2>2
    <3> QED
      BY <2>1, <3>1 DEF Put
  <2>4. rows[i].node = Link(n).to /\ rows[i].status = "INCOMPLETE" /\ rows[j].node = rows[i].node
    BY <1>1, <1>2, <2>1, <2>2, <2>3 DEF Evaluations
  <2>5. p \in DOMAIN rows[j].in \ StaticPins(rows[i].node)
    <3>1. p \in DOMAIN rows[j].in
      BY <1>2, <2>2 DEF Given
    <3>2. p \notin StaticPins(rows[i].node)
      BY <1>1, <1>2, <2>3 DEF Given, StaticPins
    <3> QED
      BY <3>1, <3>2
  <2>6. p \in DOMAIN rows[i].in
    BY <1>2, <2>2, <2>3, <2>4, <2>5 DEF Staircase
  <2> QED
    BY <2>1, <2>3, <2>6 DEF Fresh
<1> QED
  BY <1>2, <1>5, <1>6, <1>7, GivenMoves


(***************************************************************************)
(* The theorems.                                                           *)
(***************************************************************************)

Inv == /\ Typed /\ Known /\ Futures /\ Tracked /\ LeftIdle
       /\ Evaluations /\ OneInside /\ Placed /\ Standing /\ Settled
       /\ Filling /\ Yielding /\ Carrying /\ Fresh /\ Landed /\ Delivering

LEMMA NoWorkIs == NoWork \in WorkType /\ NoWork.at = "none" /\ NoWork.future = "none"
                  /\ NoWork.out = <<>> /\ NoWork.sent = 0 /\ NoWork.end = "none"
<1>1. <<>> \in Seq(Nat)
  OBVIOUS
<1> QED
  BY <1>1 DEF NoWork, WorkType

LEMMA InitInv == Init => Inv
<1> SUFFICES ASSUME Init PROVE Inv
  OBVIOUS
<1> DEFINE len == Len(graph.starts)
<1>1. graph \in Shapes /\ graph.starts \in Seq(Nodes) /\ len \in Nat
  BY EngineConstants DEF Init, IsShape
<1>2. /\ rows = [i \in 1..len |->
                   [node |-> graph.starts[i], status |-> "QUEUED", in |-> <<>>, at |-> i]]
      /\ work = [i \in 1..len |-> NoWork]
  BY DEF Init
<1>3. \A i \in 1..len :
        /\ [node |-> graph.starts[i], status |-> "QUEUED", in |-> <<>>, at |-> i] \in RowType
        /\ i \in Nat
  BY <1>1, NoInputs DEF RowType, Statuses
<1> HIDE DEF len
<1>4. /\ rows \in Seq(RowType) /\ work \in Seq(WorkType) /\ Len(work) = Len(rows)
      /\ Rows = 1..len
  BY <1>1, <1>2, <1>3, NoWorkIs DEF Rows
<1>5. /\ \A i \in Rows : work[i] = NoWork
      /\ queue = <<>> /\ engine = "idle" /\ verdict = "RUNNING"
      /\ \A n \in Nodes : tasks[n] = <<>> /\ eval[n] = NoEval
  BY <1>2, <1>4 DEF Init
<1>6. /\ tasks \in [Nodes -> Seq(Nat)] /\ eval \in [Nodes -> EvalType] /\ queue \in Seq(Nat)
  BY NoEvalIs, RangeOfEmpty, Zenon DEF Init
<1>7. Typed
  BY <1>1, <1>4, <1>5, <1>6 DEF Typed, Init, Troubles
<1>8. \A n \in Nodes : /\ eval[n].at = "none" /\ eval[n].row = 0 /\ eval[n].todo = {}
                       /\ eval[n].mine = <<>> /\ eval[n].found = <<>>
  BY <1>5, NoEvalIs
<1>9. \A n \in Nodes : Carried(n) = <<>>
  <2>1. <<>> \o <<>> = <<>>
    OBVIOUS
  <2> QED
    BY <1>8, <2>1 DEF Carried
<1>10. \A i \in Rows : work[i].at = "none" /\ work[i].future = "none" /\ work[i].out = <<>>
  BY <1>5, NoWorkIs
<1>11. Known
  BY <1>5, <1>8, <1>9, RangeOfEmpty DEF Known
<1>12. Futures
  BY <1>10 DEF Futures, Busy
<1>13. Tracked
  BY <1>5, <1>8, <1>10 DEF Tracked, Idle, Polling, Leaving
<1>14. LeftIdle
  BY <1>5 DEF LeftIdle, Leaving
<1>15. Evaluations /\ OneInside
  BY <1>8 DEF Evaluations, OneInside, Inside, Evaluating
<1>16. Placed
  BY <1>5, <1>9, RangeOfEmpty DEF Placed
<1>17. Standing
  BY <1>5, <1>9, <1>10, RangeOfEmpty DEF Standing
<1>18. Settled
  BY <1>5 DEF Settled
<1>19. Filling
  <2>1. \A i \in Rows : DOMAIN rows[i].in = {}
    BY <1>2, <1>4, NoInputs
  <2> QED
    BY <2>1 DEF Filling, Fits
<1>20. \A i \in Rows : work[i].sent = 0 /\ work[i].end = "none" /\ work[i].out = <<>>
  BY <1>5, NoWorkIs
<1>21. Yielding
  BY <1>7, <1>20, RangeOfEmpty, RowTyped DEF Yielding
<1>22. Carrying /\ Fresh /\ Landed
  BY <1>8 DEF Carrying, Evaluating, Fresh, Landed
<1>23. Delivering
  BY <1>20 DEF Delivering, Emitted
<1> QED
  BY <1>7, <1>11, <1>12, <1>13, <1>14, <1>15, <1>16, <1>17, <1>18, <1>19, <1>21, <1>22, <1>23
     DEF Inv

LEMMA InvKept ==
  ASSUME Inv, [Next]_vars
  PROVE  Inv' /\ Effect
<1>1. /\ Typed /\ Known /\ Futures /\ Tracked /\ LeftIdle
      /\ Evaluations /\ OneInside /\ Placed /\ Standing /\ Settled
      /\ Filling /\ Yielding /\ Carrying /\ Fresh /\ Landed /\ Delivering
  BY DEF Inv
<1>2. Typed' /\ Effect
  BY <1>1, Steps
<1>3. Known' /\ Futures' /\ Tracked' /\ LeftIdle'
  BY <1>1, <1>2, KnownKept, FuturesKept, TrackedKept, LeftIdleKept
<1>4. Evaluations' /\ OneInside' /\ Placed' /\ Standing'
  BY <1>1, <1>2, EvaluationsKept, OneInsideKept, PlacedKept, StandingKept
<1>5. Settled'
  BY <1>1, <1>2, <1>4, SettledKept
<1>6. Filling' /\ Yielding' /\ Carrying'
  BY <1>1, <1>2, FillingKept, YieldingKept, CarryingKept
<1>7. Fresh' /\ Landed'
  BY <1>1, <1>2, FreshKept, LandedKept
<1>8. trouble # "none" => trouble' = trouble
  BY TroubleStays
<1>9. Delivering'
  BY <1>1, <1>2, <1>8, DeliveringKept
<1> QED
  BY <1>2, <1>3, <1>4, <1>5, <1>6, <1>7, <1>9 DEF Inv

\* The invariant holds in every behaviour: crashes, a cancellation and every failure included.
THEOREM Invariance == Spec => []Inv
<1>1. Inv /\ [Next]_vars => Inv'
  BY InvKept
<1> QED
  BY InitInv, <1>1, PTL DEF Spec

\* _on_graph_execution waits for all its nodes: when a run ends as COMPLETED, no task
\* of it was cut short, and none is still at work.
THEOREM CompletedWaited == Spec => []WaitsForAllNodes
<1>1. Inv => WaitsForAllNodes
  <2> SUFFICES ASSUME Inv, engine = "ended", verdict = "COMPLETED", NEW i \in Rows
               PROVE  work[i].at \in {"none", "over", "broken"} /\ work[i].future # "cancelled"
    BY DEF WaitsForAllNodes, Ended
  <2>1. work[i].future \notin {"open", "cancelled"}
    BY DEF Inv, LeftIdle, Tracked, Leaving
  <2>2. ~Busy(i)
    BY <2>1 DEF Inv, Futures
  <2>3. work[i] \in WorkType
    BY RowTyped DEF Inv
  <2> QED
    BY <2>1, <2>2, <2>3 DEF Busy, WorkType
<1> QED
  BY Invariance, <1>1, PTL

\* A run leaves no row QUEUED or RUNNING behind, but those of tasks that the cleanup
\* cancelled and those of an error that was logged and swallowed.
THEOREM EndedSettled == Spec => []EndsSettled
<1>1. Inv => EndsSettled
  <2> SUFFICES ASSUME Inv, engine = "ended", NEW i \in Rows, rows[i].status \in Live
               PROVE  work[i].future = "cancelled" \/ work[i].at = "broken"
    BY DEF EndsSettled
  <2>1. queue = <<>> /\ \A n \in Nodes : Carried(n) = <<>>
    BY NothingCarried DEF Inv, LeftIdle
  <2>2. Busy(i) \/ work[i].at = "broken"
    BY <2>1, RangeOfEmpty DEF Inv, Settled
  <2>3. Busy(i) => work[i].future = "cancelled"
    BY DEF Inv, Futures, Tracked, Leaving
  <2> QED
    BY <2>2, <2>3
<1> QED
  BY Invariance, <1>1, PTL

\* No execution is queued twice, nor again once its task has started: what the lock of
\* the sink and the conditional update are there for.
THEOREM NeverQueuedTwice == Spec => []QueuedOnce
<1>1. Inv => QueuedOnce
  <2> SUFFICES ASSUME Inv PROVE QueuedOnce
    OBVIOUS
  <2>1. \A k \in DOMAIN queue : queue[k] \in Range(queue)
    BY DEF Range
  <2> QED
    BY <2>1 DEF Inv, Placed, QueuedOnce
<1> QED
  BY Invariance, <1>1, PTL

\* Every variable has its type, in every behaviour.
THEOREM TypeCorrect == Spec => []TypeOK
<1>1. Inv => TypeOK
  <2> SUFFICES ASSUME Inv PROVE TypeOK
    OBVIOUS
  <2>1. /\ Typed /\ Known /\ Futures /\ Tracked /\ LeftIdle /\ Evaluations
        /\ Filling /\ Yielding /\ Carrying
    BY DEF Inv
  <2>2. /\ Rows = DOMAIN rows /\ Rows = DOMAIN work
        /\ \A i \in Rows : rows[i] \in RowType /\ work[i] \in WorkType
    BY <2>1, RowTyped DEF Typed, Rows
  <2>3. rows \in Seq(Range(rows)) /\ work \in Seq(Range(work))
    BY <2>1, SeqOfValues DEF Typed
  <2>4. ASSUME NEW i \in Rows
        PROVE  /\ rows[i].node \in Nodes /\ rows[i].status \in Statuses
               /\ DOMAIN rows[i].in \subseteq Pins(rows[i].node)
               /\ \A p \in DOMAIN rows[i].in : rows[i].in[p] \in Value
               /\ rows[i].at \in Nat
    <3>1. /\ rows[i].node \in Nodes /\ rows[i].status \in Statuses /\ rows[i].at \in Nat
          /\ rows[i].in \in Inputs
      BY <2>2 DEF RowType
    <3>2. /\ DOMAIN rows[i].in \subseteq Pins(rows[i].node)
          /\ \A p \in DOMAIN rows[i].in : rows[i].in[p].row \in Rows
      BY <2>1 DEF Filling, Fits
    <3>3. \A p \in DOMAIN rows[i].in : rows[i].in[p] \in Output
      BY <3>1 DEF Inputs
    <3>4. \A o \in Output : o.row \in Rows => o \in Value
      BY DEF Output, Value
    <3> QED
      BY <3>1, <3>2, <3>3, <3>4
  <2>5. ASSUME NEW i \in Rows
        PROVE  /\ work[i].at \in {"none", "start", "run", "write", "over", "broken"}
               /\ work[i].end \in {"none", "COMPLETED", "FAILED", "TERMINATED"}
               /\ work[i].future \in {"none", "open", "done", "cancelled"}
               /\ work[i].sent <= Len(graph.yields[rows[i].node])
               /\ work[i].turn \in Nat
               /\ work[i].out \in Seq(1..ErrorOutput(i))
    <3>1. work[i].out \in Seq(Nat)
      BY <2>2 DEF WorkType
    <3>2. Range(work[i].out) \subseteq 1..ErrorOutput(i)
      BY <2>1 DEF Yielding
    <3> DEFINE o == work[i].out
               T == 1..ErrorOutput(i)
    <3> HIDE DEF o, T
    <3>3. o \in Seq(T)
      <4>1. o \in Seq(Nat) /\ Range(o) \subseteq T
        BY <3>1, <3>2 DEF o, T
      <4> QED
        BY <4>1, SeqOfValues
    <3>4. work[i].sent <= Len(graph.yields[rows[i].node])
      BY <2>1 DEF Yielding
    <3> QED
      BY <2>2, <3>3, <3>4 DEF WorkType, o, T
  <2>6. \A n \in Nodes : tasks[n] \in Seq(Rows)
    <3> TAKE n \in Nodes
    <3>1. tasks[n] \in Seq(Nat) /\ Range(tasks[n]) \subseteq Rows
      BY <2>1, NodeTyped DEF Known, Of
    <3> QED
      BY <3>1, SeqOfValues
  <2>7. tasks \in [Nodes -> Seq(Rows)]
    BY <2>1, <2>6 DEF Typed
  <2>8. queue \in Seq(Rows)
    BY <2>1, SeqOfValues DEF Typed, Known
  <2>9. ASSUME NEW n \in Nodes
        PROVE  /\ \A k \in DOMAIN tasks[n] : rows[tasks[n][k]].node = n
               /\ eval[n].at \in {"none", "find", "insert", "complete", "others", "done"}
               /\ eval[n].at # "none" => tasks[n] # <<>> \/ engine \in {"drain", "ended"}
               /\ eval[n].row \in Rows \cup {0}
               /\ eval[n].todo \subseteq DOMAIN graph.links
    <3>1. \A k \in DOMAIN tasks[n] : tasks[n][k] \in Of(n)
      BY <2>1 DEF Known, Range
    <3>2. eval[n] \in EvalType
      BY <2>1 DEF Typed
    <3> QED
      BY <2>1, <3>1, <3>2 DEF Of, EvalType, Known, Evaluations, Carrying, Leaving
  <2> QED
    BY <2>1, <2>2, <2>3, <2>4, <2>5, <2>7, <2>8, <2>9 DEF TypeOK, Typed
<1> QED
  BY Invariance, <1>1, PTL

\* A run that ends as COMPLETED has lost no output: every one has reached an execution of
\* every sink of its links.
THEOREM NoOutputLost == Spec => []OutputsArrive
<1>1. Inv => OutputsArrive
  <2> SUFFICES ASSUME Inv, Ended("COMPLETED"), trouble \notin {"crash", "evaluation"},
                      NEW i \in Rows, NEW k \in Emitted(i),
                      NEW x \in LinksOf(rows[i].node, OutName([row |-> i, k |-> k]))
               PROVE  Arrived([row |-> i, k |-> k], x)
    BY DEF OutputsArrive, Arrived
  <2>1. Delivered(i, k)
    BY DEF Inv, Delivering, Undisturbed, Ended
  <2>2. work[i].out = <<>> /\ \A n \in Nodes : ~Evaluating(n)
    BY DEF Inv, Tracked, LeftIdle, Leaving, Ended
  <2> QED
    BY <2>1, <2>2, RangeOfEmpty DEF Delivered, OnItsWay
<1> QED
  BY Invariance, <1>1, PTL

\* Once a row has an input it keeps it, with the value it has: upsert_execution_input never
\* overwrites, and the data a row is queued with only adds to what it was given.
THEOREM InputsAreKept == Spec => [][InputsKept]_vars
<1>1. Inv /\ [Next]_vars => [InputsKept]_vars
  <2> SUFFICES ASSUME Inv, [Next]_vars PROVE InputsKept
    OBVIOUS
  <2>1. Typed /\ Known /\ Standing /\ Evaluations /\ Fresh
    BY DEF Inv
  <2>2. Typed' /\ Effect
    BY InvKept DEF Inv
  <2> QED
    BY <2>1, <2>2, InputsStay
<1> QED
  BY Invariance, <1>1, PTL DEF Spec

\* What keeps the outputs in order, for graphs without twin links.
Order == /\ Chosen /\ Staircase /\ Linked /\ Listed /\ Sorted
         /\ Read /\ InTurn /\ Once /\ ConsumedInOrder

LEMMA InitOrder == Init => Order
<1> SUFFICES ASSUME Init PROVE Order
  OBVIOUS
<1>1. Typed
  BY InitInv DEF Inv
<1>2. \A i \in Rows : /\ DOMAIN rows[i].in = {} /\ rows[i].status = "QUEUED"
                       /\ work[i].out = <<>> /\ work[i].at = "none" /\ work[i].end = "none"
  <2>1. /\ rows = [i \in 1..Len(graph.starts) |->
                     [node |-> graph.starts[i], status |-> "QUEUED", in |-> <<>>, at |-> i]]
        /\ work = [i \in 1..Len(graph.starts) |-> NoWork]
    BY DEF Init
  <2> QED
    BY <2>1, NoWorkIs, NoInputs DEF Rows
<1>3. \A n \in Nodes : tasks[n] = <<>> /\ eval[n].at = "none"
  BY NoEvalIs DEF Init
<1>4. Chosen /\ Linked
  BY <1>3 DEF Chosen, Linked, Evaluating
<1>5. Staircase
  BY <1>2 DEF Staircase
<1>6. Listed /\ Sorted
  BY <1>2, <1>3, RangeOfEmpty DEF Listed, ListedAt, Growing, Sorted, SortedAt
<1>7. Read /\ InTurn /\ Once
  BY <1>2, <1>3 DEF Read, InTurn, Once, Evaluating
<1>8. ConsumedInOrder
  BY <1>2 DEF ConsumedInOrder
<1> QED
  BY <1>4, <1>5, <1>6, <1>7, <1>8 DEF Order

LEMMA OrderKept ==
  ASSUME \A g \in Shapes : Untwinned(g), Inv, Order, [Next]_vars
  PROVE  Order'
<1>1. /\ Typed /\ Known /\ Futures /\ Evaluations /\ OneInside /\ Placed /\ Standing
      /\ Filling /\ Yielding /\ Carrying /\ Fresh
  BY DEF Inv
<1>2. Typed' /\ Effect
  BY InvKept DEF Inv
<1>3. /\ Chosen /\ Staircase /\ Linked /\ Listed /\ Sorted
      /\ Read /\ InTurn /\ Once /\ ConsumedInOrder
  BY DEF Order
<1>4. Calm' => Calm /\ ~Died
  BY TroubleStays DEF Calm, Died
<1>5. Untwinned(graph)
  BY <1>1 DEF Typed
<1>6. Chosen' /\ Staircase' /\ Linked'
  BY <1>1, <1>2, <1>3, ChosenKept, StaircaseKept, LinkedKept
<1>7. Listed' /\ Sorted'
  BY <1>1, <1>2, <1>3, ListedKept, SortedKept
<1>8. Read'
  BY <1>1, <1>2, <1>3, <1>4, <1>7, ReadKept
<1>9. InTurn'
  BY <1>1, <1>2, <1>3, <1>4, <1>7, InTurnKept
<1>10. Once'
  BY <1>1, <1>2, <1>3, <1>4, <1>5, <1>7, OnceKept
<1>11. ConsumedInOrder'
  BY <1>1, <1>2, <1>3, <1>4, ConsumedKept
<1> QED
  BY <1>6, <1>7, <1>8, <1>9, <1>10, <1>11 DEF Order

\* The outputs of a node reach each sink in order and none of them twice, whatever the tasks'
\* overlap.  Nothing in the table of links keeps two of them from joining the same output to
\* the same pin, and over such a pair an output is consumed twice: so the graphs have none.
THEOREM OutputsInOrder ==
  ASSUME \A g \in Shapes : Untwinned(g)
  PROVE  Spec => []ConsumedInOrder
<1>1. Inv /\ Order /\ [Next]_vars => Inv' /\ Order'
  BY InvKept, OrderKept
<1>2. Init => Inv /\ Order
  BY InitInv, InitOrder
<1>3. Order => ConsumedInOrder
  BY DEF Order
<1> QED
  BY <1>1, <1>2, <1>3, PTL DEF Spec


(***************************************************************************)
(* Nothing is stuck.                                                       *)
(***************************************************************************)

\* No link leads to a starting node, whose executions are queued without inputs.
Unfed(g) == \A k \in DOMAIN g.links, j \in DOMAIN g.starts : g.links[k].to # g.starts[j]
\* The links into one pin are all static, or none of them is.
Uniform(g) ==
  \A k, l \in DOMAIN g.links :
    g.links[k].to = g.links[l].to /\ g.links[k].pin = g.links[l].pin =>
      g.links[k].static = g.links[l].static

Waits(i) == rows[i].status = "INCOMPLETE"
\* An execution of node n has been queued.
Began(n) == \E i \in Of(n) : ~Waits(i)

\* What was queued has all its inputs, and never waits for a review.
Full ==
  \A i \in Rows : ~Waits(i) =>
    rows[i].status # "REVIEW" /\ Pins(rows[i].node) \subseteq DOMAIN rows[i].in

\* The rows of a node that wait get each input from the earliest on, static or not.
Stairs ==
  \A i, j \in Rows :
    i < j /\ rows[i].node = rows[j].node /\ Waits(i) /\ Waits(j) =>
      DOMAIN rows[j].in \subseteq DOMAIN rows[i].in

\* The row that was filled last is the last to have that input of those that wait,
\* and a row that lends its static inputs has been queued.
Above ==
  \A n \in Nodes : eval[n].at = "complete" =>
    \A i \in Rows : i > eval[n].row /\ rows[i].node = Link(n).to /\ Waits(i) =>
      Link(n).pin \notin DOMAIN rows[i].in
Lenders == \A n \in Nodes : eval[n].at = "others" => ~Waits(eval[n].row)

\* A row that waits lacks an input that no earlier row can lend it, unless an
\* evaluation is about to see whether it is complete.
Lacks(i) ==
  \E p \in Pins(rows[i].node) \ DOMAIN rows[i].in :
    p \in StaticPins(rows[i].node) => ~Began(rows[i].node)
Tended(i) ==
  \E m \in Nodes :
    /\ eval[m].at = "others" \/ (eval[m].at = "complete" /\ eval[m].row = i)
    /\ Link(m).to = rows[i].node
Spared == trouble \notin {"crash", "evaluation"}
Starved == Spared => \A i \in Rows : Waits(i) => Lacks(i) \/ Tended(i)

Quiet == Full /\ Stairs /\ Above /\ Lenders /\ Starved

\* Two evaluations do not take one step.
LEMMA OneMoves ==
  ASSUME Typed, NEW m \in Nodes, EvalFrame(m), EvalEffect(m),
         NEW n \in Nodes, EvalFrame(n), EvalEffect(n)
  PROVE  m = n
BY EvalMoves DEF EvalFrame

\* What an evaluation finds of the rows of its sink when it takes them for complete,
\* and when it does not.
Outcome(n) ==
  LET to == Link(n).to
      r == eval[n].row IN
  /\ CompletedOne(n) => ~Link(n).static
  /\ CompletedOne(n) \/ CompletedStatic(n) =>
       /\ Pins(to) \subseteq DOMAIN rows'[r].in
       /\ ~Began(to) => DOMAIN rows'[r].in \subseteq DOMAIN rows[r].in
  /\ CompletedOther(n) => \A j \in Rows : Readied(n, j) => Pins(to) \subseteq DOMAIN rows'[j].in
  /\ Passed(n) /\ eval[n].at = "complete" /\ trouble' # "evaluation" =>
       \E p \in Pins(to) \ DOMAIN rows[r].in :
         p \in StaticPins(to) => \A j \in Latest(to) : p \notin DOMAIN rows[j].in
  /\ Passed(n) /\ eval[n].at = "others" /\ trouble' # "evaluation" =>
       \A i \in Incomplete(to) : \E p \in Pins(to) \ DOMAIN rows[i].in :
         p \in StaticPins(to) => p \notin DOMAIN rows[r].in

\* The pins that are missing once static inputs are filled in.
LEMMA FilledHas ==
  ASSUME NEW in, NEW n, NEW from
  PROVE  /\ \A p \in DOMAIN Filled(in, n, from) : p \in DOMAIN in \/ \E f \in from : p \in DOMAIN f
         /\ ~Complete(Filled(in, n, from), n) =>
              \E p \in Pins(n) \ DOMAIN in : p \in StaticPins(n) => \A f \in from : p \notin DOMAIN f
<1> DEFINE lent == {p \in StaticPins(n) \ DOMAIN in : \E f \in from : p \in DOMAIN f}
           all == DOMAIN in \cup lent
<1>1. DOMAIN Filled(in, n, from) = all
  BY DEF Filled
<1> QED
  BY <1>1 DEF Complete

\* Only a row that waits is queued.
LEMMA ReadiesChange ==
  ASSUME NEW n, NEW i, Readied(n, i)
  PROVE  rows' # rows
<1>1. rows[i].status # rows'[i].status
  BY DEF Readied
<1> QED
  BY <1>1


LEMMA CompleteOutcome ==
  ASSUME Typed, Known, Evaluations, NEW n \in Nodes, EvalCompletes(n)
  PROVE  Outcome(n)
<1> DEFINE to == Link(n).to
           r == eval[n].row
           lent == {rows[j].in : j \in Latest(to)}
           in == Filled(rows[r].in, to, lent)
<1>0. Inside(n) /\ eval[n].at = "complete"
  BY DEF EvalCompletes, Inside
<1>1. /\ eval[n] \in EvalType /\ r \in Rows /\ rows[r] \in RowType
      /\ to \in Nodes /\ rows[r].status = "INCOMPLETE"
  BY <1>0, InsideTyped DEF Evaluations
<1>2. /\ \A p \in DOMAIN in : p \in DOMAIN rows[r].in \/ \E f \in lent : p \in DOMAIN f
      /\ ~Complete(in, to) =>
           \E p \in Pins(to) \ DOMAIN rows[r].in : p \in StaticPins(to) => \A f \in lent : p \notin DOMAIN f
  <2> HIDE DEF lent
  <2> QED
    BY FilledHas
<1>3. IF Complete(in, to)
      THEN rows' = Queued(rows, r, in) /\ (Link(n).static => eval'[n].at = "others")
      ELSE rows' = rows
  <2>1. Complete(in, to) /\ Link(n).static =>
          eval' = [eval EXCEPT ![n] = [eval[n] EXCEPT !.at = "others", !.mine = <<r>>]]
    BY DEF EvalCompletes
  <2>2. [eval[n] EXCEPT !.at = "others", !.mine = <<r>>].at = "others"
    BY <1>1 DEF EvalType
  <2>3. Complete(in, to) /\ Link(n).static => eval'[n].at = "others"
    <3> DEFINE e == [eval[n] EXCEPT !.at = "others", !.mine = <<r>>]
    <3>1. e.at = "others" /\ (Complete(in, to) /\ Link(n).static => eval' = [eval EXCEPT ![n] = e])
      BY <2>1, <2>2
    <3> HIDE DEF e, in
    <3> QED
      BY <3>1 DEF Typed
  <2> QED
    BY <2>3 DEF EvalCompletes
<1> HIDE DEF in
<1>4. in \in Inputs
  <2>1. lent \in SUBSET Inputs
    BY RowTyped DEF RowType, Latest, Of
  <2> HIDE DEF lent
  <2>2. StaticPins(to) \subseteq STRING
    BY <1>1, PinsTyped
  <2>3. rows[r].in \in Inputs
    BY <1>1 DEF RowType
  <2> QED
    BY <1>1, <2>1, <2>2, <2>3, FillsInputs DEF in
<1>5. Complete(in, to) => rows'[r].in = in
  <2>1. rows \in Seq(RowType) /\ r \in DOMAIN rows
    BY <1>1 DEF Typed, Rows
  <2>2. Queued(rows, r, in)[r].in = in
    BY <1>1, <1>4, <2>1, QueuesRow
  <2> QED
    BY <1>3, <2>2
<1>6. ~Began(to) => lent = {}
  BY DEF Began, Latest, Waits
<1>7. CompletedOne(n) \/ CompletedStatic(n) => Complete(in, to)
  BY <1>3, ReadiesChange DEF CompletedOne, CompletedStatic
<1>8. CompletedOne(n) => ~Link(n).static
  BY <1>3, <1>7 DEF CompletedOne, NewLink
<1>9. CompletedOne(n) \/ CompletedStatic(n) =>
        /\ Pins(to) \subseteq DOMAIN rows'[r].in
        /\ ~Began(to) => DOMAIN rows'[r].in \subseteq DOMAIN rows[r].in
  BY <1>2, <1>5, <1>6, <1>7 DEF Complete
<1>10. Passed(n) => ~Complete(in, to)
  <2>1. Complete(in, to) => rows'[r].status = "QUEUED"
    <3>1. rows \in Seq(RowType) /\ r \in DOMAIN rows
      BY <1>1 DEF Typed, Rows
    <3>2. Queued(rows, r, in)[r].status = "QUEUED"
      BY <1>1, <1>4, <3>1, QueuesRow
    <3> QED
      BY <1>3, <3>2
  <2> QED
    BY <1>1, <2>1 DEF Passed
<1> QED
  BY <1>0, <1>2, <1>8, <1>9, <1>10 DEF Outcome, CompletedOther

LEMMA OthersOutcome ==
  ASSUME Typed, Known, Evaluations, NEW n \in Nodes, EvalOthers(n)
  PROVE  Outcome(n)
<1> DEFINE to == Link(n).to
           r == eval[n].row
           lent == {rows[r].in}
           in(i) == Filled(rows[i].in, to, lent)
           ready == {i \in Incomplete(to) : Complete(Filled(rows[i].in, to, lent), to)}
<1>0. Inside(n) /\ eval[n].at = "others"
  BY DEF EvalOthers, Inside
<1>1. r \in Rows /\ rows[r] \in RowType /\ to \in Nodes
  BY <1>0, InsideTyped
<1>2. IF ready = {} THEN rows' = rows ELSE rows' = Queued(rows, Max(ready), in(Max(ready)))
  BY DEF EvalOthers
<1>3. ready # {} => Max(ready) \in ready
  <2>1. \A x \in ready : x \in Nat /\ x <= Len(rows)
    BY DEF Incomplete, Of, Rows, Typed
  <2>2. Len(rows) \in Nat
    BY DEF Typed
  <2> HIDE DEF ready
  <2>3. ready \in SUBSET Nat
    BY <2>1
  <2> QED
    BY <2>1, <2>2, <2>3, MaxIsGreatest
<1>4. ASSUME NEW j \in Rows, Readied(n, j) PROVE Pins(to) \subseteq DOMAIN rows'[j].in
  <2> DEFINE k == Max(ready)
             d == in(k)
  <2>1. ready # {} /\ k \in ready
    BY <1>2, <1>3, <1>4, ReadiesChange
  <2>2. k \in Rows /\ rows[k].status = "INCOMPLETE" /\ Complete(d, to)
    BY <2>1 DEF Incomplete, Of
  <2>3. rows' = Queued(rows, k, d)
    BY <1>2, <2>1
  <2> HIDE DEF k
  <2>4. d \in Inputs
    <3>1. lent \in SUBSET Inputs /\ rows[k].in \in Inputs
      BY <1>1, <2>2, RowTyped DEF RowType
    <3>2. StaticPins(to) \subseteq STRING
      BY <1>1, PinsTyped
    <3> HIDE DEF lent
    <3> QED
      BY <1>1, <3>1, <3>2, FillsInputs
  <2> HIDE DEF d
  <2>5. rows \in Seq(RowType) /\ k \in DOMAIN rows
    BY <2>2 DEF Typed, Rows
  <2>6. /\ \A q \in DOMAIN rows : q # k => Queued(rows, k, d)[q] = rows[q]
        /\ Queued(rows, k, d)[k].in = d
    BY <2>2, <2>4, <2>5, QueuesRow
  <2>7. j = k
    BY <1>4, <2>3, <2>6 DEF Readied, Rows
  <2> QED
    BY <2>2, <2>3, <2>6, <2>7 DEF Complete
<1>5. ASSUME Passed(n), NEW i \in Incomplete(to)
      PROVE  \E p \in Pins(to) \ DOMAIN rows[i].in : p \in StaticPins(to) => p \notin DOMAIN rows[r].in
  <2>1. ready = {}
    <3> SUFFICES ASSUME ready # {} PROVE FALSE
      OBVIOUS
    <3> DEFINE k == Max(ready)
               d == in(k)
    <3>1. k \in Rows /\ rows[k].status = "INCOMPLETE" /\ rows' = Queued(rows, k, d)
      BY <1>2, <1>3 DEF Incomplete, Of
    <3> HIDE DEF k
    <3>2. rows' = rows
      BY <1>5 DEF Passed
    <3>3. Queued(rows, k, d)[k].status = "QUEUED"
      BY <3>1, RowTyped DEF Queued, AllowedFrom, RowType, Typed, Rows
    <3> QED
      BY <3>1, <3>2, <3>3
  <2>2. ~Complete(in(i), to)
    BY <1>5, <2>1
  <2>3. ~Complete(Filled(rows[i].in, to, lent), to)
    BY <2>2
  <2> HIDE DEF lent
  <2>4. \E p \in Pins(to) \ DOMAIN rows[i].in : p \in StaticPins(to) => \A f \in lent : p \notin DOMAIN f
    BY <2>3, FilledHas
  <2> QED
    BY <2>4 DEF lent
<1> QED
  BY <1>0, <1>4, <1>5 DEF Outcome, CompletedOne, CompletedStatic

LEMMA Outcomes ==
  ASSUME Typed, Known, Evaluations, [Next]_vars, NEW n \in Nodes, EvalFrame(n), EvalEffect(n)
  PROVE  Outcome(n)
<1>0. eval'[n] # eval[n] /\ Evaluating(n) /\ eval'[n].at # "none"
  BY EvalMoves DEF EvalEffect, LookedUp, Opened, Inserted, CompletedOne, CompletedStatic,
     CompletedOther, Passed, Failed, Over, NewLink, Evaluating
<1>1. CASE EngineNext
  BY <1>0, <1>1 DEF EngineNext, Begin, Dispatch, OutOfCredits, LoopEnds, PollEnds, Judge, StopTasks,
                    Drain, Visit, Evaluating, Typed
<1>2. CASE Cancel \/ UNCHANGED vars
  BY <1>0, <1>2 DEF Cancel, vars, volatile
<1>3. CASE Crash
  BY <1>0, <1>3, NoEvalIs DEF Crash
<1>4. CASE \E i \in Rows : TaskNext(i)
  BY <1>0, <1>4 DEF TaskNext, TaskStarts, TaskYields, TaskReturns, TaskRaises, TaskWrites, TaskBreaks,
                    TaskInterrupted, OnlyWork
<1>5. CASE \E m \in Nodes : EvalNext(m)
  <2>1. EvalNext(n)
    BY <1>5, OneMoves, EvalSteps
  <2>2. CASE EvalCompletes(n) \/ EvalOthers(n)
    BY <2>2, CompleteOutcome, OthersOutcome
  <2>3. CASE EvalFails(n)
    <3>1. rows' = rows /\ trouble' = "evaluation"
      BY <2>3 DEF EvalFails, Strikes
    <3> QED
      BY <3>1, ReadiesChange DEF Outcome, CompletedOne, CompletedStatic
  <2>4. CASE EvalFinds(n) \/ EvalInserts(n) \/ EvalEnds(n)
    BY <2>4 DEF EvalFinds, EvalInserts, EvalEnds, Outcome, CompletedOne, CompletedStatic, CompletedOther,
                Passed
  <2> QED
    BY <2>1, <2>2, <2>3, <2>4 DEF EvalNext
<1> QED
  BY <1>1, <1>2, <1>3, <1>4, <1>5 DEF Next


\* How a row ceases to wait: an evaluation of the row's node queues it.
Taken(m, i) ==
  /\ EvalFrame(m) /\ EvalEffect(m) /\ Readied(m, i) /\ Inside(m)
  /\ ((CompletedOne(m) \/ CompletedStatic(m)) /\ i = eval[m].row) \/ CompletedOther(m)

LEMMA WaitEnds ==
  ASSUME Typed, Typed', Known, Standing, Evaluations, Effect, NEW i \in Rows', ~Waits(i)'
  PROVE  i \in Rows /\ (Waits(i) => \E m \in Nodes : Taken(m, i))
<1>1. CASE ~ \E m \in Nodes : EvalFrame(m) /\ EvalEffect(m)
  BY <1>1, OthersLeaveRows DEF Waits
<1>2. ASSUME NEW m \in Nodes, EvalFrame(m), EvalEffect(m)
      PROVE  i \in Rows /\ (Waits(i) => Taken(m, i))
  <2>1. CASE Opened(m) \/ Inserted(m)
    <3>1. Put(m, eval'[m].row)
      BY <1>2, <2>1, InsertPuts
    <3> QED
      BY <3>1 DEF Put, Waits
  <2>2. CASE LookedUp(m) \/ Passed(m) \/ Failed(m) \/ Over(m)
    BY <2>2 DEF LookedUp, Passed, Failed, Over, Rows, Waits
  <2>3. CASE CompletedOne(m) \/ CompletedStatic(m)
    <3>1. Readied(m, eval[m].row) /\ Inside(m) /\ Rows' = Rows
      BY <2>3, RowsAre DEF CompletedOne, CompletedStatic, Inside, Readied, OnlyRow
    <3>2. i # eval[m].row => rows'[i] = rows[i]
      BY <3>1 DEF Readied, OnlyRow
    <3> QED
      BY <1>2, <2>3, <3>1, <3>2 DEF Taken, Waits
  <2>4. CASE CompletedOther(m)
    <3>1. PICK r \in Rows : Readied(m, r)
      BY <2>4 DEF CompletedOther
    <3>2. Inside(m) /\ Rows' = Rows
      BY <2>4, <3>1, RowsAre DEF CompletedOther, Inside, Readied, OnlyRow
    <3>3. i # r => rows'[i] = rows[i]
      BY <3>1, <3>2 DEF Readied, OnlyRow
    <3> QED
      BY <1>2, <2>4, <3>1, <3>2, <3>3 DEF Taken, Waits
  <2> QED
    BY <1>2, <2>1, <2>2, <2>3, <2>4 DEF EvalEffect
<1> QED
  BY <1>1, <1>2

\* Whoever waits has waited.
LEMMA WaitsOn ==
  ASSUME Typed, Typed', Known, Standing, Evaluations, Effect, NEW i \in Rows, Waits(i)'
  PROVE  Waits(i)
BY StatusLeft DEF Waits

\* A node begins when an evaluation queues a first row of it.
LEMMA BeganBy ==
  ASSUME Typed, Typed', Known, Standing, Evaluations, Effect, NEW n
  PROVE  /\ Began(n) => Began(n)'
         /\ Began(n)' => Began(n) \/ \E m \in Nodes, i \in Rows : Taken(m, i) /\ Link(m).to = n
<1>1. Rows \subseteq Rows' /\ \A i \in Rows : rows'[i].node = rows[i].node
  BY GraphSame
<1>2. Began(n) => Began(n)'
  BY <1>1, WaitsOn DEF Began, Of
<1>3. ASSUME NEW i \in Rows', rows'[i].node = n, ~Waits(i)'
      PROVE  Began(n) \/ \E m \in Nodes, j \in Rows : Taken(m, j) /\ Link(m).to = n
  <2>1. i \in Rows /\ (Waits(i) => \E m \in Nodes : Taken(m, i))
    BY <1>3, WaitEnds
  <2>2. rows[i].node = n
    BY <1>1, <1>3, <2>1
  <2>3. \A m : Taken(m, i) => Link(m).to = n
    BY <2>2 DEF Taken, Readied
  <2> QED
    BY <2>1, <2>2, <2>3 DEF Began, Of
<1> QED
  BY <1>2, <1>3 DEF Began, Of

\* A status that is set is not REVIEW.
LEMMA NoReviews ==
  ASSUME Typed, Typed', Known, Standing, Evaluations, Effect, NEW i \in Rows,
         rows[i].status # "REVIEW"
  PROVE  rows'[i].status # "REVIEW"
<1>0. work[i] \in WorkType
  BY RowsAre
<1>1. \A to : to # "REVIEW" => Moved(rows[i].status, to) # "REVIEW"
  BY DEF Moved
<1>2. CASE Begun \/ Dispatched \/ Stopped \/ EngineMoves \/ Died \/ \E n \in Nodes : Visited(n)
  BY <1>2 DEF Begun, Dispatched, Stopped, EngineMoves, LoopEnds, PollEnds, Judge, RunOver,
              Cancel, vars, volatile, Died, Visited
<1>3. CASE CreditsOut \/ Drained
  <2>1. PICK to : Closed(to) /\ to # "REVIEW"
    BY <1>3 DEF CreditsOut, Drained, Typed
  <2>2. rows'[i] = rows[i] \/ rows'[i].status = Moved(rows[i].status, to)
    BY <2>1 DEF Closed
  <2> QED
    BY <1>1, <2>1, <2>2
<1>4. ASSUME NEW n \in Nodes, EvalFrame(n), EvalEffect(n) PROVE rows'[i].status # "REVIEW"
  <2>1. CASE Opened(n) \/ Inserted(n)
    <3>1. Put(n, eval'[n].row)
      BY <1>4, <2>1, InsertPuts
    <3> QED
      BY <3>1, GraphSame DEF Put
  <2>2. CASE LookedUp(n) \/ Passed(n) \/ Failed(n) \/ Over(n)
    BY <2>2 DEF LookedUp, Passed, Failed, Over
  <2>3. CASE CompletedOne(n) \/ CompletedStatic(n) \/ CompletedOther(n)
    <3>1. PICK j \in Rows : Readied(n, j)
      BY <2>3 DEF CompletedOne, CompletedStatic, CompletedOther, Readied, OnlyRow
    <3> QED
      BY <3>1 DEF Readied, OnlyRow
  <2> QED
    BY <1>4, <2>1, <2>2, <2>3 DEF EvalEffect
<1>5. ASSUME NEW r \in Rows, TaskFrame(r), TaskEffect(r) PROVE rows'[i].status # "REVIEW"
  <2>1. CASE i # r
    BY <1>5, <2>1 DEF TaskFrame
  <2>2. CASE i = r
    <3>1. work[i].end # "REVIEW"
      BY <1>0 DEF WorkType
    <3> QED
      BY <1>1, <1>5, <2>2, <3>1 DEF TaskEffect, Started, Yielded, Returned, Raised, Wrote, Broke,
                                    Interrupted, SameStatus
  <2> QED
    BY <2>1, <2>2
<1> QED
  BY <1>2, <1>3, <1>4, <1>5 DEF Effect

LEMMA FullKept ==
  ASSUME Typed, Typed', Known, Standing, Evaluations, Fresh, Full, Effect,
         \A m \in Nodes : EvalFrame(m) /\ EvalEffect(m) => Outcome(m)
  PROVE  Full'
<1>1. /\ Rows \subseteq Rows' /\ \A n \in Nodes : Pins(n)' = Pins(n)
      /\ \A i \in Rows : rows'[i].node = rows[i].node
      /\ \A i \in Rows' : rows'[i].node \in Nodes
  BY GraphSame, RowsAre DEF RowType
<1>2. SUFFICES ASSUME NEW i \in Rows', ~Waits(i)', NEW n \in Nodes, rows'[i].node = n
               PROVE  rows'[i].status # "REVIEW" /\ Pins(n) \subseteq DOMAIN rows'[i].in
  BY <1>1 DEF Full, Pins
<1>3. i \in Rows /\ rows[i].node = n /\ (Waits(i) => \E m \in Nodes : Taken(m, i))
  BY <1>1, <1>2, WaitEnds
<1>4. rows'[i].status # "REVIEW"
  BY <1>3, NoReviews DEF Full, Waits
<1>5. DOMAIN rows[i].in \subseteq DOMAIN rows'[i].in
  BY <1>3, InputsStay DEF InputsKept
<1>6. ASSUME NEW m \in Nodes, Taken(m, i) PROVE Pins(n) \subseteq DOMAIN rows'[i].in
  <2>1. Outcome(m) /\ Readied(m, i) /\ n = Link(m).to
    BY <1>3, <1>6 DEF Taken, Readied
  <2> QED
    BY <1>3, <1>6, <2>1 DEF Taken, Outcome
<1>7. Pins(n) \subseteq DOMAIN rows'[i].in
  BY <1>3, <1>5, <1>6 DEF Full
<1> QED
  BY <1>4, <1>7


LEMMA StairsKept ==
  ASSUME Typed, Typed', Known, Standing, Evaluations, Fresh, Chosen, Stairs, Effect
  PROVE  Stairs'
<1>0. /\ Rows = 1..Len(rows) /\ Rows' = 1..Len(rows') /\ Len(rows) \in Nat
      /\ Rows \subseteq Rows' /\ \A i \in Rows : rows'[i].node = rows[i].node
  BY RowsAre, GraphSame
<1>1. SUFFICES ASSUME NEW i \in Rows', NEW j \in Rows', i < j, rows'[i].node = rows'[j].node,
                      Waits(i)', Waits(j)'
               PROVE  DOMAIN rows'[j].in \subseteq DOMAIN rows'[i].in
  BY DEF Stairs
<1>2. /\ i \in Rows => Waits(i)
      /\ j \in Rows => Waits(j)
  BY <1>1, WaitsOn
<1>3. i \in Rows /\ j \in Rows => DOMAIN rows[j].in \subseteq DOMAIN rows[i].in
  BY <1>0, <1>1, <1>2 DEF Stairs
<1>4. i \in Rows => DOMAIN rows[i].in \subseteq DOMAIN rows'[i].in
  BY InputsStay DEF InputsKept
<1>5. CASE SameInputs
  BY <1>3, <1>5 DEF SameInputs
<1>6. ASSUME NEW m \in Nodes, EvalFrame(m), Opened(m) \/ Inserted(m)
      PROVE  DOMAIN rows'[j].in \subseteq DOMAIN rows'[i].in
  <2> DEFINE k == eval'[m].row
             p == Link(m).pin
  <2>1. Put(m, k) /\ eval[m].at = "insert"
    BY <1>6, InsertPuts DEF Opened, Inserted
  <2> HIDE DEF k
  <2>2. CASE j = k
    <3>1. i \in Rows /\ rows[i].node = Link(m).to
      BY <1>0, <1>1, <2>1, <2>2 DEF Put
    <3>2. i < eval[m].row \/ eval[m].row = 0
      BY <1>1, <2>1, <2>2 DEF Put
    <3>3. p \in DOMAIN rows[i].in
      BY <1>2, <2>1, <3>1, <3>2, EarlierHave DEF Waits
    <3>4. DOMAIN rows'[j].in \subseteq {p} \cup (IF j \in Rows THEN DOMAIN rows[j].in ELSE {})
      BY <2>1, <2>2 DEF Put
    <3> QED
      BY <1>3, <1>4, <3>1, <3>3, <3>4
  <2>3. CASE j # k
    <3>1. j \in Rows /\ rows'[j] = rows[j]
      BY <2>1, <2>3 DEF Put
    <3>2. i \in Rows
      BY <1>0, <1>1, <3>1
    <3> QED
      BY <1>3, <1>4, <3>1, <3>2
  <2> QED
    BY <2>2, <2>3
<1>7. ASSUME NEW m \in Nodes, NEW r \in Rows, Readied(m, r)
      PROVE  DOMAIN rows'[j].in \subseteq DOMAIN rows'[i].in
  <2>1. Rows' = Rows /\ \A q \in Rows : q # r => rows'[q] = rows[q]
    BY <1>0, <1>7 DEF Readied, OnlyRow
  <2>2. i # r /\ j # r
    BY <1>1, <1>7 DEF Readied, Waits
  <2> QED
    BY <1>3, <2>1, <2>2
<1> QED
  BY <1>5, <1>6, <1>7, InputsMove

AboveAt(n) ==
  eval[n].at = "complete" =>
    \A i \in Rows : i > eval[n].row /\ rows[i].node = Link(n).to /\ Waits(i) =>
      Link(n).pin \notin DOMAIN rows[i].in

LEMMA AboveKept ==
  ASSUME Typed, Typed', Known, Standing, Evaluations, OneInside, Fresh, Stairs, Above, Effect
  PROVE  Above'
<1>0. /\ Rows = 1..Len(rows) /\ Rows' = 1..Len(rows') /\ Len(rows) \in Nat
      /\ Rows \subseteq Rows' /\ \A i \in Rows : rows'[i].node = rows[i].node
      /\ graph' = graph
  BY RowsAre, GraphSame
<1>1. SUFFICES ASSUME NEW n \in Nodes, eval'[n].at = "complete" PROVE AboveAt(n)'
  BY DEF Above, AboveAt
<1>2. CASE eval'[n] = eval[n]
  <2>1. Link(n)' = Link(n) /\ Inside(n)
    BY <1>0, <1>1, <1>2, LinkSame DEF Inside
  <2>2. ASSUME NEW i \in Rows', rows'[i].node = Link(n).to
        PROVE  i \in Rows /\ rows'[i].in = rows[i].in /\ (Waits(i)' <=> Waits(i))
    BY <1>2, <2>1, <2>2, SinkQuiet DEF Waits
  <2> QED
    BY <1>0, <1>1, <1>2, <2>1, <2>2 DEF Above, AboveAt
<1>3. CASE EvalFrame(n) /\ EvalEffect(n)
  <2>1. Opened(n) \/ Inserted(n)
    BY <1>1, <1>3 DEF EvalEffect, LookedUp, CompletedOne, CompletedStatic, CompletedOther,
                      Passed, Failed, Over, NewLink
  <2>2. Link(n)' = Link(n)
    BY <1>0, <2>1, LinkSame DEF Opened, Inserted, SameLink
  <2> DEFINE k == eval'[n].row
  <2>3. Put(n, k)
    BY <1>3, <2>1, InsertPuts
  <2>4. k \in Rows => Waits(k) /\ Link(n).pin \notin DOMAIN rows[k].in
    <3>1. CASE Inserted(n)
      BY <3>1 DEF Inserted, SameRow, Fresh, Evaluations, Inside, Waits
    <3>2. CASE Opened(n)
      BY <1>0, <3>2 DEF Opened
    <3> QED
      BY <2>1, <3>1, <3>2
  <2> HIDE DEF k
  <2>5. ASSUME NEW i \in Rows', i > k, rows'[i].node = Link(n).to, Waits(i)'
        PROVE  Link(n).pin \notin DOMAIN rows'[i].in
    <3>1. i \in Rows /\ rows'[i] = rows[i] /\ k \in Rows
      BY <1>0, <2>3, <2>5 DEF Put
    <3>2. DOMAIN rows[i].in \subseteq DOMAIN rows[k].in
      BY <1>0, <2>3, <2>4, <2>5, <3>1 DEF Put, Stairs, Waits
    <3> QED
      BY <2>4, <3>1, <3>2
  <2> QED
    BY <2>2, <2>5 DEF AboveAt, k
<1>4. ASSUME NEW m \in Nodes, EvalFrame(m), m # n PROVE eval'[n] = eval[n]
  BY <1>4 DEF EvalFrame
<1> QED
  BY <1>1, <1>2, <1>3, <1>4, EvalsLeft

LEMMA LendersKept ==
  ASSUME Typed, Typed', Known, Standing, Evaluations, Lenders, Effect
  PROVE  Lenders'
<1>1. SUFFICES ASSUME NEW n \in Nodes, eval'[n].at = "others"
               PROVE  rows'[eval'[n].row].status # "INCOMPLETE"
  BY DEF Lenders, Waits
<1>2. ASSUME eval[n].at = "others", eval'[n].row = eval[n].row
      PROVE  rows'[eval'[n].row].status # "INCOMPLETE"
  <2>1. eval[n].row \in Rows /\ rows[eval[n].row].status # "INCOMPLETE"
    BY <1>2 DEF Evaluations, Lenders, Waits
  <2> QED
    BY <1>2, <2>1, StatusLeft
<1>3. CASE EvalFrame(n) /\ EvalEffect(n)
  <2>1. CompletedStatic(n) \/ CompletedOther(n)
    BY <1>1, <1>3 DEF EvalEffect, LookedUp, Opened, Inserted, CompletedOne, Passed, Failed, Over,
                      NewLink
  <2>2. CASE CompletedStatic(n)
    BY <2>2 DEF CompletedStatic, SameRow, Readied
  <2>3. CASE CompletedOther(n)
    BY <1>2, <2>3 DEF CompletedOther, SameRow
  <2> QED
    BY <2>1, <2>2, <2>3
<1>4. ASSUME NEW m \in Nodes, EvalFrame(m), m # n PROVE eval'[n] = eval[n]
  BY <1>4 DEF EvalFrame
<1> QED
  BY <1>1, <1>2, <1>3, <1>4, EvalsLeft


\* If a node has begun, one of its executions was the last to be queued.
LEMMA LatestIs ==
  ASSUME Typed, Full, NEW n, Began(n)
  PROVE  \E j \in Latest(n) : Pins(n) \subseteq DOMAIN rows[j].in
<1> DEFINE past == {i \in Of(n) : rows[i].status \notin {"INCOMPLETE", "REVIEW"}}
           at == [i \in 1..Len(rows) |-> rows[i].at]
           times == {rows[i].at : i \in past}
<1>1. past # {} /\ past \subseteq 1..Len(rows)
  BY DEF Began, Full, Waits, Of, Rows, Typed
<1>2. Len(rows) \in Nat /\ at \in [1..Len(rows) -> Nat]
  BY RowTyped DEF Typed, Rows, RowType
<1>3. PICK b \in Nat : \A i \in 1..Len(rows) : at[i] <= b
  <2> HIDE DEF at
  <2> QED
    BY <1>2, Bounded
<1>4. times \in SUBSET Nat /\ times # {} /\ \A x \in times : x <= b
  <2>1. \A i \in past : rows[i].at = at[i] /\ at[i] \in Nat /\ at[i] <= b
    BY <1>1, <1>2, <1>3
  <2> HIDE DEF past, at
  <2> QED
    BY <1>1, <2>1
<1>5. Max(times) \in times /\ \A y \in times : y <= Max(times)
  <2> HIDE DEF times
  <2> QED
    BY <1>4, MaxIsGreatest
<1>6. PICK j \in past : rows[j].at = Max(times)
  BY <1>5
<1>7. \A i \in past : rows[i].at <= rows[j].at
  BY <1>5, <1>6
<1>8. j \in Latest(n)
  BY <1>6, <1>7 DEF Latest
<1>9. Pins(n) \subseteq DOMAIN rows[j].in
  BY <1>6 DEF Full, Waits, Of
<1> QED
  BY <1>8, <1>9

\* An evaluation that is inside stays as it is unless it takes a step, or the process dies.
LEMMA InsideStays ==
  ASSUME Effect, ~Died, NEW n \in Nodes, Inside(n), ~ (EvalFrame(n) /\ EvalEffect(n))
  PROVE  eval'[n] = eval[n]
<1>1. CASE Begun \/ Dispatched \/ CreditsOut \/ Drained \/ Stopped \/ EngineMoves
  BY <1>1 DEF Begun, Dispatched, CreditsOut, Drained, Closed, Stopped, EngineMoves, LoopEnds,
              PollEnds, Judge, RunOver, Cancel, vars, volatile
<1>2. ASSUME NEW m \in Nodes, Visited(m) PROVE eval'[n] = eval[n]
  BY <1>2 DEF Visited, Evaluating, Inside
<1>3. ASSUME NEW m \in Nodes, EvalFrame(m), EvalEffect(m) PROVE eval'[n] = eval[n]
  BY <1>3 DEF EvalFrame
<1>4. ASSUME NEW i \in Rows, TaskFrame(i) PROVE eval'[n] = eval[n]
  BY <1>4 DEF TaskFrame
<1> QED
  BY <1>1, <1>2, <1>3, <1>4 DEF Effect

\* A row that an evaluation leaves waiting lacks an input that is not static, or its
\* node has not begun.
LEMMA PassedLacks ==
  ASSUME Typed, Known, Evaluations, Full, Lenders, NEW m \in Nodes, Passed(m), Outcome(m),
         trouble' # "evaluation", NEW i \in Rows, Waits(i), rows[i].node = Link(m).to,
         eval[m].at = "others" \/ (eval[m].at = "complete" /\ eval[m].row = i)
  PROVE  Lacks(i)
<1> DEFINE to == Link(m).to
           r == eval[m].row
<1>0. Inside(m)
  BY DEF Inside
<1>1. CASE eval[m].at = "complete" /\ r = i
  <2>1. PICK p \in Pins(to) \ DOMAIN rows[i].in :
          p \in StaticPins(to) => \A j \in Latest(to) : p \notin DOMAIN rows[j].in
    BY <1>1 DEF Outcome
  <2>2. p \in StaticPins(to) => ~Began(to)
    BY <2>1, LatestIs
  <2> QED
    BY <2>1, <2>2 DEF Lacks
<1>2. CASE eval[m].at = "others"
  <2>1. PICK p \in Pins(to) \ DOMAIN rows[i].in : p \in StaticPins(to) => p \notin DOMAIN rows[r].in
    BY <1>2 DEF Outcome, Incomplete, Of, Waits
  <2>2. r \in Rows /\ rows[r].node = to
    BY <1>0, <1>2, InsideTyped
  <2>3. Pins(to) \subseteq DOMAIN rows[r].in
    BY <1>2, <2>2 DEF Full, Lenders
  <2> QED
    BY <2>1, <2>3 DEF Lacks
<1> QED
  BY <1>1, <1>2

\* When a row is completed over a link that is not static, the others of its node that
\* wait still lack an input that is not static.
LEMMA CompletedLeaves ==
  ASSUME Typed, Known, Evaluations, OneInside, Stairs, Above, NEW m \in Nodes, CompletedOne(m),
         Outcome(m), Uniform(graph), NEW i \in Rows, Waits(i), rows[i].node = Link(m).to,
         i # eval[m].row, Lacks(i) \/ Tended(i)
  PROVE  \E p \in Pins(Link(m).to) \ DOMAIN rows[i].in : p \notin StaticPins(Link(m).to)
<1> DEFINE to == Link(m).to
           pin == Link(m).pin
           r == eval[m].row
<1>1. Inside(m) /\ eval[m].at = "complete" /\ ~Link(m).static
  BY DEF CompletedOne, Inside, Outcome
<1>2. /\ r \in Rows /\ r \in Nat /\ i \in Nat /\ rows[r].node = to /\ pin \in Pins(to)
  BY <1>1, InsideTyped DEF Typed, Rows
<1>3. Waits(r)
  BY <1>1, <1>2 DEF Evaluations, Waits
<1>4. pin \notin StaticPins(to)
  <2>1. eval[m].todo # {} /\ eval[m].todo \in SUBSET Nat /\ eval[m].todo \subseteq DOMAIN graph.links
    BY <1>1 DEF Evaluations, Typed, EvalType
  <2>2. Min(eval[m].todo) \in DOMAIN graph.links
    BY <2>1, MinIsLeast
  <2>3. ASSUME NEW k \in DOMAIN graph.links, graph.links[k].to = to, graph.links[k].static
        PROVE  graph.links[k].pin # pin
    BY <1>1, <2>2, <2>3 DEF Uniform, Link
  <2> QED
    BY <2>3 DEF StaticPins, ToSet
<1>5. CASE i > r
  <2>1. pin \notin DOMAIN rows[i].in
    BY <1>1, <1>5 DEF Above
  <2> QED
    BY <1>2, <1>4, <2>1
<1>6. CASE i < r
  <2>1. Lacks(i)
    <3>1. ASSUME NEW l \in Nodes, eval[l].at \in {"others", "complete"}, Link(l).to = to
          PROVE  l = m
      BY <1>1, <3>1 DEF OneInside, Inside
    <3> QED
      BY <1>1, <3>1 DEF Tended
  <2>2. PICK p \in Pins(to) \ DOMAIN rows[i].in : p \in StaticPins(to) => ~Began(to)
    BY <2>1 DEF Lacks
  <2>3. DOMAIN rows[r].in \subseteq DOMAIN rows[i].in
    BY <1>2, <1>3, <1>6 DEF Stairs
  <2>4. /\ Pins(to) \subseteq DOMAIN rows'[r].in
        /\ ~Began(to) => DOMAIN rows'[r].in \subseteq DOMAIN rows[r].in
    BY DEF Outcome
  <2> QED
    BY <2>2, <2>3, <2>4
<1> QED
  BY <1>2, <1>5, <1>6


LEMMA StarvedKept ==
  ASSUME Typed, Typed', Known, Standing, Evaluations, OneInside, Full, Stairs, Above, Lenders, Starved,
         Effect, Uniform(graph), Spared' => Spared,
         \A m \in Nodes : EvalFrame(m) /\ EvalEffect(m) => Outcome(m)
  PROVE  Starved'
<1>0. /\ Rows \subseteq Rows' /\ graph' = graph
      /\ \A n \in Nodes : Pins(n)' = Pins(n) /\ StaticPins(n)' = StaticPins(n)
      /\ \A i \in Rows : rows'[i].node = rows[i].node
      /\ \A i \in Rows' : rows'[i].node \in Nodes
  BY GraphSame, RowsAre DEF RowType
<1>1. SUFFICES ASSUME Spared', NEW i \in Rows', Waits(i)', NEW n \in Nodes, rows'[i].node = n
               PROVE  \/ \E p \in Pins(n) \ DOMAIN rows'[i].in : p \in StaticPins(n) => ~Began(n)'
                      \/ \E m \in Nodes :
                           /\ \/ eval'[m].at = "others"
                              \/ eval'[m].at = "complete" /\ eval'[m].row = i
                           /\ Link(m)'.to = n
  BY <1>0 DEF Starved, Lacks, Tended, Began, Of, Pins, StaticPins
<1> DEFINE Wants == \E p \in Pins(n) \ DOMAIN rows'[i].in : p \in StaticPins(n) => ~Began(n)'
           Minds(m) == /\ \/ eval'[m].at = "others"
                          \/ eval'[m].at = "complete" /\ eval'[m].row = i
                       /\ Link(m)'.to = n
           Minded(m) == /\ eval[m].at = "others" \/ (eval[m].at = "complete" /\ eval[m].row = i)
                        /\ Link(m).to = n
<1>2. trouble' # "crash" /\ trouble' # "evaluation" /\ ~Died
  BY <1>1 DEF Spared, Died
<1>3. i \in Rows => Waits(i) /\ rows[i].node = n /\ (Lacks(i) \/ Tended(i))
  BY <1>0, <1>1, WaitsOn DEF Starved
<1>4. i \in Rows /\ ~Lacks(i) => \E m \in Nodes : Minded(m)
  BY <1>3 DEF Tended
<1>5. ASSUME i \in Rows, Lacks(i), rows'[i].in = rows[i].in, Began(n)' => Began(n) PROVE Wants
  BY <1>3, <1>5 DEF Lacks
<1>6. ASSUME NEW m \in Nodes, Minded(m), eval'[m] = eval[m] PROVE Minds(m)
  BY <1>0, <1>6, LinkSame
<1>7. CASE ~ \E m \in Nodes : EvalFrame(m) /\ EvalEffect(m)
  <2>1. i \in Rows /\ rows'[i].in = rows[i].in
    BY <1>7, OthersLeaveRows
  <2>2. Began(n)' => Began(n)
    BY <1>7, BeganBy DEF Taken
  <2>3. ASSUME NEW m \in Nodes, Minded(m) PROVE Minds(m)
    BY <1>2, <1>6, <1>7, <2>3, InsideStays DEF Inside
  <2> QED
    BY <1>4, <1>5, <2>1, <2>2, <2>3
<1>8. ASSUME NEW m \in Nodes, EvalFrame(m), EvalEffect(m)
      PROVE  Wants \/ \E x \in Nodes : Minds(x)
  <2>0. Outcome(m) /\ \A x \in Nodes : x # m => eval'[x] = eval[x]
    BY <1>8 DEF EvalFrame
  <2>1. ASSUME NEW x \in Nodes, Minded(x), x # m PROVE Minds(x)
    BY <1>6, <2>0, <2>1
  <2>2. Began(n)' => Began(n) \/ \E r \in Rows : Taken(m, r) /\ Link(m).to = n
    BY <1>8, BeganBy, OneMoves DEF Taken
  <2>3. CASE LookedUp(m) \/ Over(m) \/ Passed(m)
    <3>1. rows' = rows
      BY <2>3 DEF LookedUp, Over, Passed
    <3>2. i \in Rows /\ (Began(n)' => Began(n))
      BY <3>1 DEF Began, Of, Rows, Waits
    <3>3. Minded(m) => Lacks(i)
      BY <1>2, <1>3, <2>0, <2>3, <3>2, PassedLacks DEF LookedUp, Over
    <3> QED
      BY <1>4, <1>5, <2>1, <3>1, <3>2, <3>3
  <2>4. CASE Opened(m) \/ Inserted(m)
    <3>1. Put(m, eval'[m].row) /\ eval[m].at = "insert" /\ eval'[m].at = "complete"
      BY <1>8, <2>4, InsertPuts DEF Opened, Inserted
    <3>2. CASE i = eval'[m].row
      <4>1. Link(m)' = Link(m)
        BY <1>0, <2>4, LinkSame DEF Opened, Inserted, SameLink
      <4>2. Link(m).to = n
        BY <1>1, <3>1, <3>2 DEF Put
      <4> QED
        BY <3>1, <3>2, <4>1, <4>2
    <3>3. CASE i # eval'[m].row
      <4>1. i \in Rows /\ rows'[i] = rows[i]
        BY <3>1, <3>3 DEF Put
      <4>2. Began(n)' => Began(n)
        BY <2>2, <3>1 DEF Taken, CompletedOne, CompletedStatic, CompletedOther
      <4> QED
        BY <1>4, <1>5, <2>1, <3>1, <4>1, <4>2
    <3> QED
      BY <3>2, <3>3
  <2>5. CASE CompletedOne(m) \/ CompletedStatic(m) \/ CompletedOther(m)
    <3>1. PICK r \in Rows : /\ Readied(m, r) /\ Inside(m)
                            /\ CompletedOne(m) => r = eval[m].row
      BY <2>5 DEF CompletedOne, CompletedStatic, CompletedOther, Readied, OnlyRow, Inside
    <3>2. i # r /\ i \in Rows /\ rows'[i] = rows[i]
      <4>1. Rows' = Rows
        BY <3>1, RowsAre DEF Readied, OnlyRow
      <4>2. i # r
        BY <1>1, <3>1 DEF Readied, Waits
      <4> QED
        BY <3>1, <4>1, <4>2 DEF Readied, OnlyRow
    <3>3. CASE Link(m).to # n
      BY <1>4, <1>5, <2>1, <2>2, <3>2, <3>3
    <3>4. CASE Link(m).to = n /\ CompletedOne(m)
      <4>1. \E p \in Pins(n) \ DOMAIN rows[i].in : p \notin StaticPins(n)
        BY <1>3, <2>0, <3>1, <3>2, <3>4, CompletedLeaves
      <4> QED
        BY <3>2, <4>1
    <3>5. CASE Link(m).to = n /\ (CompletedStatic(m) \/ CompletedOther(m))
      <4>1. eval'[m].at = "others" /\ Link(m)' = Link(m)
        BY <1>0, <3>5, LinkSame DEF CompletedStatic, CompletedOther, SameLink
      <4> QED
        BY <3>5, <4>1
    <3> QED
      BY <2>5, <3>3, <3>4, <3>5
  <2>6. CASE Failed(m)
    BY <1>2, <2>6 DEF Failed
  <2> QED
    BY <1>8, <2>3, <2>4, <2>5, <2>6 DEF EvalEffect
<1> QED
  BY <1>7, <1>8

LEMMA InitQuiet ==
  ASSUME \A g \in Shapes : Unfed(g), Init
  PROVE  Chosen /\ Quiet
<1>1. Typed /\ Unfed(graph)
  BY InitInv DEF Inv, Typed
<1>2. \A n \in Nodes : eval[n].at = "none"
  BY NoEvalIs DEF Init
<1>3. /\ rows = [i \in 1..Len(graph.starts) |->
                   [node |-> graph.starts[i], status |-> "QUEUED", in |-> <<>>, at |-> i]]
      /\ graph.starts \in Seq(Nodes)
  BY <1>1, EngineConstants DEF Init, IsShape
<1>4. \A i \in Rows : /\ rows[i].status = "QUEUED" /\ rows[i].node = graph.starts[i]
                       /\ i \in DOMAIN graph.starts
  BY <1>3 DEF Rows
<1>5. \A i \in Rows : Pins(rows[i].node) = {}
  BY <1>1, <1>4 DEF Pins, ToSet, Unfed
<1> QED
  BY <1>2, <1>4, <1>5 DEF Chosen, Quiet, Full, Stairs, Above, Lenders, Starved, Waits

LEMMA QuietKept ==
  ASSUME \A g \in Shapes : Uniform(g), Inv, Chosen, Quiet, [Next]_vars
  PROVE  Chosen' /\ Quiet'
<1>1. Typed /\ Known /\ Standing /\ Evaluations /\ OneInside /\ Fresh
  BY DEF Inv
<1>2. Typed' /\ Effect
  BY InvKept DEF Inv
<1>3. Full /\ Stairs /\ Above /\ Lenders /\ Starved
  BY DEF Quiet
<1>4. \A m \in Nodes : EvalFrame(m) /\ EvalEffect(m) => Outcome(m)
  BY <1>1, Outcomes
<1>5. Uniform(graph)
  BY <1>1 DEF Typed
<1>6. Spared' => Spared
  BY TroubleStays DEF Spared
<1>7. Chosen' /\ Full' /\ Stairs'
  BY <1>1, <1>2, <1>3, <1>4, ChosenKept, FullKept, StairsKept
<1>8. Above' /\ Lenders'
  BY <1>1, <1>2, <1>3, AboveKept, LendersKept
<1>9. Starved'
  BY <1>1, <1>2, <1>3, <1>4, <1>5, <1>6, StarvedKept
<1> QED
  BY <1>7, <1>8, <1>9 DEF Quiet

\* The rows of a node that still wait at the end of a COMPLETED run all lack the same input,
\* and no earlier execution could lend it: what was evaluated was paired as far as it goes.
\* It takes graphs whose starting nodes have no link into them (an INPUT block may have one,
\* and then starts without it), and no pin that gets both static and other values: a value
\* of the second kind would complete one row and leave the others without the static one.
THEOREM NoneStuck ==
  ASSUME \A g \in Shapes : Unfed(g) /\ Uniform(g)
  PROVE  Spec => []NothingStuck
<1>1. Init => Inv /\ Chosen /\ Quiet
  BY InitInv, InitQuiet
<1>2. Inv /\ Chosen /\ Quiet /\ [Next]_vars => Inv' /\ Chosen' /\ Quiet'
  BY InvKept, QuietKept
<1>3. Inv /\ Quiet => NothingStuck
  <2> SUFFICES ASSUME Inv, Quiet, Ended("COMPLETED"), trouble \notin {"crash", "evaluation"},
                      NEW n \in Nodes, Incomplete(n) # {}
               PROVE  \E p \in Pins(n) : /\ \A i \in Incomplete(n) : p \notin DOMAIN rows[i].in
                                         /\ p \in StaticPins(n) => Latest(n) = {}
    BY DEF NothingStuck
  <2>1. Typed /\ Full /\ Stairs /\ Starved
    BY DEF Inv, Quiet
  <2>2. \A m \in Nodes : eval[m].at = "none"
    BY DEF Inv, LeftIdle, Leaving, Ended
  <2>3. Incomplete(n) \in SUBSET Nat /\ Incomplete(n) \subseteq Of(n)
    BY <2>1 DEF Incomplete, Of, Rows, Typed
  <2>4. PICK i \in Incomplete(n) : \A j \in Incomplete(n) : i <= j
    BY <2>3, MinIsLeast
  <2>5. i \in Rows /\ rows[i].node = n /\ Waits(i)
    BY <2>4 DEF Incomplete, Of, Waits
  <2>6. Lacks(i)
    BY <2>1, <2>2, <2>5 DEF Starved, Spared, Tended
  <2>7. PICK p \in Pins(n) \ DOMAIN rows[i].in : p \in StaticPins(n) => ~Began(n)
    BY <2>5, <2>6 DEF Lacks
  <2>8. ASSUME NEW j \in Incomplete(n) PROVE p \notin DOMAIN rows[j].in
    <3>1. j \in Rows /\ rows[j].node = n /\ Waits(j)
      BY <2>8 DEF Incomplete, Of, Waits
    <3>2. i = j \/ i < j
      BY <2>3, <2>4, <2>8
    <3>3. i < j => DOMAIN rows[j].in \subseteq DOMAIN rows[i].in
      BY <2>1, <2>5, <3>1 DEF Stairs
    <3> QED
      BY <2>7, <3>2, <3>3
  <2>9. ~Began(n) => Latest(n) = {}
    BY DEF Began, Latest, Waits
  <2> QED
    BY <2>7, <2>8, <2>9
<1> QED
  BY <1>1, <1>2, <1>3, PTL DEF Spec

=============================================================================
