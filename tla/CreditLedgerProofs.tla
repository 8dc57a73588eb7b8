------------------------- MODULE CreditLedgerProofs -------------------------
(***************************************************************************)
(* Proofs about CreditLedger, for any number of concurrent requests,       *)
(* checkouts, crashes and lost replies, and any prices: the types; that    *)
(* the balance is what the active transactions add up to unless one of the *)
(* named disturbances has happened; that credits are paid for, once; that  *)
(* an execution's card is charged once at a time; and that nobody spends   *)
(* what he has not got.                                                    *)
(***************************************************************************)
EXTENDS CreditLedger, WellFoundedInduction, NaturalsInduction, TLAPS

-----------------------------------------------------------------------------
(* The inductive invariant. *)

\* Only what takes money away is posted at once, and a top-up has a plain key.
RequestOK(q) ==
  /\ q \in RequestType
  /\ ~q.active => q.amount >= 0
  /\ q.type = "TOP_UP" => q.key \in PlainKeys

\* A coroutine: what it is about, and a snapshot that is never ahead of the
\* tables it was taken from.
CallOK(c) ==
  /\ c \in OperationType
  /\ RequestOK(c.req)
  /\ c.op = "spend" => c.of \in Execs
  /\ c.op = "webhook" => c.of \in paid
  /\ c.at = "config" => c.op = "spend"
  /\ c.saw.row => balance # NoRow
  /\ c.saw.open => c.saw.row

CallsOK ==
  /\ call \in [Calls -> OperationType \cup {NoCall}]
  /\ \A t \in Calls : ~Idle(t) => CallOK(call[t])

RowOK(r) ==
  /\ r \in RowType
  /\ ~r.active => r.amount >= 0
  /\ r.type = "TOP_UP" => r.key \in PlainKeys

\* The primary key, and the balance row that came with the first transaction.
RowsOK ==
  /\ rows \in Seq(RowType)
  /\ \A i \in DOMAIN rows : RowOK(rows[i])
  /\ \A i, j \in DOMAIN rows : rows[i].key = rows[j].key => i = j
  /\ rows # << >> => balance # NoRow

TotalsOK ==
  /\ history \in Balances
  /\ balance \in Balances \cup {NoRow}
  /\ ledger \in Int
  /\ disturbed \subseteq {"first", "twice", "clipped", "overflow"}

CountersOK ==
  /\ autoTopUp \in BOOLEAN
  /\ paid \subseteq Sessions /\ acked \subseteq paid
  /\ charges \in Nat /\ begun \in 0..MaxCalls /\ faults \in 0..MaxFaults

IInv == CallsOK /\ RowsOK /\ TotalsOK /\ CountersOK /\ BalanceIsTheLedger

-----------------------------------------------------------------------------
(* The operators. *)

LEMMA Numbers ==
  /\ IntMax \in Nat /\ IntMax >= 1 /\ IntMin = -IntMax - 1
  /\ {Cost, Reward, TopUp, Threshold} \subseteq 1..IntMax
  /\ Balances = IntMin..IntMax /\ NoRow \notin Balances
BY CreditConstants DEF IntMin, Balances

LEMMA PlainKeyTypes ==
  /\ NoKey \in PlainKeys
  /\ RowsOK => RandomKey \in PlainKeys
  /\ \A s \in Sessions : SessionKey(s) \in PlainKeys /\ SessionIntent(s) \in PlainKeys
  /\ \A e \in Execs : AutoKey(e) \in PlainKeys
  /\ \A r \in Rewards : RewardKey(r) \in PlainKeys
  /\ \A n \in Nat : IntentKey(n) \in PlainKeys
<1>1. ASSUME RowsOK PROVE RandomKey \in PlainKeys
  <2>1. Len(rows) + 1 \in Nat
    BY <1>1 DEF RowsOK
  <2>2. QED
    BY <2>1 DEF PlainKeys, RandomKey
<1>2. QED
  BY <1>1 DEF PlainKeys, NoKey, SessionKey, SessionIntent, AutoKey, RewardKey, IntentKey

LEMMA KeyTypes ==
  /\ PlainKeys \subseteq Keys
  /\ \A k \in PlainKeys : RefundKey(k) \in Keys
BY DEF Keys, RefundKey

LEMMA RequestVariants ==
  ASSUME NEW q, RequestOK(q)
  PROVE  /\ \A n \in 0..IntMax : RequestOK([q EXCEPT !.ceiling = n])
         /\ \A b \in BOOLEAN : RequestOK([q EXCEPT !.strict = b])
BY DEF RequestOK, RequestType

\* Everything that is ever asked of _add_transaction.
LEMMA RequestsOK ==
  /\ RequestOK(NoRequest) /\ RequestOK(Usage)
  /\ \A r \in Rewards : RequestOK(Grant(r))
  /\ \A s \in Sessions : RequestOK(Checkout(s))
  /\ RequestOK(CardTopUp(TopUp)) /\ RequestOK(CardTopUp(0))
  /\ \A e \in Execs : RequestOK(AutomaticTopUp(e))
<1> USE Numbers, PlainKeyTypes, KeyTypes
        DEF RequestOK, RequestType, Request, Types, Amounts
<1>1. RequestOK(NoRequest) /\ RequestOK(Usage)
  BY DEF NoRequest, Usage
<1>2. \A r \in Rewards : RequestOK(Grant(r))
  BY DEF Grant
<1>3. \A s \in Sessions : RequestOK(Checkout(s))
  BY DEF Checkout
<1>4. RequestOK(CardTopUp(TopUp)) /\ RequestOK(CardTopUp(0))
  BY DEF CardTopUp
<1>5. \A e \in Execs : RequestOK(AutomaticTopUp(e))
  <2> TAKE e \in Execs
  <2>1. RequestOK(Request("TOP_UP", TopUp, FALSE, AutoKey(e)))
    OBVIOUS
  <2>2. RequestOK([Request("TOP_UP", TopUp, FALSE, AutoKey(e)) EXCEPT !.ceiling = Threshold])
    <3> HIDE DEF RequestOK, RequestType, Request
    <3>1. Threshold \in 0..IntMax
      OBVIOUS
    <3>2. QED
      BY <2>1, <3>1, RequestVariants
  <2>3. QED
    BY <2>2 DEF AutomaticTopUp
<1>6. QED
  BY <1>1, <1>2, <1>3, <1>4, <1>5

LEMMA DeductionOK ==
  ASSUME NEW i \in DOMAIN rows, RowOK(rows[i]), rows[i].type = "TOP_UP",
         NEW amount \in 1..rows[i].amount
  PROVE  RequestOK(Deduction(i, amount))
<1>1. RefundKey(rows[i].key) \in Keys /\ -amount \in Amounts
  BY KeyTypes, Numbers DEF RowOK, RowType, Amounts
<1>2. RequestOK(Request("REFUND", -amount, TRUE, RefundKey(rows[i].key)))
  BY <1>1, Numbers DEF RequestOK, RequestType, Request, Types
<1>3. QED
  BY <1>2, Numbers, RequestVariants DEF Deduction

\* A new operation is a coroutine that has seen nothing yet.
LEMMA OperationOK ==
  ASSUME NEW op \in Operations, NEW of \in Sessions \cup Execs \cup Rewards \cup {NoCall},
         NEW at \in Stages, NEW q, RequestOK(q),
         op = "spend" => of \in Execs, op = "webhook" => of \in paid,
         at = "config" => op = "spend"
  PROVE  CallOK(Operation(op, of, at, q))
<1>1. q \in RequestType /\ q.key \in Keys
  BY DEF RequestOK, RequestType
<1>2. [row |-> FALSE, open |-> FALSE, amount |-> 0]
        \in [row : BOOLEAN, open : BOOLEAN, amount : 0..IntMax]
  BY Numbers
<1>3. Operation(op, of, at, q) \in OperationType
  BY <1>1, <1>2, Numbers, PlainKeyTypes DEF Operation, OperationType
<1>4. QED
  BY <1>3 DEF Operation, CallOK

\* A coroutine that goes on, or has learnt something.
LEMMA CallVariants ==
  ASSUME NEW c, CallOK(c), NEW at \in Stages \ {"config"}
  PROVE  /\ CallOK([c EXCEPT !.at = at])
         /\ \A k \in Keys : CallOK([c EXCEPT !.at = at, !.key = k])
         /\ \A k \in PlainKeys : CallOK([c EXCEPT !.at = at, !.pay = k])
         /\ c.op = "spend" =>
              \A b \in Balances : CallOK([c EXCEPT !.at = "config", !.result = b])
         /\ \A w \in [row : BOOLEAN, open : BOOLEAN, amount : 0..IntMax] :
              (w.row => balance # NoRow) /\ (w.open => w.row) =>
                CallOK([c EXCEPT !.at = at, !.saw = w])
<1> USE DEF Stages
<1>1. CallOK([c EXCEPT !.at = at])
  BY DEF CallOK, OperationType
<1>2. \A k \in Keys : CallOK([c EXCEPT !.at = at, !.key = k])
  BY DEF CallOK, OperationType
<1>3. \A k \in PlainKeys : CallOK([c EXCEPT !.at = at, !.pay = k])
  BY DEF CallOK, OperationType
<1>4. c.op = "spend" =>
        \A b \in Balances : CallOK([c EXCEPT !.at = "config", !.result = b])
  BY DEF CallOK, OperationType
<1>5. \A w \in [row : BOOLEAN, open : BOOLEAN, amount : 0..IntMax] :
        (w.row => balance # NoRow) /\ (w.open => w.row) =>
          CallOK([c EXCEPT !.at = at, !.saw = w])
  BY DEF CallOK, OperationType
<1>6. QED
  BY <1>1, <1>2, <1>3, <1>4, <1>5

\* What is true of a coroutine stays true while it waits.
LEMMA CallKept ==
  ASSUME NEW c, CallOK(c), paid \subseteq paid', balance # NoRow => balance' # NoRow
  PROVE  CallOK(c)'
BY DEF CallOK

\* A step of one coroutine leaves the others as they were.
LEMMA OneCall ==
  ASSUME CallsOK, NEW t \in Calls, NEW c, call' = [call EXCEPT ![t] = c],
         paid \subseteq paid', balance # NoRow => balance' # NoRow,
         c = NoCall \/ CallOK(c)
  PROVE  CallsOK'
<1>1. c \in OperationType \cup {NoCall}
  BY DEF CallOK
<1>2. call' \in [Calls -> OperationType \cup {NoCall}]
  BY <1>1 DEF CallsOK
<1>3. ASSUME NEW u \in Calls, call'[u] # NoCall
      PROVE  CallOK(call[u])'
  <2>1. CASE u = t
    <3>1. call'[u] = c /\ CallOK(c)
      BY <1>3, <2>1 DEF CallsOK
    <3>2. CallOK(c)'
      BY <3>1, CallKept
    <3>3. QED
      BY <3>1, <3>2
  <2>2. CASE u # t
    <3>1. call'[u] = call[u] /\ CallOK(call[u])
      BY <1>3, <2>2 DEF CallsOK, Idle
    <3>2. QED
      BY <3>1 DEF CallOK
  <2>3. QED
    BY <2>1, <2>2
<1>4. QED
  BY <1>2, <1>3 DEF CallsOK, Idle

\* The tables are as they were.
LEMMA SameTables ==
  ASSUME RowsOK, TotalsOK, BalanceIsTheLedger, UNCHANGED tables
  PROVE  RowsOK' /\ TotalsOK' /\ BalanceIsTheLedger'
BY DEF RowsOK, RowOK, TotalsOK, BalanceIsTheLedger, CurrentBalance, tables

\* What a statement sees when it starts.
LEMMA SnapshotOK ==
  ASSUME RowsOK, TotalsOK, NEW k
  PROVE  /\ Snapshot(k) \in [row : BOOLEAN, open : BOOLEAN, amount : 0..IntMax]
         /\ Snapshot(k).row => balance # NoRow
         /\ Snapshot(k).open => Snapshot(k).row
<1>1. CASE Open(k)
  <2> DEFINE R == {rows[i] : i \in DOMAIN rows}
             r == CHOOSE r \in R : r.key = k
  <2>1. PICK i \in DOMAIN rows : rows[i].key = k /\ ~rows[i].active
    BY <1>1 DEF Open
  <2>2. r \in R /\ r.key = k
    BY <2>1
  <2>3. PICK j \in DOMAIN rows : r = rows[j]
    BY <2>2
  <2>4. j = i
    BY <2>1, <2>2, <2>3 DEF RowsOK
  <2> HIDE DEF r
  <2>5. r.amount \in 0..IntMax
    <3>1. RowOK(rows[i]) /\ ~rows[i].active /\ r = rows[i]
      BY <2>1, <2>3, <2>4 DEF RowsOK
    <3>2. rows[i].amount \in Amounts /\ rows[i].amount >= 0
      BY <3>1 DEF RowOK, RowType
    <3>3. QED
      BY <3>1, <3>2, Numbers DEF Amounts
  <2>6. balance # NoRow
    BY <2>1 DEF RowsOK
  <2>7. Snapshot(k) = [row |-> TRUE, open |-> TRUE, amount |-> r.amount]
    BY <1>1, <2>6 DEF Snapshot, r
  <2>8. QED
    BY <2>5, <2>6, <2>7
<1>2. CASE ~Open(k)
  <2>1. Snapshot(k) = [row |-> balance # NoRow, open |-> FALSE, amount |-> 0]
    BY <1>2 DEF Snapshot, Open
  <2>2. CASE balance = NoRow
    <3>1. Snapshot(k) = [row |-> FALSE, open |-> FALSE, amount |-> 0]
      BY <2>1, <2>2
    <3>2. QED
      BY <3>1, Numbers
  <2>3. CASE balance # NoRow
    <3>1. Snapshot(k) = [row |-> TRUE, open |-> FALSE, amount |-> 0]
      BY <2>1, <2>3
    <3>2. QED
      BY <3>1, <2>3, Numbers
  <2>4. QED
    BY <2>2, <2>3
<1>3. QED
  BY <1>1, <1>2

-----------------------------------------------------------------------------
(* The initial states, and the steps that leave the tables alone. *)

LEMMA InitOK == Init => IInv
<1> HAVE Init
<1>1. CallsOK
  BY DEF Init, CallsOK, Idle
<1>2. RowsOK
  BY DEF Init, RowsOK
<1>3. TotalsOK
  BY Numbers, CreditConstants DEF Init, TotalsOK
<1>4. CountersOK
  BY CreditConstants DEF Init, CountersOK
<1>5. BalanceIsTheLedger
  BY DEF Init, BalanceIsTheLedger, CurrentBalance
<1>6. QED
  BY <1>1, <1>2, <1>3, <1>4, <1>5 DEF IInv

\* Nothing but one coroutine, the webhooks that were answered and the
\* charges made.
LEMMA QuietStep ==
  ASSUME IInv, NEW t \in Calls, NEW c, call' = [call EXCEPT ![t] = c],
         c = NoCall \/ CallOK(c), UNCHANGED tables, autoTopUp' \in BOOLEAN,
         UNCHANGED paid, acked' \in {acked} \cup {acked \cup {s} : s \in paid},
         charges' \in Nat, begun' \in 0..MaxCalls, faults' \in 0..MaxFaults
  PROVE  IInv'
<1>1. CallsOK'
  <2>1. paid \subseteq paid' /\ (balance # NoRow => balance' # NoRow) /\ CallsOK
    BY DEF tables, IInv
  <2>2. QED
    BY <2>1, OneCall
<1>2. RowsOK' /\ TotalsOK' /\ BalanceIsTheLedger'
  BY SameTables DEF IInv
<1>3. CountersOK'
  BY DEF IInv, CountersOK
<1>4. QED
  BY <1>1, <1>2, <1>3 DEF IInv

\* An operation ends and its coroutine has nothing to do.
LEMMA FinishOK ==
  ASSUME CallsOK, NEW t \in Calls, ~Idle(t), Finish(t)
  PROVE  /\ call' = [call EXCEPT ![t] = NoCall]
         /\ UNCHANGED paid /\ UNCHANGED charges
         /\ acked' \in {acked} \cup {acked \cup {s} : s \in paid}
<1>1. CallOK(call[t])
  BY DEF CallsOK
<1>2. QED
  BY <1>1 DEF Finish, CallOK

LEMMA BeginOK ==
  ASSUME IInv, NEW t \in Calls, Begin(t)
  PROVE  /\ UNCHANGED tables /\ autoTopUp' \in BOOLEAN
         /\ UNCHANGED paid /\ acked' = acked /\ charges' \in Nat
         /\ begun' \in 0..MaxCalls /\ faults' \in 0..MaxFaults
BY CreditConstants DEF Begin, IInv, CountersOK, stripe

LEMMA ServeOK ==
  ASSUME IInv, NEW t \in Calls, Serve(t)
  PROVE  IInv'
<1> USE DEF Operations, Stages
<1>1. ASSUME NEW e \in Execs, SpendCredits(t, e) PROVE IInv'
  <2>1. CallOK(Operation("spend", e, "add", Usage))
    BY RequestsOK, OperationOK
  <2>2. QED
    BY <1>1, <2>1, BeginOK, QuietStep DEF SpendCredits
<1>2. ASSUME NEW r \in Rewards, OnboardingReward(t, r) PROVE IInv'
  <2>1. CallOK(Operation("reward", r, "add", Grant(r)))
    BY RequestsOK, OperationOK
  <2>2. QED
    BY <1>2, <2>1, BeginOK, QuietStep DEF OnboardingReward
<1>3. ASSUME NEW s \in Sessions, TopUpIntent(t, s) PROVE IInv'
  <2>1. CallOK(Operation("intent", s, "add", Checkout(s)))
    BY RequestsOK, OperationOK
  <2>2. QED
    BY <1>3, <2>1, BeginOK, QuietStep DEF TopUpIntent
<1>4. ASSUME ConfigureAutoTopUp(t) PROVE IInv'
  <2> DEFINE q == CardTopUp(IF CurrentBalance < Threshold THEN TopUp ELSE 0)
  <2>1. RequestOK(q)
    BY RequestsOK
  <2> HIDE DEF q
  <2>2. CallOK(Operation("configure", NoCall, "add", q))
    BY <2>1, OperationOK
  <2>3. call' = [call EXCEPT ![t] = Operation("configure", NoCall, "add", q)]
    BY <1>4 DEF ConfigureAutoTopUp, q
  <2>4. QED
    BY <1>4, <2>2, <2>3, BeginOK, QuietStep DEF ConfigureAutoTopUp
<1>5. ASSUME NEW i \in DOMAIN rows, NEW amount \in 1..TopUp,
              DeductCredits(t, i, amount)
       PROVE  IInv'
  <2>1. RequestOK(Deduction(i, amount))
    BY <1>5, DeductionOK DEF DeductCredits, IInv, RowsOK
  <2>2. CallOK(Operation("deduct", NoCall, "add", Deduction(i, amount)))
    BY <2>1, OperationOK
  <2>3. QED
    BY <1>5, <2>2, BeginOK, QuietStep DEF DeductCredits
<1>6. ASSUME Poll(t) PROVE IInv'
  <2>1. CallOK(Operation("poll", NoCall, "find", NoRequest))
    BY RequestsOK, OperationOK
  <2>2. QED
    BY <1>6, <2>1, BeginOK, QuietStep DEF Poll
<1>7. QED
  BY <1>1, <1>2, <1>3, <1>4, <1>5, <1>6 DEF Serve

LEMMA WebhookOK ==
  ASSUME IInv, NEW t \in Calls, NEW s \in Sessions, Webhook(t, s)
  PROVE  IInv'
<1>1. CallOK(Operation("webhook", s, "find", NoRequest))
  BY RequestsOK, OperationOK DEF Operations, Stages, Webhook
<1>2. /\ UNCHANGED tables /\ autoTopUp' \in BOOLEAN
      /\ UNCHANGED paid /\ acked' = acked /\ charges' \in Nat
      /\ begun' \in 0..MaxCalls /\ faults' \in 0..MaxFaults
  BY DEF Webhook, IInv, CountersOK, stripe, counters
<1>3. QED
  BY <1>1, <1>2, QuietStep DEF Webhook

\* Everything but the tables and the counters of requests and faults.
LEMMA RaiseOK ==
  ASSUME IInv, NEW t \in Calls, Raise(t), UNCHANGED tables, autoTopUp' = autoTopUp,
         begun' = begun, faults' \in 0..MaxFaults
  PROVE  IInv'
<1>1. /\ autoTopUp' \in BOOLEAN /\ UNCHANGED paid /\ acked' = acked
      /\ charges' \in Nat /\ begun' \in 0..MaxCalls
      /\ call' = [call EXCEPT ![t] = NoCall]
  BY DEF IInv, CountersOK, Raise, stripe
<1>2. QED
  BY <1>1, QuietStep

LEMMA FinishQuietly ==
  ASSUME IInv, NEW t \in Calls, ~Idle(t), Finish(t), UNCHANGED tables,
         autoTopUp' \in BOOLEAN, begun' = begun, faults' \in 0..MaxFaults
  PROVE  IInv'
<1>1. charges \in Nat /\ begun \in 0..MaxCalls /\ CallsOK
  BY DEF IInv, CountersOK
<1>2. /\ call' = [call EXCEPT ![t] = NoCall]
      /\ UNCHANGED paid /\ UNCHANGED charges
      /\ acked' \in {acked} \cup {acked \cup {s} : s \in paid}
  BY <1>1, FinishOK
<1>3. QED
  BY <1>1, <1>2, QuietStep

LEMMA GoOK ==
  ASSUME IInv, NEW t \in Calls, NEW c, call' = [call EXCEPT ![t] = c], CallOK(c),
         UNCHANGED <<tables, counters, autoTopUp, paid, acked>>, charges' \in Nat
  PROVE  IInv'
<1>1. UNCHANGED tables /\ UNCHANGED paid
  OBVIOUS
<1>2. /\ autoTopUp' \in BOOLEAN /\ acked' = acked
      /\ begun' \in 0..MaxCalls /\ faults' \in 0..MaxFaults
  BY DEF IInv, CountersOK, counters
<1>3. QED
  BY <1>1, <1>2, QuietStep

\* The steps that change neither table.
LEMMA QuietStepsOK ==
  ASSUME IInv, NEW t \in Calls
  PROVE  /\ StartStatement(t) => IInv'
         /\ AddTransactionFails(t) => IInv'
         /\ CheckAutoTopUp(t) => IInv'
         /\ CheckKey(t) => IInv'
         /\ CheckCeiling(t) => IInv'
         /\ ChargeCard(t) => IInv'
         /\ FindCheckout(t) => IInv'
         /\ RetrieveSession(t) => IInv'
         /\ EnableTransactionSkips(t) => IInv'
         /\ Crash(t) => IInv'
<1> DEFINE c == call[t]
<1>1. /\ ~Idle(t) => CallOK(c)
      /\ call \in [Calls -> OperationType \cup {NoCall}]
      /\ faults \in 0..MaxFaults /\ charges \in Nat /\ autoTopUp \in BOOLEAN
  BY DEF IInv, CallsOK, CountersOK
<1>2. ASSUME StartStatement(t) PROVE IInv'
  <2> DEFINE w == Snapshot(call[t].key)
  <2>1. PICK stage \in {"adding", "enabling"} :
          call' = [call EXCEPT ![t].at = stage, ![t].saw = w]
    BY <1>2 DEF StartStatement
  <2>2. CallOK(c) /\ UNCHANGED <<tables, stripe, counters, autoTopUp>>
    BY <1>1, <1>2 DEF StartStatement, At
  <2>3. /\ w \in [row : BOOLEAN, open : BOOLEAN, amount : 0..IntMax]
        /\ w.row => balance # NoRow
        /\ w.open => w.row
    BY SnapshotOK DEF IInv
  <2> HIDE DEF w
  <2>4. CallOK([c EXCEPT !.at = stage, !.saw = w])
    BY <2>2, <2>3, CallVariants DEF Stages
  <2>5. call' = [call EXCEPT ![t] = [c EXCEPT !.at = stage, !.saw = w]]
    BY <1>1, <2>1
  <2>6. QED
    BY <1>1, <2>2, <2>4, <2>5, GoOK DEF stripe
<1>3. ASSUME AddTransactionFails(t) PROVE IInv'
  BY <1>1, <1>3, RaiseOK DEF AddTransactionFails, counters
<1>4. ASSUME CheckAutoTopUp(t) PROVE IInv'
  <2>1. ~Idle(t) /\ c.at = "config" /\ UNCHANGED <<tables, counters, autoTopUp>>
    BY <1>4 DEF CheckAutoTopUp, At
  <2>2. CASE Finish(t)
    BY <1>1, <2>1, <2>2, FinishQuietly DEF counters
  <2>3. CASE /\ call' = [call EXCEPT ![t] = Operation("spend", c.of, "key", AutomaticTopUp(c.of))]
             /\ UNCHANGED stripe
    <3>1. c.of \in Execs
      BY <1>1, <2>1 DEF CallOK
    <3>2. RequestOK(AutomaticTopUp(c.of))
      BY <3>1, RequestsOK
    <3>3. CallOK(Operation("spend", c.of, "key", AutomaticTopUp(c.of)))
      BY <3>1, <3>2, OperationOK DEF Operations, Stages
    <3>4. QED
      BY <1>1, <2>1, <2>3, <3>3, GoOK DEF stripe
  <2>4. QED
    BY <1>4, <2>2, <2>3 DEF CheckAutoTopUp
<1>5. ASSUME NEW stage \in Stages \ {"config"}, ~Idle(t), Go(t, stage),
             UNCHANGED <<tables, stripe, counters, autoTopUp>>
      PROVE  IInv'
  <2>1. CallOK([c EXCEPT !.at = stage])
    BY <1>1, <1>5, CallVariants
  <2>2. call' = [call EXCEPT ![t] = [c EXCEPT !.at = stage]]
    BY <1>1, <1>5 DEF Go
  <2>3. QED
    BY <1>1, <1>5, <2>1, <2>2, GoOK DEF stripe
<1>6. ASSUME CheckKey(t) PROVE IInv'
  BY <1>1, <1>5, <1>6, RaiseOK DEF CheckKey, At, Stages, counters
<1>7. ASSUME CheckCeiling(t) PROVE IInv'
  BY <1>1, <1>5, <1>7, RaiseOK DEF CheckCeiling, At, Stages, counters
<1>8. ASSUME ChargeCard(t) PROVE IInv'
  <2>1. ~Idle(t) /\ UNCHANGED <<tables, counters, autoTopUp>>
    BY <1>8 DEF ChargeCard, At
  <2>2. CASE Raise(t)
    BY <1>1, <2>1, <2>2, RaiseOK DEF counters
  <2>3. CASE /\ charges' = charges + 1
             /\ call' = [call EXCEPT ![t].at = "enable", ![t].pay = IntentKey(charges')]
             /\ UNCHANGED <<paid, acked>>
    <3>1. charges' \in Nat /\ IntentKey(charges') \in PlainKeys
      BY <1>1, <2>3, PlainKeyTypes
    <3>2. CallOK([c EXCEPT !.at = "enable", !.pay = IntentKey(charges')])
      BY <1>1, <2>1, <3>1, CallVariants DEF Stages
    <3>3. call' = [call EXCEPT ![t] = [c EXCEPT !.at = "enable", !.pay = IntentKey(charges')]]
      BY <1>1, <2>3
    <3>4. QED
      BY <2>1, <2>3, <3>1, <3>2, <3>3, GoOK
  <2>4. QED
    BY <1>8, <2>2, <2>3 DEF ChargeCard
<1>9. ASSUME FindCheckout(t) PROVE IInv'
  <2>1. ~Idle(t) /\ UNCHANGED <<tables, counters, autoTopUp>>
    BY <1>9 DEF FindCheckout, At
  <2>2. CASE Finish(t)
    BY <1>1, <2>1, <2>2, FinishQuietly DEF counters
  <2>3. ASSUME NEW i \in DOMAIN rows, UNCHANGED stripe,
               call' = [call EXCEPT ![t].at = "retrieve", ![t].key = rows[i].key]
        PROVE  IInv'
    <3>1. rows[i].key \in Keys
      BY DEF IInv, RowsOK, RowOK, RowType
    <3>2. CallOK([c EXCEPT !.at = "retrieve", !.key = rows[i].key])
      BY <1>1, <2>1, <3>1, CallVariants DEF Stages
    <3>3. call' = [call EXCEPT ![t] = [c EXCEPT !.at = "retrieve", !.key = rows[i].key]]
      BY <1>1, <2>3
    <3>4. QED
      BY <1>1, <2>1, <2>3, <3>2, <3>3, GoOK DEF stripe
  <2>4. QED
    BY <1>9, <2>2, <2>3 DEF FindCheckout, Candidates
<1>10. ASSUME RetrieveSession(t) PROVE IInv'
  <2>1. ~Idle(t) /\ UNCHANGED <<tables, counters, autoTopUp>>
    BY <1>10 DEF RetrieveSession, At
  <2>2. CASE Finish(t)
    BY <1>1, <2>1, <2>2, FinishQuietly DEF counters
  <2>3. ASSUME NEW s \in Sessions, UNCHANGED stripe,
               call' = [call EXCEPT ![t].at = "enable", ![t].pay = SessionIntent(s)]
        PROVE  IInv'
    <3>1. CallOK([c EXCEPT !.at = "enable", !.pay = SessionIntent(s)])
      BY <1>1, <2>1, PlainKeyTypes, CallVariants DEF Stages
    <3>2. call' = [call EXCEPT ![t] = [c EXCEPT !.at = "enable", !.pay = SessionIntent(s)]]
      BY <1>1, <2>3
    <3>3. QED
      BY <1>1, <2>1, <2>3, <3>1, <3>2, GoOK DEF stripe
  <2>4. QED
    BY <1>10, <2>2, <2>3 DEF RetrieveSession
<1>11. ASSUME EnableTransactionSkips(t) PROVE IInv'
  <2>1. ~Idle(t) /\ UNCHANGED <<tables, counters>> /\ Finish(t) /\ autoTopUp' \in BOOLEAN
    BY <1>1, <1>11 DEF EnableTransactionSkips, At, Enabled
  <2>2. QED
    BY <1>1, <2>1, FinishQuietly DEF counters
<1>12. ASSUME Crash(t) PROVE IInv'
  <2>1. /\ Raise(t) /\ UNCHANGED tables /\ autoTopUp' = autoTopUp /\ begun' = begun
        /\ faults' \in 0..MaxFaults
    BY <1>1, <1>12, CreditConstants DEF Crash
  <2>2. QED
    BY <2>1, RaiseOK
<1>13. QED
  BY <1>2, <1>3, <1>4, <1>6, <1>7, <1>8, <1>9, <1>10, <1>11, <1>12

LEMMA CustomerPaysOK ==
  ASSUME IInv, NEW s \in Sessions, CustomerPays(s)
  PROVE  IInv'
<1>1. UNCHANGED <<tables, acked, charges, counters, autoTopUp, call>> /\ paid' = paid \cup {s}
  BY DEF CustomerPays
<1>2. CallsOK'
  BY <1>1 DEF IInv, CallsOK, Idle, CallOK, tables
<1>3. RowsOK' /\ TotalsOK' /\ BalanceIsTheLedger'
  BY <1>1, SameTables DEF IInv
<1>4. CountersOK'
  BY <1>1 DEF IInv, CountersOK, counters
<1>5. QED
  BY <1>2, <1>3, <1>4 DEF IInv

-----------------------------------------------------------------------------
(* The two statements that change both tables. *)

LEMMA LockedOK ==
  ASSUME IInv, NEW t \in Calls, ~Idle(t)
  PROVE  /\ CallOK(call[t]) /\ LockedBalance(t) \in Balances
         /\ call[t].saw.row => balance # NoRow /\ LockedBalance(t) = balance
         /\ ~call[t].saw.row => LockedBalance(t) = history
<1>1. CallOK(call[t])
  BY DEF IInv, CallsOK
<1>2. QED
  BY <1>1 DEF IInv, CallOK, LockedBalance, TotalsOK

LEMMA NewBalanceOK ==
  ASSUME NEW b \in Balances, NEW q, RequestOK(q)
  PROVE  /\ NewBalance(b, q) \in Balances
         /\ (/\ q.active => ~Ceiled(b, q)
             /\ q.active => b + q.amount \in IntMin..IntMax)
              => NewBalance(b, q) = b + Posted(q)
         /\ Posted(q) \in Int
<1>1. q.active \in BOOLEAN /\ q.amount \in Amounts /\ q.ceiling \in 0..IntMax
  BY DEF RequestOK, RequestType
<1>2. QED
  BY <1>1, Numbers, SMTT(30) DEF NewBalance, Posted, Clipped, Amounts

LEMMA AddedRow ==
  ASSUME RowsOK, NEW r, RowOK(r), ~HasKey(r.key), rows' = Append(rows, r), balance' # NoRow
  PROVE  RowsOK'
<1>1. r \in RowType /\ rows \in Seq(RowType)
  BY DEF RowsOK, RowOK
<1>2. /\ rows' \in Seq(RowType) /\ Len(rows) \in Nat
      /\ DOMAIN rows = 1..Len(rows) /\ DOMAIN rows' = 1..(Len(rows) + 1)
      /\ \A i \in DOMAIN rows : rows'[i] = rows[i]
      /\ rows'[Len(rows) + 1] = r
  BY <1>1
<1>3. \A i \in DOMAIN rows' : i \in DOMAIN rows \/ (rows'[i] = r /\ i = Len(rows) + 1)
  BY <1>2
<1>4. \A i \in DOMAIN rows' : RowOK(rows'[i])
  BY <1>2, <1>3 DEF RowsOK
<1>5. \A i, j \in DOMAIN rows' : rows'[i].key = rows'[j].key => i = j
  BY <1>2, <1>3 DEF RowsOK, HasKey
<1>6. (\A i \in DOMAIN rows : RowOK(rows[i]))'
  BY <1>4 DEF RowOK
<1>7. QED
  BY <1>2, <1>5, <1>6 DEF RowsOK

LEMMA AddTransactionOK ==
  ASSUME IInv, NEW t \in Calls, AddTransaction(t)
  PROVE  IInv'
<1> DEFINE c == call[t]
           q == c.req
           b == LockedBalance(t)
           key == IF q.key = NoKey THEN RandomKey ELSE q.key
           row == [key |-> key, origin |-> key, type |-> q.type,
                   amount |-> q.amount, active |-> q.active,
                   running |-> NewBalance(b, q)]
<1>1. /\ ~Idle(t) /\ ~HasKey(key)
      /\ balance' = NewBalance(b, q)
      /\ rows' = Append(rows, row)
      /\ ledger' = ledger + Posted(q)
      /\ disturbed' = disturbed \cup AddDisturbs(t)
      /\ AfterAdd(t, key)
      /\ UNCHANGED <<history, stripe, counters, autoTopUp>>
  BY DEF AddTransaction, At
<1>2. /\ CallOK(c) /\ b \in Balances
      /\ c.saw.row => balance # NoRow /\ b = balance
      /\ ~c.saw.row => b = history
  BY <1>1, LockedOK
<1>3. RequestOK(q)
  BY <1>2 DEF CallOK
<1>4. NewBalance(b, q) \in Balances /\ Posted(q) \in Int
  BY <1>2, <1>3, NewBalanceOK
<1>5. key \in Keys /\ (q.type = "TOP_UP" => key \in PlainKeys)
  BY <1>3, PlainKeyTypes, KeyTypes DEF RequestOK, RequestType, IInv
<1>6. balance' # NoRow
  BY <1>1, <1>4, Numbers
<1>7. RowOK(row)
  <2> HIDE DEF key
  <2>1. QED
    BY <1>3, <1>4, <1>5 DEF RowOK, RowType, RequestOK, RequestType
<1>8. RowsOK'
  <2>1. ~HasKey(row.key)
    BY <1>1
  <2> HIDE DEF row
  <2>2. QED
    BY <1>1, <1>6, <1>7, <2>1, AddedRow DEF IInv
<1>9. CallsOK'
  <2> HIDE DEF key
  <2>1. paid' = paid /\ CallsOK /\ call \in [Calls -> OperationType \cup {NoCall}]
    BY <1>1 DEF stripe, IInv, CallsOK
  <2>2. CASE /\ c.op = "spend"
             /\ call' = [call EXCEPT ![t].at = "config", ![t].result = balance']
    <3> "add" \in Stages \ {"config"}
      BY DEF Stages
    <3>0. \A v \in Balances : CallOK([c EXCEPT !.at = "config", !.result = v])
      BY <1>2, <2>2, CallVariants
    <3>1. CallOK([c EXCEPT !.at = "config", !.result = balance'])
      BY <1>1, <1>4, <3>0
    <3>2. call' = [call EXCEPT ![t] = [c EXCEPT !.at = "config", !.result = balance']]
      BY <2>1, <2>2
    <3>3. QED
      BY <1>6, <2>1, <3>1, <3>2, OneCall
  <2>3. CASE call' = [call EXCEPT ![t].at = "charge", ![t].key = key]
    <3>1. CallOK([c EXCEPT !.at = "charge", !.key = key])
      BY <1>2, <1>5, CallVariants DEF Stages
    <3>2. call' = [call EXCEPT ![t] = [c EXCEPT !.at = "charge", !.key = key]]
      BY <2>1, <2>3
    <3>3. QED
      BY <1>6, <2>1, <3>1, <3>2, OneCall
  <2>4. CASE call' = [call EXCEPT ![t] = NoCall]
    BY <1>6, <2>1, <2>4, OneCall
  <2>5. QED
    BY <1>1, <2>2, <2>3, <2>4 DEF AfterAdd
<1>10. TotalsOK'
  <2>1. AddDisturbs(t) \subseteq {"first", "clipped"}
    BY DEF AddDisturbs
  <2>2. disturbed' \subseteq {"first", "twice", "clipped", "overflow"}
    BY <1>1, <2>1 DEF IInv, TotalsOK
  <2>3. ledger' \in Int /\ balance' \in Balances /\ history' \in Balances
    BY <1>1, <1>4 DEF IInv, TotalsOK
  <2>4. QED
    BY <2>2, <2>3 DEF TotalsOK
<1>11. BalanceIsTheLedger'
  <2> SUFFICES ASSUME disturbed' \subseteq {"overflow"}
               PROVE  ledger' = balance'
    BY <1>6 DEF BalanceIsTheLedger, CurrentBalance
  <2>1. disturbed \subseteq {"overflow"} /\ AddDisturbs(t) = {}
    BY <1>1 DEF AddDisturbs
  <2>2. /\ c.saw.row \/ balance = NoRow
        /\ ~(q.active /\ Ceiled(b, q))
        /\ ~(q.active /\ b + q.amount \notin IntMin..IntMax)
    BY <2>1 DEF AddDisturbs
  <2>3. ledger = b
    BY <1>2, <2>1, <2>2 DEF IInv, BalanceIsTheLedger, CurrentBalance
  <2>4. NewBalance(b, q) = b + Posted(q)
    BY <1>2, <1>3, <2>2, NewBalanceOK
  <2>5. QED
    BY <1>1, <2>3, <2>4
<1>12. CountersOK'
  BY <1>1 DEF IInv, CountersOK, stripe, counters
<1>13. QED
  BY <1>8, <1>9, <1>10, <1>11, <1>12 DEF IInv

\* Enabling a row leaves the keys different from each other.
LEMMA EnabledRows ==
  ASSUME RowsOK, NEW t \in Calls, NEW k \in PlainKeys, NEW b \in Balances,
         k = call[t].pay, ~KeyTaken(t), balance' # NoRow,
         rows' = [i \in DOMAIN rows |->
                    IF i \in Updated(t) THEN EnableRow(rows[i], k, b) ELSE rows[i]]
  PROVE  RowsOK'
<1>1. rows \in Seq(RowType) /\ \A i \in DOMAIN rows : RowOK(rows[i])
  BY DEF RowsOK
<1>2. \A r : RowOK(r) => RowOK(EnableRow(r, k, b)) /\ EnableRow(r, k, b).key = k
  BY KeyTypes DEF RowOK, RowType, EnableRow
<1>3. /\ DOMAIN rows' = DOMAIN rows /\ DOMAIN rows = 1..Len(rows) /\ Len(rows) \in Nat
      /\ \A i \in DOMAIN rows :
           rows'[i] = IF i \in Updated(t) THEN EnableRow(rows[i], k, b) ELSE rows[i]
  BY <1>1
<1>4. \A i \in DOMAIN rows' : RowOK(rows'[i])
  BY <1>1, <1>2, <1>3
<1>5. rows' \in Seq(RowType)
  <2>1. rows' \in [1..Len(rows) -> RowType]
    BY <1>3, <1>4 DEF RowOK
  <2>2. QED
    BY <1>3, <2>1
<1>6. \A i, j \in Updated(t) : i = j
  BY DEF Updated, RowsOK
<1>7. ASSUME NEW i \in DOMAIN rows, NEW j \in DOMAIN rows, rows'[i].key = rows'[j].key
      PROVE  i = j
  <2>1. CASE i \in Updated(t) /\ j \in Updated(t)
    BY <1>6, <2>1
  <2>2. CASE i \in Updated(t) /\ j \notin Updated(t)
    BY <1>1, <1>2, <1>3, <1>7, <2>2 DEF KeyTaken
  <2>3. CASE i \notin Updated(t) /\ j \in Updated(t)
    BY <1>1, <1>2, <1>3, <1>7, <2>3 DEF KeyTaken
  <2>4. CASE i \notin Updated(t) /\ j \notin Updated(t)
    BY <1>3, <1>7, <2>4 DEF RowsOK
  <2>5. QED
    BY <2>1, <2>2, <2>3, <2>4
<1>8. (\A i \in DOMAIN rows : RowOK(rows[i]))'
  BY <1>4 DEF RowOK
<1>9. QED
  BY <1>3, <1>5, <1>7, <1>8 DEF RowsOK

LEMMA EnableTransactionOK ==
  ASSUME IInv, NEW t \in Calls, EnableTransaction(t)
  PROVE  IInv'
<1> DEFINE c == call[t]
           amount == c.saw.amount
           b == LockedBalance(t) + amount
<1>1. /\ ~Idle(t) /\ c.saw.open /\ b <= IntMax /\ ~KeyTaken(t)
      /\ balance' = b
      /\ rows' = [i \in DOMAIN rows |->
                    IF i \in Updated(t) THEN EnableRow(rows[i], c.pay, b) ELSE rows[i]]
      /\ ledger' = IF Open(c.key) THEN ledger + amount ELSE ledger
      /\ disturbed' = disturbed \cup EnableDisturbs(t)
      /\ AfterEnable(t)
      /\ UNCHANGED <<history, begun>>
  BY DEF EnableTransaction, At
<1>2. /\ CallOK(c) /\ c.saw.row /\ balance # NoRow
      /\ LockedBalance(t) = balance /\ balance \in Balances
      /\ amount \in 0..IntMax /\ c.pay \in PlainKeys
      /\ call \in [Calls -> OperationType \cup {NoCall}]
  <2>1. CallOK(c) /\ LockedBalance(t) \in Balances
    BY <1>1, LockedOK
  <2>2. c.saw.row
    BY <1>1, <2>1 DEF CallOK
  <2>3. balance # NoRow /\ LockedBalance(t) = balance
    BY <1>1, <2>2, LockedOK
  <2>4. amount \in 0..IntMax /\ c.pay \in PlainKeys
    BY <2>1 DEF CallOK, OperationType
  <2>5. QED
    BY <2>1, <2>2, <2>3, <2>4 DEF IInv, CallsOK
<1>3. b \in Balances /\ balance' # NoRow
  BY <1>1, <1>2, Numbers, SMTT(30)
<1>4. RowsOK'
  <2> HIDE DEF b
  <2>1. QED
    BY <1>1, <1>2, <1>3, EnabledRows DEF IInv
<1>5. TotalsOK'
  BY <1>1, <1>2, <1>3 DEF IInv, TotalsOK, EnableDisturbs
<1>6. BalanceIsTheLedger'
  <2> SUFFICES ASSUME disturbed' \subseteq {"overflow"}
               PROVE  ledger' = balance'
    BY <1>3 DEF BalanceIsTheLedger, CurrentBalance
  <2>1. disturbed \subseteq {"overflow"} /\ Open(c.key)
    BY <1>1 DEF EnableDisturbs
  <2>2. ledger = balance
    BY <1>2, <2>1 DEF IInv, BalanceIsTheLedger, CurrentBalance
  <2>3. QED
    BY <1>1, <1>2, <2>1, <2>2
<1>7. CallsOK' /\ CountersOK'
  <2>1. CASE Enabled(t) /\ faults' = faults
    <3>1. /\ call' = [call EXCEPT ![t] = NoCall] /\ UNCHANGED paid /\ UNCHANGED charges
          /\ acked' \in {acked} \cup {acked \cup {s} : s \in paid}
      BY <1>1, <2>1, FinishOK DEF Enabled, IInv
    <3>2. CallsOK'
      BY <1>3, <3>1, OneCall DEF IInv
    <3>3. CountersOK'
      BY <1>1, <2>1, <3>1 DEF IInv, CountersOK, Enabled
    <3>4. QED
      BY <3>2, <3>3
  <2>2. CASE /\ faults < MaxFaults /\ faults' = faults + 1
             /\ Go(t, "enable") /\ UNCHANGED <<stripe, autoTopUp>>
    <3>1. CallOK([c EXCEPT !.at = "enable"])
      BY <1>2, CallVariants DEF Stages
    <3>2. call' = [call EXCEPT ![t] = [c EXCEPT !.at = "enable"]]
      BY <1>2, <2>2 DEF Go
    <3>3. CallsOK'
      BY <1>3, <2>2, <3>1, <3>2, OneCall DEF IInv, stripe
    <3>4. CountersOK'
      BY <1>1, <2>2, CreditConstants DEF IInv, CountersOK, stripe
    <3>5. QED
      BY <3>3, <3>4
  <2>3. QED
    BY <1>1, <2>1, <2>2 DEF AfterEnable
<1>8. QED
  BY <1>4, <1>5, <1>6, <1>7 DEF IInv

LEMMA EnableTransactionFailsOK ==
  ASSUME IInv, NEW t \in Calls, EnableTransactionFails(t)
  PROVE  IInv'
<1>1. /\ call' = [call EXCEPT ![t] = NoCall] /\ UNCHANGED stripe
      /\ disturbed' \in {disturbed, disturbed \cup {"overflow"}}
      /\ UNCHANGED <<history, balance, rows, ledger, counters, autoTopUp>>
  BY DEF EnableTransactionFails, Raise
<1>2. CallsOK'
  BY <1>1, OneCall DEF IInv, stripe
<1>3. RowsOK'
  BY <1>1 DEF IInv, RowsOK, RowOK
<1>4. TotalsOK'
  BY <1>1 DEF IInv, TotalsOK
<1>5. BalanceIsTheLedger'
  BY <1>1 DEF IInv, BalanceIsTheLedger, CurrentBalance
<1>6. CountersOK'
  BY <1>1 DEF IInv, CountersOK, stripe, counters
<1>7. QED
  BY <1>2, <1>3, <1>4, <1>5, <1>6 DEF IInv

-----------------------------------------------------------------------------
(* The theorems. *)

LEMMA NextOK == IInv /\ [Next]_vars => IInv'
<1> SUFFICES ASSUME IInv, [Next]_vars PROVE IInv'
  OBVIOUS
<1>1. ASSUME NEW t \in Calls, Step(t) PROVE IInv'
  BY <1>1, QuietStepsOK, AddTransactionOK, EnableTransactionOK,
     EnableTransactionFailsOK DEF Step
<1>2. ASSUME NEW t \in Calls, Serve(t) PROVE IInv'
  BY <1>2, ServeOK
<1>3. ASSUME NEW t \in Calls, Crash(t) PROVE IInv'
  BY <1>3, QuietStepsOK
<1>4. ASSUME NEW s \in Sessions, CustomerPays(s) PROVE IInv'
  BY <1>4, CustomerPaysOK
<1>5. ASSUME NEW s \in Sessions, NEW t \in Calls, Webhook(t, s) PROVE IInv'
  BY <1>5, WebhookOK
<1>6. CASE UNCHANGED vars
  <2>1. UNCHANGED <<tables, stripe, counters, autoTopUp, call>>
    BY <1>6 DEF vars
  <2>2. CallsOK'
    BY <2>1 DEF IInv, CallsOK, Idle, CallOK, tables, stripe
  <2>3. RowsOK' /\ TotalsOK' /\ BalanceIsTheLedger'
    BY <2>1, SameTables DEF IInv
  <2>4. CountersOK'
    BY <2>1 DEF IInv, CountersOK, stripe, counters
  <2>5. QED
    BY <2>2, <2>3, <2>4 DEF IInv
<1>7. QED
  BY <1>1, <1>2, <1>3, <1>4, <1>5, <1>6 DEF Next

LEMMA Invariance == Spec => []IInv
<1>1. Init => IInv
  BY InitOK
<1>2. IInv /\ [Next]_vars => IInv'
  BY NextOK
<1>3. QED
  BY <1>1, <1>2, PTL DEF Spec

\* Both tables hold what their columns can hold, whatever statements of
\* _add_transaction and _enable_transaction overlap: no balance leaves the
\* range of the column.
THEOREM TypeCorrect == Spec => []TypeOK
<1>1. IInv => TypeOK
  BY DEF IInv, CallsOK, RowsOK, TotalsOK, CountersOK, TypeOK
<1>2. QED
  BY <1>1, Invariance, PTL

\* The balance is what the active transactions add up to, unless two
\* statements both found no balance row, one top-up was enabled by two
\* statements, or an amount was cut to fit.
THEOREM BalanceExact == Spec => []BalanceIsTheLedger
<1>1. IInv => BalanceIsTheLedger
  BY DEF IInv
<1>2. QED
  BY <1>1, Invariance, PTL

-----------------------------------------------------------------------------
(* Where the money comes from: a second inductive invariant, on top of IInv. *)

UuidKey(n) == <<"uuid", n>>

\* Stripe has confirmed the payment k, for these sessions and so many charges.
Confirmed(k, sessions, n) ==
  \/ \E s \in sessions : k = SessionIntent(s)
  \/ \E m \in 1..n : k = IntentKey(m)

\* What is asked of _add_transaction: top-ups are inactive, only a deduction
\* may leave a debt, and the automatic top-up of an execution has its key.
RequestFits(c) ==
  /\ c.req.type = "TOP_UP" => ~c.req.active
  /\ ~c.req.strict => c.req.type = "REFUND"
  /\ \A n \in Nat : c.req.key # UuidKey(n)
  /\ ~c.req.active /\ c.req.key # NoKey => c.req.amount = TopUp
  /\ c.op = "spend" /\ ~c.req.active => c.req.key = AutoKey(c.of)
  /\ c.op = "configure" => c.req.key = NoKey

Paying == {"charge", "enable", "enabling"}

\* The row that is going to be enabled: that of the execution, the session's or
\* the one whose key nobody chose.
StageFits(c) ==
  /\ c.at \in {"find", "retrieve"} => c.op # "spend"
  /\ c.at \in Paying =>
       IF c.op = "spend" THEN c.key = AutoKey(c.of)
       ELSE \/ \E s \in Sessions : c.key = SessionKey(s)
            \/ \E n \in Nat : c.key = UuidKey(n)

\* It gets the key of a confirmed payment.
PayFits(c, sessions, n) ==
  IF c.at \in {"enable", "enabling"} THEN Confirmed(c.pay, sessions, n)
  ELSE c.pay = NoKey

\* What an inactive row under key k is worth.
Worth(amount, k, rs) ==
  /\ \A n \in Nat : k = UuidKey(n) => n \in DOMAIN rs /\ amount = rs[n].amount
  /\ (\A n \in Nat : k # UuidKey(n)) => amount = TopUp

SawFits(c, rs) ==
  c.at = "enabling" /\ c.saw.open => Worth(c.saw.amount, c.key, rs)

CallFits(c, sessions, n, rs) ==
  RequestFits(c) /\ StageFits(c) /\ PayFits(c, sessions, n) /\ SawFits(c, rs)

CallsFit == \A t \in Calls : ~Idle(t) => CallFits(call[t], paid, charges, rows)

\* Of one row: the key of an active top-up is that of a payment; a random key
\* is as good as the place of the row in the table.
RowFits(r, i, sessions, n) ==
  /\ r.key # NoKey
  /\ r.active /\ r.type = "TOP_UP" => Confirmed(r.key, sessions, n)
  /\ \A m \in Nat : r.key = UuidKey(m) => m = i
  /\ ~r.active /\ (\A m \in Nat : r.key # UuidKey(m)) => r.amount = TopUp

RowsFit == \A i \in DOMAIN rows : RowFits(rows[i], i, paid, charges)

\* The row of an automatic top-up keeps its key, which nobody else can insert,
\* until the charge is credited.
ChargeKept == \A t \in Calls : \A e \in Execs : Charging(t, e) => HasKey(AutoKey(e))

\* The bank has taken nothing back, and the user had no debt before.
Unrefunded ==
  /\ history >= 0
  /\ ~\E i \in DOMAIN rows : rows[i].type = "REFUND"

\* Neither of the balances that a statement may start from, the row and what
\* came before it, is a debt.
Means == Unrefunded => (balance # NoRow => balance >= 0)

\* f lists the subtotals of the table rs.
Worthwhile(r) == IF r.active THEN r.amount ELSE 0

Subtotals(f, rs, start, total) ==
  /\ f \in [0..Len(rs) -> Int]
  /\ f[0] = start
  /\ \A n \in 1..Len(rs) : f[n] = f[n - 1] + Worthwhile(rs[n])
  /\ f[Len(rs)] = total

Accounted == \E f : Subtotals(f, rows, history, ledger)

Fits ==
  /\ CallsFit /\ RowsFit
  /\ ChargeKept /\ OneAutoTopUpAtATime
  /\ Means /\ Accounted

\* No two kinds of keys have a key in common.
LEMMA KeysDiffer ==
  /\ \A n, m \in Nat : UuidKey(n) = UuidKey(m) => n = m
  /\ \A n, m : /\ UuidKey(n) # NoKey /\ UuidKey(n) # SessionKey(m)
               /\ UuidKey(n) # AutoKey(m) /\ UuidKey(n) # SessionIntent(m)
               /\ UuidKey(n) # IntentKey(m) /\ UuidKey(n) # RewardKey(m)
               /\ UuidKey(n) # RefundKey(m)
               /\ AutoKey(n) # NoKey /\ AutoKey(n) # SessionKey(m)
               /\ AutoKey(n) # SessionIntent(m) /\ AutoKey(n) # IntentKey(m)
               /\ SessionKey(n) # SessionIntent(m) /\ SessionKey(n) # IntentKey(m)
               /\ SessionIntent(n) # NoKey /\ IntentKey(n) # NoKey
  /\ \A d, e : AutoKey(d) = AutoKey(e) => d = e
BY DEF UuidKey, NoKey, SessionKey, SessionIntent, AutoKey, IntentKey, RewardKey, RefundKey

LEMMA ConfirmedIsNew ==
  ASSUME NEW k, NEW sessions, NEW n \in Nat, Confirmed(k, sessions, n)
  PROVE  /\ k # NoKey
         /\ \A m : k # UuidKey(m) /\ k # AutoKey(m) /\ k # SessionKey(m)
BY KeysDiffer DEF Confirmed

LEMMA ConfirmedKept ==
  ASSUME NEW k, NEW P, NEW Q, P \subseteq Q, NEW m \in Nat, NEW n \in Nat, m <= n,
         Confirmed(k, P, m)
  PROVE  Confirmed(k, Q, n)
BY DEF Confirmed

\* A coroutine that waits while rows are added, enabled and paid for.
LEMMA CallFitsKept ==
  ASSUME NEW c, NEW P, NEW Q, P \subseteq Q, NEW m \in Nat, NEW n \in Nat, m <= n,
         NEW r1, NEW r2, \A i \in DOMAIN r1 : i \in DOMAIN r2 /\ r2[i].amount = r1[i].amount,
         CallFits(c, P, m, r1)
  PROVE  CallFits(c, Q, n, r2)
<1>1. PayFits(c, Q, n)
  BY ConfirmedKept DEF CallFits, PayFits
<1>2. SawFits(c, r2)
  BY DEF CallFits, SawFits, Worth
<1>3. QED
  BY <1>1, <1>2 DEF CallFits


\* A step of one coroutine that leaves what the others know as it is.
LEMMA OneCallFits ==
  ASSUME CallsFit, CallsOK, CountersOK, CountersOK', NEW t \in Calls, NEW c,
         call' = [call EXCEPT ![t] = c],
         paid \subseteq paid', charges <= charges',
         \A i \in DOMAIN rows : i \in DOMAIN rows' /\ rows'[i].amount = rows[i].amount,
         c = NoCall \/ CallFits(c, paid', charges', rows')
  PROVE  CallsFit'
<1>1. charges \in Nat /\ charges' \in Nat
  BY DEF CountersOK
<1>2. \A u \in Calls : call'[u] = IF u = t THEN c ELSE call[u]
  BY DEF CallsOK
<1>3. ASSUME NEW u \in Calls, call'[u] # NoCall
      PROVE  CallFits(call'[u], paid', charges', rows')
  <2>1. CASE u = t
    BY <1>2, <1>3, <2>1
  <2>2. CASE u # t
    <3>1. call'[u] = call[u] /\ CallFits(call[u], paid, charges, rows)
      BY <1>2, <1>3, <2>2 DEF CallsFit, Idle
    <3>2. QED
      BY <1>1, <3>1, CallFitsKept
  <2>3. QED
    BY <2>1, <2>2
<1>4. QED
  BY <1>3 DEF CallsFit, Idle

\* Nobody begins to charge the card.
LEMMA NobodyCharges ==
  ASSUME ChargeKept, OneAutoTopUpAtATime,
         \A u \in Calls : \A e \in Execs : Charging(u, e)' => Charging(u, e),
         \A u \in Calls : \A e \in Execs :
           Charging(u, e)' /\ HasKey(AutoKey(e)) => HasKey(AutoKey(e))'
  PROVE  ChargeKept' /\ OneAutoTopUpAtATime'
<1>1. ChargeKept'
  BY DEF ChargeKept
<1>2. OneAutoTopUpAtATime'
  BY DEF OneAutoTopUpAtATime
<1>3. QED
  BY <1>1, <1>2

\* Neither table changes.
LEMMA QuietRest ==
  ASSUME IInv, IInv', Fits, UNCHANGED <<history, balance, rows, ledger>>,
         disturbed \subseteq disturbed', paid \subseteq paid', charges <= charges'
  PROVE  RowsFit' /\ Means' /\ Accounted'
<1>1. charges \in Nat /\ charges' \in Nat
  BY DEF IInv, CountersOK
<1>2. \A i \in DOMAIN rows : RowFits(rows[i], i, paid', charges')
  BY <1>1, ConfirmedKept DEF Fits, RowsFit, RowFits
<1>3. RowsFit'
  BY <1>2 DEF RowsFit
<1>4. Means'
  BY DEF Fits, Means, Unrefunded
<1>5. Accounted'
  BY DEF Fits, Accounted
<1>6. QED
  BY <1>3, <1>4, <1>5

\* A step of one coroutine that changes neither table, and does not begin to
\* charge the card.
LEMMA QuietFits ==
  ASSUME IInv, IInv', Fits, UNCHANGED <<history, balance, rows, ledger>>,
         disturbed \subseteq disturbed', paid \subseteq paid', charges <= charges',
         NEW t \in Calls, NEW c, call' = [call EXCEPT ![t] = c],
         c = NoCall \/ CallFits(c, paid', charges', rows),
         c # NoCall /\ c.op = "spend" /\ c.at \in Paying =>
           /\ ~Idle(t) /\ call[t].op = "spend" /\ call[t].of = c.of
           /\ call[t].at \in Paying
           /\ Settled(call[t].pay) => Settled(c.pay)
  PROVE  Fits'
<1>1. RowsFit' /\ Means' /\ Accounted'
  BY QuietRest
<1>2. CallsFit'
  <2>1. CallsFit /\ CallsOK /\ CountersOK /\ CountersOK'
    BY DEF Fits, IInv
  <2>2. /\ c = NoCall \/ CallFits(c, paid', charges', rows')
        /\ \A i \in DOMAIN rows : i \in DOMAIN rows' /\ rows'[i].amount = rows[i].amount
    OBVIOUS
  <2>3. QED
    BY <2>1, <2>2, OneCallFits
<1>3. /\ \A k : HasKey(k)' = HasKey(k)
      /\ \A k : Settled(k)' = Settled(k)
  BY DEF HasKey, Settled
<1>4. ASSUME NEW u \in Calls, NEW e \in Execs, Charging(u, e)'
      PROVE  Charging(u, e)
  <2>1. call'[u] = IF u = t THEN c ELSE call[u]
    BY DEF IInv, CallsOK
  <2>2. /\ call'[u] # NoCall /\ call'[u].op = "spend" /\ call'[u].of = e
        /\ call'[u].at \in Paying
        /\ ~ \E i \in DOMAIN rows : rows[i].key = call'[u].pay /\ rows[i].active
    BY <1>4 DEF Charging, Idle, Settled, Paying
  <2>3. QED
    BY <2>1, <2>2 DEF Charging, Idle, Settled, Paying
<1>5. ChargeKept' /\ OneAutoTopUpAtATime'
  <2>1. ChargeKept /\ OneAutoTopUpAtATime
    BY DEF Fits
  <2>2. QED
    BY <1>3, <1>4, <2>1, NobodyCharges
<1>6. QED
  BY <1>1, <1>2, <1>5 DEF Fits

\* An operation that begins.
LEMMA NewCallFits ==
  ASSUME NEW op, NEW of, NEW at \in Stages \ {"charge", "enable", "enabling"}, NEW q,
         NEW P, NEW n, NEW rs,
         at \in {"find", "retrieve"} => op # "spend",
         q.type = "TOP_UP" => ~q.active,
         ~q.strict => q.type = "REFUND",
         \A m \in Nat : q.key # UuidKey(m),
         ~q.active /\ q.key # NoKey => q.amount = TopUp,
         op = "spend" /\ ~q.active => q.key = AutoKey(of),
         op = "configure" => q.key = NoKey
  PROVE  CallFits(Operation(op, of, at, q), P, n, rs)
BY DEF CallFits, RequestFits, StageFits, PayFits, SawFits, Operation, Paying, Stages

\* One that goes on before it has a payment.
LEMMA GoesOn ==
  ASSUME NEW c, c \in OperationType, NEW P, NEW n, NEW rs, CallFits(c, P, n, rs),
         c.at \notin Paying, NEW at \in Stages \ {"charge", "enable", "enabling"},
         at \in {"find", "retrieve"} => c.op # "spend"
  PROVE  /\ CallFits([c EXCEPT !.at = at], P, n, rs)
         /\ \A k : CallFits([c EXCEPT !.at = at, !.key = k], P, n, rs)
         /\ \A k : CallFits([c EXCEPT !.at = at, !.saw = k], P, n, rs)
         /\ \A k : CallFits([c EXCEPT !.at = at, !.result = k], P, n, rs)
BY DEF CallFits, RequestFits, StageFits, PayFits, SawFits, Paying, OperationType


LEMMA ServeFits ==
  ASSUME IInv, IInv', Fits, NEW t \in Calls, Serve(t)
  PROVE  Fits'
<1> DEFINE Begun(op, of, at, q) ==
             /\ Begin(t)
             /\ call' = [call EXCEPT ![t] = Operation(op, of, at, q)]
             /\ CallFits(Operation(op, of, at, q), paid', charges', rows)
             /\ at \in {"add", "find"}
<1>1. ASSUME NEW op, NEW of, NEW at, NEW q, Begun(op, of, at, q)
      PROVE  Fits'
  <2> DEFINE c == Operation(op, of, at, q)
  <2>1. /\ UNCHANGED <<history, balance, rows, ledger, disturbed>>
        /\ paid' = paid /\ charges' = charges /\ charges \in Nat
    BY <1>1 DEF Begin, tables, stripe, IInv, CountersOK
  <2>2. c.at \notin Paying /\ call' = [call EXCEPT ![t] = c]
        /\ CallFits(c, paid', charges', rows)
    BY <1>1 DEF Operation, Paying
  <2> HIDE DEF c
  <2>3. /\ UNCHANGED <<history, balance, rows, ledger>> /\ disturbed \subseteq disturbed'
        /\ paid \subseteq paid' /\ charges <= charges'
    BY <2>1
  <2>4. QED
    BY <2>2, <2>3, QuietFits
<1> USE DEF Stages, Request
<1> HIDE DEF Begun
<1>2. ASSUME NEW e \in Execs, SpendCredits(t, e) PROVE Fits'
  <2>1. CallFits(Operation("spend", e, "add", Usage), paid', charges', rows)
    BY NewCallFits, KeysDiffer DEF Usage
  <2>2. Begun("spend", e, "add", Usage)
    BY <1>2, <2>1 DEF SpendCredits, Begun
  <2>3. QED
    BY <1>1, <2>2
<1>3. ASSUME NEW r \in Rewards, OnboardingReward(t, r) PROVE Fits'
  <2>1. CallFits(Operation("reward", r, "add", Grant(r)), paid', charges', rows)
    BY NewCallFits, KeysDiffer DEF Grant
  <2>2. Begun("reward", r, "add", Grant(r))
    BY <1>3, <2>1 DEF OnboardingReward, Begun
  <2>3. QED
    BY <1>1, <2>2
<1>4. ASSUME NEW s \in Sessions, TopUpIntent(t, s) PROVE Fits'
  <2>1. CallFits(Operation("intent", s, "add", Checkout(s)), paid', charges', rows)
    BY NewCallFits, KeysDiffer DEF Checkout
  <2>2. Begun("intent", s, "add", Checkout(s))
    BY <1>4, <2>1 DEF TopUpIntent, Begun
  <2>3. QED
    BY <1>1, <2>2
<1>5. ASSUME ConfigureAutoTopUp(t) PROVE Fits'
  <2> DEFINE q == CardTopUp(IF CurrentBalance < Threshold THEN TopUp ELSE 0)
  <2>1. /\ q.type = "TOP_UP" => ~q.active
        /\ q.strict /\ q.key = NoKey
    BY DEF CardTopUp
  <2> HIDE DEF q
  <2>2. CallFits(Operation("configure", NoCall, "add", q), paid', charges', rows)
    BY <2>1, NewCallFits, KeysDiffer
  <2>3. Begun("configure", NoCall, "add", q)
    BY <1>5, <2>2 DEF ConfigureAutoTopUp, Begun, q
  <2>4. QED
    BY <1>1, <2>3
<1>6. ASSUME NEW i \in DOMAIN rows, NEW amount \in 1..TopUp,
              DeductCredits(t, i, amount)
       PROVE  Fits'
  <2>1. CallFits(Operation("deduct", NoCall, "add", Deduction(i, amount)), paid', charges', rows)
    BY NewCallFits, KeysDiffer DEF Deduction
  <2>2. Begun("deduct", NoCall, "add", Deduction(i, amount))
    BY <1>6, <2>1 DEF DeductCredits, Begun
  <2>3. QED
    BY <1>1, <2>2
<1>7. ASSUME Poll(t) PROVE Fits'
  <2>1. CallFits(Operation("poll", NoCall, "find", NoRequest), paid', charges', rows)
    BY NewCallFits, KeysDiffer DEF NoRequest
  <2>2. Begun("poll", NoCall, "find", NoRequest)
    BY <1>7, <2>1 DEF Poll, Begun
  <2>3. QED
    BY <1>1, <2>2
<1>8. QED
  BY <1>2, <1>3, <1>4, <1>5, <1>6, <1>7 DEF Serve

LEMMA WebhookFits ==
  ASSUME IInv, IInv', Fits, NEW t \in Calls, NEW s \in Sessions, Webhook(t, s)
  PROVE  Fits'
<1> DEFINE c == Operation("webhook", s, "find", NoRequest)
<1>1. CallFits(c, paid', charges', rows)
  BY NewCallFits, KeysDiffer DEF NoRequest, Request, Stages
<1>2. /\ UNCHANGED <<history, balance, rows, ledger, disturbed>>
      /\ paid' = paid /\ charges' = charges /\ charges \in Nat
      /\ call' = [call EXCEPT ![t] = c]
  BY DEF Webhook, tables, stripe, IInv, CountersOK
<1>3. c.at \notin Paying
  BY DEF Operation, Paying
<1> HIDE DEF c
<1>4. /\ UNCHANGED <<history, balance, rows, ledger>> /\ disturbed \subseteq disturbed'
      /\ paid \subseteq paid' /\ charges <= charges'
  BY <1>2
<1>5. QED
  BY <1>1, <1>2, <1>3, <1>4, QuietFits

\* An operation ends in either way.
LEMMA EndsFit ==
  ASSUME IInv, IInv', Fits, NEW t \in Calls, call' = [call EXCEPT ![t] = NoCall],
         UNCHANGED <<history, balance, rows, ledger, paid, charges>>,
         disturbed \subseteq disturbed'
  PROVE  Fits'
<1>1. charges <= charges' /\ paid \subseteq paid'
  BY DEF IInv, CountersOK
<1>2. QED
  BY <1>1, QuietFits


\* What is known of a coroutine that has something to do.
LEMMA CallKnown ==
  ASSUME IInv, Fits, NEW t \in Calls, ~Idle(t)
  PROVE  /\ call \in [Calls -> OperationType \cup {NoCall}]
         /\ CallFits(call[t], paid, charges, rows)
         /\ CallOK(call[t]) /\ call[t] \in OperationType
BY DEF IInv, Fits, CallsOK, CallsFit, CallOK

LEMMA StatementStarts ==
  ASSUME IInv, IInv', Fits, NEW t \in Calls, StartStatement(t)
  PROVE  Fits'
<1> DEFINE c == call[t]
           w == Snapshot(c.key)
<1>1. PICK stage \in {"add", "enable"} :
        /\ ~Idle(t) /\ c.at = stage
        /\ call' = [call EXCEPT
             ![t].at = IF stage = "add" THEN "adding" ELSE "enabling", ![t].saw = w]
  BY DEF StartStatement, At
<1> DEFINE at == IF stage = "add" THEN "adding" ELSE "enabling"
           d == [c EXCEPT !.at = at, !.saw = w]
<1>2. /\ UNCHANGED <<history, balance, rows, ledger>> /\ disturbed \subseteq disturbed'
      /\ paid' = paid /\ charges' = charges /\ charges <= charges'
  BY DEF StartStatement, tables, stripe, IInv, CountersOK
<1>3. CallFits(c, paid, charges, rows) /\ c \in OperationType
  BY <1>1, CallKnown
<1>4. w.open => Worth(w.amount, c.key, rows)
  <2>1. SUFFICES ASSUME Open(c.key) PROVE Worth(w.amount, c.key, rows)
    BY DEF Snapshot
  <2>2. PICK i \in DOMAIN rows : rows[i].key = c.key /\ ~rows[i].active
    BY <2>1 DEF Open
  <2>3. \A r \in {rows[j] : j \in DOMAIN rows} : r.key = c.key => r = rows[i]
    BY <2>2 DEF IInv, RowsOK
  <2>4. w.amount = rows[i].amount
    BY <2>1, <2>2, <2>3 DEF Snapshot
  <2>5. RowFits(rows[i], i, paid, charges)
    BY DEF Fits, RowsFit
  <2>6. QED
    BY <2>2, <2>4, <2>5 DEF RowFits, Worth
<1> HIDE DEF w
<1>5. /\ d.op = c.op /\ d.of = c.of /\ d.req = c.req /\ d.key = c.key /\ d.pay = c.pay
      /\ d.at = at /\ d.saw = w /\ call' = [call EXCEPT ![t] = d]
  BY <1>1, <1>3 DEF OperationType, IInv, CallsOK
<1> HIDE DEF d
<1>6. CallFits(d, paid, charges, rows)
  <2>1. RequestFits(d) /\ StageFits(d) /\ PayFits(d, paid, charges)
    BY <1>1, <1>3, <1>5 DEF CallFits, RequestFits, StageFits, PayFits, Paying
  <2>2. SawFits(d, rows)
    BY <1>4, <1>5 DEF SawFits
  <2>3. QED
    BY <2>1, <2>2 DEF CallFits
<1>7. d # NoCall /\ d.op = "spend" /\ d.at \in Paying =>
        /\ ~Idle(t) /\ call[t].op = "spend" /\ call[t].of = d.of
        /\ call[t].at \in Paying
        /\ Settled(call[t].pay) => Settled(d.pay)
  BY <1>1, <1>5 DEF Paying
<1>8. d = NoCall \/ CallFits(d, paid', charges', rows)
  BY <1>2, <1>6
<1>9. UNCHANGED <<history, balance, rows, ledger>> /\ paid \subseteq paid'
      /\ call' = [call EXCEPT ![t] = d]
  BY <1>2, <1>5
<1>10. QED
  BY <1>2, <1>7, <1>8, <1>9, QuietFits

\* Automatic top-ups, until the card is charged.
LEMMA TopUpBegins ==
  ASSUME IInv, IInv', Fits, NEW t \in Calls,
         CheckAutoTopUp(t) \/ CheckKey(t) \/ CheckCeiling(t)
  PROVE  Fits'
<1> DEFINE c == call[t]
<1>1. /\ ~Idle(t) /\ c.at \in {"config", "key", "ceiling"}
      /\ UNCHANGED <<tables, counters, autoTopUp>>
  BY DEF CheckAutoTopUp, CheckKey, CheckCeiling, At
<1>2. CallFits(c, paid, charges, rows) /\ CallOK(c) /\ c \in OperationType
      /\ call \in [Calls -> OperationType \cup {NoCall}]
  BY <1>1, CallKnown
<1>3. UNCHANGED <<history, balance, rows, ledger, disturbed>>
  BY <1>1 DEF tables
<1>4. CASE Finish(t) \/ Raise(t)
  BY <1>3, <1>4, EndsFit DEF Finish, Raise, stripe
<1>5. ASSUME NEW at \in {"ceiling", "add"}, Go(t, at), UNCHANGED stripe PROVE Fits'
  <2> DEFINE d == [c EXCEPT !.at = at]
  <2>1. CallFits(d, paid, charges, rows) /\ d.at \notin Paying
    BY <1>1, <1>2, GoesOn DEF Stages, Paying, OperationType
  <2>2. call' = [call EXCEPT ![t] = d]
    BY <1>2, <1>5 DEF Go
  <2>3. paid' = paid /\ charges' = charges /\ charges <= charges' /\ disturbed \subseteq disturbed'
    BY <1>3, <1>5 DEF stripe, IInv, CountersOK
  <2> HIDE DEF d
  <2>4. QED
    BY <1>3, <2>1, <2>2, <2>3, QuietFits
<1>6. CASE /\ call' = [call EXCEPT ![t] = Operation("spend", c.of, "key", AutomaticTopUp(c.of))]
           /\ UNCHANGED stripe
  <2> DEFINE q == AutomaticTopUp(c.of)
             d == Operation("spend", c.of, "key", q)
  <2>1. /\ q.type = "TOP_UP" /\ q.active = FALSE /\ q.amount = TopUp /\ q.strict = TRUE
        /\ q.key = AutoKey(c.of)
    BY DEF AutomaticTopUp, Request
  <2> HIDE DEF q
  <2>2. CallFits(d, paid, charges, rows)
    BY <2>1, KeysDiffer, NewCallFits DEF Stages
  <2>3. d.at \notin Paying
    BY DEF Operation, Paying
  <2>4. call' = [call EXCEPT ![t] = d]
    BY <1>6 DEF q
  <2>5. paid' = paid /\ charges' = charges /\ charges <= charges' /\ disturbed \subseteq disturbed'
    BY <1>3, <1>6 DEF stripe, IInv, CountersOK
  <2> HIDE DEF d
  <2>6. QED
    BY <1>3, <2>2, <2>3, <2>4, <2>5, QuietFits
<1>7. QED
  BY <1>4, <1>5, <1>6 DEF CheckAutoTopUp, CheckKey, CheckCeiling

\* The card is charged: the call was on its way to that before, and only the
\* key of the payment is new.
LEMMA CardIsCharged ==
  ASSUME IInv, IInv', Fits, NEW t \in Calls, ChargeCard(t)
  PROVE  Fits'
<1> DEFINE c == call[t]
           d == [c EXCEPT !.at = "enable", !.pay = IntentKey(charges')]
<1>1. ~Idle(t) /\ c.at = "charge" /\ UNCHANGED <<tables, counters, autoTopUp>>
  BY DEF ChargeCard, At
<1>2. UNCHANGED <<history, balance, rows, ledger, disturbed>>
  BY <1>1 DEF tables
<1>3. CallFits(c, paid, charges, rows) /\ c \in OperationType
      /\ call \in [Calls -> OperationType \cup {NoCall}] /\ charges \in Nat
  BY <1>1, CallKnown DEF IInv, CountersOK
<1>4. CASE Raise(t)
  BY <1>2, <1>4, EndsFit DEF Raise, stripe
<1>5. CASE /\ charges' = charges + 1
           /\ call' = [call EXCEPT ![t].at = "enable", ![t].pay = IntentKey(charges')]
           /\ UNCHANGED <<paid, acked>>
  <2>1. /\ d.op = c.op /\ d.of = c.of /\ d.req = c.req /\ d.key = c.key
        /\ d.at = "enable" /\ d.pay = IntentKey(charges')
        /\ call' = [call EXCEPT ![t] = d]
    BY <1>3, <1>5 DEF OperationType
  <2> HIDE DEF d
  <2>2. Confirmed(d.pay, paid', charges')
    BY <1>3, <1>5, <2>1 DEF Confirmed
  <2>3. CallFits(d, paid', charges', rows)
    BY <1>1, <1>3, <2>1, <2>2 DEF CallFits, RequestFits, StageFits, PayFits, SawFits, Paying
  <2>4. ~Settled(c.pay)
    BY <1>1, <1>3 DEF CallFits, PayFits, Settled, Fits, RowsFit, RowFits
  <2>5. paid \subseteq paid' /\ charges <= charges' /\ disturbed \subseteq disturbed'
    BY <1>2, <1>3, <1>5
  <2>6. QED
    BY <1>1, <1>2, <2>1, <2>3, <2>4, <2>5, QuietFits DEF Paying
<1>6. QED
  BY <1>4, <1>5 DEF ChargeCard


\* The checkout that a page or a webhook is about.
LEMMA CheckoutIsFound ==
  ASSUME IInv, IInv', Fits, NEW t \in Calls, FindCheckout(t)
  PROVE  Fits'
<1> DEFINE c == call[t]
<1>1. ~Idle(t) /\ c.at = "find" /\ UNCHANGED <<history, balance, rows, ledger, disturbed>>
  BY DEF FindCheckout, At, tables
<1>2. /\ CallFits(c, paid, charges, rows) /\ c \in OperationType
      /\ call \in [Calls -> OperationType \cup {NoCall}]
  BY <1>1, CallKnown
<1>3. CASE Finish(t)
  BY <1>1, <1>3, EndsFit DEF Finish
<1>4. ASSUME NEW i \in DOMAIN rows, UNCHANGED stripe,
             call' = [call EXCEPT ![t].at = "retrieve", ![t].key = rows[i].key]
      PROVE  Fits'
  <2> DEFINE d == [c EXCEPT !.at = "retrieve", !.key = rows[i].key]
  <2>1. c.op # "spend" /\ c.at \notin Paying
    BY <1>1, <1>2 DEF CallFits, StageFits, Paying
  <2>2. CallFits(d, paid, charges, rows)
    BY <1>2, <2>1, GoesOn DEF Stages
  <2>3. d.at \notin Paying /\ call' = [call EXCEPT ![t] = d]
    BY <1>2, <1>4 DEF OperationType, Paying
  <2>4. paid' = paid /\ charges' = charges /\ charges <= charges' /\ disturbed \subseteq disturbed'
    BY <1>1, <1>4 DEF stripe, IInv, CountersOK
  <2> HIDE DEF d
  <2>5. QED
    BY <1>1, <2>2, <2>3, <2>4, QuietFits
<1>5. QED
  BY <1>3, <1>4 DEF FindCheckout, Candidates

LEMMA SessionIsRetrieved ==
  ASSUME IInv, IInv', Fits, NEW t \in Calls, RetrieveSession(t)
  PROVE  Fits'
<1> DEFINE c == call[t]
<1>1. ~Idle(t) /\ c.at = "retrieve" /\ UNCHANGED <<history, balance, rows, ledger, disturbed>>
  BY DEF RetrieveSession, At, tables
<1>2. /\ CallFits(c, paid, charges, rows) /\ c \in OperationType
      /\ call \in [Calls -> OperationType \cup {NoCall}]
  BY <1>1, CallKnown
<1>3. CASE Finish(t)
  BY <1>1, <1>3, EndsFit DEF Finish
<1>4. ASSUME NEW s \in paid, s \in Sessions, c.key = SessionKey(s), UNCHANGED stripe,
             call' = [call EXCEPT ![t].at = "enable", ![t].pay = SessionIntent(s)]
      PROVE  Fits'
  <2> DEFINE d == [c EXCEPT !.at = "enable", !.pay = SessionIntent(s)]
  <2>1. /\ d.op = c.op /\ d.of = c.of /\ d.req = c.req /\ d.key = c.key
        /\ d.at = "enable" /\ d.pay = SessionIntent(s)
        /\ call' = [call EXCEPT ![t] = d]
    BY <1>2, <1>4 DEF OperationType
  <2>2. c.op # "spend"
    BY <1>1, <1>2 DEF CallFits, StageFits
  <2> HIDE DEF d
  <2>3. Confirmed(d.pay, paid, charges)
    BY <1>4, <2>1 DEF Confirmed
  <2>4. CallFits(d, paid, charges, rows)
    BY <1>2, <1>4, <2>1, <2>2, <2>3
       DEF CallFits, RequestFits, StageFits, PayFits, SawFits, Paying
  <2>5. paid' = paid /\ charges' = charges /\ charges <= charges' /\ disturbed \subseteq disturbed'
    BY <1>1, <1>4 DEF stripe, IInv, CountersOK
  <2>6. QED
    BY <1>1, <2>1, <2>2, <2>4, <2>5, QuietFits
<1>5. QED
  BY <1>3, <1>4 DEF RetrieveSession

\* The steps after which the coroutine is idle and the tables are as before.
LEMMA OthersEndFit ==
  ASSUME IInv, IInv', Fits, NEW t \in Calls,
         \/ AddTransactionFails(t) \/ EnableTransactionSkips(t)
         \/ EnableTransactionFails(t) \/ Crash(t)
  PROVE  Fits'
<1>1. /\ UNCHANGED <<history, balance, rows, ledger, paid, charges>>
      /\ call' = [call EXCEPT ![t] = NoCall]
      /\ disturbed \subseteq disturbed'
  BY DEF AddTransactionFails, EnableTransactionSkips, EnableTransactionFails, Crash,
         Enabled, Finish, Raise, tables, stripe
<1>2. QED
  BY <1>1, EndsFit

LEMMA CustomerPaysFits ==
  ASSUME IInv, IInv', Fits, NEW s \in Sessions, CustomerPays(s)
  PROVE  Fits'
<1>1. /\ UNCHANGED <<history, balance, rows, ledger, disturbed, charges, call>>
      /\ paid \subseteq paid' /\ charges \in Nat
  BY DEF CustomerPays, tables, IInv, CountersOK
<1>2. RowsFit' /\ Means' /\ Accounted'
  BY <1>1, QuietRest
<1>3. \A u \in Calls : ~Idle(u) => CallFits(call[u], paid', charges, rows)
  BY <1>1, CallFitsKept DEF Fits, CallsFit
<1>4. CallsFit'
  BY <1>1, <1>3 DEF CallsFit, Idle
<1>5. /\ \A u \in Calls : \A e \in Execs : Charging(u, e)' <=> Charging(u, e)
      /\ \A k : HasKey(k)' <=> HasKey(k)
  BY <1>1 DEF Charging, Idle, Settled, HasKey
<1>6. ChargeKept' /\ OneAutoTopUpAtATime'
  BY <1>5 DEF Fits, ChargeKept, OneAutoTopUpAtATime
<1>7. QED
  BY <1>2, <1>4, <1>6 DEF Fits


-----------------------------------------------------------------------------
(* The two statements that change the tables. *)

\* A row more, under a key that is new.
LEMMA RowIsAdded ==
  ASSUME IInv, IInv', RowsFit, NEW r, rows' = Append(rows, r),
         UNCHANGED <<paid, charges>>, RowFits(r, Len(rows) + 1, paid, charges)
  PROVE  /\ RowsFit'
         /\ \A i \in DOMAIN rows : i \in DOMAIN rows' /\ rows'[i] = rows[i]
         /\ \E i \in DOMAIN rows' : rows'[i].key = r.key
<1>1. rows \in Seq(RowType) /\ rows' \in Seq(RowType)
  BY DEF IInv, RowsOK
<1>2. /\ Len(rows) \in Nat
      /\ DOMAIN rows = 1..Len(rows) /\ DOMAIN rows' = 1..(Len(rows) + 1)
      /\ \A i \in DOMAIN rows : rows'[i] = rows[i]
      /\ rows'[Len(rows) + 1] = r
  BY <1>1
<1>3. /\ Len(rows) + 1 \in DOMAIN rows'
      /\ \A i \in DOMAIN rows : i \in DOMAIN rows'
      /\ \A i \in DOMAIN rows' : i \in DOMAIN rows \/ i = Len(rows) + 1
  BY <1>2
<1>4. \A i \in DOMAIN rows' : RowFits(rows'[i], i, paid', charges')
  BY <1>2, <1>3 DEF RowsFit
<1>5. RowsFit'
  BY <1>4 DEF RowsFit
<1>6. QED
  BY <1>2, <1>3, <1>5

\* What a coroutine is about after its row is inserted.
LEMMA AfterAddFits ==
  ASSUME IInv, Fits, NEW t \in Calls, ~Idle(t), call[t].at = "adding",
         NEW key, key = IF call[t].req.key = NoKey THEN RandomKey ELSE call[t].req.key,
         AfterAdd(t, key), UNCHANGED <<paid, charges>>,
         \A i \in DOMAIN rows : i \in DOMAIN rows' /\ rows'[i] = rows[i]
  PROVE  \E c : /\ call' = [call EXCEPT ![t] = c]
                /\ c = NoCall \/ CallFits(c, paid', charges', rows')
                /\ c # NoCall /\ c.op = "spend" /\ c.at \in Paying => key = AutoKey(c.of)
<1> DEFINE c == call[t]
<1>1. /\ CallFits(c, paid, charges, rows) /\ c \in OperationType /\ CallOK(c)
      /\ call \in [Calls -> OperationType \cup {NoCall}]
  BY CallKnown
<1>2. CallFits(c, paid', charges', rows') /\ c.at \notin Paying
  <2>1. charges \in Nat /\ charges' \in Nat /\ charges <= charges' /\ paid \subseteq paid'
    BY DEF IInv, CountersOK
  <2>2. \A i \in DOMAIN rows : i \in DOMAIN rows' /\ rows'[i].amount = rows[i].amount
    OBVIOUS
  <2>3. QED
    BY <1>1, <2>1, <2>2, CallFitsKept DEF Paying
<1>3. CASE call' = [call EXCEPT ![t].at = "config", ![t].result = balance']
  <2> DEFINE d == [c EXCEPT !.at = "config", !.result = balance']
  <2>1. CallFits(d, paid', charges', rows')
    BY <1>1, <1>2, GoesOn DEF Stages
  <2>2. d.at \notin Paying /\ call' = [call EXCEPT ![t] = d]
    BY <1>1, <1>3 DEF OperationType, Paying
  <2> HIDE DEF d
  <2>3. QED
    BY <2>1, <2>2
<1>4. CASE /\ c.op \in {"spend", "configure"} /\ ~c.req.active
           /\ call' = [call EXCEPT ![t].at = "charge", ![t].key = key]
  <2> DEFINE d == [c EXCEPT !.at = "charge", !.key = key]
  <2>1. /\ d.op = c.op /\ d.of = c.of /\ d.req = c.req /\ d.key = key
        /\ d.at = "charge" /\ d.pay = c.pay
        /\ call' = [call EXCEPT ![t] = d]
    BY <1>1, <1>4 DEF OperationType
  <2> HIDE DEF d
  <2>2. RequestFits(c) /\ c.pay = NoKey
    BY <1>2 DEF CallFits, PayFits, Paying
  <2>3. c.op = "spend" => key = AutoKey(c.of)
    BY <1>4, <2>2, KeysDiffer DEF RequestFits
  <2>4. c.op = "configure" => \E n \in Nat : key = UuidKey(n)
    <3>1. Len(rows) + 1 \in Nat
      BY DEF IInv, RowsOK
    <3>2. QED
      BY <3>1, <2>2 DEF RequestFits, RandomKey, UuidKey
  <2>5. CallFits(d, paid', charges', rows')
    BY <1>4, <2>1, <2>2, <2>3, <2>4
       DEF CallFits, RequestFits, StageFits, PayFits, SawFits, Paying
  <2>6. QED
    BY <2>1, <2>3, <2>5
<1>5. CASE call' = [call EXCEPT ![t] = NoCall]
  BY <1>5
<1>6. QED
  BY <1>3, <1>4, <1>5 DEF AfterAdd

\* What is spent was there, in the row or before it; and cutting an amount
\* leaves no debt.
LEMMA AddedWithinMeans ==
  ASSUME IInv, IInv', Means, NEW t \in Calls, ~Idle(t), RequestFits(call[t]),
         LET q == call[t].req b == LockedBalance(t) IN
           /\ Allowed(b, q)
           /\ balance' = NewBalance(b, q)
           /\ Unrefunded' => Unrefunded /\ q.type # "REFUND"
  PROVE  Means'
<1> DEFINE c == call[t]
           q == c.req
           b == LockedBalance(t)
<1>1. /\ CallOK(c) /\ b \in Balances
      /\ c.saw.row => balance # NoRow /\ b = balance
      /\ ~c.saw.row => b = history
  BY LockedOK
<1>2. RequestOK(q)
  BY <1>1 DEF CallOK
<1>3. NewBalance(b, q) \in Balances
  BY <1>1, <1>2, NewBalanceOK
<1>4. SUFFICES ASSUME Unrefunded' PROVE NewBalance(b, q) >= 0
  BY DEF Means
<1>5. Unrefunded /\ q.strict
  BY <1>2, <1>4 DEF RequestFits, Unrefunded, RequestOK, RequestType
<1>6. b >= 0
  BY <1>1, <1>5 DEF Means, Unrefunded
<1>7. /\ q.active \in BOOLEAN /\ q.amount \in Int /\ q.ceiling \in Nat
      /\ b \in Int
  BY <1>1, <1>2, Numbers DEF RequestOK, RequestType, Amounts
<1>8. CASE ~q.active
  BY <1>6, <1>8 DEF NewBalance
<1>9. CASE q.active /\ Ceiled(b, q)
  BY <1>7, <1>9 DEF NewBalance
<1>10. CASE q.active /\ ~Ceiled(b, q)
  <2>1. b + q.amount >= 0
    BY <1>5, <1>6, <1>7, <1>10 DEF Allowed
  <2>2. Clipped(b + q.amount) >= 0
    BY <1>7, <2>1, Numbers DEF Clipped
  <2>3. QED
    BY <1>10, <2>2 DEF NewBalance
<1>11. QED
  BY <1>7, <1>8, <1>9, <1>10


LEMMA AddedToSubtotals ==
  ASSUME IInv, IInv', Accounted, NEW r, rows' = Append(rows, r),
         history' = history, ledger' = ledger + Worthwhile(r)
  PROVE  Accounted'
<1>1. PICK f : Subtotals(f, rows, history, ledger)
  BY DEF Accounted
<1>2. rows \in Seq(RowType) /\ rows' \in Seq(RowType) /\ ledger \in Int /\ ledger' \in Int
  BY DEF IInv, RowsOK, TotalsOK
<1> DEFINE n == Len(rows)
           g == [m \in 0..(n + 1) |-> IF m = n + 1 THEN ledger' ELSE f[m]]
<1>3. /\ n \in Nat /\ Len(rows') = n + 1
      /\ \A m \in 1..n : rows'[m] = rows[m]
      /\ rows'[n + 1] = r
  BY <1>2
<1> HIDE DEF n
<1>4. /\ f \in [0..n -> Int] /\ f[0] = history /\ f[n] = ledger
      /\ \A m \in 1..n : f[m] = f[m - 1] + Worthwhile(rows[m])
  BY <1>1 DEF Subtotals, n
<1>5. g \in [0..(n + 1) -> Int]
  BY <1>2, <1>3, <1>4
<1>6. g[0] = history' /\ g[n + 1] = ledger'
  BY <1>3, <1>4
<1>7. ASSUME NEW m \in 1..(n + 1) PROVE g[m] = g[m - 1] + Worthwhile(rows'[m])
  <2>1. CASE m = n + 1
    <3>1. g[m] = ledger' /\ m - 1 = n /\ g[m - 1] = f[n]
      BY <1>3, <2>1
    <3>2. QED
      BY <1>3, <1>4, <2>1, <3>1
  <2>2. CASE m # n + 1
    <3>1. m \in 1..n /\ g[m] = f[m] /\ g[m - 1] = f[m - 1]
      BY <1>3, <2>2
    <3>2. QED
      BY <1>3, <1>4, <3>1
  <2>3. QED
    BY <2>1, <2>2
<1> HIDE DEF g
<1>8. Subtotals(g, rows', history', ledger')
  BY <1>3, <1>5, <1>6, <1>7 DEF Subtotals
<1>9. QED
  BY <1>8 DEF Accounted

LEMMA AddTransactionFits ==
  ASSUME IInv, IInv', Fits, NEW t \in Calls, AddTransaction(t)
  PROVE  Fits'
<1> DEFINE c == call[t]
           q == c.req
           b == LockedBalance(t)
           key == IF q.key = NoKey THEN RandomKey ELSE q.key
           row == [key |-> key, origin |-> key, type |-> q.type,
                   amount |-> q.amount, active |-> q.active,
                   running |-> NewBalance(b, q)]
<1>1. /\ ~Idle(t) /\ c.at = "adding" /\ Allowed(b, q) /\ ~HasKey(key)
      /\ balance' = NewBalance(b, q)
      /\ rows' = Append(rows, row)
      /\ ledger' = ledger + Posted(q)
      /\ disturbed' = disturbed \cup AddDisturbs(t)
      /\ AfterAdd(t, key)
      /\ UNCHANGED <<history, paid, charges>>
  BY DEF AddTransaction, At, stripe
<1>2. /\ CallFits(c, paid, charges, rows) /\ RequestFits(c) /\ RequestOK(q)
      /\ call \in [Calls -> OperationType \cup {NoCall}]
  BY <1>1, CallKnown DEF CallFits, CallOK
<1>3. row.key = key /\ row.type = q.type /\ row.amount = q.amount /\ row.active = q.active
  OBVIOUS
<1>4. RowFits(row, Len(rows) + 1, paid, charges)
  <2>1. Len(rows) + 1 \in Nat /\ RandomKey = UuidKey(Len(rows) + 1)
    BY DEF IInv, RowsOK, RandomKey, UuidKey
  <2> HIDE DEF row
  <2>2. key # NoKey /\ \A m \in Nat : key = UuidKey(m) => m = Len(rows) + 1
    BY <1>2, <2>1, KeysDiffer DEF RequestFits
  <2>3. q.key = NoKey => \E m \in Nat : key = UuidKey(m)
    BY <2>1
  <2> HIDE DEF key
  <2>4. row.key # NoKey /\ \A m \in Nat : row.key = UuidKey(m) => m = Len(rows) + 1
    BY <1>3, <2>2
  <2>5. ~row.active /\ (\A m \in Nat : row.key # UuidKey(m)) => row.amount = TopUp
    BY <1>2, <1>3, <2>3 DEF RequestFits
  <2>6. row.active => row.type # "TOP_UP"
    BY <1>2, <1>3 DEF RequestFits
  <2>7. QED
    BY <2>4, <2>5, <2>6 DEF RowFits
<1>5. /\ RowsFit'
      /\ \A i \in DOMAIN rows : i \in DOMAIN rows' /\ rows'[i] = rows[i]
      /\ \E i \in DOMAIN rows' : rows'[i].key = key
  <2>1. RowsFit /\ UNCHANGED <<paid, charges>>
    BY <1>1 DEF Fits
  <2> HIDE DEF row, key
  <2>2. QED
    BY <1>1, <1>3, <1>4, <2>1, RowIsAdded
<1> HIDE DEF row
<1>6. PICK d : /\ call' = [call EXCEPT ![t] = d]
               /\ d = NoCall \/ CallFits(d, paid', charges', rows')
               /\ d # NoCall /\ d.op = "spend" /\ d.at \in Paying => key = AutoKey(d.of)
  <2>1. /\ ~Idle(t) /\ call[t].at = "adding" /\ AfterAdd(t, key)
        /\ key = IF call[t].req.key = NoKey THEN RandomKey ELSE call[t].req.key
        /\ UNCHANGED <<paid, charges>>
        /\ \A i \in DOMAIN rows : i \in DOMAIN rows' /\ rows'[i] = rows[i]
    BY <1>1, <1>5
  <2> HIDE DEF key, c, q, b
  <2>2. QED
    BY <2>1, AfterAddFits
<1> HIDE DEF key
<1>7. CallsFit'
  <2>1. CallsFit /\ CallsOK /\ CountersOK /\ CountersOK' /\ charges <= charges'
    BY <1>1 DEF Fits, IInv, CountersOK
  <2>2. \A i \in DOMAIN rows : i \in DOMAIN rows' /\ rows'[i].amount = rows[i].amount
    BY <1>5
  <2>3. QED
    BY <1>1, <1>6, <2>1, <2>2, OneCallFits
<1>8. \A u \in Calls : \A e \in Execs :
        Charging(u, e)' => Charging(u, e) \/ (u = t /\ key = AutoKey(e))
  <2> SUFFICES ASSUME NEW u \in Calls, NEW e \in Execs, Charging(u, e)',
                      ~(u = t /\ key = AutoKey(e))
               PROVE  Charging(u, e)
    OBVIOUS
  <2>1. call'[u] = IF u = t THEN d ELSE call[u]
    BY <1>2, <1>6
  <2>2. /\ call'[u] # NoCall /\ call'[u].op = "spend" /\ call'[u].of = e
        /\ call'[u].at \in Paying
        /\ ~ \E i \in DOMAIN rows' : rows'[i].key = call'[u].pay /\ rows'[i].active
    BY DEF Charging, Idle, Settled, Paying
  <2>3. u # t /\ call'[u] = call[u]
    BY <1>6, <2>1, <2>2
  <2>4. ~Settled(call[u].pay)
    BY <1>5, <2>2, <2>3 DEF Settled
  <2>5. QED
    BY <2>2, <2>3, <2>4 DEF Charging, Idle, Paying
<1>9. ChargeKept'
  BY <1>5, <1>8 DEF Fits, ChargeKept, HasKey
<1>10. OneAutoTopUpAtATime'
  <2> SUFFICES ASSUME NEW e \in Execs, NEW u \in Calls, NEW v \in Calls,
                      Charging(u, e)', Charging(v, e)'
               PROVE  u = v
    BY DEF OneAutoTopUpAtATime
  <2>1. CASE key = AutoKey(e)
    <3>1. ~Charging(u, e) /\ ~Charging(v, e)
      BY <1>1, <2>1 DEF Fits, ChargeKept
    <3>2. QED
      BY <1>8, <3>1
  <2>2. CASE key # AutoKey(e)
    BY <1>8, <2>2 DEF Fits, OneAutoTopUpAtATime
  <2>3. QED
    BY <2>1, <2>2
<1>11. Means'
  <2>1. Unrefunded' => Unrefunded /\ q.type # "REFUND"
    <3>1. rows'[Len(rows) + 1] = row /\ Len(rows) + 1 \in DOMAIN rows'
      BY <1>1 DEF IInv, RowsOK
    <3>2. QED
      BY <1>1, <1>3, <1>5, <3>1 DEF Unrefunded
  <2>2. Means
    BY DEF Fits
  <2>3. QED
    BY <1>1, <1>2, <2>1, <2>2, AddedWithinMeans
<1>12. Accounted'
  <2>1. ledger' = ledger + Worthwhile(row)
    BY <1>1, <1>3 DEF Worthwhile, Posted
  <2>2. QED
    BY <1>1, <2>1, AddedToSubtotals DEF Fits
<1>13. QED
  BY <1>5, <1>7, <1>9, <1>10, <1>11, <1>12 DEF Fits


\* One subtotal, and all that follow, are raised by what a row is worth now.
LEMMA RaisedSubtotals ==
  ASSUME IInv, IInv', Accounted, NEW i \in DOMAIN rows, NEW a \in Int,
         Len(rows') = Len(rows),
         \A j \in DOMAIN rows \ {i} : Worthwhile(rows'[j]) = Worthwhile(rows[j]),
         Worthwhile(rows'[i]) = Worthwhile(rows[i]) + a,
         history' = history, ledger' = ledger + a
  PROVE  Accounted'
<1>1. PICK f : Subtotals(f, rows, history, ledger)
  BY DEF Accounted
<1> DEFINE n == Len(rows)
           g == [m \in 0..n |-> IF m >= i THEN f[m] + a ELSE f[m]]
<1>2. /\ n \in Nat /\ Len(rows') = n /\ i \in 1..n
      /\ \A j \in 1..n : Worthwhile(rows[j]) \in Int
  <2>1. rows \in Seq(RowType)
    BY DEF IInv, RowsOK
  <2>2. /\ n \in Nat /\ Len(rows') = n /\ i \in 1..n
        /\ \A j \in 1..n : rows[j] \in RowType
    BY <2>1
  <2>3. QED
    BY <2>2, Numbers DEF Worthwhile, RowType, Amounts
<1>3. \A j \in 1..n : Worthwhile(rows'[j]) = IF j = i THEN Worthwhile(rows[j]) + a
                                             ELSE Worthwhile(rows[j])
  <2>1. DOMAIN rows = 1..n
    BY DEF IInv, RowsOK
  <2>2. QED
    BY <2>1
<1> HIDE DEF n
<1>4. /\ f \in [0..n -> Int] /\ f[0] = history /\ f[n] = ledger
      /\ \A m \in 1..n : f[m] = f[m - 1] + Worthwhile(rows[m])
  BY <1>1 DEF Subtotals, n
<1>5. g \in [0..n -> Int]
  BY <1>2, <1>4
<1>6. g[0] = history' /\ g[n] = ledger'
  BY <1>2, <1>4
<1>7. ASSUME NEW m \in 1..n PROVE g[m] = g[m - 1] + Worthwhile(rows'[m])
  <2>1. /\ m \in 0..n /\ m - 1 \in 0..n /\ m \in Int /\ i \in Int
        /\ f[m] \in Int /\ f[m - 1] \in Int
        /\ f[m] = f[m - 1] + Worthwhile(rows[m]) /\ Worthwhile(rows[m]) \in Int
    BY <1>2, <1>4
  <2>2. /\ g[m] = IF m >= i THEN f[m] + a ELSE f[m]
        /\ g[m - 1] = IF m - 1 >= i THEN f[m - 1] + a ELSE f[m - 1]
    BY <2>1
  <2> HIDE DEF g
  <2>3. CASE m = i
    BY <1>3, <2>1, <2>2, <2>3
  <2>4. CASE m # i
    BY <1>3, <2>1, <2>2, <2>4
  <2>5. QED
    BY <2>3, <2>4
<1> HIDE DEF g
<1>8. Subtotals(g, rows', history', ledger')
  BY <1>2, <1>5, <1>6, <1>7 DEF Subtotals
<1>9. QED
  BY <1>8 DEF Accounted

\* What the update does to the rows.
LEMMA RowsAreEnabled ==
  ASSUME IInv, IInv', RowsFit, NEW t \in Calls, NEW k, NEW b,
         Confirmed(k, paid, charges), UNCHANGED <<paid, charges>>,
         rows' = [i \in DOMAIN rows |->
                    IF i \in Updated(t) THEN EnableRow(rows[i], k, b) ELSE rows[i]]
  PROVE  /\ RowsFit' /\ DOMAIN rows' = DOMAIN rows /\ Len(rows') = Len(rows)
         /\ \A i \in DOMAIN rows : /\ rows'[i].amount = rows[i].amount
                                   /\ rows'[i].type = rows[i].type
         /\ \A i \in DOMAIN rows \ Updated(t) : rows'[i] = rows[i]
         /\ \A i \in Updated(t) : rows'[i].key = k /\ rows'[i].active
<1>1. /\ rows \in Seq(RowType) /\ rows' \in Seq(RowType) /\ charges \in Nat
      /\ \A i \in DOMAIN rows : rows[i] \in RowType
  BY DEF IInv, RowsOK, RowOK, CountersOK
<1>2. /\ DOMAIN rows' = DOMAIN rows /\ Len(rows') = Len(rows)
      /\ \A i \in DOMAIN rows :
           rows'[i] = IF i \in Updated(t) THEN EnableRow(rows[i], k, b) ELSE rows[i]
  BY <1>1
<1>3. \A r \in RowType : LET s == EnableRow(r, k, b) IN
        s.key = k /\ s.active = TRUE /\ s.amount = r.amount /\ s.type = r.type
  BY DEF EnableRow, RowType
<1>4. \A i \in Updated(t) : i \in DOMAIN rows
  BY DEF Updated
<1>5. /\ \A i \in DOMAIN rows : /\ rows'[i].amount = rows[i].amount
                                /\ rows'[i].type = rows[i].type
      /\ \A i \in DOMAIN rows \ Updated(t) : rows'[i] = rows[i]
      /\ \A i \in Updated(t) : rows'[i].key = k /\ rows'[i].active
  BY <1>1, <1>2, <1>3, <1>4
<1>6. k # NoKey /\ \A m : k # UuidKey(m)
  BY <1>1, ConfirmedIsNew
<1>7. \A i \in DOMAIN rows : RowFits(rows'[i], i, paid', charges')
  <2>1. ASSUME NEW i \in Updated(t) PROVE RowFits(rows'[i], i, paid', charges')
    BY <1>5, <1>6 DEF RowFits
  <2>2. ASSUME NEW i \in DOMAIN rows \ Updated(t) PROVE RowFits(rows'[i], i, paid', charges')
    BY <1>5 DEF RowsFit
  <2>3. QED
    BY <2>1, <2>2
<1>8. RowsFit'
  BY <1>2, <1>7 DEF RowsFit
<1>9. QED
  BY <1>2, <1>5, <1>8

\* What the coroutine is about then.
LEMMA AfterEnableFits ==
  ASSUME IInv, Fits, NEW t \in Calls, ~Idle(t), call[t].at = "enabling", AfterEnable(t)
  PROVE  /\ UNCHANGED <<paid, charges>>
         /\ \E c : /\ call' = [call EXCEPT ![t] = c]
                   /\ c = NoCall \/ CallFits(c, paid, charges, rows)
                   /\ c # NoCall => /\ c.op = call[t].op /\ c.of = call[t].of
                                    /\ c.pay = call[t].pay
<1> DEFINE c == call[t]
<1>1. /\ CallFits(c, paid, charges, rows) /\ c \in OperationType
      /\ call \in [Calls -> OperationType \cup {NoCall}]
  BY CallKnown
<1>2. CASE Enabled(t)
  BY <1>2 DEF Enabled, Finish
<1>3. CASE Go(t, "enable") /\ UNCHANGED stripe
  <2> DEFINE d == [c EXCEPT !.at = "enable"]
  <2>1. /\ d.op = c.op /\ d.of = c.of /\ d.req = c.req /\ d.key = c.key
        /\ d.at = "enable" /\ d.pay = c.pay
        /\ call' = [call EXCEPT ![t] = d]
    BY <1>1, <1>3 DEF OperationType, Go
  <2> HIDE DEF d
  <2>2. CallFits(d, paid, charges, rows)
    BY <1>1, <2>1 DEF CallFits, RequestFits, StageFits, PayFits, SawFits, Paying
  <2>3. QED
    BY <1>3, <2>1, <2>2 DEF stripe
<1>4. QED
  BY <1>2, <1>3 DEF AfterEnable


\* A coroutine that waits is not paid by the update: the key it compares is
\* never that of a payment.
LEMMA ChargesWhileEnabled ==
  ASSUME IInv, Fits, NEW t \in Calls, ~Idle(t), call[t].at = "enabling", ~KeyTaken(t),
         NEW c, call' = [call EXCEPT ![t] = c],
         c # NoCall => c.op = call[t].op /\ c.of = call[t].of /\ c.pay = call[t].pay,
         DOMAIN rows' = DOMAIN rows,
         \A i \in DOMAIN rows \ Updated(t) : rows'[i] = rows[i],
         \A i \in Updated(t) : rows'[i].key = call[t].pay /\ rows'[i].active
  PROVE  ChargeKept' /\ OneAutoTopUpAtATime'
<1>1. /\ call \in [Calls -> OperationType \cup {NoCall}] /\ charges \in Nat
      /\ \A u \in Calls : ~Idle(u) => CallFits(call[u], paid, charges, rows)
  BY CallKnown DEF IInv, CountersOK, CallsOK
<1>2. \A u \in Calls : call'[u] = IF u = t THEN c ELSE call[u]
  BY <1>1
<1>3. /\ Confirmed(call[t].pay, paid, charges)
      /\ IF call[t].op = "spend" THEN call[t].key = AutoKey(call[t].of)
         ELSE \/ \E s \in Sessions : call[t].key = SessionKey(s)
              \/ \E n \in Nat : call[t].key = UuidKey(n)
  BY <1>1 DEF CallFits, PayFits, StageFits, Paying
<1>4. /\ call[t].key # NoKey
      /\ \A k : Confirmed(k, paid, charges) => call[t].key # k
  <2>1. \/ \E e : call[t].key = AutoKey(e)
        \/ \E s : call[t].key = SessionKey(s)
        \/ \E n : call[t].key = UuidKey(n)
    BY <1>3
  <2>2. \A k : Confirmed(k, paid, charges) =>
                 \A m : k # UuidKey(m) /\ k # AutoKey(m) /\ k # SessionKey(m)
    BY <1>1, ConfirmedIsNew
  <2>3. \A m : NoKey # UuidKey(m) /\ NoKey # AutoKey(m) /\ NoKey # SessionKey(m)
    BY DEF NoKey, UuidKey, AutoKey, SessionKey
  <2>4. QED
    BY <2>1, <2>2, <2>3
<1>5. ASSUME NEW u \in Calls, NEW e \in Execs, Charging(u, e)'
      PROVE  Charging(u, e)
  <2>1. /\ call'[u] # NoCall /\ call'[u].op = "spend" /\ call'[u].of = e
        /\ call'[u].at \in Paying
        /\ ~ \E i \in DOMAIN rows : rows'[i].key = call'[u].pay /\ rows'[i].active
    BY <1>5 DEF Charging, Idle, Settled, Paying
  <2>2. /\ call[u] # NoCall /\ call[u].op = "spend" /\ call[u].of = e
        /\ call[u].at \in Paying /\ call[u].pay = call'[u].pay
    BY <1>2, <2>1 DEF Idle, Paying
  <2>3. call[u].pay # call[t].key
    <3>1. PayFits(call[u], paid, charges)
      BY <1>1, <2>2 DEF CallFits, Idle
    <3>2. call[u].pay = NoKey \/ Confirmed(call[u].pay, paid, charges)
      BY <3>1 DEF PayFits
    <3>3. QED
      BY <1>4, <3>2
  <2>4. ~ \E i \in DOMAIN rows : rows[i].key = call[u].pay /\ rows[i].active
    BY <2>1, <2>2, <2>3 DEF Updated
  <2>5. QED
    BY <2>2, <2>4 DEF Charging, Idle, Settled, Paying
<1>6. ASSUME NEW u \in Calls, NEW e \in Execs, Charging(u, e)', HasKey(AutoKey(e))
      PROVE  HasKey(AutoKey(e))'
  <2>1. PICK i \in DOMAIN rows : rows[i].key = AutoKey(e)
    BY <1>6 DEF HasKey
  <2>2. i \notin Updated(t)
    <3> SUFFICES ASSUME i \in Updated(t) PROVE FALSE
      OBVIOUS
    <3>1. call[t].key = AutoKey(e)
      BY <2>1 DEF Updated
    <3>2. call[t].op = "spend" /\ call[t].of = e
      BY <1>3, <3>1, KeysDiffer
    <3>3. ~Settled(call[t].pay)
      <4>1. \A j \in DOMAIN rows \ Updated(t) : rows[j].key # call[t].pay
        BY DEF KeyTaken
      <4>2. \A j \in Updated(t) : rows[j].key # call[t].pay
        BY <1>3, <1>4 DEF Updated
      <4>3. QED
        BY <4>1, <4>2 DEF Settled
    <3>4. Charging(t, e)
      BY <3>2, <3>3 DEF Charging
    <3>5. u = t
      BY <1>5, <1>6, <3>4 DEF Fits, OneAutoTopUpAtATime
    <3>6. /\ call'[t] # NoCall
          /\ ~ \E j \in DOMAIN rows : rows'[j].key = call'[t].pay /\ rows'[j].active
      BY <1>6, <3>5 DEF Charging, Idle, Settled
    <3>7. QED
      BY <1>2, <3>6 DEF Updated
  <2>3. QED
    BY <2>1, <2>2 DEF HasKey
<1>7. ChargeKept /\ OneAutoTopUpAtATime
  BY DEF Fits
<1>8. QED
  BY <1>5, <1>6, <1>7, NobodyCharges

LEMMA EnableTransactionFits ==
  ASSUME IInv, IInv', Fits, NEW t \in Calls, EnableTransaction(t)
  PROVE  Fits'
<1> DEFINE c == call[t]
           amount == c.saw.amount
           b == LockedBalance(t) + amount
<1>1. /\ ~Idle(t) /\ c.at = "enabling" /\ c.saw.open /\ ~KeyTaken(t)
      /\ balance' = b
      /\ rows' = [i \in DOMAIN rows |->
                    IF i \in Updated(t) THEN EnableRow(rows[i], c.pay, b) ELSE rows[i]]
      /\ ledger' = IF Open(c.key) THEN ledger + amount ELSE ledger
      /\ disturbed' = disturbed \cup EnableDisturbs(t)
      /\ AfterEnable(t) /\ history' = history
  BY DEF EnableTransaction, At
<1>2. /\ CallFits(c, paid, charges, rows) /\ CallOK(c) /\ c \in OperationType
      /\ amount \in 0..IntMax /\ charges \in Nat /\ rows \in Seq(RowType)
  BY <1>1, CallKnown DEF CallOK, OperationType, IInv, CountersOK, RowsOK
<1>3. PICK d : /\ call' = [call EXCEPT ![t] = d]
               /\ d = NoCall \/ CallFits(d, paid, charges, rows)
               /\ d # NoCall => d.op = c.op /\ d.of = c.of /\ d.pay = c.pay
  BY <1>1, AfterEnableFits
<1>4. UNCHANGED <<paid, charges>>
  BY <1>1, AfterEnableFits
<1>5. /\ RowsFit' /\ DOMAIN rows' = DOMAIN rows /\ Len(rows') = Len(rows)
      /\ \A i \in DOMAIN rows : /\ rows'[i].amount = rows[i].amount
                                /\ rows'[i].type = rows[i].type
      /\ \A i \in DOMAIN rows \ Updated(t) : rows'[i] = rows[i]
      /\ \A i \in Updated(t) : rows'[i].key = c.pay /\ rows'[i].active
  <2>1. RowsFit /\ Confirmed(c.pay, paid, charges)
    BY <1>1, <1>2 DEF Fits, CallFits, PayFits
  <2> HIDE DEF b
  <2>2. QED
    BY <1>1, <1>4, <2>1, RowsAreEnabled
<1>6. CallsFit'
  <2>1. CallsFit /\ CallsOK /\ CountersOK /\ CountersOK'
    BY DEF Fits, IInv
  <2>2. /\ charges <= charges' /\ paid \subseteq paid'
        /\ \A i \in DOMAIN rows : i \in DOMAIN rows' /\ rows'[i].amount = rows[i].amount
    BY <1>2, <1>4, <1>5
  <2>3. d = NoCall \/ CallFits(d, paid', charges', rows')
    BY <1>2, <1>3, <2>2, CallFitsKept, <1>4
  <2>4. QED
    BY <1>3, <2>1, <2>2, <2>3, OneCallFits
<1>7. ChargeKept' /\ OneAutoTopUpAtATime'
  BY <1>1, <1>3, <1>5, ChargesWhileEnabled
<1>8. Means'
  <2>1. LockedBalance(t) = balance /\ balance # NoRow /\ balance \in Int
    BY <1>1, <1>2, LockedOK, Numbers DEF CallOK, Balances
  <2>2. Unrefunded' => Unrefunded
    BY <1>1, <1>5 DEF Unrefunded
  <2>3. QED
    BY <1>1, <1>2, <2>1, <2>2 DEF Fits, Means
<1>9. Accounted'
  <2>1. Accounted
    BY DEF Fits
  <2>2. CASE Open(c.key)
    <3>1. PICK i \in DOMAIN rows : rows[i].key = c.key /\ ~rows[i].active
      BY <2>2 DEF Open
    <3>2. Updated(t) = {i}
      BY <3>1 DEF Updated, IInv, RowsOK
    <3>3. RowFits(rows[i], i, paid, charges) /\ Worth(amount, c.key, rows)
      BY <1>1, <1>2 DEF Fits, RowsFit, CallFits, SawFits
    <3>4. amount = rows[i].amount
      BY <3>1, <3>3 DEF RowFits, Worth
    <3>5. /\ \A j \in DOMAIN rows \ {i} : Worthwhile(rows'[j]) = Worthwhile(rows[j])
          /\ Worthwhile(rows'[i]) = Worthwhile(rows[i]) + amount
      BY <1>2, <1>5, <3>1, <3>2, <3>4 DEF Worthwhile
    <3>6. amount \in Int /\ ledger' = ledger + amount
      BY <1>1, <1>2, <2>2
    <3> HIDE DEF amount
    <3>7. QED
      BY <1>1, <1>5, <2>1, <3>5, <3>6, RaisedSubtotals
  <2>3. CASE ~Open(c.key)
    <3>1. \A j \in DOMAIN rows : Worthwhile(rows'[j]) = Worthwhile(rows[j])
      BY <1>5, <2>3 DEF Worthwhile, Open, Updated
    <3>2. PICK f : Subtotals(f, rows, history, ledger)
      BY <2>1 DEF Accounted
    <3>3. DOMAIN rows = 1..Len(rows)
      BY <1>2
    <3>4. Subtotals(f, rows', history', ledger')
      BY <1>1, <1>5, <2>3, <3>1, <3>2, <3>3 DEF Subtotals
    <3>5. QED
      BY <3>4 DEF Accounted
  <2>4. QED
    BY <2>2, <2>3
<1>10. QED
  BY <1>5, <1>6, <1>7, <1>8, <1>9 DEF Fits


-----------------------------------------------------------------------------
(* The sum of the rows. *)

\* A set of numbers with a member has a least one.
LEMMA LeastNumber ==
  ASSUME NEW T \in SUBSET Nat, T # {}
  PROVE  \E x \in T : \A y \in T : x <= y
<1>1. PICK x \in T : \A y \in T : ~ (<<y, x>> \in OpToRel(<, Nat))
  BY NatLessThanWellFounded, WFMin
<1>2. \A y \in T : ~ (<<y, x>> \in {ss \in Nat \X Nat : ss[1] < ss[2]})
  BY <1>1, Zenon DEF OpToRel
<1>3. \A y \in T : ~(y < x)
  BY <1>2
<1>4. QED
  BY <1>3

\* The subtotals are the ones that SumOfRows computes.
LEMMA SumIsTheLastSubtotal ==
  ASSUME IInv, NEW f, Subtotals(f, rows, history, ledger)
  PROVE  SumOfRows = ledger
<1> DEFINE n == Len(rows)
           Eq(g) == g = [m \in 0..n |->
                           IF m = 0 THEN history
                           ELSE g[m - 1] + IF rows[m].active THEN rows[m].amount ELSE 0]
           Sum == CHOOSE g : Eq(g)
<1>1. rows \in Seq(RowType) /\ n \in Nat
  BY DEF IInv, RowsOK
<1>2. /\ f \in [0..n -> Int] /\ f[0] = history /\ f[n] = ledger
      /\ \A m \in 1..n : f[m] = f[m - 1] + Worthwhile(rows[m])
  BY DEF Subtotals
<1>3. SumOfRows = Sum[n]
  BY DEF SumOfRows
<1> HIDE DEF n
<1>4. Eq(f)
  <2> DEFINE h == [m \in 0..n |->
                     IF m = 0 THEN history
                     ELSE f[m - 1] + IF rows[m].active THEN rows[m].amount ELSE 0]
  <2>1. \A m \in 0..n : f[m] = h[m]
    BY <1>1, <1>2 DEF Worthwhile
  <2>2. DOMAIN f = 0..n /\ DOMAIN h = 0..n
    BY <1>2
  <2>3. f = [m \in 0..n |-> f[m]] /\ h = [m \in 0..n |-> h[m]]
    BY <1>2
  <2>4. f = h
    BY <2>1, <2>3
  <2>5. QED
    BY <2>4
<1>5. Eq(Sum)
  <2> HIDE DEF Eq
  <2>1. QED
    BY <1>4
<1> HIDE DEF Sum
<1>6. /\ Sum[0] = history
      /\ \A m \in 1..n : Sum[m] = Sum[m - 1] + Worthwhile(rows[m])
  BY <1>1, <1>5 DEF Worthwhile
<1> HIDE DEF Eq
<1> DEFINE wrong == {m \in 0..n : Sum[m] # f[m]}
<1>7. wrong = {}
  <2> SUFFICES ASSUME wrong # {} PROVE FALSE
    OBVIOUS
  <2>1. wrong \in SUBSET Nat
    BY <1>1
  <2> HIDE DEF wrong
  <2>2. PICK m \in wrong : \A l \in wrong : m <= l
    BY <2>1, LeastNumber
  <2> USE DEF wrong
  <2>3. m \in 0..n /\ Sum[m] # f[m]
    BY <2>2
  <2>4. m # 0
    BY <1>2, <1>6, <2>3
  <2>5. m \in 1..n /\ m - 1 \in 0..n /\ ~(m <= m - 1)
    BY <1>1, <2>3, <2>4
  <2>6. Sum[m - 1] = f[m - 1]
    BY <2>2, <2>5
  <2>7. QED
    BY <1>2, <1>6, <2>3, <2>5, <2>6
<1>8. n \in 0..n
  BY <1>1
<1>9. QED
  BY <1>2, <1>3, <1>7, <1>8

-----------------------------------------------------------------------------
(* The theorems about payments. *)

LEMMA InitFits == Init => Fits
<1> SUFFICES ASSUME Init PROVE Fits
  OBVIOUS
<1>1. /\ rows = << >> /\ \A t \in Calls : call[t] = NoCall
      /\ balance \in {NoRow, history} /\ ledger = history /\ history \in Int
  BY CreditConstants, Numbers DEF Init, IntMin
<1>2. CallsFit /\ RowsFit
  BY <1>1 DEF CallsFit, RowsFit, Idle
<1>3. ChargeKept /\ OneAutoTopUpAtATime
  BY <1>1 DEF ChargeKept, OneAutoTopUpAtATime, Charging, Idle
<1>4. Means
  BY <1>1 DEF Means, Unrefunded
<1>5. Accounted
  <2> DEFINE f == [m \in 0..0 |-> history]
  <2>1. f \in [0..0 -> Int] /\ f[0] = history /\ 1..0 = {}
    BY <1>1
  <2> HIDE DEF f
  <2>2. Subtotals(f, << >>, history, history)
    BY <2>1 DEF Subtotals
  <2>3. QED
    BY <1>1, <2>2 DEF Accounted
<1>6. QED
  BY <1>2, <1>3, <1>4, <1>5 DEF Fits

LEMMA NextFits == IInv /\ IInv' /\ Fits /\ [Next]_vars => Fits'
<1> SUFFICES ASSUME IInv, IInv', Fits, [Next]_vars PROVE Fits'
  OBVIOUS
<1>1. ASSUME NEW t \in Calls, Step(t) PROVE Fits'
  BY <1>1, StatementStarts, TopUpBegins, CardIsCharged, CheckoutIsFound,
     SessionIsRetrieved, OthersEndFit, AddTransactionFits, EnableTransactionFits DEF Step
<1>2. ASSUME NEW t \in Calls, Serve(t) PROVE Fits'
  BY <1>2, ServeFits
<1>3. ASSUME NEW t \in Calls, Crash(t) PROVE Fits'
  BY <1>3, OthersEndFit
<1>4. ASSUME NEW s \in Sessions, CustomerPays(s) PROVE Fits'
  BY <1>4, CustomerPaysFits
<1>5. ASSUME NEW s \in Sessions, NEW t \in Calls, Webhook(t, s) PROVE Fits'
  BY <1>5, WebhookFits
<1>6. CASE UNCHANGED vars
  <2>1. /\ UNCHANGED <<history, balance, rows, ledger, disturbed, paid, charges, call>>
        /\ charges \in Nat
    BY <1>6 DEF vars, tables, stripe, IInv, CountersOK
  <2>2. RowsFit' /\ Means' /\ Accounted'
    BY <2>1, QuietRest
  <2>3. CallsFit'
    BY <2>1 DEF Fits, CallsFit, Idle
  <2>4. /\ \A u \in Calls : \A e \in Execs : Charging(u, e)' <=> Charging(u, e)
        /\ \A k : HasKey(k)' <=> HasKey(k)
    BY <2>1 DEF Charging, Idle, Settled, HasKey
  <2>5. ChargeKept' /\ OneAutoTopUpAtATime'
    BY <2>4 DEF Fits, ChargeKept, OneAutoTopUpAtATime
  <2>6. QED
    BY <2>2, <2>3, <2>5 DEF Fits
<1>7. QED
  BY <1>1, <1>2, <1>3, <1>4, <1>5, <1>6 DEF Next

LEMMA FitsInvariance == Spec => [](IInv /\ Fits)
<1>1. Init => Fits
  BY InitFits
<1>2. IInv /\ IInv' /\ Fits /\ [Next]_vars => Fits'
  BY NextFits
<1>3. QED
  BY <1>1, <1>2, Invariance, PTL DEF Spec

\* No credits without a payment: every active top-up bears the key of a
\* payment that Stripe confirmed, and no payment is credited twice, whichever
\* of the page, the webhook and a retry gets to the row.
THEOREM CreditsArePaid == Spec => []CreditedIsPaid
<1>1. IInv /\ Fits => CreditedIsPaid
  BY DEF IInv, RowsOK, Fits, RowsFit, RowFits, Confirmed, CreditedIsPaid
<1>2. QED
  BY <1>1, FitsInvariance, PTL

\* However many blocks of one execution find the balance low at once, the
\* card is not charged for a second of them before the first charge has been
\* credited: the row that is inserted before the charge is the lock.
THEOREM OneChargeAtATime == Spec => []OneAutoTopUpAtATime
<1>1. Fits => OneAutoTopUpAtATime
  BY DEF Fits
<1>2. QED
  BY <1>1, FitsInvariance, PTL

\* Concurrent requests leave no debt: whatever they overwrite or enable twice,
\* only what the bank takes back brings the balance below zero.
THEOREM NoDebtBySpending == Spec => []OnlyRefundsIndebt
<1>1. Fits => OnlyRefundsIndebt
  BY DEF Fits, Means, Unrefunded, OnlyRefundsIndebt, CurrentBalance
<1>2. QED
  BY <1>1, FitsInvariance, PTL

\* `ledger`, in which the balance is compared with the transactions, is what
\* the active rows of the table add up to.
THEOREM LedgerIsTheSum == Spec => []LedgerAddsUp
<1>1. IInv /\ Fits => LedgerAddsUp
  BY SumIsTheLastSubtotal DEF Fits, Accounted, LedgerAddsUp
<1>2. QED
  BY <1>1, FitsInvariance, PTL

=============================================================================
