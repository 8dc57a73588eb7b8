---------------------------- MODULE CreditLedger ----------------------------
(***************************************************************************)
(* data/credit.py: the credits of one user.  Rows of other users are other *)
(* rows, and no statement touches two users.                               *)
(*                                                                         *)
(* The table UserBalance has the balance, the table CreditTransaction says *)
(* where it came from.  Both change in one SQL statement with several      *)
(* parts, at PostgreSQL's default isolation: the statement fixes a         *)
(* snapshot when it starts, waits for the row it locks, reads that row     *)
(* again once it has it, and reads everything else from the snapshot.  So  *)
(* a statement is two steps here: its start, which keeps in `saw` what the *)
(* snapshot has to say, and the rest, which ends with the commit.          *)
(***************************************************************************)
EXTENDS Integers, Sequences, FiniteSets

CONSTANTS
  Calls,       \* coroutines in which the operations of this class run
  NoCall,      \* a coroutine with nothing to do
  Execs,       \* graph executions that spend credits
  Sessions,    \* Stripe checkout sessions
  Rewards,     \* onboarding steps with a reward
  Cost,        \* what a block costs
  Reward,      \* what an onboarding step earns
  TopUp,       \* AutoTopUpConfig.amount, and the amount of a checkout
  Threshold,   \* AutoTopUpConfig.threshold
  IntMax,      \* POSTGRES_INT_MAX
  Histories,   \* running balances a user may have from before UserBalance
  NoRow,       \* the user has no row in UserBalance
  MaxCalls,    \* how many requests are served
  MaxFaults    \* how many processes die, or replies are lost

IntMin == -(IntMax + 1)

ASSUME CreditConstants ==
  /\ {Cost, Reward, TopUp, Threshold, IntMax} \subseteq Nat \ {0}
  /\ {Cost, Reward, TopUp, Threshold} \subseteq 0..IntMax
  /\ Histories \subseteq IntMin..IntMax
  /\ NoRow \notin Int
  /\ MaxCalls \in Nat /\ MaxFaults \in Nat

VARIABLES
  history,    \* runningBalance of the newest transaction before UserBalance
  balance,    \* UserBalance.balance, or NoRow
  rows,       \* CreditTransaction, in the order the rows were inserted
  autoTopUp,  \* the user has configured automatic top-ups
  call,       \* what each coroutine is doing
  paid,       \* checkout sessions the customer has paid
  acked,      \* sessions whose webhook was answered without an error
  charges,    \* Stripe payments and card checks made from here
  begun,      \* requests so far
  faults,     \* faults so far
  ledger,     \* history variable: what the active rows add up to
  disturbed   \* history variable: what has come between balance and rows

tables == <<history, balance, rows, ledger, disturbed>>
stripe == <<paid, acked, charges>>
counters == <<begun, faults>>
vars == <<tables, stripe, counters, autoTopUp, call>>

(***************************************************************************)
(* Transaction keys.  A row whose key is left out gets a random one.       *)
(***************************************************************************)
NoKey == <<"none", 0>>
SessionKey(s) == <<"session", s>>
SessionIntent(s) == <<"sessionIntent", s>>   \* the payment of session s
AutoKey(e) == <<"auto", e>>                  \* AUTO-TOP-UP-<user>-<execution>
RewardKey(r) == <<"reward", r>>              \* REWARD-<user>-<step>
RefundKey(k) == <<"refund", k>>              \* Stripe's refund of payment k
IntentKey(n) == <<"intent", n>>              \* the n-th payment or card check
RandomKey == <<"uuid", Len(rows) + 1>>

HasKey(k) == \E i \in DOMAIN rows : rows[i].key = k
Settled(k) == \E i \in DOMAIN rows : rows[i].key = k /\ rows[i].active
Open(k) == \E i \in DOMAIN rows : rows[i].key = k /\ ~rows[i].active

(***************************************************************************)
(* What _add_transaction is asked for.  The only callers that set a        *)
(* ceiling add inactive rows.                                              *)
(***************************************************************************)
Request(type, amount, active, key) ==
  [type |-> type, amount |-> amount, active |-> active, key |-> key,
   ceiling |-> 0, strict |-> TRUE]

Usage == Request("USAGE", -Cost, TRUE, NoKey)
NoRequest == Request("USAGE", 0, FALSE, NoKey)
Grant(r) == Request("GRANT", Reward, TRUE, RewardKey(r))
Checkout(s) == Request("TOP_UP", TopUp, FALSE, SessionKey(s))
CardTopUp(amount) ==
  Request(IF amount = 0 THEN "CARD_CHECK" ELSE "TOP_UP", amount, FALSE, NoKey)
\* Mutant of AutomaticTopUp: the key is left out.
AutomaticTopUpWithoutKey(e) ==
  [Request("TOP_UP", TopUp, FALSE, NoKey) EXCEPT !.ceiling = Threshold]

AutomaticTopUp(e) ==
  [Request("TOP_UP", TopUp, FALSE, AutoKey(e)) EXCEPT !.ceiling = Threshold]
Deduction(i, amount) ==
  [Request("REFUND", -amount, TRUE, RefundKey(rows[i].key))
     EXCEPT !.strict = FALSE]

Types == {"USAGE", "GRANT", "TOP_UP", "CARD_CHECK", "REFUND"}
Operations == {"spend", "reward", "intent", "configure", "deduct", "poll",
               "webhook"}
Stages == {"add", "adding", "config", "key", "ceiling", "charge", "find",
           "retrieve", "enable", "enabling"}

\* What a snapshot holds: whether the user has a balance, whether there is an
\* inactive row under the key in hand, and the amount of that row.
Snapshot(k) ==
  [row |-> balance # NoRow,
   open |-> Open(k),
   amount |-> IF Open(k) THEN (CHOOSE r \in {rows[i] : i \in DOMAIN rows} :
                                 r.key = k).amount
              ELSE 0]

\* An operation: what it is about, the row it inserts, the key of the row it
\* enables, the key that row gets, what its statement saw and returned.
Operation(op, of, at, q) ==
  [op |-> op, of |-> of, at |-> at, req |-> q, key |-> q.key, pay |-> NoKey,
   saw |-> [row |-> FALSE, open |-> FALSE, amount |-> 0], result |-> 0]

Idle(t) == call[t] = NoCall
At(t, stage) == ~Idle(t) /\ call[t].at = stage
Go(t, stage) == call' = [call EXCEPT ![t].at = stage]

\* The operation ends; a webhook is answered with 200.
Finish(t) ==
  /\ call' = [call EXCEPT ![t] = NoCall]
  /\ acked' = IF call[t].op = "webhook" THEN acked \cup {call[t].of} ELSE acked
  /\ UNCHANGED <<paid, charges>>

\* It ends with an exception, and a webhook with a 500.
Raise(t) == call' = [call EXCEPT ![t] = NoCall] /\ UNCHANGED stripe

(***************************************************************************)
(* The requests.                                                           *)
(***************************************************************************)
Begin(t) ==
  /\ Idle(t) /\ begun < MaxCalls
  /\ begun' = begun + 1
  /\ UNCHANGED <<tables, stripe, faults, autoTopUp>>

SpendCredits(t, e) ==
  /\ Begin(t)
  /\ call' = [call EXCEPT ![t] = Operation("spend", e, "add", Usage)]

OnboardingReward(t, r) ==
  /\ Begin(t)
  /\ call' = [call EXCEPT ![t] = Operation("reward", r, "add", Grant(r))]

\* The session is created first, but nobody can pay it before its row exists.
TopUpIntent(t, s) ==
  /\ ~\E u \in Calls \ {t} : ~Idle(u) /\ call[u].req.key = SessionKey(s)
  /\ ~\E i \in DOMAIN rows : rows[i].origin = SessionKey(s)
  /\ Begin(t)
  /\ call' = [call EXCEPT ![t] = Operation("intent", s, "add", Checkout(s))]

CurrentBalance == IF balance = NoRow THEN history ELSE balance

\* The route that configures automatic top-ups reads the balance, and charges
\* the card or only checks it.
ConfigureAutoTopUp(t) ==
  /\ Begin(t)
  /\ call' = [call EXCEPT ![t] =
       Operation("configure", NoCall, "add",
                 CardTopUp(IF CurrentBalance < Threshold THEN TopUp ELSE 0))]

\* A refund, or a dispute that was lost, of some or all of a top-up that is
\* found by its payment.  Stripe may report it twice.
DeductCredits(t, i, amount) ==
  /\ rows[i].active /\ rows[i].type = "TOP_UP"
  /\ amount \in 1..rows[i].amount
  /\ Begin(t)
  /\ call' = [call EXCEPT ![t] =
       Operation("deduct", NoCall, "add", Deduction(i, amount))]

\* The user is back from the checkout, and the page asks to fulfil it.
Poll(t) ==
  /\ Begin(t)
  /\ call' = [call EXCEPT ![t] = Operation("poll", NoCall, "find", NoRequest)]

\* Stripe reports a paid session until it is answered, and may report it again
\* before it is.
Webhook(t, s) ==
  /\ Idle(t) /\ s \in paid \ acked
  /\ call' = [call EXCEPT ![t] = Operation("webhook", s, "find", NoRequest)]
  /\ UNCHANGED <<tables, stripe, counters, autoTopUp>>

(***************************************************************************)
(* _add_transaction.                                                       *)
(***************************************************************************)
StartStatement(t) ==
  /\ \E stage \in {"add", "enable"} :
       /\ At(t, stage)
       /\ call' = [call EXCEPT
            ![t].at = IF stage = "add" THEN "adding" ELSE "enabling",
            ![t].saw = Snapshot(call[t].key)]
  /\ UNCHANGED <<tables, stripe, counters, autoTopUp>>

\* SELECT ... FOR UPDATE: the row as it is now if the snapshot has one, else
\* the fallback, which is computed from the snapshot too.
LockedBalance(t) == IF call[t].saw.row THEN balance ELSE history

Clipped(b) == IF b > IntMax THEN IntMax ELSE IF b < IntMin THEN IntMin ELSE b

Ceiled(b, q) == q.amount > 0 /\ q.ceiling > 0 /\ b > q.ceiling - q.amount

\* Mutants of NewBalance: nothing is clipped; inactive rows count at once.
NewBalanceUnclipped(b, q) == IF ~q.active THEN b ELSE b + q.amount
NewBalanceAtOnce(b, q) == Clipped(b + q.amount)

NewBalance(b, q) ==
  IF ~q.active THEN b
  ELSE IF Ceiled(b, q) THEN q.ceiling ELSE Clipped(b + q.amount)

\* Mutant of Allowed: whoever has credits may spend.
AllowedWhilePositive(b, q) == ~q.active \/ q.amount >= 0 \/ ~q.strict \/ b >= 0

\* The WHERE of both INSERTs.
Allowed(b, q) == ~q.active \/ q.amount >= 0 \/ ~q.strict \/ b + q.amount >= 0

Posted(q) == IF q.active THEN q.amount ELSE 0

\* Between the snapshot and the commit somebody else inserted the balance row
\* that this statement now overwrites; or the amount was not applied in full.
AddDisturbs(t) ==
  LET b == LockedBalance(t) q == call[t].req IN
    {d \in {"first", "clipped"} :
      \/ d = "first" /\ ~call[t].saw.row /\ balance # NoRow
      \/ d = "clipped" /\ q.active /\ Ceiled(b, q)
      \/ d = "clipped" /\ q.active /\ b + q.amount \notin IntMin..IntMax}

AfterAdd(t, key) ==
  CASE call[t].op = "spend" /\ call[t].req.active ->
         call' = [call EXCEPT ![t].at = "config",
                              ![t].result = balance']
    [] call[t].op \in {"spend", "configure"} /\ ~call[t].req.active ->
         call' = [call EXCEPT ![t].at = "charge", ![t].key = key]
    [] OTHER -> call' = [call EXCEPT ![t] = NoCall]

AddTransaction(t) ==
  LET q == call[t].req
      b == LockedBalance(t)
      key == IF q.key = NoKey THEN RandomKey ELSE q.key
  IN
  /\ At(t, "adding")
  /\ Allowed(b, q)
  /\ ~HasKey(key)
  /\ balance' = NewBalance(b, q)
  /\ rows' = Append(rows, [key |-> key, origin |-> key, type |-> q.type,
                           amount |-> q.amount, active |-> q.active,
                           running |-> NewBalance(b, q)])
  /\ ledger' = ledger + Posted(q)
  /\ disturbed' = disturbed \cup AddDisturbs(t)
  /\ AfterAdd(t, key)
  /\ UNCHANGED <<history, stripe, counters, autoTopUp>>

\* InsufficientBalanceError, or the primary key refuses the row: neither of
\* the two INSERTs is carried out.
AddTransactionFails(t) ==
  /\ At(t, "adding")
  /\ ~Allowed(LockedBalance(t), call[t].req) \/ HasKey(call[t].req.key)
  /\ Raise(t)
  /\ UNCHANGED <<tables, counters, autoTopUp>>

(***************************************************************************)
(* Top-ups from a card: automatic ones after spending, and the one made    *)
(* when automatic top-ups are configured.                                  *)
(***************************************************************************)
\* The configuration comes from a copy of the user that is cached for minutes:
\* one that was just written may not be seen yet.
CheckAutoTopUp(t) ==
  /\ At(t, "config")
  /\ \/ /\ autoTopUp /\ call[t].result < Threshold
        /\ LET e == call[t].of IN
           call' = [call EXCEPT ![t] = Operation("spend", e, "key", AutomaticTopUp(e))]
        /\ UNCHANGED stripe
     \/ Finish(t)
  /\ UNCHANGED <<tables, counters, autoTopUp>>

CheckKey(t) ==
  /\ At(t, "key")
  /\ IF HasKey(call[t].req.key) THEN Raise(t)
     ELSE Go(t, "ceiling") /\ UNCHANGED stripe
  /\ UNCHANGED <<tables, counters, autoTopUp>>

CheckCeiling(t) ==
  /\ At(t, "ceiling")
  /\ IF CurrentBalance >= call[t].req.ceiling THEN Raise(t)
     ELSE Go(t, "add") /\ UNCHANGED stripe
  /\ UNCHANGED <<tables, counters, autoTopUp>>

ChargeCard(t) ==
  /\ At(t, "charge")
  /\ \/ /\ charges' = charges + 1
        /\ call' = [call EXCEPT ![t].at = "enable", ![t].pay = IntentKey(charges')]
        /\ UNCHANGED <<paid, acked>>
     \/ Raise(t)      \* no payment method works
  /\ UNCHANGED <<tables, counters, autoTopUp>>

(***************************************************************************)
(* fulfill_checkout, by the session's id or for the newest of the user's.  *)
(* A session that a promotion code makes free is left out: its row would   *)
(* keep the session's key.                                                 *)
(***************************************************************************)
\* Mutant of Candidates: the webhook takes the user's newest open top-up.
CandidatesOfUser(t) ==
  {i \in DOMAIN rows :
     rows[i].type = "TOP_UP" /\ ~rows[i].active /\ rows[i].amount > 0}

Candidates(t) ==
  {i \in DOMAIN rows :
     /\ rows[i].type = "TOP_UP" /\ ~rows[i].active /\ rows[i].amount > 0
     /\ call[t].op = "webhook" => rows[i].key = SessionKey(call[t].of)}

FindCheckout(t) ==
  /\ At(t, "find")
  /\ IF \E i \in Candidates(t) :
          /\ \A j \in Candidates(t) : j <= i
          /\ \E s \in Sessions : rows[i].key = SessionKey(s)
     THEN /\ \E i \in Candidates(t) :
               /\ \A j \in Candidates(t) : j <= i
               /\ call' = [call EXCEPT ![t].at = "retrieve", ![t].key = rows[i].key]
          /\ UNCHANGED stripe
     ELSE Finish(t)
  /\ UNCHANGED <<tables, counters, autoTopUp>>

\* Mutant of RetrieveSession: the payment status is not looked at.
RetrieveAnySession(t) ==
  /\ At(t, "retrieve")
  /\ \E s \in Sessions :
       /\ call[t].key = SessionKey(s)
       /\ call' = [call EXCEPT ![t].at = "enable", ![t].pay = SessionIntent(s)]
  /\ UNCHANGED <<tables, stripe, counters, autoTopUp>>

RetrieveSession(t) ==
  /\ At(t, "retrieve")
  /\ \E s \in Sessions :
       /\ call[t].key = SessionKey(s)
       /\ IF s \in paid
          THEN /\ call' = [call EXCEPT ![t].at = "enable",
                                       ![t].pay = SessionIntent(s)]
               /\ UNCHANGED stripe
          ELSE Finish(t)
  /\ UNCHANGED <<tables, counters, autoTopUp>>

(***************************************************************************)
(* _enable_transaction.  Its first query is part of the statement: a row   *)
(* that is active stays so, and what the query turns away the statement    *)
(* would pass over.  The retry decorator runs both again after an error.   *)
(***************************************************************************)
\* The row the UPDATE still finds: it reads rows that changed since the
\* snapshot again, and only their key is compared.
Updated(t) == {i \in DOMAIN rows : rows[i].key = call[t].key}

\* Another row has the key that the row is to get: the statement fails.
KeyTaken(t) ==
  Updated(t) # {} /\ \E j \in DOMAIN rows \ Updated(t) : rows[j].key = call[t].pay

\* Mutant of EnableRow: isActive is forgotten.
EnableRowKeepsInactive(r, k, b) == [r EXCEPT !.key = k, !.running = b]

EnableRow(r, k, b) == [r EXCEPT !.key = k, !.active = TRUE, !.running = b]

\* The balance is raised for a row that another call has enabled meanwhile.
EnableDisturbs(t) == IF Open(call[t].key) THEN {} ELSE {"twice"}

\* The call is over; a configuration is written down.
Enabled(t) == Finish(t) /\ autoTopUp' = (autoTopUp \/ call[t].op = "configure")

AfterEnable(t) ==
  \/ Enabled(t) /\ faults' = faults
  \/ /\ faults < MaxFaults /\ faults' = faults + 1   \* the reply is lost
     /\ Go(t, "enable")
     /\ UNCHANGED <<stripe, autoTopUp>>

EnableTransaction(t) ==
  LET amount == call[t].saw.amount
      b == LockedBalance(t) + amount
  IN
  /\ At(t, "enabling")
  /\ call[t].saw.open
  /\ b <= IntMax /\ ~KeyTaken(t)
  /\ balance' = b
  /\ rows' = [i \in DOMAIN rows |->
                IF i \in Updated(t) THEN EnableRow(rows[i], call[t].pay, b)
                ELSE rows[i]]
  /\ ledger' = IF Open(call[t].key) THEN ledger + amount ELSE ledger
  /\ disturbed' = disturbed \cup EnableDisturbs(t)
  /\ AfterEnable(t)
  /\ UNCHANGED <<history, begun>>

\* The snapshot has no inactive row under this key: nothing happens.
EnableTransactionSkips(t) ==
  /\ At(t, "enabling")
  /\ ~call[t].saw.open
  /\ Enabled(t)
  /\ UNCHANGED <<tables, counters>>

\* Nothing clips this sum: the column overflows, as often as it is retried.
\* Or the primary key refuses the row's new key.
EnableTransactionFails(t) ==
  /\ At(t, "enabling")
  /\ call[t].saw.open
  /\ LockedBalance(t) + call[t].saw.amount > IntMax \/ KeyTaken(t)
  /\ disturbed' = IF KeyTaken(t) THEN disturbed ELSE disturbed \cup {"overflow"}
  /\ Raise(t)
  /\ UNCHANGED <<history, balance, rows, ledger, counters, autoTopUp>>

(***************************************************************************)
(* The customer pays a checkout session whose address was returned; and a  *)
(* process dies.                                                           *)
(***************************************************************************)
CustomerPays(s) ==
  /\ s \notin paid /\ Open(SessionKey(s))
  /\ paid' = paid \cup {s}
  /\ UNCHANGED <<tables, acked, charges, counters, autoTopUp, call>>

Crash(t) ==
  /\ ~Idle(t) /\ faults < MaxFaults
  /\ faults' = faults + 1
  /\ Raise(t)
  /\ UNCHANGED <<tables, begun, autoTopUp>>

-----------------------------------------------------------------------------
Init ==
  /\ history \in Histories
  /\ balance \in {NoRow, history}
  /\ rows = << >>
  /\ autoTopUp \in BOOLEAN
  /\ call = [t \in Calls |-> NoCall]
  /\ paid = {} /\ acked = {} /\ charges = 0
  /\ begun = 0 /\ faults = 0
  /\ ledger = history /\ disturbed = {}

Step(t) ==
  \/ StartStatement(t)
  \/ AddTransaction(t)
  \/ AddTransactionFails(t)
  \/ CheckAutoTopUp(t)
  \/ CheckKey(t)
  \/ CheckCeiling(t)
  \/ ChargeCard(t)
  \/ FindCheckout(t)
  \/ RetrieveSession(t)
  \/ EnableTransaction(t)
  \/ EnableTransactionSkips(t)
  \/ EnableTransactionFails(t)

Serve(t) ==
  \/ \E e \in Execs : SpendCredits(t, e)
  \/ \E r \in Rewards : OnboardingReward(t, r)
  \/ \E s \in Sessions : TopUpIntent(t, s)
  \/ ConfigureAutoTopUp(t)
  \/ \E i \in DOMAIN rows : \E amount \in 1..TopUp : DeductCredits(t, i, amount)
  \/ Poll(t)

Next ==
  \/ \E t \in Calls : Step(t) \/ Serve(t) \/ Crash(t)
  \/ \E s \in Sessions : CustomerPays(s) \/ \E t \in Calls : Webhook(t, s)

Spec == Init /\ [][Next]_vars

\* A coroutine goes on, and Stripe reports a session until it is answered.
FairSpec ==
  /\ Spec
  /\ \A t \in Calls : WF_vars(Step(t))
  /\ \A s \in Sessions : WF_vars(\E t \in Calls : Webhook(t, s))

-----------------------------------------------------------------------------
PlainKeys == {NoKey} \cup ({"uuid", "intent"} \X Nat)
               \cup ({"session", "sessionIntent"} \X Sessions)
               \cup ({"auto"} \X Execs) \cup ({"reward"} \X Rewards)
Keys == PlainKeys \cup ({"refund"} \X PlainKeys)

Balances == IntMin..IntMax
Amounts == (-IntMax)..IntMax

RequestType == [type : Types, amount : Amounts, active : BOOLEAN, key : Keys,
                ceiling : 0..IntMax, strict : BOOLEAN]
RowType == [key : Keys, origin : Keys, type : Types, amount : Amounts,
            active : BOOLEAN, running : Balances]
OperationType ==
  [op : Operations, of : Sessions \cup Execs \cup Rewards \cup {NoCall},
   at : Stages, req : RequestType, key : Keys, pay : PlainKeys,
   saw : [row : BOOLEAN, open : BOOLEAN, amount : 0..IntMax],
   result : Balances]

\* Both tables hold what their columns can hold, and every coroutine is
\* between two steps of the operation it runs.
TypeOK ==
  /\ history \in Balances
  /\ balance \in Balances \cup {NoRow}
  /\ rows \in Seq(RowType)
  /\ autoTopUp \in BOOLEAN
  /\ call \in [Calls -> OperationType \cup {NoCall}]
  /\ paid \subseteq Sessions /\ acked \subseteq paid
  /\ charges \in Nat /\ begun \in 0..MaxCalls /\ faults \in 0..MaxFaults
  /\ ledger \in Int
  /\ disturbed \subseteq {"first", "twice", "clipped", "overflow"}

\* What the user's rows say he has.
SumOfRows ==
  LET Sum[n \in 0..Len(rows)] ==
        IF n = 0 THEN history
        ELSE Sum[n - 1] + IF rows[n].active THEN rows[n].amount ELSE 0
  IN Sum[Len(rows)]

\* `ledger` is the sum it stands for.
LedgerAddsUp == ledger = SumOfRows

\* However the statements of concurrent requests overlap, the balance is what
\* the active transactions add up to, but for three cases, each marked where it
\* happens: two statements that both found no balance row, of which the second
\* overwrites what the first wrote; one top-up enabled by two statements, each
\* of which raises the balance; and an amount cut at the column's limit or at
\* the ceiling of a top-up.  The first two are what NoIncorrectBalance is about.
BalanceIsTheLedger ==
  disturbed \subseteq {"overflow"} => ledger = CurrentBalance

\* _add_transaction promises that "no user will ever have an incorrect balance
\* due to race conditions", so that no two spendings "exceed available balance"
\* together, and no top-up is lost.  NOT satisfied: without a balance row, there
\* is no row that FOR UPDATE would lock.
NoIncorrectBalance == "clipped" \notin disturbed => ledger = CurrentBalance

\* No user is left in debt by spending: whatever the statements of concurrent
\* requests overwrite or enable twice, only money that the bank takes back
\* brings the balance below zero.  (The sum of the transactions is another
\* matter, by NoIncorrectBalance.)
OnlyRefundsIndebt ==
  (/\ history >= 0
   /\ ~\E i \in DOMAIN rows : rows[i].type = "REFUND") => CurrentBalance >= 0

\* No credits without a payment: every active top-up bears the key of a
\* payment that Stripe confirmed, and no payment is credited twice.
CreditedIsPaid ==
  \A i \in DOMAIN rows :
    rows[i].active /\ rows[i].type = "TOP_UP" =>
      /\ \/ \E s \in paid : rows[i].key = SessionIntent(s)
         \/ \E n \in 1..charges : rows[i].key = IntentKey(n)
      /\ \A j \in DOMAIN rows : rows[j].key = rows[i].key => j = i

\* A call that takes money from the card for an execution, or has taken it and
\* has not credited it yet.
Charging(t, e) ==
  /\ ~Idle(t) /\ call[t].op = "spend" /\ call[t].of = e
  /\ call[t].at \in {"charge", "enable", "enabling"}
  /\ ~Settled(call[t].pay)

\* However many blocks of one execution find the balance low at once, the
\* card is not charged for a second of them before the first charge has been
\* credited.
OneAutoTopUpAtATime ==
  \A e \in Execs : \A t, u \in Calls : Charging(t, e) /\ Charging(u, e) => t = u

\* A checkout the customer has paid is credited in the end, whichever of the
\* webhook and the user's own page gets to it, and whatever dies meanwhile;
\* unless the balance is so high that the column cannot hold the sum.
PaidIsCredited ==
  \A s \in Sessions :
    s \in paid ~> (Settled(SessionIntent(s)) \/ "overflow" \in disturbed)

\* "Avoid multiple auto top-ups within the same graph execution."
OneAutoTopUpPerExecution ==
  \A e \in Execs :
    \A i, j \in DOMAIN rows :
      (/\ rows[i].origin = AutoKey(e) /\ rows[i].active
       /\ rows[j].origin = AutoKey(e) /\ rows[j].active) => i = j
=============================================================================
