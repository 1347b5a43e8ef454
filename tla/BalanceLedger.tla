---------------------------- MODULE BalanceLedger ----------------------------
(***************************************************************************)
(* The balances a client holds after partial payments, and the concurrent  *)
(* calls that spend them: automatic-balance-registration.service.ts over   *)
(* the tables client_balance, balance_movement and the BALANCE rows of     *)
(* invoice_payments.                                                       *)
(*                                                                         *)
(* Amounts are naturals: cents of a USD, which is what every amount is     *)
(* after roundToTwoDecimals or toFixed(2).  A step is what happens between *)
(* two awaits; a DB transaction runs at PostgreSQL's default isolation,    *)
(* READ COMMITTED, so a row it has updated stays locked until it ends and  *)
(* nobody reads its writes before it commits.                              *)
(***************************************************************************)
EXTENDS Naturals, Sequences, FiniteSets, FiniteSetsExt

CONSTANTS
    Clients,        \* client_profile ids
    Txns,           \* ids of the bank transactions that fund balances
    Calls,          \* invocations of applyBalanceToPayment, one per paid invoice
    Amounts         \* the amounts, in cents, a request can name

ASSUME LedgerAssumption == Clients # {} /\ Amounts \subseteq Nat

VARIABLES
    (***********************************************************************)
    (* Tables                                                              *)
    (***********************************************************************)
    balances,       \* client_balance, oldest first: the row id is its index
    payments,       \* invoice_payments rows of type BALANCE
    movements,      \* balance_movement rows

    (***********************************************************************)
    (* The invocations in flight                                           *)
    (***********************************************************************)
    calls,

    (***********************************************************************)
    (* History variables: what the tables cannot tell                      *)
    (***********************************************************************)
    spent,          \* per balance, the total committed calls have drawn
    stale           \* balances overwritten from an outdated snapshot

tables  == <<balances, payments, movements>>
history == <<spent, stale>>
vars    == <<balances, payments, movements, calls, spent, stale>>

Statuses == {"AVAILABLE", "PARTIALLY_USED", "DEPLETED"}
Active   == {"AVAILABLE", "PARTIALLY_USED"}

Balance == [client : Clients, txn : Txns, initial : Nat, current : Nat,
            status : Statuses]

Payment == [call : Calls, balance : Nat, txn : Txns, amount : Nat]

Movement == [call : Calls, balance : Nat, used : Nat, remaining : Nat]

Idle     == "idle"
InFlight == {"reading", "applying"}
Ended    == {"applied", "noBalance", "insufficient", "failed", "crashed"}

(***************************************************************************)
(* One invocation.  plan holds the balances of the snapshot still to be    *)
(* visited, used those already drawn on; seen is the current_amount the    *)
(* snapshot holds and take the amount the open transaction draws.          *)
(***************************************************************************)
Call == [pc : {Idle} \cup InFlight \cup Ended, client : Clients,
         amount : Nat, left : Nat,
         plan : SUBSET Nat, used : SUBSET Nat,
         seen : Seq(Nat), take : Seq(Nat)]

TypeOK ==
    /\ balances \in Seq(Balance)
    /\ payments \in SUBSET Payment
    /\ movements \in SUBSET Movement
    /\ calls \in [Calls -> Call]
    /\ spent \in Seq(Nat)
    /\ stale \in SUBSET Nat

-----------------------------------------------------------------------------

(* Mutant: Math.min forgotten.                                             *)
AllThatIsAsked(a, b) == b

Lesser(a, b) == IF a <= b THEN a ELSE b

BalanceIds == DOMAIN balances

(* Mutant: the filter by client_profile_id forgotten.                      *)
AnyonesBalances(client) == {b \in BalanceIds : balances[b].status \in Active}

(* What findMany selects: the active balances of the client.               *)
ActiveBalances(client) ==
    {b \in BalanceIds : balances[b].client = client /\ balances[b].status \in Active}

(* Mutants: created_at descending, and no orderBy at all.                  *)
Newest(ids) == {b \in ids : \A o \in ids : o <= b}

InAnyOrder(ids) == ids

(* The order findMany returns them in: created_at ascending.               *)
Oldest(ids) == {b \in ids : \A o \in ids : b <= o}

(* A balance row is locked by the transaction that has updated it.         *)
Locked(b) == \E c \in Calls : calls[c].pc = "applying" /\ b \in calls[c].used

(* Mutant: a balance that has been used is closed, whatever it still holds. *)
ClosedByUse(remaining) == "DEPLETED"

StatusAfter(remaining) == IF remaining = 0 THEN "DEPLETED" ELSE "PARTIALLY_USED"

Remaining(call, b) == call.seen[b] - call.take[b]

-----------------------------------------------------------------------------

InitialCall(c) == [pc |-> Idle, client |-> CHOOSE cl \in Clients : TRUE,
                   amount |-> 0, left |-> 0, plan |-> {}, used |-> {},
                   seen |-> << >>, take |-> << >>]

(* An invocation returns or throws: its locals are gone.                   *)
Finished(call, pc) == [call EXCEPT !.pc = pc, !.left = 0, !.plan = {}, !.used = {},
                                   !.seen = << >>, !.take = << >>]

Init ==
    /\ balances = << >>
    /\ payments = {}
    /\ movements = {}
    /\ calls = [c \in Calls |-> InitialCall(c)]
    /\ spent = << >>
    /\ stale = {}

(***************************************************************************)
(* registerAutomaticBalance, when the rounded amount received is less than *)
(* the rounded amount expected; otherwise it writes nothing.  A            *)
(* transaction is offered to it at most once: it is called with the        *)
(* transaction its own request has just created.                           *)
(***************************************************************************)
RegisterBalance(client, txn, received, expected) ==
    /\ \A b \in BalanceIds : balances[b].txn # txn
    /\ received < expected
    /\ balances' = Append(balances,
                          [client |-> client, txn |-> txn, initial |-> received,
                           current |-> received, status |-> "AVAILABLE"])
    /\ spent' = Append(spent, 0)
    /\ UNCHANGED <<payments, movements, calls, stale>>

(* A call of applyBalanceToPayment starts.                                 *)
StartApply(c, client, amount) ==
    /\ calls[c].pc = Idle
    /\ calls' = [calls EXCEPT ![c].pc = "reading", ![c].client = client,
                              ![c].amount = amount, ![c].left = amount]
    /\ UNCHANGED <<tables, history>>

(***************************************************************************)
(* The snapshot: findMany runs before the transaction is opened, and the   *)
(* transaction works on what it returned.                                  *)
(***************************************************************************)
ReadBalances(c) ==
    LET active == ActiveBalances(calls[c].client) IN
    /\ calls[c].pc = "reading"
    /\ calls' = [calls EXCEPT ![c] =
                    IF active = {}
                    THEN Finished(@, "noBalance")
                    ELSE [@ EXCEPT !.pc = "applying", !.plan = active,
                            !.seen = [b \in BalanceIds |-> balances[b].current],
                            !.take = [b \in BalanceIds |-> 0]]]
    /\ UNCHANGED <<tables, history>>

(***************************************************************************)
(* One turn of the loop: insert the payment and the movement, update the   *)
(* balance.  The update waits for the row's lock.  All three stay in the   *)
(* open transaction.                                                       *)
(***************************************************************************)
UseBalance(c, b) ==
    LET amountToUse == Lesser(calls[c].seen[b], calls[c].left) IN
    /\ calls[c].pc = "applying"
    /\ calls[c].left > 0
    /\ b \in Oldest(calls[c].plan)
    /\ ~Locked(b)
    /\ calls' = [calls EXCEPT ![c].plan = @ \ {b},
                              ![c].used = @ \cup {b},
                              ![c].take[b] = amountToUse,
                              ![c].left = @ - amountToUse]
    /\ UNCHANGED <<tables, history>>

(* The rows a transaction has inserted.                                    *)
PaymentsOf(c) ==
    {[call |-> c, balance |-> b, txn |-> balances[b].txn,
      amount |-> calls[c].take[b]] : b \in calls[c].used}

(* Mutant: the remaining_balance recorded is what is left to apply.        *)
MovementsOfAmount(c) ==
    {[call |-> c, balance |-> b, used |-> calls[c].take[b],
      remaining |-> calls[c].left] : b \in calls[c].used}

MovementsOf(c) ==
    {[call |-> c, balance |-> b, used |-> calls[c].take[b],
      remaining |-> Remaining(calls[c], b)] : b \in calls[c].used}

(* Mutant: the status is updated, current_amount is not.                   *)
StatusWritten(c) ==
    [b \in BalanceIds |->
        IF b \in calls[c].used
        THEN [balances[b] EXCEPT !.status = StatusAfter(Remaining(calls[c], b))]
        ELSE balances[b]]

(* The balance rows after it: an absolute write of snapshot minus use.     *)
Written(c) ==
    [b \in BalanceIds |->
        IF b \in calls[c].used
        THEN [balances[b] EXCEPT !.current = Remaining(calls[c], b),
                                 !.status = StatusAfter(Remaining(calls[c], b))]
        ELSE balances[b]]

(* The loop ends with nothing left to apply: the transaction commits.      *)
CommitApply(c) ==
    /\ calls[c].pc = "applying"
    /\ calls[c].left = 0
    /\ balances' = Written(c)
    /\ payments' = payments \cup PaymentsOf(c)
    /\ movements' = movements \cup MovementsOf(c)
    /\ calls' = [calls EXCEPT ![c] = Finished(@, "applied")]
    /\ spent' = [b \in DOMAIN spent |->
                    IF b \in calls[c].used THEN spent[b] + calls[c].take[b]
                                           ELSE spent[b]]
    /\ stale' = stale \cup {b \in calls[c].used : balances[b].current # calls[c].seen[b]}

(* Mutant: the shortage is noticed after the commit.                       *)
RefuseTooLate(c) ==
    /\ calls[c].pc = "applying"
    /\ calls[c].left > 0
    /\ calls[c].plan = {}
    /\ balances' = Written(c)
    /\ payments' = payments \cup PaymentsOf(c)
    /\ movements' = movements \cup MovementsOf(c)
    /\ calls' = [calls EXCEPT ![c] = Finished(@, "insufficient")]
    /\ UNCHANGED history

(* The loop runs out of balances first: it throws and all is rolled back.  *)
RefuseApply(c) ==
    /\ calls[c].pc = "applying"
    /\ calls[c].left > 0
    /\ calls[c].plan = {}
    /\ calls' = [calls EXCEPT ![c] = Finished(@, "insufficient")]
    /\ UNCHANGED <<tables, history>>

(* Mutant: the draws are given back by hand after the rollback.            *)
FailGivesBack(c) ==
    /\ calls[c].pc \in InFlight
    /\ balances' = [b \in BalanceIds |->
          IF b \in calls[c].used
          THEN [balances[b] EXCEPT !.current = balances[b].current + calls[c].take[b]]
          ELSE balances[b]]
    /\ calls' = [calls EXCEPT ![c] = Finished(@, "failed")]
    /\ UNCHANGED <<payments, movements, history>>

(***************************************************************************)
(* The database refuses: the read or a statement fails, or the interactive *)
(* transaction runs into its time limit.  Everything is rolled back.       *)
(***************************************************************************)
FailApply(c) ==
    /\ calls[c].pc \in InFlight
    /\ calls' = [calls EXCEPT ![c] = Finished(@, "failed")]
    /\ UNCHANGED <<tables, history>>

(* The process dies: every call in flight is lost, its transaction undone. *)
Crash ==
    /\ \E c \in Calls : calls[c].pc \in InFlight
    /\ calls' = [c \in Calls |-> IF calls[c].pc \in InFlight
                                 THEN Finished(calls[c], "crashed")
                                 ELSE calls[c]]
    /\ UNCHANGED <<tables, history>>

ApplyStep(c) ==
    \/ ReadBalances(c)
    \/ \E b \in BalanceIds : UseBalance(c, b)
    \/ CommitApply(c)
    \/ RefuseApply(c)

Next ==
    \/ \E client \in Clients, txn \in Txns, received, expected \in Amounts :
          RegisterBalance(client, txn, received, expected)
    \/ \E c \in Calls, client \in Clients, amount \in Amounts : StartApply(c, client, amount)
    \/ \E c \in Calls : ApplyStep(c) \/ FailApply(c)
    \/ Crash

Spec == Init /\ [][Next]_vars

(* The event loop and the database serve every call that can go on.        *)
Fairness == \A c \in Calls : WF_vars(ApplyStep(c))

FairSpec == Spec /\ Fairness

-----------------------------------------------------------------------------
(***************************************************************************)
(* Properties                                                              *)
(***************************************************************************)

(* Whatever the calls do to each other, a balance stays between zero and   *)
(* what was received for it, and its status tells which: applyBalance-     *)
(* ToPayment picks balances by status alone, so a wrong one would hide     *)
(* money or offer an empty balance.                                        *)
StatusTellsAmount ==
    \A b \in BalanceIds :
        /\ balances[b].current <= balances[b].initial
        /\ balances[b].status = "AVAILABLE" => balances[b].current = balances[b].initial
        /\ balances[b].status = "PARTIALLY_USED" => balances[b].current > 0
        /\ balances[b].status = "DEPLETED" => balances[b].current = 0

(* Money is conserved on every balance that no call has overwritten from   *)
(* an outdated snapshot: what it holds plus what committed calls drew is   *)
(* what was received.  Rolled back, failed and crashed calls drew nothing. *)
Conserved ==
    \A b \in BalanceIds \ stale :
        balances[b].current + spent[b] = balances[b].initial

(* Every movement has its BALANCE payment and every such payment its       *)
(* movement, for the same amount, booked on the transaction that funded    *)
(* the balance, and only ever on a balance of the paying client.           *)
RowsPaired ==
    /\ \A m \in movements : \E p \in payments :
          p.call = m.call /\ p.balance = m.balance /\ p.amount = m.used
    /\ \A p \in payments : \E m \in movements :
          m.call = p.call /\ m.balance = p.balance /\ m.used = p.amount
    /\ \A p \in payments :
          /\ p.balance \in BalanceIds
          /\ p.txn = balances[p.balance].txn
          /\ balances[p.balance].client = calls[p.call].client

(* What BALANCE rows of invoice_payments come to.                          *)
Total(rows) == MapThenSumSet(LAMBDA p : p.amount, rows)

(* What a call leaves in the tables: its whole amount once it has          *)
(* returned, and nothing if it is in flight, was refused, failed or was    *)
(* cut off by a crash.                                                     *)
AllOrNothing ==
    \A c \in Calls :
        LET rows == {p \in payments : p.call = c} IN
        IF calls[c].pc = "applied"
        THEN Total(rows) = calls[c].amount
        ELSE rows = {}

(* A call empties the older balance before it touches a newer one ("los    *)
(* más antiguos" first): of the movements of a call only the newest may    *)
(* leave money behind.                                                     *)
OldestFirst ==
    \A m, n \in movements :
        m.call = n.call /\ m.balance < n.balance => m.remaining = 0

(* The movements of a balance form a trail: each starts from the amount    *)
(* received or from what another one left, as long as no outdated          *)
(* snapshot was written over the balance.                                  *)
MovementsChain ==
    \A m \in movements : m.balance \notin stale =>
        LET before == m.used + m.remaining IN
        \/ before = balances[m.balance].initial
        \/ \E n \in movements : n.call # m.call /\ n.balance = m.balance /\ n.remaining = before

(* A balance is only ever drawn down and a DEPLETED one stays so: the one  *)
(* step that can raise it is a commit whose snapshot was outdated.         *)
OnlyDrawnDown ==
    [][\A b \in BalanceIds :
          balances'[b].current > balances[b].current => b \in stale']_vars

(* Calls that wait for each other's balance rows never wait in a circle:   *)
(* every call that has started returns, throws or dies with the process.   *)
CallsEnd == \A c \in Calls : calls[c].pc \in InFlight ~> calls[c].pc \in Ended

(* "cuánto podemos usar de este saldo específico": calls never draw more   *)
(* from a balance than was received for it.                                *)
NoOverspend == \A b \in BalanceIds : spent[b] <= balances[b].initial

-----------------------------------------------------------------------------
(***************************************************************************)
(* The account behind the rows.                                            *)
(***************************************************************************)

(* What amounts come to over some balances.                                *)
Worth(ids, amounts) == Total({[balance |-> b, amount |-> amounts[b]] : b \in ids})

(* What findMany offers of a client's money.                               *)
Held(client) == Worth(ActiveBalances(client), [b \in BalanceIds |-> balances[b].current])

(* The balances a call has not visited yet will not do.                    *)
Short(call) == call.pc = "applying" /\ Worth(call.plan, call.seen) < call.left

(* Since the snapshot of a call another one has changed a balance in it.   *)
Overtaken(call) ==
    /\ call.pc = "applying"
    /\ \E b \in DOMAIN call.seen :
          balances[b].client = call.client /\ balances[b].current # call.seen[b]

AnswerOf(call) ==
    CASE call.pc = Idle                          -> "none"
      [] call.pc \in InFlight                    -> IF Short(call) THEN "short" ELSE "asked"
      [] call.pc = "applied"                     -> "paid"
      [] call.pc \in {"noBalance", "insufficient"} -> "refused"
      [] call.pc \in {"failed", "crashed"}       -> "failed"

AccountsHeld   == [client \in Clients |-> Held(client)]
Asked          == [c \in Calls |-> [client |-> calls[c].client, amount |-> calls[c].amount]]
AnswersGiven   == [c \in Calls |-> AnswerOf(calls[c])]
Booked         == [c \in Calls |-> Total({p \in payments : p.call = c})]
OvertakenCalls == {c \in Calls : Overtaken(calls[c])}

Account == INSTANCE BalanceAccount WITH
    account <- AccountsHeld, request <- Asked, answer <- AnswersGiven, booked <- Booked,
    overtaken <- OvertakenCalls

(* For the client the rows are one account.  A call is refused for lack of *)
(* money only if there was too little when it looked, even if there is     *)
(* more by the time it throws; if it returns it has taken what it asked    *)
(* for, from no other client; and what is not in the account any more has  *)
(* been booked, unless another payment of the client came in between.      *)
KeepsAccount == Account!AccountSpec

=============================================================================
