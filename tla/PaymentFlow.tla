----------------------------- MODULE PaymentFlow -----------------------------
(***************************************************************************)
(* Paying invoices, and deleting a payment: processPayment and             *)
(* deleteTransaction of users/invoices/invoices.service.ts, over the bank  *)
(* products, the balances and MikroWisp.                                   *)
(*                                                                         *)
(* A request goes through the bank first.  Money short of what was         *)
(* expected becomes a balance of the client; otherwise every invoice is    *)
(* paid at MikroWisp, with balance money where the client applied some,    *)
(* and recorded, all invoices side by side (Promise.all).  Nothing is      *)
(* undone when one of them fails: the request answers with the error and   *)
(* the other tasks run on.                                                 *)
(***************************************************************************)
EXTENDS Naturals, Sequences, FiniteSets, FiniteSetsExt

CONSTANTS
    Clients,
    Requests,       \* calls of processPayment; a request names its transaction
    Invoices,
    Deletions,      \* calls of deleteTransaction
    References,     \* references of Binance deposits
    Deposits,       \* what Binance holds under each, in cents
    Amounts,        \* the amounts the ledger is asked for
    Inputs          \* what clients may send: see Input

VARIABLES
    transactions, bank, charged,                                \* Bank
    balances, payments, movements, calls, spent, stale,         \* Ledger
    paid, posts, undone,                                        \* Manager
    requests,       \* the state of each call of processPayment
    tasks,          \* how far each of a request's invoices has got
    bankRows,       \* invoice_payments rows of type BANK_TRANSACTION, by task
    deletions       \* the state of each call of deleteTransaction

(* One task for each invoice of a request.                                 *)
Tasks == Requests \X Invoices

RequestOf(t) == t[1]
Invoice(t) == t[2]

(* exchangeRate is how much of the payment's currency a USD costs: 1 for a *)
(* payment in USD, as every Binance payment is.  Nothing keeps a request   *)
(* from naming no invoice.                                                 *)
Input == [client : Clients, product : {"VERIFICATION_API", "C2P"},
          reference : References, amount : Nat, expected : Nat, applied : Nat,
          rate : Nat \ {0}, invoices : SUBSET Invoices]

ASSUME FlowAssumption ==
    /\ Requests # {}
    /\ Deposits \in [References -> Nat]
    /\ References \cap Requests = {}
    /\ Inputs # {} /\ Inputs \subseteq Input
    /\ \A input \in Inputs : input.product = "VERIFICATION_API" => input.rate = 1

Bank == INSTANCE BankProducts WITH Charges <- {input.amount : input \in Inputs}

Ledger == INSTANCE BalanceLedger WITH Txns <- Requests, Calls <- Tasks

Manager == INSTANCE Mikrowisp WITH InvoiceOf <- [t \in Tasks |-> Invoice(t)],
                                   References <- References \cup Requests

bankVars == <<transactions, bank, charged>>
ledgerVars == <<balances, payments, movements, calls, spent, stale>>
managerVars == <<paid, posts, undone>>
flowVars == <<requests, tasks, bankRows, deletions>>

vars == <<transactions, bank, charged, balances, payments, movements, calls, spent,
          stale, paid, posts, undone, requests, tasks, bankRows, deletions>>

RequestInFlight == {"bank", "paying"}
RequestEnded == {"success", "partial", "refused", "insufficient", "failed", "crashed"}
DeletionInFlight == {"undoing"}
DeletionEnded == {"deleted", "notFound", "failed", "crashed"}

NoInput == CHOOSE input \in Inputs : TRUE

FlowTypeOK ==
    /\ requests \in [Requests -> [pc : {"idle"} \cup RequestInFlight \cup RequestEnded,
                                  input : Inputs]]
    /\ tasks \in [Tasks -> {"idle", "open", "done", "failed", "crashed"}]
    /\ bankRows \in SUBSET Tasks
    /\ deletions \in [Deletions -> [pc : {"idle"} \cup DeletionInFlight \cup DeletionEnded,
                                    txn : Requests, pending : SUBSET Invoices]]

TypeOK == Bank!BankTypeOK /\ Ledger!TypeOK /\ Manager!MikrowispTypeOK /\ FlowTypeOK

Init ==
    /\ Bank!BankInit /\ Ledger!Init /\ Manager!MikrowispInit
    /\ requests = [r \in Requests |-> [pc |-> "idle", input |-> NoInput]]
    /\ tasks = [t \in Tasks |-> "idle"]
    /\ bankRows = {}
    /\ deletions = [d \in Deletions |-> [pc |-> "idle", txn |-> CHOOSE r \in Requests : TRUE,
                                         pending |-> {}]]

-----------------------------------------------------------------------------

Sent(r) == requests[r].input

TasksOf(r) == {t \in Tasks : RequestOf(t) = r /\ Invoice(t) \in Sent(r).invoices}

TransactionExists(r) == Bank!TransactionsOf(r) # {}

(* roundToTwoDecimals of an amount divided by the exchange rate.           *)
ToUsd(amount, rate) == (2 * amount + rate) \div (2 * rate)

Received(r) == bank[r].amount

(* totalReceived < expectedAmount                                          *)
IsPartial(r) == Received(r) + Sent(r).applied < Sent(r).expected

(* verifyAvailableBalance compares with the applied amount unrounded.      *)
BalanceAvailable(r) ==
    LET total == MapThenSumSet(LAMBDA b : balances[b].current,
                               Ledger!ActiveBalances(Sent(r).client))
    IN  total * Sent(r).rate >= Sent(r).applied

(* The bank has confirmed the payment and the request goes on.             *)
Resumes(r) == requests[r].pc = "bank" /\ bank[r].pc = "confirmed"

Answer(r, pc) == requests' = [requests EXCEPT ![r].pc = pc]

(* A request starts: the user and the bank product are looked up, then the *)
(* product's processPayment is called.                                     *)
StartPayment(r, input) ==
    /\ requests[r].pc = "idle"
    /\ requests' = [requests EXCEPT ![r] = [pc |-> "bank", input |-> input]]
    /\ IF input.product = "VERIFICATION_API"
       THEN Bank!StartVerification(r, input.reference)
       ELSE Bank!StartCharge(r, input.amount)
    /\ UNCHANGED <<ledgerVars, managerVars, tasks, bankRows, deletions>>

(* The user does not exist, or the bank has no such product.               *)
LookupFails(r) ==
    /\ requests[r].pc = "idle"
    /\ Answer(r, "failed")
    /\ UNCHANGED <<bankVars, ledgerVars, managerVars, tasks, bankRows, deletions>>

BankWorks(r) ==
    /\ Bank!BankStep(r) \/ Bank!BankThrows(r)
    /\ UNCHANGED <<ledgerVars, managerVars, flowVars>>

(* Mutant: the status of the bank product is passed through.               *)
ReturnBankStatus(r) ==
    /\ requests[r].pc = "bank"
    /\ bank[r].pc \in {"duplicate", "refused"}
    /\ Answer(r, bank[r].pc)
    /\ UNCHANGED <<bankVars, ledgerVars, managerVars, tasks, bankRows, deletions>>

(* Not a success: what the bank product returned is the answer.            *)
ReturnRefusal(r) ==
    /\ requests[r].pc = "bank"
    /\ bank[r].pc \in {"duplicate", "refused"}
    /\ Answer(r, "refused")
    /\ UNCHANGED <<bankVars, ledgerVars, managerVars, tasks, bankRows, deletions>>

(* Every invoice's task starts, up to its first call of MikroWisp.         *)
BeginPaying(r) ==
    /\ Answer(r, "paying")
    /\ tasks' = [t \in Tasks |-> IF t \in TasksOf(r) THEN "open" ELSE tasks[t]]
    /\ Manager!StartPosts(TasksOf(r), bank[r].reference)

(* Mutant: no return after the balance is registered.                      *)
SettlePartialAndPay(r) ==
    LET received == ToUsd(Received(r), Sent(r).rate)
        expected == ToUsd(Sent(r).expected, Sent(r).rate)
    IN
    /\ Resumes(r)
    /\ IsPartial(r)
    /\ TransactionExists(r)
    /\ Ledger!RegisterBalance(Sent(r).client, r, received, expected)
    /\ BeginPaying(r)
    /\ UNCHANGED <<bankVars, bankRows, deletions>>

(* Short of the expected amount: registerAutomaticBalance with both        *)
(* amounts in USD, and the answer that the balance is registered.          *)
SettlePartial(r) ==
    LET received == ToUsd(Received(r), Sent(r).rate)
        expected == ToUsd(Sent(r).expected, Sent(r).rate)
    IN
    /\ Resumes(r)
    /\ IsPartial(r)
    /\ TransactionExists(r)
    /\ IF received < expected
       THEN Ledger!RegisterBalance(Sent(r).client, r, received, expected)
       ELSE UNCHANGED ledgerVars
    /\ Answer(r, "partial")
    /\ UNCHANGED <<bankVars, managerVars, tasks, bankRows, deletions>>

(* Enough: with balance applied, verifyAvailableBalance decides first.     *)
SettleFull(r) ==
    /\ Resumes(r)
    /\ ~IsPartial(r)
    /\ IF Sent(r).applied = 0 \/ BalanceAvailable(r)
       THEN BeginPaying(r)
       ELSE Answer(r, "insufficient") /\ UNCHANGED <<tasks, managerVars>>
    /\ UNCHANGED <<bankVars, ledgerVars, bankRows, deletions>>

(* The bank product threw; or, with the payment confirmed, the client has  *)
(* no profile or no network manager, or a query fails.                     *)
RequestThrows(r) ==
    /\ requests[r].pc = "bank"
    /\ bank[r].pc = "threw" \/ Resumes(r)
    /\ Answer(r, "failed")
    /\ UNCHANGED <<bankVars, ledgerVars, managerVars, tasks, bankRows, deletions>>

-----------------------------------------------------------------------------
(* One task: an invoice of a request.                                      *)

ManagerWorks(t) ==
    /\ Manager!PostStep(t)
    /\ UNCHANGED <<bankVars, ledgerVars, flowVars>>

(* applyBalanceToPayment is called with the whole applied amount for every *)
(* invoice.                                                                *)
ApplyBalance(t) ==
    LET input == Sent(RequestOf(t)) IN
    /\ tasks[t] = "open"
    /\ posts[t].pc = "answered"
    /\ input.applied > 0
    /\ Ledger!StartApply(t, input.client, ToUsd(input.applied, input.rate))
    /\ UNCHANGED <<bankVars, managerVars, flowVars>>

LedgerWorks(t) ==
    /\ Ledger!ApplyStep(t) \/ Ledger!FailApply(t)
    /\ UNCHANGED <<bankVars, managerVars, flowVars>>

(* Mutant: MikroWisp's error is caught and dropped.                         *)
ReadyAfterError(t) ==
    /\ tasks[t] = "open"
    /\ posts[t].pc \in {"answered", "threw"}
    /\ Sent(RequestOf(t)).applied = 0 \/ calls[t].pc = "applied"

ReadyToRecord(t) ==
    /\ tasks[t] = "open"
    /\ posts[t].pc = "answered"
    /\ Sent(RequestOf(t)).applied = 0 \/ calls[t].pc = "applied"

(* Mutant: no foreign key on transaction_id.                               *)
RecordWithoutKey(t) ==
    /\ ReadyToRecord(t)
    /\ bankRows' = bankRows \cup {t}
    /\ tasks' = [tasks EXCEPT ![t] = "done"]
    /\ UNCHANGED <<bankVars, ledgerVars, managerVars, requests, deletions>>

(* invoice_payments.create; the transaction must exist (foreign key).      *)
RecordPayment(t) ==
    /\ ReadyToRecord(t)
    /\ TransactionExists(RequestOf(t))
    /\ bankRows' = bankRows \cup {t}
    /\ tasks' = [tasks EXCEPT ![t] = "done"]
    /\ UNCHANGED <<bankVars, ledgerVars, managerVars, requests, deletions>>

(* Mutant: an error of applyBalanceToPayment never comes back.             *)
TaskHangs(t) ==
    /\ tasks[t] = "open"
    /\ posts[t].pc = "threw" \/ ReadyToRecord(t)
    /\ tasks' = [tasks EXCEPT ![t] = "failed"]
    /\ UNCHANGED <<bankVars, ledgerVars, managerVars, requests, bankRows, deletions>>

TaskThrows(t) ==
    /\ tasks[t] = "open"
    /\ \/ posts[t].pc = "threw"
       \/ calls[t].pc \in {"noBalance", "insufficient", "failed"}
       \/ ReadyToRecord(t)
    /\ tasks' = [tasks EXCEPT ![t] = "failed"]
    /\ UNCHANGED <<bankVars, ledgerVars, managerVars, requests, bankRows, deletions>>

(* Mutant: Promise.any.                                                    *)
ReturnFirstSuccess(r) ==
    /\ requests[r].pc = "paying"
    /\ \E t \in TasksOf(r) : tasks[t] = "done"
    /\ Answer(r, "success")
    /\ UNCHANGED <<bankVars, ledgerVars, managerVars, tasks, bankRows, deletions>>

(* Promise.all: all of the tasks, or the first that throws.                *)
ReturnSuccess(r) ==
    /\ requests[r].pc = "paying"
    /\ \A t \in TasksOf(r) : tasks[t] = "done"
    /\ Answer(r, "success")
    /\ UNCHANGED <<bankVars, ledgerVars, managerVars, tasks, bankRows, deletions>>

ReturnFailure(r) ==
    /\ requests[r].pc = "paying"
    /\ \E t \in TasksOf(r) : tasks[t] = "failed"
    /\ Answer(r, "failed")
    /\ UNCHANGED <<bankVars, ledgerVars, managerVars, tasks, bankRows, deletions>>

-----------------------------------------------------------------------------
(* deleteTransaction.                                                      *)

(* The invoices of a transaction's invoice_payments, of either type.       *)
InvoicesOf(r) ==
    {Invoice(t) : t \in {u \in bankRows : RequestOf(u) = r}}
        \cup {Invoice(p.call) : p \in {q \in payments : q.txn = r}}

(* Mutant: the foreign keys cascade.                                       *)
NeverReferenced(r) == FALSE

(* Foreign keys without a cascade: a client_balance keeps its transaction, *)
(* a balance_movement its invoice_payments row.                            *)
Referenced(r) ==
    \/ \E b \in DOMAIN balances : balances[b].txn = r
    \/ \E m \in movements, p \in payments :
          p.txn = r /\ p.call = m.call /\ p.balance = m.balance

(* The transaction is read with its payments; without any it is not found. *)
StartDeletion(d, r) ==
    /\ deletions[d].pc = "idle"
    /\ deletions' = [deletions EXCEPT ![d] =
          IF TransactionExists(r) /\ InvoicesOf(r) # {}
          THEN [pc |-> "undoing", txn |-> r, pending |-> InvoicesOf(r)]
          ELSE [pc |-> "notFound", txn |-> r, pending |-> {}]]
    /\ UNCHANGED <<bankVars, ledgerVars, managerVars, requests, tasks, bankRows>>

(* One DeleteTransaccion per payment read, side by side: one that fails,   *)
(* whether or not MikroWisp carried it out, rejects the whole, while the   *)
(* others run on.                                                          *)
UndoPayment(d, i) ==
    /\ i \in deletions[d].pending
    /\ \/ /\ Manager!UndoInvoice(i)
          /\ deletions' = [deletions EXCEPT ![d].pending = @ \ {i}]
       \/ /\ Manager!UndoInvoice(i) \/ UNCHANGED managerVars
          /\ deletions' = [deletions EXCEPT ![d].pending = @ \ {i}, ![d].pc = "failed"]
    /\ UNCHANGED <<bankVars, ledgerVars, requests, tasks, bankRows>>

(* Mutant: a transaction that is gone already is waited for.               *)
EraseWaits(d) ==
    LET r == deletions[d].txn IN
    /\ deletions[d].pc = "undoing"
    /\ deletions[d].pending = {}
    /\ TransactionExists(r)
    /\ bankRows' = {t \in bankRows : RequestOf(t) # r}
    /\ transactions' = transactions \ Bank!TransactionsOf(r)
    /\ deletions' = [deletions EXCEPT ![d].pc = "deleted"]
    /\ UNCHANGED <<bank, charged, ledgerVars, managerVars, requests, tasks>>

(* Then both deletes in one DB transaction, which a foreign key, a row     *)
(* already gone or the database itself can refuse.                         *)
EraseLocally(d) ==
    LET r == deletions[d].txn IN
    /\ deletions[d].pc = "undoing"
    /\ deletions[d].pending = {}
    /\ \/ /\ TransactionExists(r)
          /\ ~Referenced(r)
          /\ bankRows' = {t \in bankRows : RequestOf(t) # r}
          /\ transactions' = transactions \ Bank!TransactionsOf(r)
          /\ deletions' = [deletions EXCEPT ![d].pc = "deleted"]
       \/ /\ deletions' = [deletions EXCEPT ![d].pc = "failed"]
          /\ UNCHANGED <<transactions, bankRows>>
    /\ UNCHANGED <<bank, charged, ledgerVars, managerVars, requests, tasks>>

-----------------------------------------------------------------------------

(* The process dies with everything it had in memory; nothing in the code  *)
(* takes any of it up again after a restart.                               *)
Crash ==
    /\ \/ \E r \in Requests : requests[r].pc \in RequestInFlight
       \/ \E t \in Tasks : tasks[t] = "open"
       \/ \E d \in Deletions : deletions[d].pending # {} \/ deletions[d].pc = "undoing"
    /\ Bank!BankCrash
    /\ IF \E t \in Tasks : calls[t].pc \in Ledger!InFlight
       THEN Ledger!Crash ELSE UNCHANGED ledgerVars
    /\ Manager!MikrowispCrash
    /\ requests' = [r \in Requests |-> IF requests[r].pc \in RequestInFlight
                                       THEN [requests[r] EXCEPT !.pc = "crashed"]
                                       ELSE requests[r]]
    /\ tasks' = [t \in Tasks |-> IF tasks[t] = "open" THEN "crashed" ELSE tasks[t]]
    /\ deletions' = [d \in Deletions |->
          [deletions[d] EXCEPT !.pending = {},
                               !.pc = IF @ = "undoing" THEN "crashed" ELSE @]]
    /\ UNCHANGED bankRows

RequestStep(r) ==
    \/ BankWorks(r) \/ ReturnRefusal(r) \/ SettlePartial(r) \/ SettleFull(r)
    \/ RequestThrows(r) \/ ReturnSuccess(r) \/ ReturnFailure(r)

TaskStep(t) ==
    \/ ManagerWorks(t) \/ ApplyBalance(t) \/ LedgerWorks(t)
    \/ RecordPayment(t) \/ TaskThrows(t)

DeletionStep(d) == EraseLocally(d) \/ \E i \in Invoices : UndoPayment(d, i)

Next ==
    \/ \E r \in Requests :
          (\E input \in Inputs : StartPayment(r, input)) \/ LookupFails(r) \/ RequestStep(r)
    \/ \E t \in Tasks : TaskStep(t)
    \/ \E d \in Deletions : (\E r \in Requests : StartDeletion(d, r)) \/ DeletionStep(d)
    \/ Crash

Spec == Init /\ [][Next]_vars

(* The banks and MikroWisp answer or the connection fails, the database    *)
(* serves, and the event loop goes on.                                     *)
Fairness ==
    /\ \A r \in Requests : WF_vars(RequestStep(r))
    /\ \A t \in Tasks : WF_vars(TaskStep(t))
    /\ \A d \in Deletions : WF_vars(DeletionStep(d))

FairSpec == Spec /\ Fairness

-----------------------------------------------------------------------------
(***************************************************************************)
(* Properties                                                              *)
(***************************************************************************)

(* A request answers success only when all of it is settled: the bank's    *)
(* SUCCESS transaction, every invoice paid at MikroWisp and recorded, and  *)
(* the applied balance drawn for each of them, until a deletion takes      *)
(* invoices back or removes the transaction.                               *)
SuccessIsSettled ==
    \A r \in Requests : requests[r].pc = "success" => \A t \in TasksOf(r) :
        /\ Invoice(t) \in undone \/ Manager!IsPaidBy(t)
        /\ TransactionExists(r) => t \in bankRows
        /\ Sent(r).applied > 0 =>
              Ledger!Total({p \in payments : p.call = t})
                  = ToUsd(Sent(r).applied, Sent(r).rate)

(* The local books never run ahead of the network manager: an invoice      *)
(* recorded as paid, by the bank's money or by a balance, was paid at      *)
(* MikroWisp, until a deletion undoes that invoice.                        *)
RecordedIsPaid ==
    \A t \in bankRows \cup {p.call : p \in payments} :
        Invoice(t) \in undone \/ Manager!IsPaidBy(t)

(* The money of one transaction is used once: as invoice payments or as a  *)
(* balance, never as both, and only if the bank confirmed it.              *)
MoneyHasOneUse ==
    \A r \in Requests :
        LET paysInvoices == \E t \in bankRows : RequestOf(t) = r
            fundsBalance == {b \in DOMAIN balances : balances[b].txn = r}
        IN  /\ ~(paysInvoices /\ fundsBalance # {})
            /\ Cardinality(fundsBalance) <= 1
            /\ \A b \in fundsBalance :
                  /\ balances[b].initial = ToUsd(Received(r), Sent(r).rate)
                  /\ balances[b].client = Sent(r).client

(* No deletion leaves a row behind that points to nothing: whatever is     *)
(* paid with, or drawn from, a transaction's money keeps the transaction.  *)
NothingDangles ==
    /\ \A t \in bankRows : TransactionExists(RequestOf(t))
    /\ \A b \in DOMAIN balances : TransactionExists(balances[b].txn)
    /\ \A p \in payments : TransactionExists(p.txn)

(* Where the money of a request is.                                        *)
Money(r) ==
    IF bank[r].pc # "confirmed" THEN "none"
    ELSE IF ~TransactionExists(r) THEN "deleted"
    ELSE IF \E b \in DOMAIN balances : balances[b].txn = r THEN "balance"
    ELSE IF \E t \in bankRows : RequestOf(t) = r THEN "invoices"
    ELSE "bank"

Contract == INSTANCE PaymentContract WITH
    money  <- [r \in Requests |-> Money(r)],
    answer <- [r \in Requests |-> IF requests[r].pc \in RequestEnded
                                  THEN requests[r].pc ELSE "open"],
    forNothing <- {r \in Requests : bank[r].pc # "idle" /\ Sent(r).invoices = {}}

(* processPayment and deleteTransaction, whatever fails under them and     *)
(* however they interleave, keep the contract of a payment: the money goes *)
(* one way, from the bank into invoices or a balance, and only money spent *)
(* on invoices is lost with a deleted transaction.                         *)
KeepsContract == Contract!ContractSpec

(* processPayment and deleteTransaction always answer, unless the process  *)
(* dies first.                                                             *)
RequestsAnswered ==
    \A r \in Requests : requests[r].pc \in RequestInFlight ~> requests[r].pc \in RequestEnded

DeletionsAnswered ==
    \A d \in Deletions :
        deletions[d].pc \in DeletionInFlight ~> deletions[d].pc \in DeletionEnded

(* "Retornar respuesta indicando pago parcial y saldo registrado": every   *)
(* request answered as a registered partial payment has its balance.       *)
PartialIsRegistered ==
    \A r \in Requests : requests[r].pc = "partial" =>
        \E b \in DOMAIN balances : balances[b].txn = r

(* "Eliminar una transacción y sus pagos asociados": once a transaction is *)
(* deleted MikroWisp holds no payment made with it.                        *)
DeletedIsUndone ==
    \A d \in Deletions : deletions[d].pc = "deleted" =>
        \A p \in paid : RequestOf(p.task) # deletions[d].txn

=============================================================================
