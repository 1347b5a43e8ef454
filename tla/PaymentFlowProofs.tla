-------------------------- MODULE PaymentFlowProofs --------------------------
(***************************************************************************)
(* What PaymentFlow guarantees for every set of clients, requests,         *)
(* invoices, deletions and inputs: its types, that the local books never   *)
(* run ahead of the network manager, that money has one use and that no    *)
(* row is left dangling.                                                   *)
(***************************************************************************)
EXTENDS PaymentFlow, FiniteSetTheorems, TLAPS

(* What is proved of the components.  Of the amounts they are asked for    *)
(* nothing is used but that they are naturals.                             *)
BankProof == INSTANCE BankProductsProofs WITH Charges <- Nat

LedgerProof == INSTANCE BalanceLedgerProofs WITH Txns <- Requests, Calls <- Tasks,
                                                 Amounts <- Nat

ManagerProof == INSTANCE WisphubProofs WITH InvoiceOf <- [t \in Tasks |-> Invoice(t)],
                                            References <- References \cup Requests,
                                            manager <- "MIKROWISP"

ComponentsInv ==
    /\ BankProof!FundedInv
    /\ LedgerProof!LedgerInv /\ LedgerProof!RowsInv /\ LedgerProof!AmountsInv
    /\ ManagerProof!ManagerInv

-----------------------------------------------------------------------------
(***************************************************************************)
(* The components' operations are the ones their theorems are about.       *)
(***************************************************************************)

LEMMA SameBank ==
  /\ Bank!BankInit <=> BankProof!BankInit
  /\ Bank!BankTypeOK <=> BankProof!BankTypeOK
  /\ Bank!BankInFlight = BankProof!BankInFlight
  /\ Bank!BankCrash <=> BankProof!BankCrash
  /\ \A r : Bank!TransactionsOf(r) = BankProof!TransactionsOf(r)
  /\ \A r, reference :
        Bank!StartVerification(r, reference) <=> BankProof!StartVerification(r, reference)
  /\ \A r, amount : Bank!StartCharge(r, amount) <=> BankProof!StartCharge(r, amount)
  /\ \A r : Bank!BankStep(r) \/ Bank!BankThrows(r) <=>
               BankProof!BankStep(r) \/ BankProof!BankThrows(r)
  <1> USE DEF Bank!BankInFlight, BankProof!BankInFlight, Bank!BankEnded, BankProof!BankEnded,
              Bank!NoReference, BankProof!NoReference
  <1>1. Bank!BankInit <=> BankProof!BankInit
    BY DEF Bank!BankInit, BankProof!BankInit
  <1>2. Bank!BankTypeOK <=> BankProof!BankTypeOK
    BY DEF Bank!BankTypeOK, BankProof!BankTypeOK, Bank!BankCall, BankProof!BankCall,
           Bank!Transaction, BankProof!Transaction, Bank!AllReferences,
           BankProof!AllReferences
  <1>3. Bank!BankCrash <=> BankProof!BankCrash
    BY DEF Bank!BankCrash, BankProof!BankCrash
  <1>4. \A r : Bank!TransactionsOf(r) = BankProof!TransactionsOf(r)
    BY DEF Bank!TransactionsOf, BankProof!TransactionsOf
  <1>5. \A r, reference :
           Bank!StartVerification(r, reference) <=> BankProof!StartVerification(r, reference)
    BY DEF Bank!StartVerification, BankProof!StartVerification
  <1>6. \A r, amount : Bank!StartCharge(r, amount) <=> BankProof!StartCharge(r, amount)
    BY DEF Bank!StartCharge, BankProof!StartCharge
  <1>7. ASSUME NEW r
        PROVE  Bank!BankStep(r) \/ Bank!BankThrows(r) <=>
                  BankProof!BankStep(r) \/ BankProof!BankThrows(r)
    <2>1. Bank!CheckDuplicate(r) <=> BankProof!CheckDuplicate(r)
      BY DEF Bank!CheckDuplicate, BankProof!CheckDuplicate, Bank!Credits, BankProof!Credits
    <2>2. Bank!AskHistory(r) <=> BankProof!AskHistory(r)
      BY DEF Bank!AskHistory, BankProof!AskHistory
    <2>3. Bank!ChargeAccepted(r) <=> BankProof!ChargeAccepted(r)
      BY DEF Bank!ChargeAccepted, BankProof!ChargeAccepted
    <2>4. Bank!ChargeFailed(r) <=> BankProof!ChargeFailed(r)
      BY DEF Bank!ChargeFailed, BankProof!ChargeFailed
    <2>5. Bank!VerifyThrows(r) <=> BankProof!VerifyThrows(r)
      BY DEF Bank!VerifyThrows, BankProof!VerifyThrows
    <2>6. Bank!RecordSuccess(r) <=> BankProof!RecordSuccess(r)
      BY DEF Bank!RecordSuccess, BankProof!RecordSuccess
    <2>7. Bank!RecordFailure(r) <=> BankProof!RecordFailure(r)
      BY DEF Bank!RecordFailure, BankProof!RecordFailure
    <2>8. Bank!BankThrows(r) <=> BankProof!BankThrows(r)
      BY DEF Bank!BankThrows, BankProof!BankThrows
    <2> QED
      BY <2>1, <2>2, <2>3, <2>4, <2>5, <2>6, <2>7, <2>8 DEF Bank!BankStep, BankProof!BankStep
  <1> QED
    BY <1>1, <1>2, <1>3, <1>4, <1>5, <1>6, <1>7

LEMMA SameLedger ==
  /\ Ledger!Init <=> LedgerProof!Init
  /\ Ledger!TypeOK <=> LedgerProof!TypeOK
  /\ Ledger!InFlight = LedgerProof!InFlight
  /\ Ledger!Crash <=> LedgerProof!Crash
  /\ \A client, txn, received, expected :
        Ledger!RegisterBalance(client, txn, received, expected) <=>
           LedgerProof!RegisterBalance(client, txn, received, expected)
  /\ \A c, client, amount :
        Ledger!StartApply(c, client, amount) <=> LedgerProof!StartApply(c, client, amount)
  /\ \A c : Ledger!ApplyStep(c) <=> LedgerProof!ApplyStep(c)
  /\ \A c : Ledger!FailApply(c) <=> LedgerProof!FailApply(c)
  /\ \A rows : Ledger!Total(rows) = LedgerProof!Total(rows)
  <1> USE DEF Ledger!Idle, LedgerProof!Idle, Ledger!InFlight, LedgerProof!InFlight,
              Ledger!Ended, LedgerProof!Ended, Ledger!BalanceIds, LedgerProof!BalanceIds,
              Ledger!tables, LedgerProof!tables, Ledger!history, LedgerProof!history,
              Ledger!Finished, LedgerProof!Finished
  <1>1. Ledger!Init <=> LedgerProof!Init
    BY DEF Ledger!Init, LedgerProof!Init, Ledger!InitialCall, LedgerProof!InitialCall
  <1>2. Ledger!TypeOK <=> LedgerProof!TypeOK
    BY DEF Ledger!TypeOK, LedgerProof!TypeOK, Ledger!Balance, LedgerProof!Balance,
           Ledger!Statuses, LedgerProof!Statuses, Ledger!Payment, LedgerProof!Payment,
           Ledger!Movement, LedgerProof!Movement, Ledger!Call, LedgerProof!Call
  <1>3. Ledger!Crash <=> LedgerProof!Crash
    BY DEF Ledger!Crash, LedgerProof!Crash
  <1>4. \A client, txn, received, expected :
           Ledger!RegisterBalance(client, txn, received, expected) <=>
              LedgerProof!RegisterBalance(client, txn, received, expected)
    BY DEF Ledger!RegisterBalance, LedgerProof!RegisterBalance
  <1>5. \A c, client, amount :
           Ledger!StartApply(c, client, amount) <=> LedgerProof!StartApply(c, client, amount)
    BY DEF Ledger!StartApply, LedgerProof!StartApply
  <1>6. ASSUME NEW c PROVE Ledger!ApplyStep(c) <=> LedgerProof!ApplyStep(c)
    <2>1. Ledger!ReadBalances(c) <=> LedgerProof!ReadBalances(c)
      BY DEF Ledger!ReadBalances, LedgerProof!ReadBalances, Ledger!ActiveBalances,
             LedgerProof!ActiveBalances, Ledger!Active, LedgerProof!Active
    <2>2. \A b : Ledger!UseBalance(c, b) <=> LedgerProof!UseBalance(c, b)
      BY DEF Ledger!UseBalance, LedgerProof!UseBalance, Ledger!Lesser, LedgerProof!Lesser,
             Ledger!Oldest, LedgerProof!Oldest, Ledger!Locked, LedgerProof!Locked
    <2>3. Ledger!CommitApply(c) <=> LedgerProof!CommitApply(c)
      BY DEF Ledger!CommitApply, LedgerProof!CommitApply, Ledger!Written,
             LedgerProof!Written, Ledger!PaymentsOf, LedgerProof!PaymentsOf,
             Ledger!MovementsOf, LedgerProof!MovementsOf, Ledger!Remaining,
             LedgerProof!Remaining, Ledger!StatusAfter, LedgerProof!StatusAfter
    <2>4. Ledger!RefuseApply(c) <=> LedgerProof!RefuseApply(c)
      BY DEF Ledger!RefuseApply, LedgerProof!RefuseApply
    <2> QED
      BY <2>1, <2>2, <2>3, <2>4 DEF Ledger!ApplyStep, LedgerProof!ApplyStep
  <1>7. \A c : Ledger!FailApply(c) <=> LedgerProof!FailApply(c)
    BY DEF Ledger!FailApply, LedgerProof!FailApply
  <1>8. \A rows : Ledger!Total(rows) = LedgerProof!Total(rows)
    BY DEF Ledger!Total, LedgerProof!Total, Ledger!MapThenSumSet, LedgerProof!MapThenSumSet,
           Ledger!MapThenFoldSet, LedgerProof!MapThenFoldSet
  <1> QED
    BY <1>1, <1>2, <1>3, <1>4, <1>5, <1>6, <1>7, <1>8

LEMMA SameManager ==
  /\ Manager!MikrowispInit <=> ManagerProof!MikrowispInit
  /\ Manager!MikrowispTypeOK <=> ManagerProof!MikrowispTypeOK
  /\ Manager!MikrowispCrash <=> ManagerProof!MikrowispCrash
  /\ \A ts, reference : Manager!StartPosts(ts, reference) <=> ManagerProof!StartPosts(ts, reference)
  /\ \A t : Manager!PostStep(t) <=> ManagerProof!PostStep(t)
  /\ \A i : Manager!UndoInvoice(i) <=> ManagerProof!UndoInvoice(i)
  /\ \A t : Manager!IsPaidBy(t) <=> ManagerProof!IsPaidBy(t)
  <1> USE DEF Manager!Bare, ManagerProof!Bare, Manager!PostInFlight, ManagerProof!PostInFlight,
              Manager!PostEnded, ManagerProof!PostEnded, Manager!NumberTaken,
              ManagerProof!NumberTaken, Manager!Registered, ManagerProof!Registered,
              Manager!MaybeRegistered, ManagerProof!MaybeRegistered
  <1>1. Manager!MikrowispInit <=> ManagerProof!MikrowispInit
    BY DEF Manager!MikrowispInit, ManagerProof!MikrowispInit
  <1>2. Manager!MikrowispTypeOK <=> ManagerProof!MikrowispTypeOK
    BY DEF Manager!MikrowispTypeOK, ManagerProof!MikrowispTypeOK, Manager!Registration,
           ManagerProof!Registration, Manager!Number, ManagerProof!Number, Manager!Post,
           ManagerProof!Post, Manager!PrefixedOnRetry, ManagerProof!PrefixedOnRetry
  <1>3. Manager!MikrowispCrash <=> ManagerProof!MikrowispCrash
    BY DEF Manager!MikrowispCrash, ManagerProof!MikrowispCrash
  <1>4. \A ts, reference :
           Manager!StartPosts(ts, reference) <=> ManagerProof!StartPosts(ts, reference)
    BY DEF Manager!StartPosts, ManagerProof!StartPosts
  <1>5. ASSUME NEW t PROVE Manager!PostStep(t) <=> ManagerProof!PostStep(t)
    BY DEF Manager!PostStep, ManagerProof!PostStep, Manager!PostAccepted,
           ManagerProof!PostAccepted, Manager!PostDuplicate, ManagerProof!PostDuplicate,
           Manager!PostFails, ManagerProof!PostFails, Manager!RetryReturns,
           ManagerProof!RetryReturns, Manager!FetchReturns, ManagerProof!FetchReturns,
           Manager!FetchFails, ManagerProof!FetchFails
  <1>6. \A i : Manager!UndoInvoice(i) <=> ManagerProof!UndoInvoice(i)
    BY DEF Manager!UndoInvoice, ManagerProof!UndoInvoice
  <1>7. \A t : Manager!IsPaidBy(t) <=> ManagerProof!IsPaidBy(t)
    BY DEF Manager!IsPaidBy, ManagerProof!IsPaidBy
  <1> QED
    BY <1>1, <1>2, <1>3, <1>4, <1>5, <1>6, <1>7

-----------------------------------------------------------------------------
(***************************************************************************)
(* Every step of a payment is a step of each component, or leaves it as it *)
(* was; the one exception is the deletion of a transaction.                *)
(***************************************************************************)

LEMMA InputTypes ==
  ASSUME NEW input \in Inputs
  PROVE  /\ input.client \in Clients /\ input.reference \in References
         /\ input.product \in {"VERIFICATION_API", "C2P"}
         /\ input.amount \in Nat /\ input.expected \in Nat /\ input.applied \in Nat
         /\ input.rate \in Nat \ {0} /\ input.invoices \subseteq Invoices
  BY FlowAssumption DEF Input

LEMMA SentTypes ==
  ASSUME FlowTypeOK, NEW r \in Requests
  PROVE  Sent(r) \in Inputs /\ requests[r].pc \in {"idle"} \cup RequestInFlight \cup RequestEnded
  BY DEF FlowTypeOK, Sent

LEMMA ToUsdNat ==
  ASSUME NEW amount \in Nat, NEW rate \in Nat \ {0}
  PROVE  ToUsd(amount, rate) \in Nat
  <1>1. 2 * rate \in Nat /\ 2 * rate > 0 /\ 2 * amount + rate \in Nat
    OBVIOUS
  <1>2. \A a \in Nat, b \in Nat : b > 0 => a \div b \in Nat
    OBVIOUS
  <1> QED
    BY <1>1, <1>2 DEF ToUsd

(* The deletion removes rows and touches nothing else of the bank's.       *)
Removal == transactions' \subseteq transactions /\ UNCHANGED <<bank, charged>>

LEMMA BankMoves ==
  ASSUME FlowTypeOK, [Next]_vars
  PROVE  \/ UNCHANGED bankVars
         \/ \E r \in Requests : \/ BankProof!Rowless(r)
                                \/ BankProof!RecordSuccess(r) \/ BankProof!RecordFailure(r)
         \/ BankProof!BankCrash
         \/ Removal
  <1>1. ASSUME NEW r \in Requests, NEW input \in Inputs, StartPayment(r, input)
        PROVE  BankProof!Rowless(r)
    <2>1. \/ BankProof!StartVerification(r, input.reference)
          \/ BankProof!StartCharge(r, input.amount)
      BY <1>1, SameBank DEF StartPayment
    <2> QED
      BY <2>1, InputTypes DEF BankProof!Rowless
  <1>2. ASSUME NEW r \in Requests, BankWorks(r)
        PROVE  \/ BankProof!Rowless(r)
               \/ BankProof!RecordSuccess(r) \/ BankProof!RecordFailure(r)
    <2>1. BankProof!BankStep(r) \/ BankProof!BankThrows(r)
      BY <1>2, SameBank DEF BankWorks
    <2> QED
      BY <2>1 DEF BankProof!BankStep, BankProof!Rowless
  <1>3. ASSUME NEW r \in Requests, LookupFails(r) \/ RequestStep(r), ~BankWorks(r)
        PROVE  UNCHANGED bankVars
    BY <1>3 DEF RequestStep, LookupFails, ReturnRefusal, SettlePartial, SettleFull,
                RequestThrows, ReturnSuccess, ReturnFailure
  <1>4. ASSUME NEW t \in Tasks, TaskStep(t) PROVE UNCHANGED bankVars
    BY <1>4 DEF TaskStep, ManagerWorks, ApplyBalance, LedgerWorks, RecordPayment, TaskThrows
  <1>5. ASSUME NEW d \in Deletions, NEW r \in Requests, StartDeletion(d, r)
        PROVE  UNCHANGED bankVars
    BY <1>5 DEF StartDeletion
  <1>6. ASSUME NEW d \in Deletions, NEW i \in Invoices, UndoPayment(d, i)
        PROVE  UNCHANGED bankVars
    BY <1>6 DEF UndoPayment
  <1>7. ASSUME NEW d \in Deletions, EraseLocally(d) PROVE Removal
    BY <1>7 DEF EraseLocally, Removal
  <1>8. CASE Crash
    BY <1>8, SameBank DEF Crash
  <1>9. CASE UNCHANGED vars
    BY <1>9 DEF vars, bankVars
  <1> QED
    BY <1>1, <1>2, <1>3, <1>4, <1>5, <1>6, <1>7, <1>8, <1>9 DEF Next, DeletionStep

LEMMA LedgerMoves ==
  ASSUME FlowTypeOK, BankProof!FundedInv, [Next]_vars
  PROVE  [LedgerProof!Next]_LedgerProof!vars
  <1>1. UNCHANGED ledgerVars => UNCHANGED LedgerProof!vars
    BY DEF ledgerVars, LedgerProof!vars
  <1>2. ASSUME NEW r \in Requests, SettlePartial(r), ~UNCHANGED ledgerVars
        PROVE  LedgerProof!Next
    <2>1. PICK received, expected :
             /\ received = ToUsd(Received(r), Sent(r).rate)
             /\ expected = ToUsd(Sent(r).expected, Sent(r).rate)
             /\ LedgerProof!RegisterBalance(Sent(r).client, r, received, expected)
      BY <1>2, SameLedger DEF SettlePartial
    <2>2. Received(r) \in Nat
      BY DEF BankProof!FundedInv, BankProof!BankTypeOK, BankProof!BankCall, Received
    <2>3. Sent(r).client \in Clients /\ Sent(r).expected \in Nat /\ Sent(r).rate \in Nat \ {0}
      BY SentTypes, InputTypes
    <2>4. received \in Nat /\ expected \in Nat
      BY <2>1, <2>2, <2>3, ToUsdNat
    <2> QED
      BY <2>1, <2>3, <2>4 DEF LedgerProof!Next
  <1>3. ASSUME NEW t \in Tasks, ApplyBalance(t) PROVE LedgerProof!Next
    <2> DEFINE input == Sent(RequestOf(t))
    <2>1. RequestOf(t) \in Requests
      BY DEF Tasks, RequestOf
    <2>2. input.client \in Clients /\ input.applied \in Nat /\ input.rate \in Nat \ {0}
      BY <2>1, SentTypes, InputTypes
    <2>3. ToUsd(input.applied, input.rate) \in Nat
      BY <2>2, ToUsdNat
    <2>4. LedgerProof!StartApply(t, input.client, ToUsd(input.applied, input.rate))
      BY <1>3, SameLedger DEF ApplyBalance
    <2> QED
      BY <2>2, <2>3, <2>4 DEF LedgerProof!Next
  <1>4. ASSUME NEW t \in Tasks, LedgerWorks(t) PROVE LedgerProof!Next
    BY <1>4, SameLedger DEF LedgerWorks, LedgerProof!Next
  <1>5. ASSUME Crash PROVE LedgerProof!Next \/ UNCHANGED ledgerVars
    BY <1>5, SameLedger DEF Crash, LedgerProof!Next
  <1>6. ASSUME NEW r \in Requests,
               \/ \E input \in Inputs : StartPayment(r, input)
               \/ LookupFails(r)
               \/ RequestStep(r) /\ ~SettlePartial(r)
        PROVE  UNCHANGED ledgerVars
    BY <1>6 DEF StartPayment, RequestStep, LookupFails, BankWorks, ReturnRefusal, SettleFull,
                RequestThrows, ReturnSuccess, ReturnFailure
  <1>7. ASSUME NEW t \in Tasks, ManagerWorks(t) \/ RecordPayment(t) \/ TaskThrows(t)
        PROVE  UNCHANGED ledgerVars
    BY <1>7 DEF ManagerWorks, RecordPayment, TaskThrows
  <1>8. ASSUME NEW d \in Deletions, (\E r \in Requests : StartDeletion(d, r)) \/ DeletionStep(d)
        PROVE  UNCHANGED ledgerVars
    BY <1>8 DEF StartDeletion, DeletionStep, EraseLocally, UndoPayment
  <1>9. UNCHANGED vars => UNCHANGED ledgerVars
    BY DEF vars, ledgerVars
  <1> QED
    BY <1>1, <1>2, <1>3, <1>4, <1>5, <1>6, <1>7, <1>8, <1>9 DEF Next, TaskStep
LEMMA ManagerMoves ==
  ASSUME FlowTypeOK, BankProof!FundedInv, [Next]_vars
  PROVE  \/ [ManagerProof!ManagerNext]_ManagerProof!managerVars
         \/ ManagerProof!MikrowispCrash
  <1>1. UNCHANGED managerVars => UNCHANGED ManagerProof!managerVars
    BY DEF managerVars, ManagerProof!managerVars, ManagerProof!mikrowispVars
  <1>2. ASSUME NEW r \in Requests, SettleFull(r), ~UNCHANGED managerVars
        PROVE  ManagerProof!ManagerNext
    <2>1. ManagerProof!StartPosts(TasksOf(r), bank[r].reference)
      BY <1>2, SameManager DEF SettleFull, BeginPaying
    <2>2. BankProof!CallFunded(r) /\ bank[r].pc = "confirmed"
      BY <1>2 DEF BankProof!FundedInv, SettleFull, Resumes
    <2>3. bank[r].reference \in References \cup Requests
      BY <2>2 DEF BankProof!CallFunded
    <2> QED
      BY <2>1, <2>3 DEF ManagerProof!ManagerNext, TasksOf
  <1>3. ASSUME NEW t \in Tasks, ManagerWorks(t) PROVE ManagerProof!ManagerNext
    BY <1>3, SameManager DEF ManagerWorks, ManagerProof!ManagerNext, ManagerProof!ManagerStep
  <1>4. ASSUME NEW d \in Deletions, NEW i \in Invoices, UndoPayment(d, i),
               ~UNCHANGED managerVars
        PROVE  ManagerProof!ManagerNext
    BY <1>4, SameManager DEF UndoPayment, ManagerProof!ManagerNext
  <1>5. ASSUME Crash PROVE ManagerProof!MikrowispCrash
    BY <1>5, SameManager DEF Crash
  <1>6. ASSUME NEW r \in Requests,
               \/ \E input \in Inputs : StartPayment(r, input)
               \/ LookupFails(r)
               \/ RequestStep(r) /\ ~SettleFull(r)
        PROVE  UNCHANGED managerVars
    BY <1>6 DEF StartPayment, RequestStep, LookupFails, BankWorks, ReturnRefusal,
                SettlePartial, RequestThrows, ReturnSuccess, ReturnFailure
  <1>7. ASSUME NEW t \in Tasks,
               ApplyBalance(t) \/ LedgerWorks(t) \/ RecordPayment(t) \/ TaskThrows(t)
        PROVE  UNCHANGED managerVars
    BY <1>7 DEF ApplyBalance, LedgerWorks, RecordPayment, TaskThrows
  <1>8. ASSUME NEW d \in Deletions, (\E r \in Requests : StartDeletion(d, r)) \/ EraseLocally(d)
        PROVE  UNCHANGED managerVars
    BY <1>8 DEF StartDeletion, EraseLocally
  <1>9. UNCHANGED vars => UNCHANGED managerVars
    BY DEF vars, managerVars
  <1> QED
    BY <1>1, <1>2, <1>3, <1>4, <1>5, <1>6, <1>7, <1>8, <1>9 DEF Next, TaskStep, DeletionStep

(* The components' own assumptions hold of the constants of a payment.     *)
LEMMA ComponentAssumptions ==
  /\ Clients # {} /\ Nat \subseteq Nat
  /\ Deposits \in [References -> Nat] /\ References \cap Requests = {}
  /\ [t \in Tasks |-> Invoice(t)] \in [Tasks -> Invoices]
  /\ References \cup Requests # {}
  <1>1. PICK input \in Inputs : TRUE
    BY FlowAssumption
  <1>2. Clients # {}
    BY <1>1, InputTypes
  <1>3. \A t \in Tasks : Invoice(t) \in Invoices
    BY DEF Tasks, Invoice
  <1> QED
    BY <1>2, <1>3, FlowAssumption

LEMMA ComponentsStep ==
  ASSUME FlowTypeOK, ComponentsInv, [Next]_vars
  PROVE  ComponentsInv'
  <1>1. BankProof!FundedInv'
    <2>1. CASE UNCHANGED bankVars
      BY <2>1, ComponentAssumptions, BankProof!BankStepFunded
         DEF ComponentsInv, bankVars, BankProof!bankVars
    <2>2. ASSUME NEW r \in Requests, BankProof!Rowless(r) PROVE BankProof!FundedInv'
      BY <2>2, ComponentAssumptions, BankProof!RowlessFunded DEF ComponentsInv
    <2>3. ASSUME NEW r \in Requests, BankProof!RecordSuccess(r) PROVE BankProof!FundedInv'
      BY <2>3, ComponentAssumptions, BankProof!RecordSuccessFunded DEF ComponentsInv
    <2>4. ASSUME NEW r \in Requests, BankProof!RecordFailure(r) PROVE BankProof!FundedInv'
      BY <2>4, ComponentAssumptions, BankProof!RecordFailureFunded DEF ComponentsInv
    <2>5. CASE BankProof!BankCrash
      BY <2>5, ComponentAssumptions, BankProof!BankCrashFunded DEF ComponentsInv
    <2>6. CASE Removal
      BY <2>6, ComponentAssumptions, BankProof!RowsRemovedFunded DEF ComponentsInv, Removal
    <2> QED
      BY <2>1, <2>2, <2>3, <2>4, <2>5, <2>6, BankMoves
  <1>2. [LedgerProof!Next]_LedgerProof!vars
    BY LedgerMoves DEF ComponentsInv
  <1>3. LedgerProof!LedgerInv' /\ LedgerProof!RowsInv' /\ LedgerProof!AmountsInv'
    BY <1>2, ComponentAssumptions, LedgerProof!StepInv, LedgerProof!RowsStep,
       LedgerProof!AmountsStep DEF ComponentsInv
  <1>4. ManagerProof!ManagerInv'
    BY ManagerMoves, ComponentAssumptions, ManagerProof!ManagerNextInv,
       ManagerProof!ManagerCrashInv DEF ComponentsInv
  <1> QED
    BY <1>1, <1>3, <1>4 DEF ComponentsInv
-----------------------------------------------------------------------------
(***************************************************************************)
(* The inductive invariant: how far a request, a task, a balance and a     *)
(* deletion have got, and what the others must have done by then.          *)
(***************************************************************************)

(* A request that has begun to pay is never answered otherwise.            *)
Paid == {"paying", "success", "failed", "crashed"}

HasDone(r) == \E t \in Tasks : RequestOf(t) = r /\ tasks[t] = "done"

HasBalance(r) == \E b \in DOMAIN balances : balances[b].txn = r

(* Confirmed money is in the table until an invoice paid with it has been  *)
(* deleted.                                                                *)
RequestOK(r) ==
    LET pc == requests[r].pc IN
    /\ pc = "idle" => bank[r].pc = "idle"
    /\ bank[r].pc \in Bank!BankInFlight => pc = "bank"
    /\ bank[r].pc = "confirmed" => TransactionExists(r) \/ HasDone(r)
    /\ pc \in {"paying", "success"} => bank[r].pc = "confirmed"
    /\ pc = "success" => \A t \in TasksOf(r) : tasks[t] = "done"

TaskOK(t) ==
    LET r == RequestOf(t) IN
    /\ tasks[t] # "idle" =>
          t \in TasksOf(r) /\ bank[r].pc = "confirmed" /\ requests[r].pc \in Paid
    /\ tasks[t] = "open" => requests[r].pc \in {"paying", "failed"}
    /\ tasks[t] = "done" =>
          /\ posts[t].pc = "answered"
          /\ Sent(r).applied = 0 \/ calls[t].pc = "applied"
          /\ TransactionExists(r) => t \in bankRows
    /\ t \in bankRows => tasks[t] = "done" /\ TransactionExists(r)
    /\ calls[t].pc # "idle" =>
          /\ tasks[t] # "idle" /\ posts[t].pc = "answered"
          /\ calls[t].amount = ToUsd(Sent(r).applied, Sent(r).rate)

BalanceOK(b) ==
    LET r == balances[b].txn IN
    /\ requests[r].pc = "partial" /\ bank[r].pc = "confirmed" /\ TransactionExists(r)
    /\ balances[b].initial = ToUsd(Received(r), Sent(r).rate)
    /\ balances[b].client = Sent(r).client

OneBalance == \A b, c \in DOMAIN balances : balances[b].txn = balances[c].txn => b = c

DeletionOK(d) ==
    deletions[d].pc = "undoing" => HasDone(deletions[d].txn) \/ HasBalance(deletions[d].txn)

StagesOK ==
    /\ \A r \in Requests : RequestOK(r)
    /\ \A t \in Tasks : TaskOK(t)
    /\ \A b \in DOMAIN balances : BalanceOK(b)
    /\ OneBalance
    /\ \A d \in Deletions : DeletionOK(d)

FlowInv == FlowTypeOK /\ ComponentsInv /\ StagesOK

LEMMA FlowInit == Init => FlowInv
  <1> SUFFICES ASSUME Init PROVE FlowInv
    OBVIOUS
  <1>1. FlowTypeOK
    <2>1. NoInput \in Inputs /\ (CHOOSE r \in Requests : TRUE) \in Requests
      BY FlowAssumption DEF NoInput
    <2> QED
      BY <2>1 DEF Init, FlowTypeOK
  <1>2. BankProof!FundedInv
    BY SameBank, ComponentAssumptions, BankProof!BankInitFunded DEF Init
  <1>3. LedgerProof!Init
    BY SameLedger DEF Init
  <1>4. LedgerProof!LedgerInv /\ LedgerProof!RowsInv /\ LedgerProof!AmountsInv
    BY <1>3, ComponentAssumptions, LedgerProof!InitInv, LedgerProof!InitRows,
       LedgerProof!InitAmounts
  <1>5. ManagerProof!ManagerInv
    BY SameManager, ComponentAssumptions, ManagerProof!ManagerInitInv
       DEF Init, ManagerProof!ManagerInit
  <1>6. balances = << >> /\ \A t \in Tasks : calls[t].pc = "idle"
    BY <1>3 DEF LedgerProof!Init, LedgerProof!InitialCall, LedgerProof!Idle
  <1>7. \A r \in Requests : bank[r].pc = "idle"
    BY DEF Init, Bank!BankInit
  <1>8. StagesOK
    BY <1>6, <1>7 DEF Init, StagesOK, RequestOK, TaskOK, BalanceOK, OneBalance, DeletionOK,
                      Bank!BankInFlight
  <1> QED
    BY <1>1, <1>2, <1>4, <1>5, <1>8 DEF FlowInv, ComponentsInv
LEMMA FlowTypeStep ==
  ASSUME FlowTypeOK, ComponentsInv, [Next]_vars
  PROVE  FlowTypeOK'
  <1> USE DEF FlowTypeOK, RequestInFlight, RequestEnded, DeletionInFlight, DeletionEnded
  <1>1. ASSUME NEW r \in Requests, NEW input \in Inputs, StartPayment(r, input)
        PROVE  FlowTypeOK'
    BY <1>1 DEF StartPayment
  <1>2. ASSUME NEW r \in Requests, NEW pc \in RequestInFlight \cup RequestEnded, Answer(r, pc),
               UNCHANGED <<bankRows, deletions>>,
               \/ tasks' = tasks
               \/ tasks' = [t \in Tasks |-> IF t \in TasksOf(r) THEN "open" ELSE tasks[t]]
        PROVE  FlowTypeOK'
    BY <1>2 DEF Answer
  <1>3. ASSUME NEW r \in Requests, LookupFails(r) \/ RequestStep(r) PROVE FlowTypeOK'
    <2>1. CASE BankWorks(r)
      BY <2>1 DEF BankWorks, flowVars
    <2>2. CASE ~BankWorks(r)
      <3>1. PICK pc \in RequestInFlight \cup RequestEnded :
               /\ Answer(r, pc) /\ UNCHANGED <<bankRows, deletions>>
               /\ \/ tasks' = tasks
                  \/ tasks' = [t \in Tasks |-> IF t \in TasksOf(r) THEN "open" ELSE tasks[t]]
        BY <1>3, <2>2 DEF LookupFails, RequestStep, ReturnRefusal, SettlePartial, SettleFull,
                     BeginPaying, RequestThrows, ReturnSuccess, ReturnFailure
      <3> QED
        BY <1>2, <3>1
    <2> QED
      BY <2>1, <2>2
  <1>4. ASSUME NEW t \in Tasks, TaskStep(t) PROVE FlowTypeOK'
    BY <1>4 DEF TaskStep, ManagerWorks, ApplyBalance, LedgerWorks, RecordPayment, TaskThrows,
                flowVars
  <1>5. ASSUME NEW d \in Deletions, NEW r \in Requests, StartDeletion(d, r)
        PROVE  FlowTypeOK'
    <2>1. InvoicesOf(r) \subseteq Invoices
      <3>1. \A p \in payments : p.call \in Tasks
        BY DEF ComponentsInv, LedgerProof!LedgerInv, LedgerProof!TypeOK, LedgerProof!Payment
      <3> QED
        BY <3>1 DEF InvoicesOf, Tasks, Invoice
    <2> DEFINE deletion == IF TransactionExists(r) /\ InvoicesOf(r) # {}
                           THEN [pc |-> "undoing", txn |-> r, pending |-> InvoicesOf(r)]
                           ELSE [pc |-> "notFound", txn |-> r, pending |-> {}]
           Records == [pc : {"idle"} \cup DeletionInFlight \cup DeletionEnded,
                       txn : Requests, pending : SUBSET Invoices]
    <2>2. deletions' = [deletions EXCEPT ![d] = deletion]
      BY <1>5 DEF StartDeletion
    <2>3. deletion \in Records /\ deletions \in [Deletions -> Records]
      BY <2>1
    <2>4. UNCHANGED <<requests, tasks, bankRows>>
      BY <1>5 DEF StartDeletion
    <2> HIDE DEF deletion, Records
    <2>5. deletions' \in [Deletions -> Records]
      BY <2>2, <2>3
    <2> QED
      BY <2>4, <2>5 DEF Records
  <1>6. ASSUME NEW d \in Deletions, NEW i \in Invoices, UndoPayment(d, i) PROVE FlowTypeOK'
    <2>1. /\ UNCHANGED <<requests, tasks, bankRows>>
          /\ \/ deletions' = [deletions EXCEPT ![d].pending = @ \ {i}]
             \/ deletions' = [deletions EXCEPT ![d].pending = @ \ {i}, ![d].pc = "failed"]
      BY <1>6 DEF UndoPayment
    <2> DEFINE Records == [pc : {"idle"} \cup DeletionInFlight \cup DeletionEnded,
                           txn : Requests, pending : SUBSET Invoices]
               pending == deletions[d].pending \ {i}
    <2>2. /\ deletions \in [Deletions -> Records]
          /\ [deletions[d] EXCEPT !.pending = pending] \in Records
          /\ [deletions[d] EXCEPT !.pending = pending, !.pc = "failed"] \in Records
      OBVIOUS
    <2>3. \/ deletions' = [deletions EXCEPT ![d] = [deletions[d] EXCEPT !.pending = pending]]
          \/ deletions' = [deletions EXCEPT ![d] = [deletions[d] EXCEPT !.pending = pending,
                                                                       !.pc = "failed"]]
      BY <2>1
    <2> HIDE DEF Records, pending
    <2>4. deletions' \in [Deletions -> Records]
      BY <2>2, <2>3
    <2> QED
      BY <2>1, <2>4 DEF Records
  <1>7. ASSUME NEW d \in Deletions, EraseLocally(d) PROVE FlowTypeOK'
    BY <1>7 DEF EraseLocally
  <1>8. CASE Crash
    <2>1. /\ requests' = [r \in Requests |-> IF requests[r].pc \in RequestInFlight
                                             THEN [requests[r] EXCEPT !.pc = "crashed"]
                                             ELSE requests[r]]
          /\ tasks' = [t \in Tasks |-> IF tasks[t] = "open" THEN "crashed" ELSE tasks[t]]
          /\ deletions' = [d \in Deletions |->
                [deletions[d] EXCEPT !.pending = {},
                                     !.pc = IF @ = "undoing" THEN "crashed" ELSE @]]
          /\ bankRows' = bankRows
      BY <1>8 DEF Crash
    <2>2. requests' \in [Requests -> [pc : {"idle"} \cup RequestInFlight \cup RequestEnded,
                                     input : Inputs]]
      <3>1. ASSUME NEW r \in Requests
            PROVE  [requests[r] EXCEPT !.pc = "crashed"]
                      \in [pc : {"idle"} \cup RequestInFlight \cup RequestEnded, input : Inputs]
        OBVIOUS
      <3> QED
        BY <2>1, <3>1
    <2>3. tasks' \in [Tasks -> {"idle", "open", "done", "failed", "crashed"}]
      BY <2>1
    <2>4. ASSUME NEW d \in Deletions
          PROVE  deletions'[d] \in [pc : {"idle"} \cup DeletionInFlight \cup DeletionEnded,
                                    txn : Requests, pending : SUBSET Invoices]
      BY <2>1
    <2> QED
      BY <2>1, <2>2, <2>3, <2>4
  <1>9. CASE UNCHANGED vars
    BY <1>9 DEF vars
  <1> QED
    BY <1>1, <1>3, <1>4, <1>5, <1>6, <1>7, <1>8, <1>9 DEF Next, DeletionStep
-----------------------------------------------------------------------------
(***************************************************************************)
(* Every step keeps the stages.                                            *)
(***************************************************************************)

LEMMA ExistsKept ==
  ASSUME transactions' = transactions, NEW r
  PROVE  TransactionExists(r)' <=> TransactionExists(r)
  BY DEF TransactionExists, Bank!TransactionsOf

LEMMA TaskParts ==
  ASSUME NEW t \in Tasks
  PROVE  RequestOf(t) \in Requests /\ Invoice(t) \in Invoices
  BY DEF Tasks, RequestOf, Invoice

LEMMA BalanceParts ==
  ASSUME ComponentsInv, NEW b \in DOMAIN balances
  PROVE  balances[b].txn \in Requests
  BY ComponentAssumptions, LedgerProof!IdsOfBalances
     DEF ComponentsInv, LedgerProof!BalanceIds, LedgerProof!Balance

LEMMA BankEffects ==
  ASSUME FlowInv, NEW r \in Requests, BankWorks(r)
  PROVE  /\ \A q \in Requests : q # r => bank'[q] = bank[q]
         /\ bank[r].pc \in Bank!BankInFlight /\ bank'[r].pc # "idle"
         /\ bank'[r].pc = "confirmed" => TransactionExists(r)'
         /\ \A q \in Requests : TransactionExists(q) => TransactionExists(q)'
         /\ \A q \in Requests : q # r /\ TransactionExists(q)' => TransactionExists(q)
  <1>1. bank \in [Requests -> BankProof!BankCall]
    BY DEF FlowInv, ComponentsInv, BankProof!FundedInv, BankProof!BankTypeOK
  <1> USE DEF Bank!BankInFlight, TransactionExists, Bank!TransactionsOf, BankProof!BankCall
  <1>2. CASE Bank!CheckDuplicate(r) \/ Bank!AskHistory(r) \/ Bank!VerifyThrows(r)
             \/ Bank!BankThrows(r)
    BY <1>1, <1>2 DEF Bank!CheckDuplicate, Bank!AskHistory, Bank!VerifyThrows, Bank!BankThrows
  <1>3. CASE Bank!ChargeAccepted(r) \/ Bank!ChargeFailed(r)
    BY <1>1, <1>3 DEF Bank!ChargeAccepted, Bank!ChargeFailed
  <1>4. ASSUME NEW row, row.by = r, transactions' = transactions \cup {row}
        PROVE  /\ TransactionExists(r)'
               /\ \A q \in Requests : TransactionExists(q) => TransactionExists(q)'
               /\ \A q \in Requests : q # r /\ TransactionExists(q)' => TransactionExists(q)
    BY <1>4
  <1>5. CASE Bank!RecordSuccess(r)
    BY <1>1, <1>4, <1>5 DEF Bank!RecordSuccess
  <1>6. CASE Bank!RecordFailure(r)
    BY <1>1, <1>4, <1>6 DEF Bank!RecordFailure
  <1> QED
    BY <1>2, <1>3, <1>5, <1>6 DEF BankWorks, Bank!BankStep

LEMMA BankStages ==
  ASSUME FlowInv, NEW r \in Requests, BankWorks(r)
  PROVE  StagesOK'
  <1>1. UNCHANGED <<ledgerVars, managerVars, flowVars>>
    BY DEF BankWorks
  <1> USE BankEffects, <1>1 DEF ledgerVars, managerVars, flowVars, Bank!BankInFlight
  <1>2. ASSUME NEW q \in Requests PROVE RequestOK(q)'
    BY DEF FlowInv, StagesOK, RequestOK, HasDone, TasksOf, Sent
  <1>3. ASSUME NEW t \in Tasks PROVE TaskOK(t)'
    <2>1. TaskOK(t) /\ RequestOf(t) \in Requests
      BY TaskParts DEF FlowInv, StagesOK
    <2> QED
      BY <2>1 DEF TaskOK, TasksOf, Sent
  <1>4. ASSUME NEW b \in DOMAIN balances' PROVE BalanceOK(b)'
    <2>1. BalanceOK(b) /\ balances[b].txn \in Requests
      BY BalanceParts DEF FlowInv, StagesOK
    <2> QED
      BY <2>1 DEF BalanceOK, Sent, Received
  <1>5. OneBalance' /\ \A d \in Deletions : DeletionOK(d)'
    BY DEF FlowInv, StagesOK, OneBalance, DeletionOK, HasDone, HasBalance
  <1> QED
    BY <1>2, <1>3, <1>4, <1>5 DEF StagesOK
LEMMA StartStages ==
  ASSUME FlowInv, NEW r \in Requests, NEW input \in Inputs, StartPayment(r, input)
  PROVE  StagesOK'
  <1>1. /\ requests' = [requests EXCEPT ![r] = [pc |-> "bank", input |-> input]]
        /\ requests[r].pc = "idle"
        /\ UNCHANGED <<transactions, ledgerVars, managerVars, tasks, bankRows, deletions>>
    BY DEF StartPayment, Bank!StartVerification, Bank!StartCharge
  <1>2. /\ \A q \in Requests : q # r => bank'[q] = bank[q] /\ requests'[q] = requests[q]
        /\ bank'[r].pc \in {"checking", "charging"} /\ requests'[r].pc = "bank"
    BY <1>1 DEF StartPayment, Bank!StartVerification, Bank!StartCharge, FlowInv, ComponentsInv,
                BankProof!FundedInv, BankProof!BankTypeOK, FlowTypeOK
  <1>3. \A q : TransactionExists(q)' <=> TransactionExists(q)
    BY <1>1, ExistsKept
  <1> USE <1>1, <1>2, <1>3 DEF ledgerVars, managerVars
  <1>4. ASSUME NEW q \in Requests PROVE RequestOK(q)'
    BY DEF FlowInv, StagesOK, RequestOK, HasDone, TasksOf, Sent, Bank!BankInFlight
  <1>5. ASSUME NEW t \in Tasks PROVE TaskOK(t)'
    <2>1. TaskOK(t) /\ RequestOf(t) \in Requests
      BY TaskParts DEF FlowInv, StagesOK
    <2>2. tasks[t] # "idle" => RequestOf(t) # r
      BY <2>1 DEF TaskOK, Paid
    <2> QED
      BY <2>1, <2>2 DEF TaskOK, TasksOf, Sent
  <1>6. ASSUME NEW b \in DOMAIN balances' PROVE BalanceOK(b)'
    <2>1. BalanceOK(b) /\ balances[b].txn \in Requests
      BY BalanceParts DEF FlowInv, StagesOK
    <2> QED
      BY <2>1 DEF BalanceOK, Sent, Received
  <1>7. OneBalance' /\ \A d \in Deletions : DeletionOK(d)'
    BY DEF FlowInv, StagesOK, OneBalance, DeletionOK, HasDone, HasBalance
  <1> QED
    BY <1>4, <1>5, <1>6, <1>7 DEF StagesOK

(* A request is answered, and nothing else happens.                        *)
LEMMA AnswerStages ==
  ASSUME FlowInv, NEW r \in Requests, NEW pc \in RequestEnded, Answer(r, pc),
         UNCHANGED <<bankVars, ledgerVars, managerVars, tasks, bankRows, deletions>>,
         \/ /\ requests[r].pc \in {"idle", "bank"} /\ bank[r].pc \notin Bank!BankInFlight
            /\ pc # "success"
         \/ /\ requests[r].pc = "paying" /\ pc \in {"success", "failed"}
            /\ pc = "success" => \A t \in TasksOf(r) : tasks[t] = "done"
  PROVE  StagesOK'
  <1>1. /\ \A q \in Requests : q # r => requests'[q] = requests[q]
        /\ \A q \in Requests : Sent(q)' = Sent(q)
        /\ requests'[r].pc = pc
    BY DEF Answer, FlowInv, FlowTypeOK, Sent
  <1>2. \A q : TransactionExists(q)' <=> TransactionExists(q)
    BY ExistsKept DEF bankVars
  <1> USE <1>1, <1>2 DEF bankVars, ledgerVars, managerVars, RequestEnded
  <1>3. \A q \in Requests : TasksOf(q)' = TasksOf(q)
    BY DEF TasksOf
  <1>4. ASSUME NEW q \in Requests PROVE RequestOK(q)'
    BY <1>3 DEF FlowInv, StagesOK, RequestOK, HasDone
  <1>5. ASSUME NEW t \in Tasks PROVE TaskOK(t)'
    <2>1. TaskOK(t) /\ RequestOf(t) \in Requests
      BY TaskParts DEF FlowInv, StagesOK
    <2>2. CASE RequestOf(t) # r
      BY <1>3, <2>1, <2>2 DEF TaskOK
    <2>3. CASE RequestOf(t) = r
      BY <1>3, <2>1, <2>3 DEF TaskOK, Paid
    <2> QED
      BY <2>2, <2>3
  <1>6. ASSUME NEW b \in DOMAIN balances' PROVE BalanceOK(b)'
    <2>1. BalanceOK(b) /\ balances[b].txn \in Requests
      BY BalanceParts DEF FlowInv, StagesOK
    <2>2. balances[b].txn # r
      BY <2>1 DEF BalanceOK
    <2> QED
      BY <2>1, <2>2 DEF BalanceOK, Received
  <1>7. OneBalance' /\ \A d \in Deletions : DeletionOK(d)'
    BY DEF FlowInv, StagesOK, OneBalance, DeletionOK, HasDone, HasBalance
  <1> QED
    BY <1>4, <1>5, <1>6, <1>7 DEF StagesOK

(* The balance registered is the only one of its transaction, and what was *)
(* received.                                                               *)
LEMMA PartialStages ==
  ASSUME FlowInv, NEW r \in Requests, SettlePartial(r)
  PROVE  StagesOK'
  <1> DEFINE received == ToUsd(Received(r), Sent(r).rate)
             row == [client |-> Sent(r).client, txn |-> r, initial |-> received,
                     current |-> received, status |-> "AVAILABLE"]
  <1>1. CASE UNCHANGED ledgerVars
    BY <1>1, AnswerStages DEF SettlePartial, Resumes, Bank!BankInFlight, RequestEnded
  <1>2. CASE balances' = Append(balances, row)
             /\ (\A b \in DOMAIN balances : balances[b].txn # r)
             /\ UNCHANGED <<payments, calls>>
    <2>1. row \in LedgerProof!Balance
      <3>1. Received(r) \in Nat
        BY DEF FlowInv, ComponentsInv, BankProof!FundedInv, BankProof!BankTypeOK,
               BankProof!BankCall, Received
      <3>2. Sent(r).client \in Clients /\ Sent(r).rate \in Nat \ {0}
        BY SentTypes, InputTypes DEF FlowInv
      <3>3. received \in Nat
        BY <3>1, <3>2, ToUsdNat
      <3> QED
        BY <3>2, <3>3 DEF LedgerProof!Balance, LedgerProof!Statuses
    <2>2. /\ balances \in Seq(LedgerProof!Balance) /\ Len(balances) \in Nat
          /\ DOMAIN balances = 1 .. Len(balances)
      BY DEF FlowInv, ComponentsInv, LedgerProof!LedgerInv, LedgerProof!TypeOK
    <2>3. /\ DOMAIN balances' = 1 .. Len(balances) + 1
          /\ \A b \in DOMAIN balances : b \in DOMAIN balances' /\ balances'[b] = balances[b]
          /\ balances'[Len(balances) + 1] = row
      BY <1>2, <2>1, <2>2
    <2>4. /\ \A q \in Requests : q # r => requests'[q] = requests[q]
          /\ \A q \in Requests : Sent(q)' = Sent(q)
          /\ requests'[r].pc = "partial"
      BY DEF SettlePartial, Answer, FlowInv, FlowTypeOK, Sent
    <2>5. \A q : TransactionExists(q)' <=> TransactionExists(q)
      BY ExistsKept DEF SettlePartial, bankVars
    <2>6. /\ requests[r].pc = "bank" /\ bank[r].pc = "confirmed" /\ TransactionExists(r)
          /\ UNCHANGED <<bank, posts, tasks, bankRows, deletions>>
      BY DEF SettlePartial, Resumes, bankVars, managerVars
    <2>7. ASSUME NEW q \in Requests PROVE RequestOK(q)'
      BY <2>4, <2>5, <2>6 DEF FlowInv, StagesOK, RequestOK, HasDone, TasksOf, Bank!BankInFlight
    <2>8. ASSUME NEW t \in Tasks PROVE TaskOK(t)'
      <3>1. TaskOK(t) /\ RequestOf(t) \in Requests
        BY TaskParts DEF FlowInv, StagesOK
      <3> QED
        BY <1>2, <2>4, <2>5, <2>6, <3>1 DEF TaskOK, TasksOf, Paid
    <2>9. ASSUME NEW b \in DOMAIN balances' PROVE BalanceOK(b)'
      <3>1. CASE b \in DOMAIN balances
        <4>1. BalanceOK(b) /\ balances[b].txn \in Requests
          BY <3>1, BalanceParts DEF FlowInv, StagesOK
        <4> QED
          BY <1>2, <2>3, <2>4, <2>5, <2>6, <3>1, <4>1 DEF BalanceOK, Received
      <3>2. CASE b = Len(balances) + 1
        BY <2>3, <2>4, <2>5, <2>6, <3>2 DEF BalanceOK, Received
      <3> QED
        BY <2>2, <2>3, <3>1, <3>2
    <2>10. OneBalance'
      BY <1>2, <2>2, <2>3 DEF FlowInv, StagesOK, OneBalance
    <2>11. ASSUME NEW d \in Deletions PROVE DeletionOK(d)'
      BY <2>3, <2>6 DEF FlowInv, StagesOK, DeletionOK, HasDone, HasBalance
    <2> QED
      BY <2>7, <2>8, <2>9, <2>10, <2>11 DEF StagesOK
  <1> QED
    BY <1>1, <1>2 DEF SettlePartial, Ledger!RegisterBalance, Ledger!BalanceIds
(* What MikroWisp has answered stays answered.                             *)
LEMMA PostsKept ==
  ASSUME FlowInv, [Next]_vars, NEW t \in Tasks, posts[t].pc = "answered"
  PROVE  posts'[t].pc = "answered"
  BY ManagerMoves, ComponentAssumptions, ManagerProof!AnswersStay DEF FlowInv, ComponentsInv

(* Every invoice's task opens, none of them having been open before.       *)
LEMMA BeginStages ==
  ASSUME FlowInv, [Next]_vars, NEW r \in Requests, Resumes(r), BeginPaying(r),
         UNCHANGED <<bankVars, ledgerVars, bankRows, deletions>>
  PROVE  StagesOK'
  <1>1. /\ \A q \in Requests : q # r => requests'[q] = requests[q]
        /\ \A q \in Requests : Sent(q)' = Sent(q)
        /\ requests[r].pc = "bank" /\ bank[r].pc = "confirmed" /\ requests'[r].pc = "paying"
    BY DEF Resumes, BeginPaying, Answer, FlowInv, FlowTypeOK, Sent
  <1>2. \A t \in Tasks : tasks'[t] = IF t \in TasksOf(r) THEN "open" ELSE tasks[t]
    BY DEF BeginPaying
  <1>3. \A q : TransactionExists(q)' <=> TransactionExists(q)
    BY ExistsKept DEF bankVars
  <1>4. \A q \in Requests : TasksOf(q)' = TasksOf(q)
    BY <1>1 DEF TasksOf
  <1>5. \A t \in Tasks : RequestOf(t) = r => tasks[t] = "idle"
    BY <1>1 DEF FlowInv, StagesOK, TaskOK, Paid
  <1>6. \A t \in Tasks : t \in TasksOf(r) => RequestOf(t) = r
    BY DEF TasksOf
  <1>7. \A q \in Requests : HasDone(q) => HasDone(q)'
    BY <1>2, <1>5, <1>6 DEF HasDone
  <1> USE <1>1, <1>2, <1>3, <1>4, <1>5, <1>6 DEF bankVars, ledgerVars
  <1>8. ASSUME NEW q \in Requests PROVE RequestOK(q)'
    <2>1. RequestOK(q)
      BY DEF FlowInv, StagesOK
    <2>2. CASE q = r
      BY <1>7, <2>1, <2>2 DEF RequestOK, Bank!BankInFlight
    <2>3. CASE q # r
      <3>1. \A t \in TasksOf(q) : t \notin TasksOf(r)
        BY <2>3 DEF TasksOf
      <3>2. \A t \in TasksOf(q) : tasks'[t] = tasks[t]
        BY <3>1 DEF TasksOf
      <3> QED
        BY <1>7, <2>1, <2>3, <3>2 DEF RequestOK
    <2> QED
      BY <2>2, <2>3
  <1>9. ASSUME NEW t \in Tasks PROVE TaskOK(t)'
    <2>1. TaskOK(t) /\ RequestOf(t) \in Requests
      BY TaskParts DEF FlowInv, StagesOK
    <2>2. posts[t].pc = "answered" => posts'[t].pc = "answered"
      BY PostsKept
    <2>3. CASE RequestOf(t) = r
      BY <2>1, <2>3 DEF TaskOK, Paid
    <2>4. CASE RequestOf(t) # r
      BY <2>1, <2>2, <2>4 DEF TaskOK
    <2> QED
      BY <2>3, <2>4
  <1>10. ASSUME NEW b \in DOMAIN balances' PROVE BalanceOK(b)'
    <2>1. BalanceOK(b) /\ balances[b].txn \in Requests
      BY BalanceParts DEF FlowInv, StagesOK
    <2>2. balances[b].txn # r
      BY <2>1 DEF BalanceOK
    <2> QED
      BY <2>1, <2>2 DEF BalanceOK, Received
  <1>11. OneBalance'
    BY DEF FlowInv, StagesOK, OneBalance
  <1>12. ASSUME NEW d \in Deletions PROVE DeletionOK(d)'
    <2>1. deletions[d].txn \in Requests
      BY DEF FlowInv, FlowTypeOK
    <2> QED
      BY <1>7, <2>1 DEF FlowInv, StagesOK, DeletionOK, HasBalance
  <1> QED
    BY <1>8, <1>9, <1>10, <1>11, <1>12 DEF StagesOK

LEMMA FullStages ==
  ASSUME FlowInv, [Next]_vars, NEW r \in Requests, SettleFull(r)
  PROVE  StagesOK'
  <1>1. CASE BeginPaying(r)
    BY <1>1, BeginStages DEF SettleFull
  <1>2. CASE Answer(r, "insufficient") /\ UNCHANGED <<tasks, managerVars>>
    BY <1>2, AnswerStages DEF SettleFull, Resumes, Bank!BankInFlight, RequestEnded
  <1> QED
    BY <1>1, <1>2 DEF SettleFull

(* A step of a component alone: MikroWisp moves, or the calls of the       *)
(* ledger that are in flight do.                                           *)
LEMMA QuietStages ==
  ASSUME FlowInv, [Next]_vars, UNCHANGED <<bankVars, requests, tasks, bankRows>>,
         DOMAIN balances' = DOMAIN balances,
         \A b \in DOMAIN balances :
            /\ balances'[b].txn = balances[b].txn
            /\ balances'[b].client = balances[b].client
            /\ balances'[b].initial = balances[b].initial,
         \A t \in Tasks : LedgerProof!CallMoves(t) \/ calls'[t] = calls[t]
                          \/ ApplyBalance(t),
         \A d \in Deletions :
            deletions'[d].pc = "undoing" =>
               deletions[d].pc = "undoing" /\ deletions'[d].txn = deletions[d].txn
  PROVE  StagesOK'
  <1>1. \A q : TransactionExists(q)' <=> TransactionExists(q)
    BY ExistsKept DEF bankVars
  <1> USE <1>1 DEF bankVars
  <1>2. ASSUME NEW q \in Requests PROVE RequestOK(q)'
    BY DEF FlowInv, StagesOK, RequestOK, HasDone, TasksOf, Sent
  <1>3. ASSUME NEW t \in Tasks PROVE TaskOK(t)'
    <2>1. TaskOK(t)
      BY DEF FlowInv, StagesOK
    <2>2. posts[t].pc = "answered" => posts'[t].pc = "answered"
      BY PostsKept
    <2>3. \/ calls'[t] = calls[t]
          \/ calls[t].pc # "idle" /\ calls[t].pc # "applied" /\ calls'[t].amount = calls[t].amount
          \/ ApplyBalance(t)
      BY DEF LedgerProof!CallMoves, LedgerProof!InFlight
    <2>4. CASE ApplyBalance(t)
      <3>1. /\ calls'[t].amount = ToUsd(Sent(RequestOf(t)).applied, Sent(RequestOf(t)).rate)
            /\ tasks[t] = "open" /\ posts'[t].pc = "answered"
        <4>1. calls \in [Tasks -> LedgerProof!Call]
          BY DEF FlowInv, ComponentsInv, LedgerProof!LedgerInv, LedgerProof!TypeOK
        <4>2. PICK client, amount :
                 /\ amount = ToUsd(Sent(RequestOf(t)).applied, Sent(RequestOf(t)).rate)
                 /\ Ledger!StartApply(t, client, amount)
          BY <2>4 DEF ApplyBalance
        <4>3. calls'[t].amount = amount
          BY <4>1, <4>2 DEF Ledger!StartApply, LedgerProof!Call
        <4> QED
          BY <2>2, <2>4, <4>2, <4>3 DEF ApplyBalance
      <3> QED
        BY <2>1, <3>1 DEF TaskOK, TasksOf, Sent
    <2>5. CASE calls'[t] = calls[t]
      BY <2>1, <2>2, <2>5 DEF TaskOK, TasksOf, Sent
    <2>6. CASE calls[t].pc # "idle" /\ calls[t].pc # "applied"
               /\ calls'[t].amount = calls[t].amount
      BY <2>1, <2>2, <2>6 DEF TaskOK, TasksOf, Sent
    <2> QED
      BY <2>3, <2>4, <2>5, <2>6
  <1>4. ASSUME NEW b \in DOMAIN balances' PROVE BalanceOK(b)'
    BY DEF FlowInv, StagesOK, BalanceOK, Sent, Received
  <1>5. OneBalance' /\ \A d \in Deletions : DeletionOK(d)'
    BY DEF FlowInv, StagesOK, OneBalance, DeletionOK, HasDone, HasBalance
  <1> QED
    BY <1>2, <1>3, <1>4, <1>5 DEF StagesOK
(* A task comes to an end, with a row or without.                          *)
LEMMA TaskEndStages ==
  ASSUME FlowInv, NEW t \in Tasks, tasks[t] = "open",
         UNCHANGED <<bankVars, ledgerVars, managerVars, requests, deletions>>,
         \/ /\ tasks' = [tasks EXCEPT ![t] = "failed"]
            /\ bankRows' = bankRows
         \/ /\ tasks' = [tasks EXCEPT ![t] = "done"]
            /\ bankRows' = bankRows \cup {t}
            /\ ReadyToRecord(t) /\ TransactionExists(RequestOf(t))
  PROVE  StagesOK'
  <1>1. \A q : TransactionExists(q)' <=> TransactionExists(q)
    BY ExistsKept DEF bankVars
  <1>2. /\ tasks'[t] \in {"done", "failed"} /\ \A u \in Tasks : u # t => tasks'[u] = tasks[u]
        /\ tasks'[t] = "done" => t \in bankRows' /\ ReadyToRecord(t)
                                 /\ TransactionExists(RequestOf(t))
        /\ t \in bankRows' => tasks'[t] = "done" \/ t \in bankRows
        /\ \A u \in Tasks : u # t => (u \in bankRows' <=> u \in bankRows)
    BY DEF FlowInv, FlowTypeOK
  <1>3. \A q \in Requests : TasksOf(q)' = TasksOf(q) /\ Sent(q)' = Sent(q)
    BY DEF TasksOf, Sent
  <1>4. \A q : HasDone(q) => HasDone(q)'
    BY <1>2 DEF HasDone
  <1> USE <1>1, <1>2, <1>3, <1>4 DEF bankVars, ledgerVars, managerVars
  <1>5. ASSUME NEW q \in Requests PROVE RequestOK(q)'
    <2>1. RequestOK(q)
      BY DEF FlowInv, StagesOK
    <2>2. t \in TasksOf(q) => requests[q].pc # "success"
      BY DEF FlowInv, StagesOK, TaskOK, TasksOf
    <2>3. requests[q].pc = "success" => \A u \in TasksOf(q) : tasks'[u] = tasks[u]
      BY <2>2 DEF TasksOf
    <2> QED
      BY <2>1, <2>3 DEF RequestOK
  <1>6. ASSUME NEW u \in Tasks PROVE TaskOK(u)'
    <2>1. TaskOK(u) /\ RequestOf(u) \in Requests
      BY TaskParts DEF FlowInv, StagesOK
    <2>2. CASE u # t
      BY <2>1, <2>2 DEF TaskOK
    <2>3. CASE u = t
      BY <2>1, <2>3 DEF TaskOK, ReadyToRecord, Paid
    <2> QED
      BY <2>2, <2>3
  <1>7. \A b \in DOMAIN balances' : BalanceOK(b)'
    BY DEF FlowInv, StagesOK, BalanceOK, Sent, Received
  <1>8. OneBalance' /\ \A d \in Deletions : DeletionOK(d)'
    BY DEF FlowInv, StagesOK, OneBalance, DeletionOK, HasBalance
  <1> QED
    BY <1>5, <1>6, <1>7, <1>8 DEF StagesOK

(* A deletion begins only for money that has been used.                    *)
LEMMA StartDeletionStages ==
  ASSUME FlowInv, NEW d \in Deletions, NEW r \in Requests, StartDeletion(d, r)
  PROVE  StagesOK'
  <1>1. UNCHANGED <<bankVars, ledgerVars, managerVars, requests, tasks, bankRows>>
    BY DEF StartDeletion
  <1>2. \A q : TransactionExists(q)' <=> TransactionExists(q)
    BY <1>1, ExistsKept DEF bankVars
  <1> USE <1>1, <1>2 DEF bankVars, ledgerVars, managerVars
  <1>3. \A q \in Requests : RequestOK(q)'
    BY DEF FlowInv, StagesOK, RequestOK, HasDone, TasksOf, Sent
  <1>4. \A t \in Tasks : TaskOK(t)'
    BY DEF FlowInv, StagesOK, TaskOK, TasksOf, Sent
  <1>5. \A b \in DOMAIN balances' : BalanceOK(b)'
    BY DEF FlowInv, StagesOK, BalanceOK, Sent, Received
  <1>6. OneBalance'
    BY DEF FlowInv, StagesOK, OneBalance
  <1>7. ASSUME InvoicesOf(r) # {} PROVE HasDone(r) \/ HasBalance(r)
    <2>1. CASE \E t \in bankRows : RequestOf(t) = r
      <3>1. PICK t \in bankRows : RequestOf(t) = r
        BY <2>1
      <3>2. t \in Tasks
        BY DEF FlowInv, FlowTypeOK
      <3> QED
        BY <3>1, <3>2 DEF FlowInv, StagesOK, TaskOK, HasDone
    <2>2. CASE \E p \in payments : p.txn = r
      BY <2>2 DEF FlowInv, ComponentsInv, LedgerProof!RowsInv, LedgerProof!RowsPaired,
                  LedgerProof!BalanceIds, HasBalance
    <2> QED
      BY <1>7, <2>1, <2>2 DEF InvoicesOf
  <1>8. ASSUME NEW e \in Deletions PROVE DeletionOK(e)'
    <2>1. deletions \in [Deletions -> [pc : {"idle"} \cup DeletionInFlight \cup DeletionEnded,
                                       txn : Requests, pending : SUBSET Invoices]]
      BY DEF FlowInv, FlowTypeOK
    <2>2. \/ deletions'[e] = deletions[e]
          \/ /\ deletions'[e].txn = r
             /\ deletions'[e].pc = "undoing" => InvoicesOf(r) # {}
      BY <2>1 DEF StartDeletion
    <2> QED
      BY <1>7, <2>2 DEF FlowInv, StagesOK, DeletionOK, HasDone, HasBalance
  <1> QED
    BY <1>3, <1>4, <1>5, <1>6, <1>8 DEF StagesOK

(* The rows of one transaction go, which no balance was funded with.       *)
LEMMA EraseStages ==
  ASSUME FlowInv, [Next]_vars, NEW d \in Deletions, EraseLocally(d)
  PROVE  StagesOK'
  <1>0. PICK r \in Requests : r = deletions[d].txn
    BY DEF FlowInv, FlowTypeOK
  <1>1. UNCHANGED <<bank, charged, ledgerVars, managerVars, requests, tasks>>
    BY DEF EraseLocally
  <1>2. \A e \in Deletions : deletions'[e].pc = "undoing" => deletions'[e] = deletions[e]
    BY DEF EraseLocally, FlowInv, FlowTypeOK
  <1>3. CASE UNCHANGED <<transactions, bankRows>>
    BY <1>1, <1>2, <1>3, QuietStages DEF bankVars, ledgerVars
  <1>4. CASE /\ ~Referenced(r)
             /\ bankRows' = {t \in bankRows : RequestOf(t) # r}
             /\ transactions' = transactions \ Bank!TransactionsOf(r)
    <2>1. /\ ~TransactionExists(r)'
          /\ \A q : q # r => (TransactionExists(q)' <=> TransactionExists(q))
      BY <1>4 DEF TransactionExists, Bank!TransactionsOf
    <2>2. HasDone(r) /\ \A b \in DOMAIN balances : balances[b].txn # r
      <3>1. deletions[d].pc = "undoing"
        BY DEF EraseLocally
      <3>2. HasDone(r) \/ HasBalance(r)
        BY <1>0, <3>1 DEF FlowInv, StagesOK, DeletionOK
      <3> QED
        BY <1>4, <3>2 DEF Referenced, HasBalance
    <2> USE <1>1, <2>1, <2>2 DEF ledgerVars, managerVars
    <2>3. ASSUME NEW q \in Requests PROVE RequestOK(q)'
      <3>1. RequestOK(q) /\ (HasDone(q) => HasDone(q)') /\ TasksOf(q)' = TasksOf(q)
        BY DEF FlowInv, StagesOK, HasDone, TasksOf, Sent
      <3>2. CASE q = r
        BY <3>1, <3>2 DEF RequestOK
      <3>3. CASE q # r
        BY <3>1, <3>3 DEF RequestOK
      <3> QED
        BY <3>2, <3>3
    <2>4. ASSUME NEW t \in Tasks PROVE TaskOK(t)'
      <3>1. TaskOK(t) /\ TasksOf(RequestOf(t))' = TasksOf(RequestOf(t))
            /\ Sent(RequestOf(t))' = Sent(RequestOf(t))
        BY DEF FlowInv, StagesOK, TasksOf, Sent
      <3>2. t \in bankRows' <=> t \in bankRows /\ RequestOf(t) # r
        BY <1>4
      <3> QED
        BY <3>1, <3>2 DEF TaskOK
    <2>5. \A b \in DOMAIN balances' : BalanceOK(b)'
      BY DEF FlowInv, StagesOK, BalanceOK, Sent, Received
    <2>6. OneBalance' /\ \A e \in Deletions : DeletionOK(e)'
      BY <1>2 DEF FlowInv, StagesOK, OneBalance, DeletionOK, HasDone, HasBalance
    <2> QED
      BY <2>3, <2>4, <2>5, <2>6 DEF StagesOK
  <1> QED
    BY <1>0, <1>3, <1>4 DEF EraseLocally
(* The process dies in the middle of everything.                           *)
LEMMA CrashStages ==
  ASSUME FlowInv, [Next]_vars, Crash
  PROVE  StagesOK'
  <1>1. /\ \A q \in Requests : Sent(q)' = Sent(q)
        /\ \A q \in Requests : requests'[q].pc = IF requests[q].pc \in RequestInFlight
                                                 THEN "crashed" ELSE requests[q].pc
    BY DEF Crash, FlowInv, FlowTypeOK, Sent
  <1>2. \A q \in Requests : /\ bank'[q].pc = IF bank[q].pc \in Bank!BankInFlight
                                             THEN "crashed" ELSE bank[q].pc
                            /\ bank'[q].amount = bank[q].amount
    BY DEF Crash, Bank!BankCrash, FlowInv, ComponentsInv, BankProof!FundedInv,
           BankProof!BankTypeOK, BankProof!BankCall
  <1>3. \A q : TransactionExists(q)' <=> TransactionExists(q)
    BY ExistsKept DEF Crash, Bank!BankCrash
  <1>4. \A t \in Tasks : tasks'[t] = IF tasks[t] = "open" THEN "crashed" ELSE tasks[t]
    BY DEF Crash
  <1>5. (\A t \in Tasks : LedgerProof!CallMoves(t)) /\ balances' = balances
    <2>1. CASE UNCHANGED ledgerVars
      BY <2>1 DEF ledgerVars, LedgerProof!CallMoves
    <2>2. CASE Ledger!Crash
      BY <2>2, SameLedger, ComponentAssumptions, LedgerProof!CrashMoves
         DEF FlowInv, ComponentsInv
    <2> QED
      BY <2>1, <2>2 DEF Crash
  <1>6. bankRows' = bankRows /\ \A d \in Deletions : deletions'[d].pc # "undoing"
    BY DEF Crash, FlowInv, FlowTypeOK
  <1>7. \A q \in Requests : TasksOf(q)' = TasksOf(q) /\ (HasDone(q) => HasDone(q)')
    BY <1>1, <1>4 DEF TasksOf, HasDone
  <1> USE <1>1, <1>2, <1>3, <1>4, <1>5, <1>6, <1>7 DEF RequestInFlight, Bank!BankInFlight
  <1>8. ASSUME NEW q \in Requests PROVE RequestOK(q)'
    <2>1. RequestOK(q) /\ \A t \in TasksOf(q) : tasks[t] = "done" => tasks'[t] = "done"
      BY DEF FlowInv, StagesOK, TasksOf
    <2> QED
      BY <2>1 DEF RequestOK
  <1>9. ASSUME NEW t \in Tasks PROVE TaskOK(t)'
    <2>1. TaskOK(t) /\ RequestOf(t) \in Requests
      BY TaskParts DEF FlowInv, StagesOK
    <2>2. posts[t].pc = "answered" => posts'[t].pc = "answered"
      BY PostsKept
    <2>3. \/ calls'[t] = calls[t]
          \/ calls[t].pc \notin {"idle", "applied"} /\ calls'[t].amount = calls[t].amount
      BY DEF LedgerProof!CallMoves, LedgerProof!InFlight
    <2>4. CASE calls'[t] = calls[t]
      BY <2>1, <2>2, <2>4 DEF TaskOK, Paid
    <2>5. CASE calls[t].pc \notin {"idle", "applied"} /\ calls'[t].amount = calls[t].amount
      BY <2>1, <2>2, <2>5 DEF TaskOK, Paid
    <2> QED
      BY <2>3, <2>4, <2>5
  <1>10. ASSUME NEW b \in DOMAIN balances' PROVE BalanceOK(b)'
    <2>1. BalanceOK(b) /\ balances[b].txn \in Requests
      BY BalanceParts DEF FlowInv, StagesOK
    <2> QED
      BY <2>1 DEF BalanceOK, Received
  <1>11. OneBalance' /\ \A d \in Deletions : DeletionOK(d)'
    BY DEF FlowInv, StagesOK, OneBalance, DeletionOK
  <1> QED
    BY <1>8, <1>9, <1>10, <1>11 DEF StagesOK

LEMMA RequestStages ==
  ASSUME FlowInv, [Next]_vars, NEW r \in Requests, LookupFails(r) \/ RequestStep(r)
  PROVE  StagesOK'
  <1> USE DEF RequestEnded
  <1>0. RequestOK(r)
    BY DEF FlowInv, StagesOK
  <1>1. CASE LookupFails(r)
    BY <1>0, <1>1, AnswerStages DEF LookupFails, RequestOK, Bank!BankInFlight
  <1>2. CASE BankWorks(r)
    BY <1>2, BankStages
  <1>3. CASE ReturnRefusal(r)
    BY <1>3, AnswerStages DEF ReturnRefusal, Bank!BankInFlight
  <1>4. CASE SettlePartial(r)
    BY <1>4, PartialStages
  <1>5. CASE SettleFull(r)
    BY <1>5, FullStages
  <1>6. CASE RequestThrows(r)
    BY <1>6, AnswerStages DEF RequestThrows, Resumes, Bank!BankInFlight
  <1>7. CASE ReturnSuccess(r)
    BY <1>7, AnswerStages DEF ReturnSuccess
  <1>8. CASE ReturnFailure(r)
    BY <1>8, AnswerStages DEF ReturnFailure
  <1> QED
    BY <1>1, <1>2, <1>3, <1>4, <1>5, <1>6, <1>7, <1>8 DEF RequestStep

LEMMA TaskStages ==
  ASSUME FlowInv, [Next]_vars, NEW t \in Tasks, TaskStep(t)
  PROVE  StagesOK'
  <1>1. CASE ManagerWorks(t)
    BY <1>1, QuietStages DEF ManagerWorks, ledgerVars, flowVars
  <1>2. CASE ApplyBalance(t)
    <2>1. calls \in [Tasks -> LedgerProof!Call]
      BY DEF FlowInv, ComponentsInv, LedgerProof!LedgerInv, LedgerProof!TypeOK
    <2>2. /\ balances' = balances /\ UNCHANGED <<bankVars, flowVars>>
          /\ \A u \in Tasks : u # t => calls'[u] = calls[u]
      BY <1>2, <2>1 DEF ApplyBalance, Ledger!StartApply, Ledger!tables
    <2> QED
      BY <1>2, <2>2, QuietStages DEF flowVars
  <1>3. CASE LedgerWorks(t)
    <2>1. LedgerProof!ApplyStep(t) \/ LedgerProof!FailApply(t)
      BY <1>3, SameLedger DEF LedgerWorks
    <2>2. (\A u \in Tasks : LedgerProof!CallMoves(u)) /\ DOMAIN balances' = DOMAIN balances
      BY <2>1, ComponentAssumptions, LedgerProof!ApplyMoves
         DEF FlowInv, ComponentsInv, LedgerProof!BalanceIds
    <2>3. LedgerProof!SameOwners
      BY LedgerMoves, ComponentAssumptions, LedgerProof!OwnersKept DEF FlowInv, ComponentsInv
    <2> QED
      BY <1>3, <2>2, <2>3, QuietStages
         DEF LedgerWorks, flowVars, LedgerProof!SameOwners, LedgerProof!BalanceIds
  <1>4. CASE RecordPayment(t)
    BY <1>4, TaskEndStages DEF RecordPayment, ReadyToRecord
  <1>5. CASE TaskThrows(t)
    BY <1>5, TaskEndStages DEF TaskThrows
  <1> QED
    BY <1>1, <1>2, <1>3, <1>4, <1>5 DEF TaskStep

LEMMA FlowStep == FlowInv /\ [Next]_vars => FlowInv'
  <1> SUFFICES ASSUME FlowInv, [Next]_vars PROVE FlowInv'
    OBVIOUS
  <1>1. FlowTypeOK' /\ ComponentsInv'
    BY FlowTypeStep, ComponentsStep DEF FlowInv
  <1>2. ASSUME NEW r \in Requests, NEW input \in Inputs, StartPayment(r, input)
        PROVE  StagesOK'
    BY <1>2, StartStages
  <1>3. ASSUME NEW r \in Requests, LookupFails(r) \/ RequestStep(r) PROVE StagesOK'
    BY <1>3, RequestStages
  <1>4. ASSUME NEW t \in Tasks, TaskStep(t) PROVE StagesOK'
    BY <1>4, TaskStages
  <1>5. ASSUME NEW d \in Deletions, NEW r \in Requests, StartDeletion(d, r) PROVE StagesOK'
    BY <1>5, StartDeletionStages
  <1>6. ASSUME NEW d \in Deletions, NEW i \in Invoices, UndoPayment(d, i) PROVE StagesOK'
    <2>1. /\ UNCHANGED <<bankVars, ledgerVars, requests, tasks, bankRows>>
          /\ \A e \in Deletions : deletions'[e].pc = "undoing" =>
                deletions[e].pc = "undoing" /\ deletions'[e].txn = deletions[e].txn
      BY <1>6 DEF UndoPayment, FlowInv, FlowTypeOK
    <2> QED
      BY <2>1, QuietStages DEF ledgerVars
  <1>7. ASSUME NEW d \in Deletions, EraseLocally(d) PROVE StagesOK'
    BY <1>7, EraseStages
  <1>8. ASSUME Crash PROVE StagesOK'
    BY <1>8, CrashStages
  <1>9. ASSUME UNCHANGED vars PROVE StagesOK'
    BY <1>9, QuietStages DEF vars, bankVars
  <1> QED
    BY <1>1, <1>2, <1>3, <1>4, <1>5, <1>6, <1>7, <1>8, <1>9
       DEF FlowInv, Next, DeletionStep

THEOREM FlowInvariant == Spec => []FlowInv
  BY FlowInit, FlowStep, PTL DEF Spec

(* Every reachable state of a payment, its bank calls, its balances and    *)
(* its posts is well typed.                                                *)
THEOREM FlowTypeCorrect == Spec => []TypeOK
  <1>1. FlowInv => TypeOK
    BY SameBank, SameLedger, SameManager
       DEF FlowInv, ComponentsInv, TypeOK, BankProof!FundedInv, LedgerProof!LedgerInv,
           ManagerProof!ManagerInv
  <1> QED
    BY <1>1, FlowInvariant, PTL

(* invoice_payments never says an invoice is paid that MikroWisp has not   *)
(* registered: each row is written only after payInvoice has come back.    *)
THEOREM RecordsArePaid == Spec => []RecordedIsPaid
  <1>1. FlowInv => RecordedIsPaid
    <2> SUFFICES ASSUME FlowInv, NEW t \in bankRows \cup {p.call : p \in payments}
                 PROVE  Invoice(t) \in undone \/ Manager!IsPaidBy(t)
      BY DEF RecordedIsPaid
    <2>1. t \in Tasks /\ posts[t].pc = "answered"
      <3>1. CASE t \in bankRows
        BY <3>1 DEF FlowInv, FlowTypeOK, StagesOK, TaskOK
      <3>2. CASE t \in {p.call : p \in payments}
        <4>1. t \in Tasks /\ calls[t].pc = "applied"
          BY <3>2 DEF FlowInv, ComponentsInv, LedgerProof!LedgerInv, LedgerProof!TypeOK,
                      LedgerProof!Payment, LedgerProof!RowsInv
        <4> QED
          BY <4>1 DEF FlowInv, StagesOK, TaskOK
      <3> QED
        BY <3>1, <3>2
    <2>2. ManagerProof!PostAgrees(t)
      BY <2>1 DEF FlowInv, ComponentsInv, ManagerProof!ManagerInv
    <2> QED
      BY <2>1, <2>2 DEF ManagerProof!PostAgrees, ManagerProof!Paying, Manager!IsPaidBy
  <1> QED
    BY <1>1, FlowInvariant, PTL

(* No deletion removes a transaction that invoice_payments or              *)
(* client_balance still points to.                                         *)
THEOREM NothingLeftDangling == Spec => []NothingDangles
  <1>1. FlowInv => NothingDangles
    <2> SUFFICES ASSUME FlowInv PROVE NothingDangles
      OBVIOUS
    <2>1. \A t \in bankRows : TransactionExists(RequestOf(t))
      BY DEF FlowInv, FlowTypeOK, StagesOK, TaskOK
    <2>2. \A b \in DOMAIN balances : TransactionExists(balances[b].txn)
      BY DEF FlowInv, StagesOK, BalanceOK
    <2>3. \A p \in payments : TransactionExists(p.txn)
      BY <2>2 DEF FlowInv, ComponentsInv, LedgerProof!RowsInv, LedgerProof!RowsPaired,
                  LedgerProof!BalanceIds
    <2> QED
      BY <2>1, <2>2, <2>3 DEF NothingDangles
  <1> QED
    BY <1>1, FlowInvariant, PTL

(* The money of a transaction pays invoices or becomes one balance of its  *)
(* client, of the amount received, whatever requests, deletions and        *)
(* crashes come between.                                                   *)
THEOREM MoneyUsedOnce == Spec => []MoneyHasOneUse
  <1>1. FlowInv => MoneyHasOneUse
    <2> SUFFICES ASSUME FlowInv, NEW r \in Requests
                 PROVE  LET paysInvoices == \E t \in bankRows : RequestOf(t) = r
                            fundsBalance == {b \in DOMAIN balances : balances[b].txn = r}
                        IN  /\ ~(paysInvoices /\ fundsBalance # {})
                            /\ Cardinality(fundsBalance) <= 1
                            /\ \A b \in fundsBalance :
                                  /\ balances[b].initial = ToUsd(Received(r), Sent(r).rate)
                                  /\ balances[b].client = Sent(r).client
      BY DEF MoneyHasOneUse
    <2> DEFINE fundsBalance == {b \in DOMAIN balances : balances[b].txn = r}
    <2>1. fundsBalance # {} => requests[r].pc = "partial"
      BY DEF FlowInv, StagesOK, BalanceOK
    <2>2. (\E t \in bankRows : RequestOf(t) = r) => requests[r].pc \in Paid
      BY DEF FlowInv, FlowTypeOK, StagesOK, TaskOK
    <2>3. Cardinality(fundsBalance) <= 1
      <3>1. CASE fundsBalance = {}
        BY <3>1, FS_EmptySet
      <3>2. CASE fundsBalance # {}
        <4>1. PICK b \in fundsBalance : TRUE
          BY <3>2
        <4>2. fundsBalance = {b}
          BY <4>1 DEF FlowInv, StagesOK, OneBalance
        <4>3. Cardinality(fundsBalance) = 1
          BY <4>2, FS_Singleton
        <4> QED
          BY <4>3
      <3> QED
        BY <3>1, <3>2
    <2>4. \A b \in fundsBalance :
             /\ balances[b].initial = ToUsd(Received(r), Sent(r).rate)
             /\ balances[b].client = Sent(r).client
      BY DEF FlowInv, StagesOK, BalanceOK
    <2> QED
      BY <2>1, <2>2, <2>3, <2>4 DEF Paid
  <1> QED
    BY <1>1, FlowInvariant, PTL
(* A request answered with success has every invoice paid at MikroWisp,    *)
(* unless a deletion has since undone it, recorded in invoice_payments as  *)
(* long as the transaction is there, and the whole applied balance drawn   *)
(* for each of them.                                                       *)
THEOREM SuccessSettled == Spec => []SuccessIsSettled
  <1>1. FlowInv => SuccessIsSettled
    <2> SUFFICES ASSUME FlowInv, NEW r \in Requests, requests[r].pc = "success",
                        NEW t \in TasksOf(r)
                 PROVE  /\ Invoice(t) \in undone \/ Manager!IsPaidBy(t)
                        /\ TransactionExists(r) => t \in bankRows
                        /\ Sent(r).applied > 0 =>
                              Ledger!Total({p \in payments : p.call = t})
                                  = ToUsd(Sent(r).applied, Sent(r).rate)
      BY DEF SuccessIsSettled
    <2>1. t \in Tasks /\ RequestOf(t) = r /\ tasks[t] = "done" /\ TaskOK(t)
      BY DEF FlowInv, StagesOK, RequestOK, TasksOf
    <2>2. /\ posts[t].pc = "answered"
          /\ Sent(r).applied = 0 \/ calls[t].pc = "applied"
          /\ TransactionExists(r) => t \in bankRows
          /\ calls[t].pc = "applied" => calls[t].amount = ToUsd(Sent(r).applied, Sent(r).rate)
      BY <2>1 DEF TaskOK
    <2>3. Invoice(t) \in undone \/ Manager!IsPaidBy(t)
      <3>1. ManagerProof!PostAgrees(t)
        BY <2>1 DEF FlowInv, ComponentsInv, ManagerProof!ManagerInv
      <3> QED
        BY <2>1, <2>2, <3>1 DEF ManagerProof!PostAgrees, ManagerProof!Paying, Manager!IsPaidBy
    <2>4. ASSUME Sent(r).applied > 0
          PROVE  Ledger!Total({p \in payments : p.call = t})
                    = ToUsd(Sent(r).applied, Sent(r).rate)
      <3>1. calls[t].pc = "applied"
        BY <2>2, <2>4
      <3>2. LedgerProof!Total({p \in payments : p.call = t}) = calls[t].amount
        BY <2>1, <3>1 DEF FlowInv, ComponentsInv, LedgerProof!AmountsInv
      <3> QED
        BY <2>2, <3>1, <3>2, SameLedger
    <2> QED
      BY <2>2, <2>3, <2>4
  <1> QED
    BY <1>1, FlowInvariant, PTL
=============================================================================
