------------------------ MODULE PaymentContractProofs ------------------------
(***************************************************************************)
(* PaymentFlow implements PaymentContract: every step of a payment, of a   *)
(* task, of a deletion and of a crash is a step of the contract, or leaves *)
(* the money and the answers as they were.                                 *)
(***************************************************************************)
EXTENDS PaymentFlowProofs

HasRow(r) == \E t \in bankRows : RequestOf(t) = r

LEMMA MoneyKept ==
  ASSUME NEW r, bank'[r].pc = "confirmed" <=> bank[r].pc = "confirmed",
         TransactionExists(r)' <=> TransactionExists(r),
         HasBalance(r)' <=> HasBalance(r), HasRow(r)' <=> HasRow(r)
  PROVE  Money(r)' = Money(r)
  BY DEF Money, HasBalance, HasRow

(* The parts of the invariant that tell where the money is.                *)
LEMMA MoneyFacts ==
  ASSUME FlowInv, NEW r \in Requests
  PROVE  /\ HasBalance(r) => /\ bank[r].pc = "confirmed" /\ TransactionExists(r)
                             /\ requests[r].pc = "partial"
         /\ HasRow(r) => /\ bank[r].pc = "confirmed" /\ TransactionExists(r)
                         /\ requests[r].pc \in Paid
         /\ HasDone(r) => /\ bank[r].pc = "confirmed" /\ requests[r].pc \in Paid
                          /\ Sent(r).invoices # {}
                          /\ TransactionExists(r) => HasRow(r)
         /\ bank[r].pc = "confirmed" => TransactionExists(r) \/ HasDone(r)
         /\ bank[r].pc \in Bank!BankInFlight => requests[r].pc = "bank"
         /\ requests[r].pc = "idle" => bank[r].pc = "idle"
  <1>1. RequestOK(r) /\ (\A t \in Tasks : TaskOK(t)) /\ \A b \in DOMAIN balances : BalanceOK(b)
    BY DEF FlowInv, StagesOK
  <1>2. HasBalance(r) => /\ bank[r].pc = "confirmed" /\ TransactionExists(r)
                         /\ requests[r].pc = "partial"
    BY <1>1 DEF HasBalance, BalanceOK
  <1>3. HasRow(r) => /\ bank[r].pc = "confirmed" /\ TransactionExists(r)
                     /\ requests[r].pc \in Paid
    BY <1>1 DEF HasRow, TaskOK, FlowInv, FlowTypeOK
  <1>4. HasDone(r) => /\ bank[r].pc = "confirmed" /\ requests[r].pc \in Paid
                      /\ Sent(r).invoices # {}
                      /\ TransactionExists(r) => HasRow(r)
    BY <1>1 DEF HasDone, HasRow, TaskOK, TasksOf
  <1> QED
    BY <1>1, <1>2, <1>3, <1>4 DEF RequestOK

LEMMA MoneyMoves ==
  ASSUME NEW r \in Requests, NEW from, NEW to, Money(r) = from, Money(r)' = to,
         \A q \in Requests : q # r => Money(q)' = Money(q)
  PROVE  Contract!Move(r, from, to)
  BY DEF Contract!Move

LEMMA AnswerTells ==
  ASSUME FlowInv, NEW r \in Requests, NEW what \in RequestEnded, Answer(r, what),
         requests[r].pc \notin RequestEnded
  PROVE  Contract!Tell(r, what) /\ \A q \in Requests : Sent(q)' = Sent(q)
  BY DEF FlowInv, FlowTypeOK, Answer, Contract!Tell, Sent

(* Where nothing has moved and nothing been told.                          *)
LEMMA ContractStutters ==
  ASSUME FlowInv,
         \A q \in Requests : /\ Money(q)' = Money(q)
                             /\ requests'[q].pc = requests[q].pc \/
                                   {requests[q].pc, requests'[q].pc} \cap RequestEnded = {}
                             /\ bank'[q].pc = "idle" <=> bank[q].pc = "idle"
                             /\ bank[q].pc # "idle" => Sent(q)' = Sent(q)
  PROVE  UNCHANGED Contract!contractVars
  <1>1. \A q \in Requests :
           (IF requests[q].pc \in RequestEnded THEN requests[q].pc ELSE "open")'
              = IF requests[q].pc \in RequestEnded THEN requests[q].pc ELSE "open"
    OBVIOUS
  <1>2. {r \in Requests : bank[r].pc # "idle" /\ Sent(r).invoices = {}}'
           = {r \in Requests : bank[r].pc # "idle" /\ Sent(r).invoices = {}}
    OBVIOUS
  <1> QED
    BY <1>1, <1>2 DEF Contract!contractVars
-----------------------------------------------------------------------------
(***************************************************************************)
(* The steps of a request.                                                 *)
(***************************************************************************)

ForNothing == {r \in Requests : bank[r].pc # "idle" /\ Sent(r).invoices = {}}

LEMMA SameMoney ==
  ASSUME UNCHANGED <<bankVars, balances, bankRows>>
  PROVE  \A q \in Requests : Money(q)' = Money(q)
  <1>1. ASSUME NEW q \in Requests PROVE Money(q)' = Money(q)
    BY ExistsKept, MoneyKept DEF bankVars, HasBalance, HasRow
  <1> QED
    BY <1>1

(* A request is answered, its money where it was.                          *)
LEMMA AnswerContract ==
  ASSUME FlowInv, NEW r \in Requests, NEW what \in RequestEnded, Answer(r, what),
         UNCHANGED <<bankVars, balances, bankRows>>, requests[r].pc \notin RequestEnded,
         what = "partial" => Money(r) = "bank",
         what = "refused" => Money(r) = "none",
         what = "insufficient" => Money(r) = "bank",
         what = "success" =>
            Money(r) \in (IF r \in ForNothing THEN {"bank"} ELSE {"invoices", "deleted"}),
         what = "failed" => Money(r) # "balance",
         what # "crashed"
  PROVE  Contract!ContractNext
  <1>1. Contract!Tell(r, what) /\ \A q \in Requests : Sent(q)' = Sent(q)
    BY AnswerTells
  <1>2. [q \in Requests |-> Money(q)]' = [q \in Requests |-> Money(q)]
    BY SameMoney
  <1>3. UNCHANGED ForNothing
    BY <1>1 DEF ForNothing, bankVars
  <1>4. [q \in Requests |-> Money(q)][r] = Money(r)
    OBVIOUS
  <1>5. \/ Contract!Keep(r) \/ Contract!Refuse(r) \/ Contract!Reject(r)
        \/ Contract!Succeed(r) \/ Contract!Fail(r)
    BY <1>1, <1>2, <1>4 DEF RequestEnded, ForNothing, Contract!Keep, Contract!Refuse,
                            Contract!Reject, Contract!Succeed, Contract!Fail
  <1> QED
    BY <1>3, <1>5 DEF ForNothing, Contract!ContractNext

LEMMA StartContract ==
  ASSUME FlowInv, NEW r \in Requests, NEW input \in Inputs, StartPayment(r, input)
  PROVE  [Contract!ContractNext]_Contract!contractVars
  <1>1. /\ requests[r].pc = "idle" /\ bank[r].pc = "idle"
        /\ requests'[r].pc = "bank" /\ Sent(r)' = input
        /\ bank'[r].pc \in {"checking", "charging"}
        /\ \A q \in Requests : q # r => /\ requests'[q] = requests[q] /\ bank'[q] = bank[q]
                                        /\ Sent(q)' = Sent(q)
        /\ UNCHANGED <<transactions, balances, bankRows>>
    BY MoneyFacts DEF StartPayment, Bank!StartVerification, Bank!StartCharge, FlowInv,
       ComponentsInv, BankProof!FundedInv, BankProof!BankTypeOK, FlowTypeOK, Sent, ledgerVars
  <1>2. ASSUME NEW q \in Requests PROVE Money(q)' = Money(q)
    <2>1. TransactionExists(q)' <=> TransactionExists(q)
      BY <1>1, ExistsKept
    <2> QED
      BY <1>1, <2>1, MoneyKept DEF HasBalance, HasRow
  <1>3. [q \in Requests |-> Money(q)]' = [q \in Requests |-> Money(q)]
    BY <1>2
  <1>4. [q \in Requests |-> IF requests[q].pc \in RequestEnded
                            THEN requests[q].pc ELSE "open"]'
           = [q \in Requests |-> IF requests[q].pc \in RequestEnded
                                 THEN requests[q].pc ELSE "open"]
    BY <1>1 DEF RequestEnded
  <1>5. CASE input.invoices = {}
    <2>1. ForNothing' = ForNothing \cup {r}
      BY <1>1, <1>5 DEF ForNothing
    <2>2. Money(r) = "none"
      BY <1>1 DEF Money
    <2>3. Contract!AskForNothing(r)
      BY <1>1, <1>3, <1>4, <2>1, <2>2 DEF ForNothing, RequestEnded, Contract!AskForNothing
    <2> QED
      BY <2>3 DEF Contract!ContractNext
  <1>6. CASE input.invoices # {}
    <2>1. ForNothing' = ForNothing
      BY <1>1, <1>6 DEF ForNothing
    <2> QED
      BY <1>3, <1>4, <2>1 DEF ForNothing, Contract!contractVars
  <1> QED
    BY <1>5, <1>6

(* The bank takes the money when the SUCCESS row is written, and moves     *)
(* nothing before.                                                         *)
LEMMA BankContract ==
  ASSUME FlowInv, NEW r \in Requests, BankWorks(r)
  PROVE  [Contract!ContractNext]_Contract!contractVars
  <1>1. UNCHANGED <<requests, balances, bankRows>>
    BY DEF BankWorks, ledgerVars, flowVars
  <1>2. /\ bank[r].pc \in Bank!BankInFlight /\ bank[r].pc # "confirmed" /\ bank[r].pc # "idle"
        /\ bank'[r].pc # "idle" /\ requests[r].pc = "bank"
        /\ \A q \in Requests : q # r => bank'[q] = bank[q]
    BY BankEffects, MoneyFacts DEF Bank!BankInFlight
  <1>3. ASSUME NEW q \in Requests, q # r PROVE Money(q)' = Money(q)
    <2>1. TransactionExists(q)' <=> TransactionExists(q)
      BY <1>3, BankEffects
    <2> QED
      BY <1>1, <1>2, <1>3, <2>1, MoneyKept DEF HasBalance, HasRow
  <1>4. Money(r) = "none"
    BY <1>2 DEF Money
  <1>5. \A q \in Requests : Sent(q)' = Sent(q)
    BY <1>1 DEF Sent
  <1>6. CASE bank'[r].pc # "confirmed"
    <2>1. Money(r)' = "none"
      BY <1>6 DEF Money
    <2> QED
      BY <1>1, <1>2, <1>3, <1>4, <1>5, <2>1, ContractStutters
  <1>7. CASE bank'[r].pc = "confirmed"
    <2>1. TransactionExists(r)' /\ ~HasBalance(r)' /\ ~HasRow(r)'
      BY <1>1, <1>2, <1>7, BankEffects, MoneyFacts DEF HasBalance, HasRow
    <2>2. Money(r)' = "bank"
      BY <1>7, <2>1 DEF Money, HasBalance, HasRow
    <2>3. Contract!Move(r, "none", "bank")
      BY <1>3, <1>4, <2>2, MoneyMoves
    <2>4. ForNothing' = ForNothing
      BY <1>2, <1>5 DEF ForNothing
    <2>5. Contract!Take(r)
      BY <1>1, <1>2, <2>3 DEF Contract!Take, RequestEnded
    <2> QED
      BY <2>4, <2>5 DEF ForNothing, Contract!ContractNext
  <1> QED
    BY <1>6, <1>7
(* Money with the bank, of a request that has not begun to pay.            *)
LEMMA ConfirmedIsBank ==
  ASSUME FlowInv, NEW r \in Requests, Resumes(r)
  PROVE  Money(r) = "bank" /\ ~HasBalance(r) /\ ~HasRow(r) /\ TransactionExists(r)
  <1>1. bank[r].pc = "confirmed" /\ requests[r].pc = "bank"
    BY DEF Resumes
  <1>2. ~HasBalance(r) /\ ~HasRow(r) /\ TransactionExists(r)
    BY <1>1, MoneyFacts DEF Paid
  <1> QED
    BY <1>1, <1>2 DEF Money, HasBalance, HasRow

LEMMA PartialContract ==
  ASSUME FlowInv, NEW r \in Requests, SettlePartial(r)
  PROVE  [Contract!ContractNext]_Contract!contractVars
  <1>1. /\ Resumes(r) /\ requests[r].pc = "bank" /\ bank[r].pc = "confirmed"
        /\ Answer(r, "partial") /\ UNCHANGED <<bankVars, bankRows>>
        /\ "partial" \in RequestEnded /\ requests[r].pc \notin RequestEnded
    BY DEF SettlePartial, Resumes, RequestEnded
  <1>2. Money(r) = "bank" /\ TransactionExists(r)
    BY <1>1, ConfirmedIsBank
  <1>3. CASE UNCHANGED ledgerVars
    BY <1>1, <1>2, <1>3, AnswerContract DEF ledgerVars
  <1>4. CASE \E row : row.txn = r /\ balances' = Append(balances, row)
    <2>1. PICK row : row.txn = r /\ balances' = Append(balances, row)
      BY <1>4
    <2>2. /\ balances \in Seq(LedgerProof!Balance) /\ Len(balances) \in Nat
          /\ DOMAIN balances = 1 .. Len(balances)
      BY DEF FlowInv, ComponentsInv, LedgerProof!LedgerInv, LedgerProof!TypeOK
    <2>3. /\ DOMAIN balances' = 1 .. Len(balances) + 1
          /\ \A b \in DOMAIN balances : b \in DOMAIN balances' /\ balances'[b] = balances[b]
          /\ balances'[Len(balances) + 1] = row
      BY <2>1, <2>2
    <2>4. \A q \in Requests : HasBalance(q)' <=> HasBalance(q) \/ q = r
      BY <2>1, <2>2, <2>3 DEF HasBalance
    <2>5. ASSUME NEW q \in Requests
          PROVE  TransactionExists(q)' <=> TransactionExists(q)
      BY <1>1, ExistsKept DEF bankVars
    <2>6. Money(r)' = "balance"
      BY <1>1, <1>2, <2>4, <2>5 DEF Money, HasBalance, bankVars
    <2>7. \A q \in Requests : q # r => Money(q)' = Money(q)
      BY <1>1, <2>4, <2>5, MoneyKept DEF HasRow, bankVars
    <2>8. Contract!Move(r, "bank", "balance")
      BY <1>2, <2>6, <2>7, MoneyMoves
    <2>9. Contract!Tell(r, "partial") /\ \A q \in Requests : Sent(q)' = Sent(q)
      BY <1>1, AnswerTells
    <2>10. ForNothing' = ForNothing
      BY <1>1, <2>9 DEF ForNothing, bankVars
    <2>11. Contract!Keep(r)
      BY <2>8, <2>9 DEF Contract!Keep
    <2> QED
      BY <2>10, <2>11 DEF ForNothing, Contract!ContractNext
  <1> QED
    <2>1. UNCHANGED ledgerVars \/ \E row : row.txn = r /\ balances' = Append(balances, row)
      <3>1. CASE UNCHANGED ledgerVars
        BY <3>1
      <3>2. ASSUME NEW client, NEW received, NEW expected,
                   Ledger!RegisterBalance(client, r, received, expected)
            PROVE  \E row : row.txn = r /\ balances' = Append(balances, row)
        <4> DEFINE row == [client |-> client, txn |-> r, initial |-> received,
                           current |-> received, status |-> "AVAILABLE"]
        <4>1. row.txn = r /\ balances' = Append(balances, row)
          BY <3>2 DEF Ledger!RegisterBalance
        <4> QED
          BY <4>1
      <3> QED
        BY <3>1, <3>2 DEF SettlePartial
    <2> QED
      BY <1>3, <1>4, <2>1

(* A request that names an invoice succeeds on money spent, the            *)
(* transaction perhaps deleted by then; one that names none leaves the     *)
(* money with the bank.                                                    *)
LEMMA SuccessContract ==
  ASSUME FlowInv, NEW r \in Requests, ReturnSuccess(r)
  PROVE  [Contract!ContractNext]_Contract!contractVars
  <1>1. /\ requests[r].pc = "paying" /\ bank[r].pc = "confirmed"
        /\ Answer(r, "success") /\ UNCHANGED <<bankVars, balances, bankRows>>
        /\ "success" \in RequestEnded /\ requests[r].pc \notin RequestEnded
        /\ \A t \in TasksOf(r) : tasks[t] = "done"
    BY DEF ReturnSuccess, FlowInv, StagesOK, RequestOK, RequestEnded, ledgerVars
  <1>2. ~HasBalance(r)
    BY <1>1, MoneyFacts
  <1>3. CASE Sent(r).invoices = {}
    <2>1. ~HasDone(r) /\ ~HasRow(r) /\ TransactionExists(r)
      <3>1. ~HasDone(r) /\ TransactionExists(r)
        BY <1>1, <1>3, MoneyFacts
      <3>2. HasRow(r) => HasDone(r)
        BY DEF HasRow, HasDone, FlowInv, FlowTypeOK, StagesOK, TaskOK
      <3> QED
        BY <3>1, <3>2
    <2>2. Money(r) = "bank" /\ r \in ForNothing
      BY <1>1, <1>2, <1>3, <2>1 DEF Money, HasBalance, HasRow, ForNothing
    <2> QED
      BY <1>1, <2>2, AnswerContract
  <1>4. CASE Sent(r).invoices # {}
    <2>1. PICK i \in Invoices : i \in Sent(r).invoices
      BY <1>4, SentTypes, InputTypes DEF FlowInv
    <2>2. <<r, i>> \in TasksOf(r)
      BY <2>1 DEF TasksOf, Tasks, RequestOf, Invoice
    <2>3. HasDone(r)
      BY <1>1, <2>2 DEF HasDone, TasksOf
    <2>4. TransactionExists(r) => HasRow(r)
      BY <2>3, MoneyFacts
    <2>5. Money(r) \in {"invoices", "deleted"} /\ r \notin ForNothing
      BY <1>1, <1>2, <1>4, <2>4 DEF Money, HasBalance, HasRow, ForNothing
    <2> QED
      BY <1>1, <2>5, AnswerContract
  <1> QED
    BY <1>3, <1>4

LEMMA RequestContract ==
  ASSUME FlowInv, NEW r \in Requests, LookupFails(r) \/ RequestStep(r)
  PROVE  [Contract!ContractNext]_Contract!contractVars
  <1> USE DEF RequestEnded
  <1>1. CASE LookupFails(r)
    <2>1. Money(r) = "none"
      BY <1>1, MoneyFacts DEF LookupFails, Money
    <2> QED
      BY <1>1, <2>1, AnswerContract DEF LookupFails, ledgerVars
  <1>2. CASE BankWorks(r)
    BY <1>2, BankContract
  <1>3. CASE ReturnRefusal(r)
    <2>1. Money(r) = "none"
      BY <1>3 DEF ReturnRefusal, Money
    <2> QED
      BY <1>3, <2>1, AnswerContract DEF ReturnRefusal, ledgerVars
  <1>4. CASE SettlePartial(r)
    BY <1>4, PartialContract
  <1>5. CASE SettleFull(r)
    <2>1. /\ Resumes(r) /\ requests[r].pc = "bank"
          /\ UNCHANGED <<bankVars, balances, bankRows>>
      BY <1>5 DEF SettleFull, Resumes, ledgerVars
    <2>2. CASE BeginPaying(r)
      <3>1. \A q \in Requests : /\ Sent(q)' = Sent(q)
                                /\ requests'[q].pc = requests[q].pc \/
                                      {requests[q].pc, requests'[q].pc} \cap RequestEnded = {}
        BY <2>1, <2>2 DEF BeginPaying, Answer, FlowInv, FlowTypeOK, Sent
      <3> QED
        BY <2>1, <3>1, SameMoney, ContractStutters DEF bankVars
    <2>3. CASE Answer(r, "insufficient")
      BY <2>1, <2>3, ConfirmedIsBank, AnswerContract
    <2> QED
      BY <1>5, <2>2, <2>3 DEF SettleFull
  <1>6. CASE RequestThrows(r)
    <2>1. Money(r) # "balance"
      <3>1. requests[r].pc = "bank"
        BY <1>6 DEF RequestThrows
      <3> QED
        BY <3>1, MoneyFacts DEF Money, HasBalance
    <2> QED
      BY <1>6, <2>1, AnswerContract DEF RequestThrows, ledgerVars
  <1>7. CASE ReturnSuccess(r)
    BY <1>7, SuccessContract
  <1>8. CASE ReturnFailure(r)
    <2>1. Money(r) # "balance"
      <3>1. requests[r].pc = "paying"
        BY <1>8 DEF ReturnFailure
      <3> QED
        BY <3>1, MoneyFacts DEF Money, HasBalance
    <2> QED
      BY <1>8, <2>1, AnswerContract DEF ReturnFailure, ledgerVars
  <1> QED
    BY <1>1, <1>2, <1>3, <1>4, <1>5, <1>6, <1>7, <1>8 DEF RequestStep
-----------------------------------------------------------------------------
(***************************************************************************)
(* The steps of a task, a deletion and a crash.                            *)
(***************************************************************************)

(* Money moves, and requests are answered, only where rows do.             *)
LEMMA QuietContract ==
  ASSUME FlowInv, UNCHANGED <<bankVars, requests, bankRows>>,
         DOMAIN balances' = DOMAIN balances,
         \A b \in DOMAIN balances : balances'[b].txn = balances[b].txn
  PROVE  UNCHANGED Contract!contractVars
  <1>1. ASSUME NEW q \in Requests PROVE Money(q)' = Money(q)
    BY ExistsKept, MoneyKept DEF bankVars, HasBalance, HasRow
  <1> QED
    BY <1>1, ContractStutters DEF bankVars, Sent

(* The first row of a transaction spends its money.                        *)
LEMMA RecordContract ==
  ASSUME FlowInv, NEW t \in Tasks, RecordPayment(t)
  PROVE  [Contract!ContractNext]_Contract!contractVars
  <1>0. PICK r \in Requests : r = RequestOf(t)
    BY TaskParts
  <1>1. /\ tasks[t] = "open" /\ TransactionExists(r) /\ bankRows' = bankRows \cup {t}
        /\ UNCHANGED <<bankVars, balances, requests>>
    BY <1>0 DEF RecordPayment, ReadyToRecord, ledgerVars
  <1>2. /\ t \in TasksOf(r) /\ bank[r].pc = "confirmed" /\ requests[r].pc \in {"paying", "failed"}
    BY <1>0, <1>1 DEF FlowInv, StagesOK, TaskOK
  <1>3. ~HasBalance(r)
    BY <1>2, MoneyFacts
  <1>4. \A q \in Requests : /\ TransactionExists(q)' <=> TransactionExists(q)
                            /\ HasBalance(q)' <=> HasBalance(q)
                            /\ q # r => (HasRow(q)' <=> HasRow(q))
    BY <1>0, <1>1, ExistsKept DEF bankVars, HasBalance, HasRow
  <1>5. ASSUME NEW q \in Requests, q # r PROVE Money(q)' = Money(q)
    BY <1>1, <1>4, <1>5, MoneyKept DEF bankVars
  <1>6. HasRow(r)'
    BY <1>0, <1>1 DEF HasRow
  <1>7. CASE HasRow(r)
    <2>1. Money(r)' = Money(r)
      BY <1>1, <1>4, <1>6, <1>7, MoneyKept DEF bankVars
    <2> QED
      BY <1>1, <1>5, <2>1, ContractStutters DEF bankVars, Sent
  <1>8. CASE ~HasRow(r)
    <2>1. Money(r) = "bank"
      BY <1>1, <1>2, <1>3, <1>8 DEF Money, HasBalance, HasRow
    <2>2. TransactionExists(r)' /\ ~HasBalance(r)' /\ bank'[r].pc = "confirmed"
      BY <1>1, <1>2, <1>3, <1>4 DEF bankVars
    <2>3. Money(r)' = "invoices"
      BY <1>6, <2>2 DEF Money, HasBalance, HasRow
    <2>4. Contract!Move(r, "bank", "invoices")
      BY <1>5, <2>1, <2>3, MoneyMoves
    <2>5. r \notin ForNothing
      BY <1>2 DEF ForNothing, TasksOf
    <2>6. ForNothing' = ForNothing
      BY <1>1 DEF ForNothing, bankVars, Sent
    <2>7. Contract!Spend(r)
      BY <1>1, <1>2, <2>4, <2>5 DEF Contract!Spend, ForNothing, RequestEnded
    <2> QED
      BY <2>6, <2>7 DEF ForNothing, Contract!ContractNext
  <1> QED
    BY <1>7, <1>8

LEMMA TaskContract ==
  ASSUME FlowInv, [Next]_vars, NEW t \in Tasks, TaskStep(t)
  PROVE  [Contract!ContractNext]_Contract!contractVars
  <1>1. CASE ManagerWorks(t) \/ TaskThrows(t)
    BY <1>1, QuietContract DEF ManagerWorks, TaskThrows, ledgerVars, flowVars
  <1>2. CASE ApplyBalance(t)
    BY <1>2, QuietContract DEF ApplyBalance, Ledger!StartApply, Ledger!tables, flowVars
  <1>3. CASE LedgerWorks(t)
    <2>1. LedgerProof!ApplyStep(t) \/ LedgerProof!FailApply(t)
      BY <1>3, SameLedger DEF LedgerWorks
    <2>2. DOMAIN balances' = DOMAIN balances
      BY <2>1, ComponentAssumptions, LedgerProof!ApplyMoves
         DEF FlowInv, ComponentsInv, LedgerProof!BalanceIds
    <2>3. LedgerProof!SameOwners
      BY LedgerMoves, ComponentAssumptions, LedgerProof!OwnersKept DEF FlowInv, ComponentsInv
    <2> QED
      BY <1>3, <2>2, <2>3, QuietContract
         DEF LedgerWorks, flowVars, LedgerProof!SameOwners, LedgerProof!BalanceIds
  <1>4. CASE RecordPayment(t)
    BY <1>4, RecordContract
  <1> QED
    BY <1>1, <1>2, <1>3, <1>4 DEF TaskStep

(* Only a transaction whose money was spent on invoices is erased.         *)
LEMMA EraseContract ==
  ASSUME FlowInv, NEW d \in Deletions, EraseLocally(d)
  PROVE  [Contract!ContractNext]_Contract!contractVars
  <1>0. PICK r \in Requests : r = deletions[d].txn
    BY DEF FlowInv, FlowTypeOK
  <1>1. UNCHANGED <<bank, ledgerVars, requests>>
    BY DEF EraseLocally
  <1>2. CASE UNCHANGED <<transactions, bankRows>>
    BY <1>1, <1>2, SameMoney, ContractStutters DEF bankVars, ledgerVars, Sent, EraseLocally
  <1>3. CASE /\ TransactionExists(r) /\ ~Referenced(r)
             /\ bankRows' = {t \in bankRows : RequestOf(t) # r}
             /\ transactions' = transactions \ Bank!TransactionsOf(r)
    <2>1. HasDone(r) /\ ~HasBalance(r)
      <3>1. HasDone(r) \/ HasBalance(r)
        BY <1>0 DEF EraseLocally, FlowInv, StagesOK, DeletionOK
      <3> QED
        BY <1>3, <3>1 DEF Referenced, HasBalance
    <2>2. bank[r].pc = "confirmed" /\ HasRow(r)
      BY <1>3, <2>1, MoneyFacts
    <2>3. Money(r) = "invoices"
      BY <1>3, <2>1, <2>2 DEF Money, HasBalance, HasRow
    <2>4. /\ ~TransactionExists(r)'
          /\ \A q \in Requests : q # r => /\ TransactionExists(q)' <=> TransactionExists(q)
                                          /\ HasRow(q)' <=> HasRow(q)
          /\ \A q \in Requests : HasBalance(q)' <=> HasBalance(q)
      BY <1>1, <1>3 DEF TransactionExists, Bank!TransactionsOf, HasRow, HasBalance, ledgerVars
    <2>5. Money(r)' = "deleted"
      BY <1>1, <2>2, <2>4 DEF Money
    <2>6. \A q \in Requests : q # r => Money(q)' = Money(q)
      BY <1>1, <2>4, MoneyKept
    <2>7. Contract!Move(r, "invoices", "deleted")
      BY <2>3, <2>5, <2>6, MoneyMoves
    <2>8. ForNothing' = ForNothing
      BY <1>1 DEF ForNothing, Sent
    <2>9. Contract!Delete(r)
      BY <1>1, <2>7 DEF Contract!Delete
    <2> QED
      BY <2>8, <2>9 DEF ForNothing, Contract!ContractNext
  <1> QED
    BY <1>0, <1>2, <1>3 DEF EraseLocally

LEMMA DeletionContract ==
  ASSUME FlowInv, NEW d \in Deletions,
         (\E r \in Requests : StartDeletion(d, r)) \/ DeletionStep(d)
  PROVE  [Contract!ContractNext]_Contract!contractVars
  <1>1. ASSUME NEW r \in Requests, StartDeletion(d, r)
        PROVE  UNCHANGED Contract!contractVars
    BY <1>1, QuietContract DEF StartDeletion, ledgerVars
  <1>2. ASSUME NEW i \in Invoices, UndoPayment(d, i)
        PROVE  UNCHANGED Contract!contractVars
    BY <1>2, QuietContract DEF UndoPayment, ledgerVars
  <1> QED
    BY <1>1, <1>2, EraseContract DEF DeletionStep

(* A crash cuts off the requests in flight and moves no money.             *)
LEMMA CrashContract ==
  ASSUME FlowInv, Crash
  PROVE  Contract!ContractNext
  <1> DEFINE cut == {r \in Requests : requests[r].pc \in RequestInFlight}
  <1>1. /\ \A q \in Requests : Sent(q)' = Sent(q)
        /\ \A q \in Requests : requests'[q].pc = IF q \in cut THEN "crashed" ELSE requests[q].pc
    BY DEF Crash, FlowInv, FlowTypeOK, Sent
  <1>2. \A q \in Requests : /\ bank'[q].pc = "confirmed" <=> bank[q].pc = "confirmed"
                            /\ bank'[q].pc = "idle" <=> bank[q].pc = "idle"
    <2>1. \A q \in Requests : bank'[q].pc = IF bank[q].pc \in Bank!BankInFlight
                                            THEN "crashed" ELSE bank[q].pc
      BY DEF Crash, Bank!BankCrash, FlowInv, ComponentsInv, BankProof!FundedInv,
             BankProof!BankTypeOK, BankProof!BankCall
    <2> QED
      BY <2>1 DEF Bank!BankInFlight
  <1>3. balances' = balances /\ bankRows' = bankRows /\ transactions' = transactions
    BY DEF Crash, Ledger!Crash, Ledger!tables, ledgerVars, Bank!BankCrash
  <1>4. ASSUME NEW q \in Requests PROVE Money(q)' = Money(q)
    BY <1>2, <1>3, ExistsKept, MoneyKept DEF HasBalance, HasRow
  <1>5. [q \in Requests |-> Money(q)]' = [q \in Requests |-> Money(q)]
    BY <1>4
  <1>6. ForNothing' = ForNothing
    BY <1>1, <1>2 DEF ForNothing
  <1>7. \A q \in cut : requests[q].pc \notin RequestEnded /\ Money(q) # "balance"
    <2>1. ASSUME NEW q \in cut PROVE requests[q].pc \notin RequestEnded /\ ~HasBalance(q)
      BY MoneyFacts DEF RequestInFlight, RequestEnded
    <2> QED
      BY <2>1 DEF Money, HasBalance
  <1> HIDE DEF cut
  <1>8. cut \subseteq Requests
    BY DEF cut
  <1>9. [q \in Requests |-> IF requests[q].pc \in RequestEnded THEN requests[q].pc ELSE "open"]'
           = [q \in Requests |-> IF q \in cut THEN "crashed"
                                 ELSE IF requests[q].pc \in RequestEnded
                                      THEN requests[q].pc ELSE "open"]
    BY <1>1 DEF RequestEnded
  <1>10. Contract!CutOff
    BY <1>5, <1>7, <1>8, <1>9 DEF Contract!CutOff
  <1> QED
    BY <1>6, <1>10 DEF ForNothing, Contract!ContractNext

LEMMA InitContract == FlowInv /\ Init => Contract!ContractInit
  <1> SUFFICES ASSUME Init PROVE Contract!ContractInit
    OBVIOUS
  <1>1. \A r \in Requests : requests[r].pc = "idle" /\ bank[r].pc = "idle"
    BY DEF Init, Bank!BankInit
  <1>2. \A r \in Requests : Money(r) = "none"
    BY <1>1 DEF Money
  <1> QED
    BY <1>1, <1>2 DEF Contract!ContractInit, RequestEnded

LEMMA StepContract == FlowInv /\ [Next]_vars => [Contract!ContractNext]_Contract!contractVars
  <1> SUFFICES ASSUME FlowInv, [Next]_vars
               PROVE  [Contract!ContractNext]_Contract!contractVars
    OBVIOUS
  <1>1. ASSUME UNCHANGED vars PROVE UNCHANGED Contract!contractVars
    BY <1>1, QuietContract DEF vars, bankVars
  <1> QED
    BY <1>1, StartContract, RequestContract, TaskContract, DeletionContract, CrashContract
       DEF Next

(* processPayment and deleteTransaction implement the contract of a        *)
(* payment: whatever fails under them and however they interleave, the     *)
(* money goes one way, from the bank into invoices or into a balance; only *)
(* money spent on invoices is given up with its transaction; and every     *)
(* request is answered once, by what has become of its money.              *)
THEOREM ImplementsContract == Spec => KeepsContract
  <1>1. Init => Contract!ContractInit
    BY FlowInit, InitContract
  <1> QED
    BY <1>1, StepContract, FlowInvariant, PTL DEF Spec, KeepsContract, Contract!ContractSpec
=============================================================================
