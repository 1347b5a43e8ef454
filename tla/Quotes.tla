------------------------------- MODULE Quotes -------------------------------
(***************************************************************************)
(* What the rates are used for: quotes (payment-calculator) and the rate a *)
(* bank transaction is recorded with.  A payment through an invoice gets   *)
(* an object of its own from the bank product's factory; /banco-plaza has  *)
(* one object, which keeps the configuration, and with it the id of the    *)
(* rate, of the first payment it served.                                   *)
(***************************************************************************)
EXTENDS DolarRates, PaymentCalculator

CONSTANTS
    Payments,           \* payments through a bank product, 1..n in their order
    Bcv(_),             \* the official rate of a pair, in thousandths
    Amounts, Balances,  \* prices and balances of clients, in cents of a dollar
    IspConfigs,         \* configurations of the active ISP
    MaxStarted          \* bound: updates started, each counted twice, and payments

ASSUME QuotesAssumption ==
    /\ Amounts \subseteq Nat /\ Balances \subseteq Nat
    /\ \A rate \in Rates : Bcv(rate) \in Nat
    /\ IspConfigs \subseteq [igtf_rate : Nat, iva_rate : Nat, add_igtf : BOOLEAN,
                             add_iva_usd : BOOLEAN, add_iva_ves : BOOLEAN,
                             commission_type : {"CLIENT_ASSUMES", "ISP_ASSUMES"}]

VARIABLES
    payment,    \* what each payment is doing
    kept,       \* the rate id the object of /banco-plaza keeps, or 0
    quote       \* the quote being answered, if there is one, with what it is for

vars == <<ratesVars, payment, kept, quote>>

Init ==
    /\ InitRates
    /\ payment = [p \in Payments |-> [pc |-> "idle"]]
    /\ kept = 0
    /\ quote = {}

(* getConfigurations reads the latest rate and throws without one; the     *)
(* reads of the bank product, the ISP and the client's balances come       *)
(* between no two of anything here.                                        *)
Quote ==
    /\ \E rate \in LatestRate, amount \in Amounts, currency \in {"USD", "VES"},
          isp \in IspConfigs, balance \in Balances :
          quote' = {[amountUSD |-> amount, currency |-> currency, isp |-> isp,
                     rate |-> Bcv(rate), balance |-> balance,
                     answer |-> calculatePayment(amount, currency, isp, Bcv(rate), balance)]}
    /\ UNCHANGED <<payment, kept>>

StartPayment(p, direct) ==
    /\ payment[p].pc = "idle"
    /\ \A q \in 1..(p - 1) : payment[q].pc # "idle"
    /\ payment' = [payment EXCEPT ![p] = [pc |-> "reading", direct |-> direct, rate |-> kept,
                                          since |-> Len(dolar_rate)]]
    /\ UNCHANGED kept

(* Mutants: a missing rate passes, and a factory that hands out one object *)
(* for all payments.                                                       *)
ReadNoRate(p) ==
    /\ payment[p].pc = "reading"
    /\ LET rate == IF payment[p].direct /\ kept # 0 THEN kept ELSE Len(dolar_rate) IN
       /\ payment' = [payment EXCEPT ![p] = [@ EXCEPT !.pc = "paying", !.rate = rate]]
       /\ kept' = IF payment[p].direct THEN rate ELSE kept

ReadKeptByAll(p) ==
    /\ payment[p].pc = "reading"
    /\ LET rate == IF kept # 0 THEN kept ELSE Len(dolar_rate) IN
       /\ rate # 0
       /\ payment' = [payment EXCEPT ![p] = [@ EXCEPT !.pc = "paying", !.rate = rate]]
       /\ kept' = rate

(* getBankProductConfig, unless the object has read it before; without a   *)
(* rate it throws.                                                         *)
ReadConfiguration(p) ==
    /\ payment[p].pc = "reading"
    /\ LET rate == IF payment[p].direct /\ kept # 0 THEN kept ELSE Len(dolar_rate) IN
       /\ rate # 0
       /\ payment' = [payment EXCEPT ![p] = [@ EXCEPT !.pc = "paying", !.rate = rate]]
       /\ kept' = IF payment[p].direct THEN rate ELSE kept

(* createTransactionRecord connects the row to the rate read.              *)
RecordTransaction(p) ==
    /\ payment[p].pc = "paying"
    /\ payment' = [payment EXCEPT ![p].pc = "recorded"]
    /\ UNCHANGED kept

Started == 2 * Cardinality({u \in Updates : ~At(u, "idle")})
           + Cardinality({p \in Payments : payment[p].pc # "idle"})

Paying(p) ==
    \/ Started < MaxStarted /\ \E direct \in BOOLEAN : StartPayment(p, direct)
    \/ ReadConfiguration(p) \/ RecordTransaction(p)

(* A quote reads one row of the rates and changes nothing, so its place    *)
(* among the steps of updates and payments does not matter: quotes come    *)
(* before them, with each row that can be the latest.                      *)
Idle == (\A u \in Updates : At(u, "idle")) /\ \A p \in Payments : payment[p].pc = "idle"

Next ==
    \/ /\ \/ SiteChanges
          \/ Started + 2 <= MaxStarted /\ \E u \in Updates : StartUpdate(u)
          \/ \E u \in Updates : UpdateStep(u)
       /\ quote' = {} /\ UNCHANGED <<payment, kept>>
    \/ (\E p \in Payments : Paying(p)) /\ quote' = {} /\ UNCHANGED ratesVars
    \/ Idle /\ Quote /\ UNCHANGED ratesVars

(* The browser and the database answer or time out.                        *)
Fairness == \A u \in Updates : WF_vars(UpdateStep(u) /\ quote' = {} /\ UNCHANGED <<payment, kept>>)

Spec == Init /\ [][Next]_vars /\ Fairness

-----------------------------------------------------------------------------
(* The types; a transaction's rate is one there is.                        *)
QuotesTypeOK ==
    /\ RatesTypeOK
    /\ kept \in 0..Len(dolar_rate)
    /\ \A p \in Payments :
          /\ payment[p].pc \in {"idle", "reading", "paying", "recorded"}
          /\ payment[p].pc \in {"paying", "recorded"} => payment[p].rate \in 1..Len(dolar_rate)

(* Paying and applying what the quote says is not short of it by a cent,   *)
(* so invoices.service.ts does not take it for a partial payment.          *)
SettlesInFull(answer) == answer.amount + answer.balanceApplied = answer.originalAmount

(* The balance applied is at most the whole balance, which                 *)
(* verifyAvailableBalance accepts; in bolivares, a fraction of a cent more.*)
CoveredByBalance(q) ==
    IF q.currency = "USD" THEN q.answer.balanceApplied <= q.balance
    ELSE q.answer.balanceApplied * 1000 < q.balance * q.rate + 1000

(* A price that includes its taxes is what the client is asked for, others *)
(* only grow; the parts add up to the total but for half a cent each.      *)
KeepsThePrice(q) ==
    LET price == IF q.currency = "USD" THEN q.amountUSD ELSE toFixed2(q.amountUSD * q.rate, 1000)
        included == IF q.currency = "USD" THEN ~q.isp.add_igtf /\ ~q.isp.add_iva_usd
                    ELSE ~q.isp.add_iva_ves
        answer == q.answer
        parts == answer.baseAmount + answer.igtfAmount + answer.ivaAmount + answer.systemCommission
    IN  /\ q.isp.commission_type = "ISP_ASSUMES" =>
              answer.originalAmount >= price /\ (included => answer.originalAmount = price)
        /\ parts <= answer.originalAmount + 2 /\ answer.originalAmount <= parts + 2

(* What a quote promises, over every way taxes, commission and balance     *)
(* combine and the rounding of each number on its own.                     *)
QuoteSettles ==
    \A q \in quote : SettlesInFull(q.answer) /\ CoveredByBalance(q) /\ KeepsThePrice(q)

(* A transaction of a payment through an invoice names a rate that was the *)
(* latest while the payment was under way.                                 *)
TransactionNamesItsRate ==
    \A p \in Payments :
       payment[p].pc \in {"paying", "recorded"} /\ ~payment[p].direct =>
          payment[p].rate \in payment[p].since..Len(dolar_rate)
=============================================================================
