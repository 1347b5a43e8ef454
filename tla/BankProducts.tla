---------------------------- MODULE BankProducts ----------------------------
(***************************************************************************)
(* The bank products a client pays with and the transactions table they    *)
(* write: Binance's VERIFICATION_API, which looks a deposit already made   *)
(* up by its reference (binance/services/transaction.service.ts), Banco    *)
(* Plaza's C2P, which charges the client (banco-plaza/), and Banesco's     *)
(* PAY_BUTTON, which never reaches its bank (banesco/).                    *)
(*                                                                         *)
(* The banks are external: what they hold is the constant Deposits and the *)
(* variable charged, and each answer is one of those the code tells apart. *)
(* Every request has a service object of its own (BankProductFactory), so  *)
(* requests share nothing but the table.                                   *)
(***************************************************************************)
EXTENDS Naturals, FiniteSets

CONSTANTS
    Requests,       \* invocations of processPayment
    References,     \* references of Binance deposits, as clients name them
    Deposits,       \* what Binance holds under a reference, in cents; 0: nothing
    Charges         \* the amounts, in cents, a client can ask C2P to charge

ASSUME BankAssumption ==
    /\ Deposits \in [References -> Nat]
    /\ Charges \subseteq Nat
    /\ References \cap Requests = {}       \* see AllReferences

VARIABLES
    transactions,   \* the table, one row per bank call that got that far
    bank,           \* the call each request has made
    charged         \* external: the requests whose client C2P has charged

bankVars == <<transactions, bank, charged>>

NoReference == "none"

(* The reference C2P answers with is its own and new for every charge.     *)
AllReferences == References \cup Requests

Transaction == [by : Requests, product : {"VERIFICATION_API", "C2P"},
                status : {"SUCCESS", "FAILED"},
                reference : AllReferences \cup {NoReference}, amount : Nat]

BankInFlight == {"checking", "asking", "charging", "verifying", "accepted", "declined"}
BankEnded    == {"confirmed", "duplicate", "refused", "threw", "crashed"}

BankCall == [pc : {"idle"} \cup BankInFlight \cup BankEnded,
             product : {"VERIFICATION_API", "C2P", "PAY_BUTTON"},
             reference : AllReferences \cup {NoReference}, amount : Nat]

BankTypeOK ==
    /\ transactions \in SUBSET Transaction
    /\ bank \in [Requests -> BankCall]
    /\ charged \in SUBSET Requests

-----------------------------------------------------------------------------

(* The transactions the duplicate check looks for.                         *)
Credits(reference) ==
    {t \in transactions : /\ t.reference = reference
                          /\ t.product = "VERIFICATION_API"
                          /\ t.status = "SUCCESS"}

TransactionsOf(r) == {t \in transactions : t.by = r}

BankInit ==
    /\ transactions = {}
    /\ bank = [r \in Requests |-> [pc |-> "idle", product |-> "C2P",
                                   reference |-> NoReference, amount |-> 0]]
    /\ charged = {}

(* Binance, processPayment: the request names the deposit it has made.     *)
StartVerification(r, reference) ==
    /\ bank[r].pc = "idle"
    /\ bank' = [bank EXCEPT ![r] = [pc |-> "checking", product |-> "VERIFICATION_API",
                                    reference |-> reference, amount |-> 0]]
    /\ UNCHANGED <<transactions, charged>>

(* Mutants: only the request's own transactions are looked up, and a       *)
(* duplicate is never answered.                                            *)
CheckOwnDuplicate(r) ==
    /\ bank[r].pc = "checking"
    /\ bank' = [bank EXCEPT ![r].pc = IF Credits(bank[r].reference) \cap TransactionsOf(r) # {}
                                      THEN "duplicate" ELSE "asking"]
    /\ UNCHANGED <<transactions, charged>>

CheckDropsDuplicate(r) ==
    /\ bank[r].pc = "checking"
    /\ Credits(bank[r].reference) = {}
    /\ bank' = [bank EXCEPT ![r].pc = "asking"]
    /\ UNCHANGED <<transactions, charged>>

(* The look-up of a SUCCESS transaction of the product by bank_reference;  *)
(* handleDuplicateTransaction writes nothing.                              *)
CheckDuplicate(r) ==
    /\ bank[r].pc = "checking"
    /\ bank' = [bank EXCEPT ![r].pc = IF Credits(bank[r].reference) # {}
                                      THEN "duplicate" ELSE "asking"]
    /\ UNCHANGED <<transactions, charged>>

(* Mutant: an empty history is taken for a deposit.                        *)
AskTakesAnything(r) ==
    /\ bank[r].pc = "asking"
    /\ \/ bank' = [bank EXCEPT ![r].pc = "accepted",
                               ![r].amount = Deposits[bank[r].reference]]
       \/ bank' = [bank EXCEPT ![r].pc = "declined"]
    /\ UNCHANGED <<transactions, charged>>

(* payHistory answers.  The deposit is found, with the amount Binance has  *)
(* for it; or it is not there, the period is empty or the answer an error. *)
AskHistory(r) ==
    /\ bank[r].pc = "asking"
    /\ \/ /\ Deposits[bank[r].reference] > 0
          /\ bank' = [bank EXCEPT ![r].pc = "accepted",
                                  ![r].amount = Deposits[bank[r].reference]]
       \/ bank' = [bank EXCEPT ![r].pc = "declined"]
    /\ UNCHANGED <<transactions, charged>>

(* Banco Plaza, processPayment: the request says how much to charge.       *)
StartCharge(r, amount) ==
    /\ bank[r].pc = "idle"
    /\ amount > 0
    /\ bank' = [bank EXCEPT ![r] = [pc |-> "charging", product |-> "C2P",
                                    reference |-> NoReference, amount |-> amount]]
    /\ UNCHANGED <<transactions, charged>>

(* The charge is made and answered with its reference.                     *)
ChargeAccepted(r) ==
    /\ bank[r].pc = "charging"
    /\ bank' = [bank EXCEPT ![r].pc = "accepted", ![r].reference = r]
    /\ charged' = charged \cup {r}
    /\ UNCHANGED transactions

(* Mutant: the error code is kept in the place of the reference.           *)
ChargeFailedWithCode(r) ==
    /\ bank[r].pc = "charging"
    /\ bank' = [bank EXCEPT ![r].pc = "declined", ![r].reference = "error"]
    /\ charged' \in {charged, charged \cup {r}}
    /\ UNCHANGED transactions

(* mapErrorResponse takes every failure of the HTTP call for a refusal:    *)
(* the bank declined, or it charged the client and the answer was lost.    *)
ChargeFailed(r) ==
    /\ bank[r].pc = "charging"
    /\ bank' = [bank EXCEPT ![r].pc = "declined"]
    /\ charged' \in {charged, charged \cup {r}}
    /\ UNCHANGED transactions

(* Banesco, processPayment outside the development environment: no code    *)
(* assigns banescoAdapter, so verifying the payment throws before Banesco  *)
(* is asked or a record is written.                                        *)
StartButton(r) ==
    /\ bank[r].pc = "idle"
    /\ bank' = [bank EXCEPT ![r] = [pc |-> "verifying", product |-> "PAY_BUTTON",
                                    reference |-> NoReference, amount |-> 0]]
    /\ UNCHANGED <<transactions, charged>>

VerifyThrows(r) ==
    /\ bank[r].pc = "verifying"
    /\ bank' = [bank EXCEPT ![r].pc = "threw"]
    /\ UNCHANGED <<transactions, charged>>

(* handleSuccessfulPayment: createTransactionRecord with status SUCCESS.   *)
RecordSuccess(r) ==
    /\ bank[r].pc = "accepted"
    /\ transactions' = transactions \cup
          {[by |-> r, product |-> bank[r].product, status |-> "SUCCESS",
            reference |-> bank[r].reference, amount |-> bank[r].amount]}
    /\ bank' = [bank EXCEPT ![r].pc = "confirmed"]
    /\ UNCHANGED charged

(* handleErrorPayment: the record of a failure carries no bank_reference.  *)
RecordFailure(r) ==
    /\ bank[r].pc = "declined"
    /\ transactions' = transactions \cup
          {[by |-> r, product |-> bank[r].product, status |-> "FAILED",
            reference |-> NoReference, amount |-> bank[r].amount]}
    /\ bank' = [bank EXCEPT ![r].pc = "refused"]
    /\ UNCHANGED charged

(* Mutant: the catch records a failure before it throws on.                *)
ThrowsAndRecords(r) ==
    /\ bank[r].pc \in BankInFlight
    /\ transactions' = transactions \cup
          {[by |-> r, product |-> bank[r].product, status |-> "FAILED",
            reference |-> NoReference, amount |-> bank[r].amount]}
    /\ bank' = [bank EXCEPT ![r].pc = "threw"]
    /\ UNCHANGED charged

(* The configuration, a query, the bank's client or a record fails:        *)
(* processPayment throws.  The call that charges never does.               *)
BankThrows(r) ==
    /\ bank[r].pc \in BankInFlight
    /\ bank' = [bank EXCEPT ![r].pc = "threw"]
    /\ UNCHANGED <<transactions, charged>>

(* The process dies; a charge on its way may still be made.                *)
BankCrash ==
    /\ bank' = [r \in Requests |-> IF bank[r].pc \in BankInFlight
                                   THEN [bank[r] EXCEPT !.pc = "crashed"]
                                   ELSE bank[r]]
    /\ \E made \in SUBSET {r \in Requests : bank[r].pc = "charging"} :
          charged' = charged \cup made
    /\ UNCHANGED transactions

BankStep(r) ==
    \/ CheckDuplicate(r) \/ AskHistory(r)
    \/ ChargeAccepted(r) \/ ChargeFailed(r) \/ VerifyThrows(r)
    \/ RecordSuccess(r) \/ RecordFailure(r)

BankNext ==
    \/ \E r \in Requests :
          \/ \E reference \in References : StartVerification(r, reference)
          \/ \E amount \in Charges : StartCharge(r, amount)
          \/ StartButton(r)
          \/ BankStep(r)
          \/ BankThrows(r)
    \/ (\E r \in Requests : bank[r].pc \in BankInFlight) /\ BankCrash

BankSpec == BankInit /\ [][BankNext]_bankVars

(* Binance and Banco Plaza answer, and the event loop goes on.             *)
BankFairSpec == BankSpec /\ \A r \in Requests : WF_bankVars(BankStep(r))

-----------------------------------------------------------------------------
(***************************************************************************)
(* Properties                                                              *)
(***************************************************************************)

(* The money of a SUCCESS transaction is there: Binance holds that very    *)
(* amount under the reference, or C2P has charged the client.              *)
CreditsAreFunded ==
    \A t \in transactions : t.status = "SUCCESS" =>
        \/ t.product = "VERIFICATION_API" /\ t.amount = Deposits[t.reference] /\ t.amount > 0
        \/ t.product = "C2P" /\ t.by \in charged

(* The table tells how a call to the bank ended: a confirmed one has one   *)
(* SUCCESS row and nothing else, a refused one a FAILED row, and neither a *)
(* duplicate nor a call that threw or died leaves a row behind.            *)
RowsTellOutcome ==
    \A r \in Requests :
        LET statuses == {t.status : t \in TransactionsOf(r)} IN
        /\ statuses = CASE bank[r].pc = "confirmed" -> {"SUCCESS"}
                        [] bank[r].pc = "refused"   -> {"FAILED"}
                        [] OTHER                    -> {}
        /\ Cardinality(TransactionsOf(r)) <= 1

(* A deposit that has been credited is not credited again to a request     *)
(* that comes later, however the earlier ones interleaved.                 *)
NoLateCredit ==
    \A r \in Requests, reference \in References :
        [](bank[r].pc = "idle" /\ Credits(reference) # {} =>
              [](bank[r].reference = reference => bank[r].pc # "confirmed"))

(* processPayment of a bank product always comes back or throws.           *)
BankCallsEnd == \A r \in Requests : bank[r].pc \in BankInFlight ~> bank[r].pc \in BankEnded

(* "La transacción ya fue procesada previamente": no deposit is credited   *)
(* to two requests.                                                        *)
CreditedOnce ==
    \A reference \in References : Cardinality(Credits(reference)) <= 1

=============================================================================
