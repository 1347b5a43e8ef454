-------------------------- MODULE BankProductsProofs --------------------------
(***************************************************************************)
(* What BankProducts guarantees for every set of requests, deposits and    *)
(* charges: the money of a SUCCESS row is there, the rows of a request     *)
(* tell how its call of the bank ended, and a deposit once credited is not *)
(* credited to a request that comes later.                                 *)
(***************************************************************************)
EXTENDS BankProducts, FiniteSetTheorems, TLAPS

(* What a call in flight knows: the product it began with and the deposit  *)
(* it names; and once the bank has accepted, that the money is there.      *)
CallFunded(r) ==
    LET call == bank[r] IN
    /\ call.pc \in {"checking", "asking"} =>
          call.product = "VERIFICATION_API" /\ call.reference \in References
    /\ call.pc = "charging" => call.product = "C2P"
    /\ call.pc = "declined" => call.product \in {"VERIFICATION_API", "C2P"}
    /\ call.pc \in {"accepted", "confirmed"} =>
          \/ /\ call.product = "VERIFICATION_API" /\ call.reference \in References
             /\ call.amount = Deposits[call.reference] /\ call.amount > 0
          \/ call.product = "C2P" /\ call.reference = r /\ r \in charged

(* The inductive invariant behind CreditsAreFunded.                        *)
FundedInv ==
    /\ BankTypeOK
    /\ CreditsAreFunded
    /\ \A r \in Requests : CallFunded(r)

LEMMA BankInitFunded == BankInit => FundedInv
  BY DEF BankInit, FundedInv, BankTypeOK, BankCall, CreditsAreFunded, CallFunded

(* A row is inserted for money that is there, and in its type.             *)
LEMMA RecordSuccessFunded ==
  ASSUME FundedInv, NEW r \in Requests, RecordSuccess(r)
  PROVE  FundedInv'
  <1> DEFINE row == [by |-> r, product |-> bank[r].product, status |-> "SUCCESS",
                     reference |-> bank[r].reference, amount |-> bank[r].amount]
  <1>1. bank[r] \in BankCall /\ bank[r].pc = "accepted" /\ CallFunded(r)
    BY DEF FundedInv, BankTypeOK, RecordSuccess
  <1>2. bank[r].product \in {"VERIFICATION_API", "C2P"}
    BY <1>1 DEF CallFunded
  <1>3. row \in Transaction
    BY <1>1, <1>2 DEF BankCall, Transaction
  <1>4. transactions' = transactions \cup {row}
        /\ bank' = [bank EXCEPT ![r].pc = "confirmed"] /\ charged' = charged
    BY DEF RecordSuccess
  <1>5. BankTypeOK'
    BY <1>3, <1>4 DEF FundedInv, BankTypeOK, BankCall, BankEnded
  <1>6. CreditsAreFunded'
    BY <1>1, <1>4 DEF FundedInv, CreditsAreFunded, CallFunded
  <1>7. CallFunded(r)'
    <2>1. bank'[r] = [bank[r] EXCEPT !.pc = "confirmed"]
      BY <1>4 DEF FundedInv, BankTypeOK
    <2> QED
      BY <1>1, <1>4, <2>1 DEF CallFunded, BankCall
  <1>8. ASSUME NEW q \in Requests, q # r PROVE CallFunded(q)'
    BY <1>4, <1>8 DEF FundedInv, BankTypeOK, CallFunded
  <1> QED
    BY <1>5, <1>6, <1>7, <1>8 DEF FundedInv

LEMMA RecordFailureFunded ==
  ASSUME FundedInv, NEW r \in Requests, RecordFailure(r)
  PROVE  FundedInv'
  <1> DEFINE row == [by |-> r, product |-> bank[r].product, status |-> "FAILED",
                     reference |-> NoReference, amount |-> bank[r].amount]
  <1>1. bank[r] \in BankCall /\ bank[r].pc = "declined" /\ CallFunded(r)
    BY DEF FundedInv, BankTypeOK, RecordFailure
  <1>2. row \in Transaction
    BY <1>1 DEF BankCall, Transaction, CallFunded
  <1>3. transactions' = transactions \cup {row}
        /\ bank' = [bank EXCEPT ![r].pc = "refused"] /\ charged' = charged
    BY DEF RecordFailure
  <1>4. BankTypeOK'
    BY <1>2, <1>3 DEF FundedInv, BankTypeOK, BankCall, BankEnded
  <1>5. CreditsAreFunded'
    BY <1>3 DEF FundedInv, CreditsAreFunded
  <1>6. \A q \in Requests : CallFunded(q)'
    BY <1>3 DEF FundedInv, BankTypeOK, CallFunded
  <1> QED
    BY <1>4, <1>5, <1>6 DEF FundedInv

(* The steps that insert no row.                                           *)
Rowless(r) ==
    \/ \E reference \in References : StartVerification(r, reference)
    \/ \E amount \in Charges : StartCharge(r, amount)
    \/ StartButton(r)
    \/ CheckDuplicate(r) \/ AskHistory(r)
    \/ ChargeAccepted(r) \/ ChargeFailed(r) \/ VerifyThrows(r)
    \/ BankThrows(r)

LEMMA CallAccepted ==
  ASSUME NEW call \in BankCall, NEW r \in Requests
  PROVE  [call EXCEPT !.pc = "accepted", !.reference = r] \in BankCall
  BY DEF BankCall, BankInFlight, AllReferences

LEMMA RowlessFunded ==
  ASSUME FundedInv, NEW r \in Requests, Rowless(r)
  PROVE  FundedInv'
  <1> USE BankAssumption DEF FundedInv, BankTypeOK, BankCall, BankInFlight, BankEnded,
                             AllReferences, CreditsAreFunded, CallFunded
  <1>1. ASSUME NEW reference \in References, StartVerification(r, reference)
        PROVE  FundedInv'
    BY <1>1 DEF StartVerification
  <1>2. ASSUME NEW amount \in Charges, StartCharge(r, amount)
        PROVE  FundedInv'
    BY <1>2 DEF StartCharge
  <1>3. CASE StartButton(r)
    BY <1>3 DEF StartButton
  <1>4. CASE CheckDuplicate(r)
    BY <1>4 DEF CheckDuplicate
  <1>5. CASE AskHistory(r)
    <2>1. bank[r].reference \in References
      BY <1>5 DEF AskHistory
    <2>2. Deposits[bank[r].reference] \in Nat
      BY <2>1
    <2> QED
      BY <1>5, <2>1, <2>2 DEF AskHistory
  <1>6. CASE ChargeAccepted(r)
    <2>1. BankTypeOK'
      <3> DEFINE call == [bank[r] EXCEPT !.pc = "accepted", !.reference = r]
      <3>1. call \in BankCall
        <4>1. bank[r] \in BankCall
          OBVIOUS
        <4> HIDE DEF FundedInv, BankTypeOK, BankCall, CreditsAreFunded, CallFunded
        <4> QED
          BY <4>1, CallAccepted
      <3>2. bank' = [bank EXCEPT ![r] = call]
        BY <1>6 DEF ChargeAccepted
      <3>3. bank' \in [Requests -> BankCall]
        BY <3>1, <3>2
      <3> QED
        BY <1>6, <3>3 DEF ChargeAccepted
    <2>2. CreditsAreFunded'
      BY <1>6 DEF ChargeAccepted
    <2>3. \A q \in Requests : CallFunded(q)'
      BY <1>6 DEF ChargeAccepted
    <2> QED
      BY <2>1, <2>2, <2>3
  <1>7. CASE ChargeFailed(r)
    BY <1>7 DEF ChargeFailed
  <1>8. CASE VerifyThrows(r)
    BY <1>8 DEF VerifyThrows
  <1>9. CASE BankThrows(r)
    BY <1>9 DEF BankThrows
  <1> QED
    BY <1>1, <1>2, <1>3, <1>4, <1>5, <1>6, <1>7, <1>8, <1>9 DEF Rowless

LEMMA BankCrashFunded ==
  ASSUME FundedInv, BankCrash
  PROVE  FundedInv'
  <1> USE DEF FundedInv, BankTypeOK, BankCall, BankInFlight, BankEnded, BankCrash
  <1>1. charged \subseteq charged' /\ charged' \subseteq Requests
    OBVIOUS
  <1>2. BankTypeOK'
    BY <1>1
  <1>3. CreditsAreFunded'
    BY <1>1 DEF CreditsAreFunded
  <1>4. \A r \in Requests : CallFunded(r)'
    BY <1>1 DEF CallFunded
  <1> QED
    BY <1>2, <1>3, <1>4

(* No module here removes a row; deleting a payment does.                  *)
LEMMA RowsRemovedFunded ==
  ASSUME FundedInv, transactions' \subseteq transactions, UNCHANGED <<bank, charged>>
  PROVE  FundedInv'
  BY DEF FundedInv, BankTypeOK, CreditsAreFunded, CallFunded

LEMMA BankNextCases ==
  ASSUME BankNext
  PROVE  \/ \E r \in Requests : Rowless(r) \/ RecordSuccess(r) \/ RecordFailure(r)
         \/ BankCrash
  BY DEF BankNext, BankStep, Rowless

LEMMA BankStepFunded == FundedInv /\ [BankNext]_bankVars => FundedInv'
  <1> SUFFICES ASSUME FundedInv, [BankNext]_bankVars PROVE FundedInv'
    OBVIOUS
  <1>1. CASE UNCHANGED bankVars
    BY <1>1 DEF bankVars, FundedInv, BankTypeOK, CreditsAreFunded, CallFunded
  <1>2. CASE BankNext
    BY <1>2, BankNextCases, RowlessFunded, RecordSuccessFunded, RecordFailureFunded,
       BankCrashFunded
  <1> QED
    BY <1>1, <1>2

THEOREM BankInvariant == BankSpec => []FundedInv
  BY BankInitFunded, BankStepFunded, PTL DEF BankSpec

(* Every reachable state of the bank calls and their table is well typed.  *)
THEOREM BankTypeCorrect == BankSpec => []BankTypeOK
  <1>1. FundedInv => BankTypeOK
    BY DEF FundedInv
  <1> QED
    BY <1>1, BankInvariant, PTL

(* The money of every SUCCESS transaction is at the bank, whatever fails,  *)
(* is lost or dies on the way: what createTransactionRecord writes is what *)
(* the bank has answered for this very request.                            *)
THEOREM CreditsFunded == BankSpec => []CreditsAreFunded
  <1>1. FundedInv => CreditsAreFunded
    BY DEF FundedInv
  <1> QED
    BY <1>1, BankInvariant, PTL

-----------------------------------------------------------------------------
(* The rows of a request: none until its call has ended with an answer,    *)
(* and exactly one of the answer's status then.                            *)
RowsOf(r) ==
    CASE bank[r].pc = "confirmed" ->
            \E t \in transactions : TransactionsOf(r) = {t} /\ t.status = "SUCCESS"
      [] bank[r].pc = "refused" ->
            \E t \in transactions : TransactionsOf(r) = {t} /\ t.status = "FAILED"
      [] OTHER -> TransactionsOf(r) = {}

RowsInv == BankTypeOK /\ \A r \in Requests : RowsOf(r)

LEMMA BankInitRows == BankInit => RowsInv
  BY BankInitFunded DEF FundedInv, BankInit, RowsInv, RowsOf, TransactionsOf

(* A step that leaves the table as it is and no call newly answered.       *)
LEMMA RowsKept ==
  ASSUME RowsInv, BankTypeOK', transactions' = transactions,
         \A r \in Requests : \/ bank'[r].pc = bank[r].pc
                             \/ {bank[r].pc, bank'[r].pc} \cap {"confirmed", "refused"} = {}
  PROVE  RowsInv'
  <1> SUFFICES ASSUME NEW r \in Requests PROVE RowsOf(r)'
    BY DEF RowsInv
  <1>1. TransactionsOf(r)' = TransactionsOf(r)
    BY DEF TransactionsOf
  <1>2. CASE bank'[r].pc = bank[r].pc
    BY <1>1, <1>2 DEF RowsInv, RowsOf
  <1>3. CASE {bank[r].pc, bank'[r].pc} \cap {"confirmed", "refused"} = {}
    BY <1>1, <1>3 DEF RowsInv, RowsOf
  <1> QED
    BY <1>2, <1>3

(* A step that inserts one row, for a call that had none.                  *)
LEMMA RowAdded ==
  ASSUME RowsInv, BankTypeOK', NEW r \in Requests, NEW row,
         bank[r].pc \notin {"confirmed", "refused"},
         row.by = r, transactions' = transactions \cup {row},
         \/ row.status = "SUCCESS" /\ bank' = [bank EXCEPT ![r].pc = "confirmed"]
         \/ row.status = "FAILED" /\ bank' = [bank EXCEPT ![r].pc = "refused"]
  PROVE  RowsInv'
  <1> SUFFICES ASSUME NEW q \in Requests PROVE RowsOf(q)'
    BY DEF RowsInv
  <1>1. CASE q = r
    <2>1. TransactionsOf(r) = {}
      BY DEF RowsInv, RowsOf
    <2>2. TransactionsOf(r)' = {row}
      BY <2>1 DEF TransactionsOf
    <2>3. bank[r] \in BankCall /\ bank \in [Requests -> BankCall]
      BY DEF RowsInv, BankTypeOK
    <2>4. \/ row.status = "SUCCESS" /\ bank'[r].pc = "confirmed"
          \/ row.status = "FAILED" /\ bank'[r].pc = "refused"
      BY <2>3 DEF BankCall
    <2> QED
      BY <1>1, <2>2, <2>4 DEF RowsOf
  <1>2. CASE q # r
    <2>1. TransactionsOf(q)' = TransactionsOf(q)
      BY <1>2 DEF TransactionsOf
    <2>2. bank'[q] = bank[q]
      BY <1>2 DEF RowsInv, BankTypeOK
    <2> QED
      BY <2>1, <2>2 DEF RowsInv, RowsOf
  <1> QED
    BY <1>1, <1>2

LEMMA BankStepRows == FundedInv /\ FundedInv' /\ RowsInv /\ [BankNext]_bankVars => RowsInv'
  <1> SUFFICES ASSUME FundedInv, FundedInv', RowsInv, [BankNext]_bankVars PROVE RowsInv'
    OBVIOUS
  <1> USE DEF FundedInv
  <1>1. CASE UNCHANGED bankVars
    BY <1>1, RowsKept DEF bankVars
  <1>2. ASSUME NEW r \in Requests, Rowless(r) PROVE RowsInv'
    <2>1. /\ transactions' = transactions
          /\ \A q \in Requests : q # r => bank'[q] = bank[q]
          /\ {bank[r].pc, bank'[r].pc} \cap {"confirmed", "refused"} = {}
      BY <1>2 DEF Rowless, StartVerification, StartCharge, StartButton, CheckDuplicate,
                  AskHistory, ChargeAccepted, ChargeFailed, VerifyThrows, BankThrows,
                  BankTypeOK, BankCall, BankInFlight
    <2> QED
      BY <2>1, RowsKept
  <1>3. ASSUME NEW r \in Requests, RecordSuccess(r) PROVE RowsInv'
    <2> DEFINE row == [by |-> r, product |-> bank[r].product, status |-> "SUCCESS",
                       reference |-> bank[r].reference, amount |-> bank[r].amount]
    <2> QED
      BY <1>3, RowAdded DEF RecordSuccess
  <1>4. ASSUME NEW r \in Requests, RecordFailure(r) PROVE RowsInv'
    <2> DEFINE row == [by |-> r, product |-> bank[r].product, status |-> "FAILED",
                       reference |-> NoReference, amount |-> bank[r].amount]
    <2> QED
      BY <1>4, RowAdded DEF RecordFailure
  <1>5. CASE BankCrash
    <2>1. \A q \in Requests : \/ bank'[q].pc = bank[q].pc
                              \/ {bank[q].pc, bank'[q].pc} \cap {"confirmed", "refused"} = {}
      BY <1>5 DEF BankCrash, BankInFlight, BankTypeOK, BankCall
    <2> QED
      BY <1>5, <2>1, RowsKept DEF BankCrash
  <1> QED
    BY <1>1, <1>2, <1>3, <1>4, <1>5, BankNextCases

(* The table tells how every call of a bank ended: createTransactionRecord *)
(* runs once, after the bank's answer, and with the status of it.          *)
THEOREM RowsCorrect == BankSpec => []RowsTellOutcome
  <1>1. RowsInv => RowsTellOutcome
    <2> SUFFICES ASSUME RowsInv, NEW r \in Requests
                 PROVE  /\ {t.status : t \in TransactionsOf(r)} =
                             CASE bank[r].pc = "confirmed" -> {"SUCCESS"}
                               [] bank[r].pc = "refused"   -> {"FAILED"}
                               [] OTHER                    -> {}
                        /\ Cardinality(TransactionsOf(r)) <= 1
      BY DEF RowsTellOutcome
    <2>1. RowsOf(r)
      BY DEF RowsInv
    <2>2. CASE bank[r].pc \in {"confirmed", "refused"}
      <3>1. PICK t \in transactions : /\ TransactionsOf(r) = {t}
                                      /\ t.status = IF bank[r].pc = "confirmed"
                                                    THEN "SUCCESS" ELSE "FAILED"
        BY <2>1, <2>2 DEF RowsOf
      <3>2. Cardinality(TransactionsOf(r)) = 1
        BY <3>1, FS_Singleton
      <3> QED
        BY <2>2, <3>1, <3>2
    <2>3. CASE bank[r].pc \notin {"confirmed", "refused"}
      <3>1. TransactionsOf(r) = {}
        BY <2>1, <2>3 DEF RowsOf
      <3>2. Cardinality(TransactionsOf(r)) = 0
        BY <3>1, FS_EmptySet
      <3> QED
        BY <2>3, <3>1, <3>2
    <2> QED
      BY <2>2, <2>3
  <1> QED
    BY <1>1, BankInitRows, BankStepRows, BankInvariant, PTL DEF BankSpec

-----------------------------------------------------------------------------
(* A deposit is credited, and the request r has not got past the look-up   *)
(* for duplicates with it.                                                 *)
TooLate(r, reference) ==
    /\ Credits(reference) # {}
    /\ bank[r].reference = reference => bank[r].pc \notin {"asking", "accepted", "confirmed"}

LEMMA CreditsGrow ==
  ASSUME BankNext, NEW reference
  PROVE  Credits(reference) \subseteq Credits(reference)'
  BY DEF BankNext, BankStep, StartVerification, StartCharge, StartButton, CheckDuplicate,
         AskHistory, ChargeAccepted, ChargeFailed, VerifyThrows, BankThrows, RecordSuccess,
         RecordFailure, BankCrash, Credits

LEMMA StaysTooLate ==
  ASSUME NEW r \in Requests, NEW reference \in References
  PROVE  FundedInv /\ TooLate(r, reference) /\ [BankNext]_bankVars => TooLate(r, reference)'
  <1> SUFFICES ASSUME FundedInv, TooLate(r, reference), [BankNext]_bankVars
               PROVE  TooLate(r, reference)'
    OBVIOUS
  <1>1. CASE UNCHANGED bankVars
    BY <1>1 DEF bankVars, TooLate, Credits
  <1>2. CASE BankNext
    <2>1. Credits(reference)' # {}
      BY <1>2, CreditsGrow DEF TooLate
    <2> SUFFICES ASSUME bank'[r].reference = reference
                 PROVE  bank'[r].pc \notin {"asking", "accepted", "confirmed"}
      BY <2>1 DEF TooLate
    <2> USE BankAssumption DEF TooLate, FundedInv, BankTypeOK, BankCall
    <2>2. ASSUME NEW q \in Requests, Rowless(q)
          PROVE  bank'[r].pc \notin {"asking", "accepted", "confirmed"}
      BY <2>2 DEF Rowless, StartVerification, StartCharge, StartButton, CheckDuplicate,
                  AskHistory, ChargeAccepted, ChargeFailed, VerifyThrows, BankThrows, Credits
    <2>3. ASSUME NEW q \in Requests, RecordSuccess(q) \/ RecordFailure(q)
          PROVE  bank'[r].pc \notin {"asking", "accepted", "confirmed"}
      BY <2>3 DEF RecordSuccess, RecordFailure
    <2>4. ASSUME BankCrash
          PROVE  bank'[r].pc \notin {"asking", "accepted", "confirmed"}
      BY <2>4 DEF BankCrash
    <2> QED
      BY <1>2, <2>2, <2>3, <2>4, BankNextCases
  <1> QED
    BY <1>1, <1>2

(* "Verificar si la transacción ya existe": a deposit that is credited     *)
(* when a request begins is never credited to that request, however the    *)
(* requests before it have interleaved.                                    *)
THEOREM NoLateCredits == BankSpec => NoLateCredit
  <1> SUFFICES ASSUME NEW r \in Requests, NEW reference \in References
               PROVE  BankSpec =>
                        [](bank[r].pc = "idle" /\ Credits(reference) # {} =>
                             [](bank[r].reference = reference => bank[r].pc # "confirmed"))
    BY DEF NoLateCredit
  <1>1. bank[r].pc = "idle" /\ Credits(reference) # {} => TooLate(r, reference)
    BY DEF TooLate
  <1>2. FundedInv /\ TooLate(r, reference) /\ [BankNext]_bankVars => TooLate(r, reference)'
    BY StaysTooLate
  <1>3. TooLate(r, reference) => (bank[r].reference = reference => bank[r].pc # "confirmed")
    BY DEF TooLate
  <1> QED
    BY <1>1, <1>2, <1>3, BankInvariant, PTL DEF BankSpec
=============================================================================
