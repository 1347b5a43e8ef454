---------------------------- MODULE MCPaymentFlow ----------------------------
(* Small instances of PaymentFlow for TLC.  Each set of inputs is built for *)
(* one question; a request sends any of them, once.                        *)
EXTENDS PaymentFlow

CONSTANTS ana, i1, i2, dep

MCDeposits == [reference \in {dep} |-> 2]

MCAmounts == 0 .. 6

(* A Binance deposit of 2 that pays what it should, or falls short of it.  *)
Verification(expected, applied, invoices) ==
    [client |-> ana, product |-> "VERIFICATION_API", reference |-> dep, amount |-> 0,
     expected |-> expected, applied |-> applied, rate |-> 1, invoices |-> invoices]

(* A C2P charge, in a currency of which rate make one USD.                 *)
Charge(amount, expected, applied, rate, invoices) ==
    [client |-> ana, product |-> "C2P", reference |-> dep, amount |-> amount,
     expected |-> expected, applied |-> applied, rate |-> rate, invoices |-> invoices]

(* Short of 3 by 1; and 3 with a balance of 2 applied; the deposit is one. *)
BalanceInputs == {Verification(3, 0, {i1}), Charge(2, 4, 2, 1, {i1})}

(* The same with the invoices of one payment paid side by side.            *)
SideBySideInputs == {Charge(3, 3, 0, 1, {i1, i2}), Verification(2, 0, {i1})}

(* 5 for 6 at a rate of 3: both are 2 when rounded to a USD cent.          *)
RoundingInputs == {Charge(4, 6, 0, 3, {i1}), Charge(5, 6, 0, 3, {i1}),
                   Charge(5, 6, 1, 3, {i1})}

(* Two invoices, each of them with a balance of 2 applied.                 *)
LiveInputs == {Verification(3, 0, {i1}), Charge(2, 4, 2, 1, {i1, i2})}

(* The deposit, and no invoice to pay with it.                             *)
NoInvoiceInputs == {Verification(2, 0, {})}

AllInputs == BalanceInputs \cup SideBySideInputs \cup RoundingInputs \cup NoInvoiceInputs
=============================================================================
