--------------------------- MODULE MCBankProducts ---------------------------
(* Small instances of BankProducts for TLC.                                *)
EXTENDS BankProducts

CONSTANTS dep, ghost   \* a deposit Binance holds and one it has never seen

MCReferences == {dep, ghost}
MCDeposits == [reference \in MCReferences |-> IF reference = dep THEN 2 ELSE 0]
MCCharges == {1, 2}
=============================================================================
