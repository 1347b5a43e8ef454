----------------------------- MODULE MCMikrowisp -----------------------------
(* A small instance of Mikrowisp and Wisphub for TLC: two invoices of one  *)
(* bank payment, and a payment of one of them by somebody else.            *)
EXTENDS Wisphub

CONSTANTS first, second, other, i1, i2

MCTasks == {first, second, other}
MCInvoiceOf == [t \in MCTasks |-> IF t = first THEN i1 ELSE i2]
=============================================================================
