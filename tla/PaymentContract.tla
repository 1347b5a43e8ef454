--------------------------- MODULE PaymentContract ---------------------------
(***************************************************************************)
(* What paying invoices promises, without the banks, the tables and the    *)
(* network manager: where the money of a request is, and what the client   *)
(* has been told.  The money moves one way.  Nothing comes back from a     *)
(* balance but by spending it, and only money spent on invoices is ever    *)
(* given up by deleting its transaction.                                   *)
(***************************************************************************)

CONSTANT Requests

VARIABLES
    money,      \* where the money of each request is
    answer,     \* what the request has been answered
    forNothing  \* the requests that name no invoice

contractVars == <<money, answer, forNothing>>

Places == {"none", "bank", "balance", "invoices", "deleted"}
Answers == {"open", "success", "partial", "refused", "insufficient", "failed", "crashed"}

ContractTypeOK ==
    /\ money \in [Requests -> Places]
    /\ answer \in [Requests -> Answers]
    /\ forNothing \subseteq Requests

ContractInit ==
    /\ money = [r \in Requests |-> "none"]
    /\ answer = [r \in Requests |-> "open"]
    /\ forNothing = {}

Move(r, from, to) == money[r] = from /\ money' = [money EXCEPT ![r] = to]

Tell(r, what) == answer[r] = "open" /\ answer' = [answer EXCEPT ![r] = what]

(* A request that names no invoice arrives.                                *)
AskForNothing(r) ==
    /\ answer[r] = "open" /\ money[r] = "none"
    /\ forNothing' = forNothing \cup {r}
    /\ UNCHANGED <<money, answer>>

(* The bank has the money.                                                 *)
Take(r) == answer[r] = "open" /\ Move(r, "none", "bank") /\ UNCHANGED answer

(* Too little: the client keeps it as a balance and is told so.  Amounts   *)
(* that round to the same leave the money where it is.                     *)
Keep(r) == Tell(r, "partial") /\ (Move(r, "bank", "balance") \/ (money[r] = "bank" /\ UNCHANGED money))

(* An invoice is recorded as paid, be it after the request has failed on   *)
(* another invoice.                                                        *)
Spend(r) ==
    /\ r \notin forNothing
    /\ answer[r] \in {"open", "failed"}
    /\ Move(r, "bank", "invoices")
    /\ UNCHANGED answer

(* The bank would not, so no money was taken.                              *)
Refuse(r) == Tell(r, "refused") /\ money[r] = "none" /\ UNCHANGED money

(* The applied balance is not there: the money stays with the bank.        *)
Reject(r) == Tell(r, "insufficient") /\ money[r] = "bank" /\ UNCHANGED money

(* All invoices are paid, perhaps to be given up again at once.  With none *)
(* to pay that is said as well, and the money stays with the bank.         *)
Succeed(r) ==
    /\ Tell(r, "success")
    /\ money[r] \in (IF r \in forNothing THEN {"bank"} ELSE {"invoices", "deleted"})
    /\ UNCHANGED money

(* A request can fail wherever its money is, but never with a balance.     *)
Fail(r) == Tell(r, "failed") /\ money[r] # "balance" /\ UNCHANGED money

(* A crash cuts off open requests, any of them still without an answer.    *)
CutOff ==
    /\ \E cut \in SUBSET {r \in Requests : answer[r] = "open" /\ money[r] # "balance"} :
          answer' = [r \in Requests |-> IF r \in cut THEN "crashed" ELSE answer[r]]
    /\ UNCHANGED money

Delete(r) == Move(r, "invoices", "deleted") /\ UNCHANGED answer

ContractNext ==
    \/ \E r \in Requests : AskForNothing(r)
    \/ /\ \/ \E r \in Requests :
                \/ Take(r) \/ Keep(r) \/ Spend(r) \/ Refuse(r) \/ Reject(r)
                \/ Succeed(r) \/ Fail(r) \/ Delete(r)
          \/ CutOff
       /\ UNCHANGED forNothing

ContractSpec == ContractInit /\ [][ContractNext]_contractVars

=============================================================================
