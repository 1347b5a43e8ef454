------------------------------ MODULE Wisphub ------------------------------
(***************************************************************************)
(* The two network managers behind one interface: an installation pays     *)
(* over MikroWisp (module Mikrowisp) or over Wisphub                       *)
(* (network-managers/wisphub/), whichever its configuration names.         *)
(*                                                                         *)
(* Wisphub is external: paid is then what Wisphub has registered.          *)
(***************************************************************************)
EXTENDS Mikrowisp

VARIABLE manager        \* network_manager_name of the installation's ISP

managerVars == <<mikrowispVars, manager>>

ManagerInit ==
    /\ MikrowispInit
    /\ manager \in {"MIKROWISP", "WISPHUB"}

(* payInvoice hands back what PaidInvoice answers, and processPayment      *)
(* reads response.estado of it: it throws when the post fails, and throws  *)
(* as well when Wisphub has registered the payment.                        *)
WisphubPost(t) ==
    /\ posts[t].pc = "posting"
    /\ paid' \in MaybeRegistered(t)
    /\ posts' = [posts EXCEPT ![t].pc = "threw"]
    /\ UNCHANGED undone

(* deleteTransaction is one post for all invoices of a transaction.  Its   *)
(* answer is not looked at: what Wisphub refuses passes for done.          *)
WisphubUndo(is) ==
    /\ paid' \in {paid, {p \in paid : InvoiceOf[p.task] \notin is}}
    /\ undone' = undone \cup is
    /\ UNCHANGED posts

ManagerStep(t) ==
    \/ manager = "MIKROWISP" /\ PostStep(t)
    \/ manager = "WISPHUB" /\ WisphubPost(t)

ManagerNext ==
    /\ \/ \E ts \in SUBSET Tasks, reference \in References : StartPosts(ts, reference)
       \/ \E t \in Tasks : ManagerStep(t)
       \/ manager = "MIKROWISP" /\ \E invoice \in Invoices : UndoInvoice(invoice)
       \/ manager = "WISPHUB" /\ \E is \in SUBSET Invoices : WisphubUndo(is)
       \/ (\E t \in Tasks : posts[t].pc \in PostInFlight) /\ MikrowispCrash
    /\ UNCHANGED manager

ManagerSpec == ManagerInit /\ [][ManagerNext]_managerVars

(* The network manager answers or the connection fails.                    *)
ManagerFairSpec ==
    ManagerSpec /\ \A t \in Tasks : WF_managerVars(ManagerStep(t) /\ UNCHANGED manager)

=============================================================================
