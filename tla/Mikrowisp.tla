------------------------------ MODULE Mikrowisp ------------------------------
(***************************************************************************)
(* The network manager MikroWisp as processPayment and deleteTransaction   *)
(* use it: mikrowisp.service.ts over invoices/invoice.service.ts.          *)
(*                                                                         *)
(* MikroWisp itself is external: paid is what it has registered.  It       *)
(* refuses a transaction number it knows ("ya fue registrado"), which the  *)
(* code answers by retrying once under the number prefixed with the bank's *)
(* code, and it deletes by invoice.                                        *)
(***************************************************************************)
EXTENDS Naturals, FiniteSets

CONSTANTS
    Tasks,          \* invocations of payInvoice: one invoice of one request
    Invoices,
    InvoiceOf,      \* the invoice a task pays
    References      \* the transaction numbers a payment comes with

ASSUME MikrowispAssumption ==
    /\ InvoiceOf \in [Tasks -> Invoices]
    /\ References # {}

VARIABLES
    paid,           \* external: the payments MikroWisp has registered
    posts,          \* the invocation of each task
    undone          \* history: the invoices whose payments were ever undone

mikrowispVars == <<paid, posts, undone>>

(* A transaction number: the bank's reference, bare or prefixed.           *)
Number == [reference : References, prefixed : BOOLEAN]

Registration == [task : Tasks, number : Number]

PostInFlight == {"posting", "retrying", "fetching"}
PostEnded    == {"answered", "threw", "crashed"}

Post == [pc : {"idle"} \cup PostInFlight \cup PostEnded, number : Number]

(* The number is prefixed from the retry on, never before.                 *)
PrefixedOnRetry(post) ==
    /\ post.pc \in {"idle", "posting", "fetching", "answered"} => ~post.number.prefixed
    /\ post.pc = "retrying" => post.number.prefixed

MikrowispTypeOK ==
    /\ paid \in SUBSET Registration
    /\ posts \in [Tasks -> Post] /\ \A t \in Tasks : PrefixedOnRetry(posts[t])
    /\ undone \in SUBSET Invoices

-----------------------------------------------------------------------------

NumberTaken(number) == \E p \in paid : p.number = number

IsPaidBy(t) == \E p \in paid : p.task = t

Registered(t) == paid \cup {[task |-> t, number |-> posts[t].number]}

(* What an exchange that fails can leave at MikroWisp.                     *)
MaybeRegistered(t) ==
    IF NumberTaken(posts[t].number) THEN {paid} ELSE {paid, Registered(t)}

Bare(reference) == [reference |-> reference, prefixed |-> FALSE]

MikrowispInit ==
    /\ paid = {}
    /\ posts = [t \in Tasks |-> [pc |-> "idle",
                                 number |-> Bare(CHOOSE reference \in References : TRUE)]]
    /\ undone = {}

(* processPayment is called for several invoices at once, all under the    *)
(* number the bank gave for the payment.                                   *)
StartPosts(ts, reference) ==
    /\ \A t \in ts : posts[t].pc = "idle"
    /\ posts' = [t \in Tasks |-> IF t \in ts
                                 THEN [pc |-> "posting", number |-> Bare(reference)]
                                 ELSE posts[t]]
    /\ UNCHANGED <<paid, undone>>

(* PaidInvoice registers the payment; payInvoice goes on to GetInvoice.    *)
PostAccepted(t) ==
    /\ posts[t].pc = "posting"
    /\ ~NumberTaken(posts[t].number)
    /\ paid' = Registered(t)
    /\ posts' = [posts EXCEPT ![t].pc = "fetching"]
    /\ UNCHANGED undone

(* Mutant: it is retried under the number that was refused.                *)
RetryUnprefixed(t) ==
    /\ posts[t].pc = "posting"
    /\ NumberTaken(posts[t].number)
    /\ posts' = [posts EXCEPT ![t].pc = "retrying"]
    /\ UNCHANGED <<paid, undone>>

(* PaidInvoice knows the number: it is retried under a prefixed one.       *)
PostDuplicate(t) ==
    /\ posts[t].pc = "posting"
    /\ NumberTaken(posts[t].number)
    /\ posts' = [posts EXCEPT ![t].pc = "retrying", ![t].number.prefixed = TRUE]
    /\ UNCHANGED <<paid, undone>>

(* Mutants: an error is logged and ignored, and a lost answer is retried   *)
(* under the prefixed number.                                              *)
PostFailureIgnored(t) ==
    /\ posts[t].pc = "posting"
    /\ paid' \in MaybeRegistered(t)
    /\ posts' = [posts EXCEPT ![t].pc = "fetching"]
    /\ UNCHANGED undone

PostFailureRetried(t) ==
    /\ posts[t].pc = "posting"
    /\ paid' \in MaybeRegistered(t)
    /\ posts' = [posts EXCEPT ![t].pc = "retrying", ![t].number.prefixed = TRUE]
    /\ UNCHANGED undone

(* Any other error of PaidInvoice throws; a failed HTTP call throws too,   *)
(* whether MikroWisp has registered the payment or not.                    *)
PostFails(t) ==
    /\ posts[t].pc = "posting"
    /\ paid' \in MaybeRegistered(t)
    /\ posts' = [posts EXCEPT ![t].pc = "threw"]
    /\ UNCHANGED undone

(* Mutant: as long as the prefixed number is refused, it starts over.      *)
RetryForever(t) ==
    /\ posts[t].pc = "retrying"
    /\ paid' \in MaybeRegistered(t)
    /\ posts' = [posts EXCEPT ![t].pc = IF NumberTaken(posts[t].number)
                                        THEN "posting" ELSE "threw"]
    /\ UNCHANGED undone

(* The retry's answer is returned bare: mikrowisp.service.processPayment   *)
(* reads response.estado of it, and throws whatever the answer says.       *)
RetryReturns(t) ==
    /\ posts[t].pc = "retrying"
    /\ paid' \in MaybeRegistered(t)
    /\ posts' = [posts EXCEPT ![t].pc = "threw"]
    /\ UNCHANGED undone

(* GetInvoice answers with the updated invoice, or fails after the fact.   *)
FetchReturns(t) ==
    /\ posts[t].pc = "fetching"
    /\ posts' = [posts EXCEPT ![t].pc = "answered"]
    /\ UNCHANGED <<paid, undone>>

FetchFails(t) ==
    /\ posts[t].pc = "fetching"
    /\ posts' = [posts EXCEPT ![t].pc = "threw"]
    /\ UNCHANGED <<paid, undone>>

(* DeleteTransaccion names the invoice alone: its payments are undone.     *)
UndoInvoice(invoice) ==
    /\ paid' = {p \in paid : InvoiceOf[p.task] # invoice}
    /\ undone' = undone \cup {invoice}
    /\ UNCHANGED posts

(* The process dies.  Of what it was posting MikroWisp registers some, one *)
(* payment at most under a number.                                         *)
MikrowispCrash ==
    /\ posts' = [t \in Tasks |-> IF posts[t].pc \in PostInFlight
                                 THEN [posts[t] EXCEPT !.pc = "crashed"]
                                 ELSE posts[t]]
    /\ \E made \in SUBSET {t \in Tasks : posts[t].pc \in {"posting", "retrying"}
                                         /\ ~NumberTaken(posts[t].number)} :
          /\ \A t, u \in made : posts[t].number = posts[u].number => t = u
          /\ paid' = paid \cup UNION {Registered(t) : t \in made}
    /\ UNCHANGED undone

PostStep(t) ==
    \/ PostAccepted(t) \/ PostDuplicate(t) \/ PostFails(t)
    \/ RetryReturns(t)
    \/ FetchReturns(t) \/ FetchFails(t)

-----------------------------------------------------------------------------
(***************************************************************************)
(* Properties                                                              *)
(***************************************************************************)

(* payInvoice comes back only for a payment MikroWisp holds, under the     *)
(* number it was given, until a deletion undoes the invoice.               *)
AnsweredIsPaid ==
    \A t \in Tasks : posts[t].pc = "answered" /\ InvoiceOf[t] \notin undone =>
        [task |-> t, number |-> posts[t].number] \in paid

(* The retry never pays an invoice a second time: whatever is refused,     *)
(* lost or retried, one invocation registers one payment at most.          *)
OnePaymentPerTask ==
    \A p, q \in paid : p.task = q.task => p = q

(* Every invocation of payInvoice comes back or throws.                    *)
PostsEnd == \A t \in Tasks : posts[t].pc \in PostInFlight ~> posts[t].pc \in PostEnded

=============================================================================
