---------------------------- MODULE WisphubProofs ----------------------------
(***************************************************************************)
(* What the two network managers guarantee for every set of invoices,      *)
(* tasks and transaction numbers: payInvoice comes back only for a payment *)
(* that is registered, and one invocation registers one payment at most.   *)
(***************************************************************************)
EXTENDS Wisphub, TLAPS

(* The invocations that have yet to register a payment, and those that go  *)
(* on, or have come back, because they have registered one.                *)
Unpaid == {"idle", "posting", "retrying"}
Paying == {"fetching", "answered"}

(* A task registers at most once because it posts again only after it has  *)
(* been refused.                                                           *)
PostAgrees(t) ==
    /\ posts[t].pc \in Unpaid => ~IsPaidBy(t)
    /\ posts[t].pc \in Paying /\ InvoiceOf[t] \notin undone =>
          [task |-> t, number |-> posts[t].number] \in paid

(* The inductive invariant.                                                *)
ManagerInv ==
    /\ MikrowispTypeOK
    /\ OnePaymentPerTask
    /\ \A t \in Tasks : PostAgrees(t)

LEMMA ManagerInitInv == ManagerInit => ManagerInv
  <1> SUFFICES ASSUME ManagerInit PROVE ManagerInv
    OBVIOUS
  <1>1. Bare(CHOOSE reference \in References : TRUE) \in Number
    BY MikrowispAssumption DEF Bare, Number
  <1>2. MikrowispTypeOK
    BY <1>1 DEF ManagerInit, MikrowispInit, MikrowispTypeOK, Post, PrefixedOnRetry, Bare
  <1> QED
    BY <1>2 DEF ManagerInit, MikrowispInit, ManagerInv, OnePaymentPerTask, PostAgrees,
                IsPaidBy, Unpaid, Paying

LEMMA StartPostsInv ==
  ASSUME ManagerInv, NEW ts \in SUBSET Tasks, NEW reference \in References,
         StartPosts(ts, reference)
  PROVE  ManagerInv'
  <1>1. Bare(reference) \in Number
    BY DEF Bare, Number
  <1>2. MikrowispTypeOK'
    <2>1. paid' \in SUBSET Registration /\ posts' \in [Tasks -> Post] /\ undone' \in SUBSET Invoices
      BY <1>1 DEF ManagerInv, MikrowispTypeOK, StartPosts, Post, PostInFlight
    <2>2. ASSUME NEW t \in Tasks PROVE PrefixedOnRetry(posts'[t])
      BY DEF ManagerInv, MikrowispTypeOK, StartPosts, PrefixedOnRetry, Bare
    <2> QED
      BY <2>1, <2>2 DEF MikrowispTypeOK, PrefixedOnRetry
  <1>3. OnePaymentPerTask'
    BY DEF ManagerInv, OnePaymentPerTask, StartPosts
  <1>4. ASSUME NEW t \in Tasks PROVE PostAgrees(t)'
    <2>1. PostAgrees(t)
      BY DEF ManagerInv
    <2>2. CASE t \in ts
      BY <2>1, <2>2 DEF StartPosts, PostAgrees, IsPaidBy, Unpaid, Paying
    <2>3. CASE t \notin ts
      BY <2>1, <2>3 DEF StartPosts, PostAgrees, IsPaidBy
    <2> QED
      BY <2>2, <2>3
  <1> QED
    BY <1>2, <1>3, <1>4 DEF ManagerInv

(* A step of one task that may register a payment under its number, and    *)
(* goes on only when it has.                                               *)
LEMMA PostInv ==
  ASSUME ManagerInv, NEW t \in Tasks, posts[t].pc \in Unpaid,
         NEW pc \in PostInFlight \cup PostEnded, pc \notin Unpaid,
         paid' \in {paid, Registered(t)},
         pc \in Paying => paid' = Registered(t) /\ posts[t].pc = "posting",
         posts' = [posts EXCEPT ![t].pc = pc], undone' = undone
  PROVE  ManagerInv'
  <1>1. posts \in [Tasks -> Post] /\ posts[t] \in Post /\ posts[t].number \in Number
    BY DEF ManagerInv, MikrowispTypeOK, Post
  <1>2. /\ posts'[t].pc = pc /\ posts'[t].number = posts[t].number
        /\ \A u \in Tasks : u # t => posts'[u] = posts[u]
    BY <1>1 DEF Post
  <1>3. MikrowispTypeOK'
    <2>1. [task |-> t, number |-> posts[t].number] \in Registration
      BY <1>1 DEF Registration
    <2>2. posts' \in [Tasks -> Post]
      BY <1>1 DEF Post
    <2>3. PrefixedOnRetry(posts'[t])
      BY <1>2 DEF ManagerInv, MikrowispTypeOK, PrefixedOnRetry, Unpaid, Paying
    <2>4. ASSUME NEW u \in Tasks PROVE PrefixedOnRetry(posts'[u])
      BY <1>2, <2>3 DEF ManagerInv, MikrowispTypeOK
    <2> QED
      BY <2>1, <2>2, <2>4 DEF ManagerInv, MikrowispTypeOK, Registered, PrefixedOnRetry
  <1>4. ~IsPaidBy(t)
    BY DEF ManagerInv, PostAgrees
  <1>5. OnePaymentPerTask'
    BY <1>4 DEF ManagerInv, OnePaymentPerTask, IsPaidBy, Registered
  <1>6. PostAgrees(t)'
    BY <1>2 DEF PostAgrees, Registered
  <1>7. ASSUME NEW u \in Tasks, u # t PROVE PostAgrees(u)'
    <2>1. PostAgrees(u)
      BY DEF ManagerInv
    <2> QED
      BY <1>2, <1>7, <2>1 DEF PostAgrees, IsPaidBy, Registered
  <1> QED
    BY <1>3, <1>5, <1>6, <1>7 DEF ManagerInv

(* A step of one task that registers nothing and goes no further than what *)
(* it has registered.                                                      *)
LEMMA NoPostInv ==
  ASSUME ManagerInv, NEW t \in Tasks, NEW call \in Post, PrefixedOnRetry(call),
         posts' = [posts EXCEPT ![t] = call], UNCHANGED <<paid, undone>>,
         call.pc \in Unpaid => posts[t].pc \in Unpaid,
         call.pc \in Paying => posts[t].pc \in Paying /\ call.number = posts[t].number
  PROVE  ManagerInv'
  <1>1. MikrowispTypeOK' /\ OnePaymentPerTask'
    <2>1. ASSUME NEW u \in Tasks PROVE PrefixedOnRetry(posts'[u])
      BY DEF ManagerInv, MikrowispTypeOK
    <2>2. posts' \in [Tasks -> Post]
      BY DEF ManagerInv, MikrowispTypeOK
    <2> QED
      BY <2>1, <2>2 DEF ManagerInv, MikrowispTypeOK, OnePaymentPerTask, PrefixedOnRetry
  <1>2. ASSUME NEW u \in Tasks PROVE PostAgrees(u)'
    <2>1. PostAgrees(u) /\ posts \in [Tasks -> Post]
      BY DEF ManagerInv, MikrowispTypeOK
    <2>2. CASE u = t
      <3>1. posts'[u] = call
        BY <2>1, <2>2
      <3> QED
        BY <2>1, <2>2, <3>1 DEF PostAgrees, IsPaidBy
    <2>3. CASE u # t
      <3>1. posts'[u] = posts[u]
        BY <2>1, <2>3
      <3> QED
        BY <2>1, <3>1 DEF PostAgrees, IsPaidBy
    <2> QED
      BY <2>2, <2>3
  <1> QED
    BY <1>1, <1>2 DEF ManagerInv

LEMMA ManagerStepInv ==
  ASSUME ManagerInv, NEW t \in Tasks, PostStep(t) \/ WisphubPost(t)
  PROVE  ManagerInv'
  <1>1. posts \in [Tasks -> Post] /\ posts[t] \in Post
    BY DEF ManagerInv, MikrowispTypeOK
  <1>2. MaybeRegistered(t) \subseteq {paid, Registered(t)}
    BY DEF MaybeRegistered
  <1>3. CASE PostAccepted(t)
    <2>1. "fetching" \in PostInFlight \cup PostEnded /\ "fetching" \notin Unpaid
      BY DEF PostInFlight, Unpaid
    <2>2. posts[t].pc \in Unpaid
      BY <1>3 DEF PostAccepted, Unpaid
    <2> QED
      BY <1>3, <2>1, <2>2, PostInv DEF PostAccepted
  <1>4. CASE PostFails(t) \/ RetryReturns(t) \/ WisphubPost(t)
    BY <1>2, <1>4, PostInv DEF PostFails, RetryReturns, WisphubPost, Unpaid, Paying, PostEnded
  <1>5. CASE PostDuplicate(t)
    <2> DEFINE call == [posts[t] EXCEPT !.pc = "retrying", !.number.prefixed = TRUE]
    <2>1. call \in Post /\ call.pc = "retrying" /\ PrefixedOnRetry(call)
      BY <1>1 DEF Post, Number, PostInFlight, PrefixedOnRetry
    <2>2. posts' = [posts EXCEPT ![t] = call]
      BY <1>5 DEF PostDuplicate
    <2> QED
      BY <1>5, <2>1, <2>2, NoPostInv DEF PostDuplicate, Unpaid, Paying
  <1>6. ASSUME NEW pc \in {"answered", "threw"}, posts[t].pc = "fetching",
               posts' = [posts EXCEPT ![t].pc = pc], UNCHANGED <<paid, undone>>
        PROVE  ManagerInv'
    <2> DEFINE call == [posts[t] EXCEPT !.pc = pc]
    <2>1. call \in Post /\ call.pc = pc /\ call.number = posts[t].number
      BY <1>1 DEF Post, PostEnded
    <2>3. PrefixedOnRetry(call)
      BY <1>6, <2>1 DEF ManagerInv, MikrowispTypeOK, PrefixedOnRetry
    <2>2. posts' = [posts EXCEPT ![t] = call]
      BY <1>6
    <2> QED
      BY <1>6, <2>1, <2>2, <2>3, NoPostInv DEF Unpaid, Paying
  <1>7. CASE FetchReturns(t)
    BY <1>6, <1>7 DEF FetchReturns
  <1>8. CASE FetchFails(t)
    BY <1>6, <1>8 DEF FetchFails
  <1> QED
    BY <1>3, <1>4, <1>5, <1>7, <1>8 DEF PostStep

(* Undoing the payments of some invoices, all or, when it is refused, none *)
(* of them.                                                                *)
LEMMA UndoInv ==
  ASSUME ManagerInv, NEW is \in SUBSET Invoices,
         paid' \in {paid, {p \in paid : InvoiceOf[p.task] \notin is}},
         undone' = undone \cup is, posts' = posts
  PROVE  ManagerInv'
  <1>1. MikrowispTypeOK' /\ OnePaymentPerTask'
    BY DEF ManagerInv, MikrowispTypeOK, OnePaymentPerTask
  <1>2. ASSUME NEW t \in Tasks PROVE PostAgrees(t)'
    <2>1. PostAgrees(t)
      BY DEF ManagerInv
    <2>2. paid' \subseteq paid
      OBVIOUS
    <2>3. ASSUME InvoiceOf[t] \notin undone', posts[t].pc \in Paying
          PROVE  [task |-> t, number |-> posts[t].number] \in paid'
      BY <2>1, <2>3 DEF PostAgrees
    <2> QED
      BY <2>1, <2>2, <2>3 DEF PostAgrees, IsPaidBy
  <1> QED
    BY <1>1, <1>2 DEF ManagerInv

LEMMA ManagerCrashInv ==
  ASSUME ManagerInv, MikrowispCrash
  PROVE  ManagerInv'
  <1>1. posts \in [Tasks -> Post]
    BY DEF ManagerInv, MikrowispTypeOK
  <1>2. PICK made \in SUBSET {t \in Tasks : posts[t].pc \in {"posting", "retrying"}} :
           paid' = paid \cup UNION {Registered(t) : t \in made}
    BY DEF MikrowispCrash
  <1>3. paid' = paid \cup {[task |-> t, number |-> posts[t].number] : t \in made}
    BY <1>2 DEF Registered
  <1>4. ASSUME NEW t \in Tasks
        PROVE  \/ posts'[t] = posts[t] /\ t \notin made
               \/ posts'[t].pc = "crashed" /\ posts'[t] \in Post
    BY <1>1, <1>2 DEF MikrowispCrash, PostInFlight, PostEnded, Post
  <1>5. MikrowispTypeOK'
    <2>1. \A t \in made : [task |-> t, number |-> posts[t].number] \in Registration
      BY <1>1, <1>2 DEF Registration, Post
    <2>2. posts' \in [Tasks -> Post]
      BY <1>1, <1>4 DEF MikrowispCrash
    <2>3. ASSUME NEW t \in Tasks PROVE PrefixedOnRetry(posts'[t])
      <3>1. posts'[t] = posts[t] \/ posts'[t].pc = "crashed"
        BY <1>4
      <3> QED
        BY <3>1 DEF ManagerInv, MikrowispTypeOK, PrefixedOnRetry
    <2> QED
      BY <1>3, <2>1, <2>2, <2>3 DEF ManagerInv, MikrowispTypeOK, MikrowispCrash, PrefixedOnRetry
  <1>6. \A t \in made : ~IsPaidBy(t)
    BY <1>2 DEF ManagerInv, PostAgrees, Unpaid
  <1>7. OnePaymentPerTask'
    BY <1>3, <1>6 DEF ManagerInv, OnePaymentPerTask, IsPaidBy
  <1>8. ASSUME NEW t \in Tasks PROVE PostAgrees(t)'
    <2>1. CASE posts'[t].pc = "crashed"
      BY <2>1 DEF PostAgrees, Unpaid, Paying
    <2>2. CASE posts'[t] = posts[t] /\ t \notin made
      <3>1. PostAgrees(t) /\ undone' = undone
        BY DEF ManagerInv, MikrowispCrash
      <3>2. IsPaidBy(t)' => IsPaidBy(t)
        BY <1>3, <2>2 DEF IsPaidBy
      <3> QED
        BY <1>3, <2>2, <3>1, <3>2 DEF PostAgrees
    <2> QED
      BY <1>4, <2>1, <2>2
  <1> QED
    BY <1>5, <1>7, <1>8 DEF ManagerInv

LEMMA ManagerNextInv == ManagerInv /\ [ManagerNext]_managerVars => ManagerInv'
  <1> SUFFICES ASSUME ManagerInv, [ManagerNext]_managerVars PROVE ManagerInv'
    OBVIOUS
  <1>1. ASSUME NEW ts \in SUBSET Tasks, NEW reference \in References,
               StartPosts(ts, reference)
        PROVE  ManagerInv'
    BY <1>1, StartPostsInv
  <1>2. ASSUME NEW t \in Tasks, ManagerStep(t) PROVE ManagerInv'
    BY <1>2, ManagerStepInv DEF ManagerStep
  <1>3. ASSUME NEW invoice \in Invoices, UndoInvoice(invoice) PROVE ManagerInv'
    <2>1. paid' = {p \in paid : InvoiceOf[p.task] \notin {invoice}}
      BY <1>3 DEF UndoInvoice
    <2> QED
      BY <1>3, <2>1, UndoInv DEF UndoInvoice
  <1>4. ASSUME NEW is \in SUBSET Invoices, WisphubUndo(is) PROVE ManagerInv'
    BY <1>4, UndoInv DEF WisphubUndo
  <1>5. CASE MikrowispCrash
    BY <1>5, ManagerCrashInv
  <1>6. CASE UNCHANGED managerVars
    BY <1>6 DEF managerVars, mikrowispVars, ManagerInv, MikrowispTypeOK, OnePaymentPerTask,
                PostAgrees, IsPaidBy
  <1> QED
    BY <1>1, <1>2, <1>3, <1>4, <1>5, <1>6 DEF ManagerNext

(* What has come back stays: for modules that compose tasks.               *)
LEMMA AnswersStay ==
  ASSUME ManagerInv, [ManagerNext]_managerVars \/ MikrowispCrash,
         NEW t \in Tasks, posts[t].pc = "answered"
  PROVE  posts'[t].pc = "answered"
  <1> USE DEF ManagerInv, MikrowispTypeOK
  <1>1. ASSUME NEW u \in Tasks, PostStep(u) PROVE posts'[t] = posts[t]
    BY <1>1 DEF PostStep, PostAccepted, PostDuplicate, PostFails, RetryReturns, FetchReturns,
                FetchFails
  <1>2. ASSUME NEW u \in Tasks, WisphubPost(u) PROVE posts'[t] = posts[t]
    BY <1>2 DEF WisphubPost
  <1>3. ASSUME NEW ts, NEW reference, StartPosts(ts, reference) PROVE posts'[t] = posts[t]
    BY <1>3 DEF StartPosts
  <1>4. CASE MikrowispCrash
    BY <1>4 DEF MikrowispCrash, PostInFlight
  <1>5. CASE UNCHANGED managerVars
    BY <1>5 DEF managerVars, mikrowispVars
  <1>6. ASSUME NEW is, UndoInvoice(is) \/ WisphubUndo(is) PROVE posts' = posts
    BY <1>6 DEF UndoInvoice, WisphubUndo
  <1> QED
    BY <1>1, <1>2, <1>3, <1>4, <1>5, <1>6 DEF ManagerNext, ManagerStep

THEOREM ManagerInvariant == ManagerSpec => []ManagerInv
  BY ManagerInitInv, ManagerNextInv, PTL DEF ManagerSpec

(* Every reachable state of the managers and their tasks is well typed.    *)
THEOREM ManagerTypeCorrect == ManagerSpec => []MikrowispTypeOK
  <1>1. ManagerInv => MikrowispTypeOK
    BY DEF ManagerInv
  <1> QED
    BY <1>1, ManagerInvariant, PTL

(* payInvoice answers only for a payment the manager has registered under  *)
(* the number it was given, whatever was lost, retried or cut off, until a *)
(* deletion undoes the invoice.                                            *)
THEOREM AnswersArePaid == ManagerSpec => []AnsweredIsPaid
  <1>1. ManagerInv => AnsweredIsPaid
    BY DEF ManagerInv, PostAgrees, AnsweredIsPaid, Paying
  <1> QED
    BY <1>1, ManagerInvariant, PTL

(* The retry under the prefixed number never pays an invoice twice: one    *)
(* invocation of payInvoice registers one payment at most, be it by the    *)
(* exchange the process dies in.                                           *)
THEOREM PaysOnce == ManagerSpec => []OnePaymentPerTask
  <1>1. ManagerInv => OnePaymentPerTask
    BY DEF ManagerInv
  <1> QED
    BY <1>1, ManagerInvariant, PTL
=============================================================================
