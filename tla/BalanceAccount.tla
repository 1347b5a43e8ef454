---------------------------- MODULE BalanceAccount ----------------------------
(***************************************************************************)
(* What a client is promised about his balances, without the rows: one     *)
(* account per client, partial payments that fill it and calls that draw   *)
(* on it, each in one step.                                                *)
(*                                                                         *)
(* A call is refused only if at some moment of its own the account held    *)
(* less than it asks for, and it takes exactly what it asks for, once.     *)
(* There is one exception: a call that another payment of the client has   *)
(* overtaken since it looked leaves in the account what it happens to.     *)
(***************************************************************************)
EXTENDS Naturals

CONSTANTS
    Clients,        \* whose account it is
    Calls,          \* the calls that draw on one
    Amounts         \* what can be paid in or asked for

VARIABLES
    account,        \* what a client can spend
    request,        \* whose account a call draws on, and how much it asks for
    answer,         \* how far a call has come
    booked,         \* what the payments made by a call come to
    overtaken       \* the calls whose view of the account is outdated

accountVars == <<account, request, answer, booked, overtaken>>

Answers == {"none", "asked", "short", "paid", "refused", "failed"}
Open    == {"asked", "short"}

Request == [client : Clients, amount : Nat]

AccountTypeOK ==
    /\ account \in [Clients -> Nat]
    /\ request \in [Calls -> Request]
    /\ answer \in [Calls -> Answers]
    /\ booked \in [Calls -> Nat]
    /\ overtaken \subseteq Calls

(* What a request says before its call is made means nothing.              *)
AccountInit ==
    /\ account = [client \in Clients |-> 0]
    /\ request \in [Calls -> Request]
    /\ answer = [c \in Calls |-> "none"]
    /\ booked = [c \in Calls |-> 0]
    /\ overtaken = {}

Answer(c, from, to) == answer[c] = from /\ answer' = [answer EXCEPT ![c] = to]

AccountOf(c) == account[request[c].client]

(* A partial payment is kept for the client.                               *)
Deposit(client, amount) ==
    /\ account' = [account EXCEPT ![client] = @ + amount]
    /\ UNCHANGED <<request, answer, booked, overtaken>>

Ask(c, client, amount) ==
    /\ Answer(c, "none", "asked")
    /\ request' = [request EXCEPT ![c] = [client |-> client, amount |-> amount]]
    /\ UNCHANGED <<account, booked, overtaken>>

(* The call looks, and there is not enough: it can only be refused or fail.*)
FindShort(c) ==
    /\ Answer(c, "asked", "short")
    /\ AccountOf(c) < request[c].amount
    /\ UNCHANGED <<account, request, booked, overtaken>>

(* There is nothing at all, which refuses even a call for nothing.         *)
FindEmpty(c) ==
    /\ Answer(c, "asked", "refused")
    /\ AccountOf(c) = 0
    /\ UNCHANGED <<account, request, booked, overtaken>>

Refuse(c) ==
    /\ Answer(c, "short", "refused")
    /\ overtaken' = overtaken \ {c}
    /\ UNCHANGED <<account, request, booked>>

(* The payments of a call are booked at once, for what it asked for.  Open *)
(* calls of the client are overtaken, those that have looked.              *)
Book(c) ==
    /\ Answer(c, "asked", "paid")
    /\ booked' = [booked EXCEPT ![c] = request[c].amount]
    /\ c \notin overtaken'
    /\ overtaken' \subseteq overtaken \cup
          {o \in Calls : answer[o] \in Open /\ request[o].client = request[c].client}
    /\ UNCHANGED request

Withdraw(c) ==
    /\ c \notin overtaken
    /\ Book(c)
    /\ request[c].amount <= AccountOf(c)
    /\ account' = [account EXCEPT ![request[c].client] = @ - request[c].amount]

Overwrite(c) ==
    /\ c \in overtaken
    /\ Book(c)
    /\ \A client \in Clients \ {request[c].client} : account'[client] = account[client]
    /\ account' \in [Clients -> Nat]

(* Open calls fail, one alone or all at once when the process dies.        *)
Fail(cut) ==
    /\ \A c \in cut : answer[c] \in Open
    /\ answer' = [c \in Calls |-> IF c \in cut THEN "failed" ELSE answer[c]]
    /\ overtaken' = overtaken \ cut
    /\ UNCHANGED <<account, request, booked>>

AccountNext ==
    \/ \E client \in Clients, amount \in Amounts : Deposit(client, amount)
    \/ \E c \in Calls, client \in Clients, amount \in Amounts : Ask(c, client, amount)
    \/ \E c \in Calls :
          FindShort(c) \/ FindEmpty(c) \/ Refuse(c) \/ Withdraw(c) \/ Overwrite(c)
    \/ \E cut \in SUBSET Calls : Fail(cut)

AccountSpec == AccountInit /\ [][AccountNext]_accountVars

=============================================================================
