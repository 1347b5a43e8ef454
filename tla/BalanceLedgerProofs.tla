------------------------- MODULE BalanceLedgerProofs -------------------------
(***************************************************************************)
(* What BalanceLedger guarantees for every set of clients, transactions,   *)
(* calls and amounts: its types, the bounds and the status of a balance,   *)
(* conservation of money away from lost updates, that a balance is only    *)
(* ever drawn down, what the rows of a call add up to, and that it all     *)
(* comes to one account per client (BalanceAccount).                       *)
(***************************************************************************)
EXTENDS BalanceLedger, SequenceTheorems, FiniteSetTheorems, WellFoundedInduction, TLAPS

(***************************************************************************)
(* The call of an open transaction agrees with the tables: its snapshot is *)
(* no larger than the table, holds possible amounts, and it never draws    *)
(* more from a balance than the snapshot shows.                            *)
(***************************************************************************)
CallAgrees(c) ==
    /\ calls[c].pc # "applying" => calls[c].used = {}
    /\ calls[c].pc = "applying" =>
        /\ Len(calls[c].seen) <= Len(balances)
        /\ Len(calls[c].take) = Len(calls[c].seen)
        /\ calls[c].plan \subseteq 1 .. Len(calls[c].seen)
        /\ calls[c].used \subseteq 1 .. Len(calls[c].seen)
        /\ \A b \in 1 .. Len(calls[c].seen) :
              /\ calls[c].seen[b] <= balances[b].initial
              /\ calls[c].take[b] <= calls[c].seen[b]

(* The inductive invariant.                                                *)
LedgerInv ==
    /\ TypeOK
    /\ Len(spent) = Len(balances)
    /\ StatusTellsAmount
    /\ Conserved
    /\ \A c \in Calls : CallAgrees(c)

(* A step leaves the call c as it was, or with no transaction open.        *)
NothingPending(c) ==
    calls'[c] = calls[c] \/ (calls'[c].pc # "applying" /\ calls'[c].used = {})

LEMMA LesserBounds ==
  ASSUME NEW a \in Nat, NEW b \in Nat
  PROVE  Lesser(a, b) \in Nat /\ Lesser(a, b) <= a /\ Lesser(a, b) <= b
  BY DEF Lesser

LEMMA FinishedCall ==
  ASSUME NEW call \in Call, NEW pc \in {Idle} \cup InFlight \cup Ended
  PROVE  /\ Finished(call, pc) \in Call
         /\ Finished(call, pc).pc = pc
         /\ Finished(call, pc).used = {}
         /\ Finished(call, pc).client = call.client
  <1>1. << >> \in Seq(Nat)
    BY EmptySeq
  <1> QED
    BY <1>1 DEF Finished, Call

(* A call that ends without a commit changes no table and leaves nothing   *)
(* behind that the invariant speaks of.                                    *)
LEMMA EndsWithoutCommit ==
  ASSUME LedgerInv, UNCHANGED <<tables, history>>,
         calls' \in [Calls -> Call],
         \A c \in Calls : NothingPending(c)
  PROVE  LedgerInv'
  <1>1. TypeOK' /\ (Len(spent) = Len(balances))' /\ StatusTellsAmount' /\ Conserved'
    BY DEF LedgerInv, TypeOK, StatusTellsAmount, Conserved, BalanceIds, tables, history
  <1>2. \A c \in Calls : CallAgrees(c)'
    BY DEF LedgerInv, CallAgrees, NothingPending, tables, history
  <1> QED
    BY <1>1, <1>2 DEF LedgerInv

LEMMA InitInv == Init => LedgerInv
  <1> SUFFICES ASSUME Init PROVE LedgerInv
    OBVIOUS
  <1>1. << >> \in Seq(Nat) /\ << >> \in Seq(Balance) /\ Len(<< >>) = 0
    BY EmptySeq
  <1>2. ASSUME NEW c \in Calls PROVE InitialCall(c) \in Call
    BY <1>1, LedgerAssumption DEF InitialCall, Call, Idle
  <1>3. TypeOK
    BY <1>1, <1>2 DEF Init, TypeOK
  <1>4. \A c \in Calls : CallAgrees(c)
    BY DEF Init, InitialCall, CallAgrees, Idle
  <1> QED
    BY <1>1, <1>3, <1>4 DEF Init, LedgerInv, StatusTellsAmount, Conserved, BalanceIds

LEMMA RegisterInv ==
  ASSUME LedgerInv, NEW client \in Clients, NEW txn \in Txns,
         NEW received \in Amounts, NEW expected \in Amounts,
         RegisterBalance(client, txn, received, expected)
  PROVE  LedgerInv'
  <1> DEFINE row == [client |-> client, txn |-> txn, initial |-> received,
                     current |-> received, status |-> "AVAILABLE"]
             n == Len(balances)
  <1>1. row \in Balance /\ received \in Nat
    BY LedgerAssumption DEF Balance, Statuses
  <1>2. n \in Nat /\ balances \in Seq(Balance) /\ spent \in Seq(Nat) /\ Len(spent) = n
    BY DEF LedgerInv, TypeOK
  <1>3. /\ balances' \in Seq(Balance)
        /\ Len(balances') = n + 1
        /\ \A b \in 1 .. n : balances'[b] = balances[b]
        /\ balances'[n + 1] = row
    BY <1>1, <1>2, AppendProperties DEF RegisterBalance
  <1>4. /\ spent' \in Seq(Nat)
        /\ Len(spent') = n + 1
        /\ \A b \in 1 .. n : spent'[b] = spent[b]
        /\ spent'[n + 1] = 0
    BY <1>2, AppendProperties DEF RegisterBalance
  <1>5. DOMAIN balances = 1 .. n /\ DOMAIN balances' = 1 .. n + 1
    BY <1>2, <1>3
  <1>6. \A b \in 1 .. n + 1 : b \in 1 .. n \/ b = n + 1
    BY <1>2
  <1>7. TypeOK'
    BY <1>3, <1>4 DEF LedgerInv, TypeOK, RegisterBalance
  <1>8. StatusTellsAmount'
    BY <1>1, <1>3, <1>5, <1>6 DEF LedgerInv, StatusTellsAmount, BalanceIds
  <1>9. Conserved'
    BY <1>1, <1>3, <1>4, <1>5, <1>6 DEF LedgerInv, Conserved, BalanceIds, RegisterBalance
  <1>10. ASSUME NEW c \in Calls PROVE CallAgrees(c)'
    <2>1. calls[c] \in Call
      BY DEF LedgerInv, TypeOK
    <2>2. CASE calls[c].pc = "applying"
      <3>1. calls[c].seen \in Seq(Nat) /\ Len(calls[c].seen) \in Nat /\ Len(calls[c].seen) <= n
        BY <2>1, <2>2 DEF Call, LedgerInv, CallAgrees
      <3>2. \A b \in 1 .. Len(calls[c].seen) : b \in 1 .. n
        BY <1>2, <3>1
      <3> QED
        BY <1>2, <1>3, <2>2, <3>1, <3>2 DEF LedgerInv, CallAgrees, RegisterBalance
    <2>3. CASE calls[c].pc # "applying"
      BY <2>3 DEF LedgerInv, RegisterBalance, CallAgrees
    <2> QED
      BY <2>2, <2>3
  <1> QED
    BY <1>3, <1>4, <1>7, <1>8, <1>9, <1>10 DEF LedgerInv

LEMMA StartInv ==
  ASSUME LedgerInv, NEW c \in Calls, NEW client \in Clients, NEW amount \in Amounts,
         StartApply(c, client, amount)
  PROVE  LedgerInv'
  <1>1. calls \in [Calls -> Call] /\ amount \in Nat
    BY LedgerAssumption DEF LedgerInv, TypeOK
  <1> DEFINE call == [calls[c] EXCEPT !.pc = "reading", !.client = client,
                                      !.amount = amount, !.left = amount]
  <1>a. calls' = [calls EXCEPT ![c] = call]
    BY <1>1 DEF StartApply, Call
  <1>2. calls' \in [Calls -> Call]
    BY <1>1, <1>a DEF Call, InFlight
  <1>3. \A d \in Calls : NothingPending(d)
    BY <1>1 DEF LedgerInv, CallAgrees, NothingPending, StartApply, Call, Idle
  <1> QED
    BY <1>2, <1>3, EndsWithoutCommit DEF StartApply

(* A step that only ends the call c.                                       *)
LEMMA FinishInv ==
  ASSUME LedgerInv, NEW c \in Calls, NEW pc \in Ended,
         calls' = [calls EXCEPT ![c] = Finished(@, pc)],
         UNCHANGED <<tables, history>>
  PROVE  LedgerInv'
  <1>1. calls \in [Calls -> Call]
    BY DEF LedgerInv, TypeOK
  <1>2. pc # "applying"
    BY DEF Ended
  <1>3. calls' \in [Calls -> Call]
    BY <1>1, FinishedCall
  <1>4. \A d \in Calls : NothingPending(d)
    BY <1>1, <1>2, FinishedCall DEF NothingPending
  <1> QED
    BY <1>3, <1>4, EndsWithoutCommit

LEMMA ReadInv ==
  ASSUME LedgerInv, NEW c \in Calls, ReadBalances(c)
  PROVE  LedgerInv'
  <1> DEFINE active == ActiveBalances(calls[c].client)
             n == Len(balances)
             seen == [b \in BalanceIds |-> balances[b].current]
             take == [b \in BalanceIds |-> 0]
  <1>1. CASE active = {}
    <2>1. calls' = [calls EXCEPT ![c] = Finished(@, "noBalance")]
      BY <1>1 DEF ReadBalances
    <2> QED
      BY <2>1, FinishInv DEF Ended, ReadBalances
  <1>2. CASE active # {}
    <2>1. /\ calls \in [Calls -> Call]
          /\ balances \in Seq(Balance)
          /\ n \in Nat
          /\ BalanceIds = 1 .. n
      BY DEF LedgerInv, TypeOK, BalanceIds
    <2>2. \A b \in 1 .. n : balances[b] \in Balance
      BY <2>1, ElementOfSeq
    <2>3. seen \in [1 .. n -> Nat] /\ take \in [1 .. n -> Nat]
      BY <2>1, <2>2 DEF Balance
    <2>4. /\ seen \in Seq(Nat) /\ Len(seen) = n
          /\ take \in Seq(Nat) /\ Len(take) = n
      BY <2>1, <2>3
    <2>5. active \subseteq 1 .. n /\ active \in SUBSET Nat
      BY <2>1 DEF ActiveBalances
    <2>6. calls' = [calls EXCEPT ![c] = [@ EXCEPT !.pc = "applying", !.plan = active,
                                                  !.seen = seen, !.take = take]]
      BY <1>2 DEF ReadBalances
    <2>7. calls' \in [Calls -> Call]
      <3> HIDE DEF active, seen, take
      <3>1. [calls[c] EXCEPT !.pc = "applying", !.plan = active, !.seen = seen, !.take = take]
               \in Call
        BY <2>1, <2>4, <2>5 DEF Call, InFlight
      <3> QED
        BY <2>1, <2>6, <3>1
    <2>8. TypeOK' /\ (Len(spent) = Len(balances))' /\ StatusTellsAmount' /\ Conserved'
      BY <2>7 DEF LedgerInv, TypeOK, StatusTellsAmount, Conserved, BalanceIds,
                  ReadBalances, tables, history
    <2>9. ASSUME NEW d \in Calls PROVE CallAgrees(d)'
      <3>1. CASE d # c
        BY <2>1, <2>6, <3>1 DEF LedgerInv, CallAgrees, ReadBalances, tables
      <3>2. CASE d = c
        \* a call that has not read yet has used no balance
        <4>1. calls[c].used = {} /\ balances' = balances
          BY DEF LedgerInv, CallAgrees, ReadBalances, tables
        <4>2. \A b \in 1 .. n : seen[b] <= balances[b].initial /\ take[b] <= seen[b]
          BY <2>1, <2>2, <2>3 DEF LedgerInv, StatusTellsAmount, Balance
        <4> HIDE DEF active, seen, take
        <4>3. /\ calls'[c].seen = seen /\ calls'[c].take = take /\ calls'[c].plan = active
              /\ calls'[c].used = {} /\ calls'[c].pc = "applying"
          BY <2>1, <2>6, <4>1 DEF Call
        <4> QED
          BY <2>1, <2>4, <2>5, <3>2, <4>1, <4>2, <4>3 DEF CallAgrees
      <3> QED
        BY <3>1, <3>2
    <2> QED
      BY <2>8, <2>9 DEF LedgerInv
  <1> QED
    BY <1>1, <1>2

LEMMA UseInv ==
  ASSUME LedgerInv, NEW c \in Calls, NEW b \in BalanceIds, UseBalance(c, b)
  PROVE  LedgerInv'
  <1> DEFINE call == calls[c]
             draw == Lesser(call.seen[b], call.left)
             take == [call.take EXCEPT ![b] = draw]
  <1>1. calls \in [Calls -> Call] /\ call \in Call
    BY DEF LedgerInv, TypeOK
  <1>2. /\ call.seen \in Seq(Nat) /\ call.take \in Seq(Nat) /\ call.left \in Nat
        /\ call.plan \subseteq Nat /\ call.used \subseteq Nat
    BY <1>1 DEF Call
  <1>3. /\ call.pc = "applying"
        /\ b \in call.plan /\ b \in 1 .. Len(call.seen)
        /\ Len(call.take) = Len(call.seen)
    BY DEF UseBalance, Oldest, LedgerInv, CallAgrees
  <1>4. call.seen[b] \in Nat /\ draw \in Nat /\ draw <= call.seen[b] /\ draw <= call.left
    BY <1>2, <1>3, ElementOfSeq, LesserBounds
  <1>5. /\ take \in Seq(Nat)
        /\ Len(take) = Len(call.take)
        /\ \A d \in 1 .. Len(call.take) : take[d] = IF d = b THEN draw ELSE call.take[d]
    BY <1>2, <1>3, <1>4, ExceptSeq
  <1>6. call.left - draw \in Nat
    BY <1>2, <1>4
  <1>7. calls' = [calls EXCEPT ![c] = [call EXCEPT !.plan = call.plan \ {b},
                                                   !.used = call.used \cup {b},
                                                   !.take = take,
                                                   !.left = call.left - draw]]
    BY <1>1 DEF UseBalance, Call
  <1>8. calls' \in [Calls -> Call]
    BY <1>1, <1>2, <1>3, <1>5, <1>6, <1>7 DEF Call
  <1>9. TypeOK' /\ (Len(spent) = Len(balances))' /\ StatusTellsAmount' /\ Conserved'
    BY <1>8 DEF LedgerInv, TypeOK, StatusTellsAmount, Conserved, BalanceIds,
                UseBalance, tables, history
  <1>10. ASSUME NEW d \in Calls PROVE CallAgrees(d)'
    <2>1. CASE d # c
      BY <1>1, <1>7, <2>1 DEF LedgerInv, CallAgrees, UseBalance, tables
    <2>2. CASE d = c
      <3>1. /\ calls'[c].pc = "applying"
            /\ calls'[c].plan = call.plan \ {b} /\ calls'[c].used = call.used \cup {b}
            /\ calls'[c].seen = call.seen /\ calls'[c].take = take
        BY <1>1, <1>3, <1>7 DEF Call
      <3>2. CallAgrees(c)
        BY DEF LedgerInv
      <3>3. \A d2 \in 1 .. Len(call.seen) : take[d2] <= call.seen[d2]
        BY <1>3, <1>4, <1>5, <3>2 DEF CallAgrees
      <3> QED
        BY <1>2, <1>3, <1>5, <2>2, <3>1, <3>2, <3>3 DEF CallAgrees, UseBalance, tables
    <2> QED
      BY <2>1, <2>2
  <1> QED
    BY <1>9, <1>10 DEF LedgerInv

LEMMA CommitInv ==
  ASSUME LedgerInv, NEW c \in Calls, CommitApply(c)
  PROVE  LedgerInv'
  <1> DEFINE call == calls[c]
             n == Len(balances)
  <1>1. /\ calls \in [Calls -> Call] /\ call \in Call
        /\ balances \in Seq(Balance) /\ n \in Nat /\ BalanceIds = 1 .. n
        /\ spent \in Seq(Nat) /\ DOMAIN spent = 1 .. n
    BY DEF LedgerInv, TypeOK, BalanceIds
  <1>2. /\ \A b \in 1 .. n : balances[b] \in Balance /\ spent[b] \in Nat
        /\ call.seen \in Seq(Nat) /\ call.take \in Seq(Nat)
    BY <1>1, ElementOfSeq DEF Call
  \* what the call has used: drawn within the snapshot, which is within the receipt
  <1>3. ASSUME NEW b \in call.used
        PROVE  /\ b \in 1 .. n
               /\ call.take[b] \in Nat /\ call.seen[b] \in Nat
               /\ Remaining(call, b) \in Nat
               /\ Remaining(call, b) + call.take[b] = call.seen[b]
               /\ Remaining(call, b) <= balances[b].initial
    <2>0. call.pc = "applying" /\ CallAgrees(c)
      BY DEF CommitApply, LedgerInv
    <2>1. b \in 1 .. Len(call.seen) /\ Len(call.take) = Len(call.seen) /\ Len(call.seen) <= n
      BY <2>0 DEF CallAgrees
    <2>2. call.seen[b] \in Nat /\ call.take[b] \in Nat /\ b \in 1 .. n
      <3> HIDE DEF call
      <3>1. b \in 1 .. n
        BY <1>1, <2>1
      <3> QED
        BY <1>2, <2>1, <3>1, ElementOfSeq
    <2>3. call.take[b] <= call.seen[b] /\ call.seen[b] <= balances[b].initial
      BY <2>0, <2>1 DEF CallAgrees
    <2>4. balances[b].initial \in Nat
      BY <1>2, <2>2 DEF Balance
    <2> QED
      BY <2>2, <2>3, <2>4 DEF Remaining
  <1>4. ASSUME NEW b \in call.used
        PROVE  /\ Written(c)[b] \in Balance
               /\ Written(c)[b].current = Remaining(call, b)
               /\ Written(c)[b].status = StatusAfter(Remaining(call, b))
               /\ Written(c)[b].initial = balances[b].initial
    BY <1>1, <1>2, <1>3 DEF Written, Balance, StatusAfter, Statuses
  <1>5. ASSUME NEW b \in (1 .. n) \ call.used PROVE Written(c)[b] = balances[b]
    BY <1>1 DEF Written
  <1>6. /\ balances' = Written(c) /\ balances' \in [1 .. n -> Balance]
        /\ balances' \in Seq(Balance) /\ Len(balances') = n /\ DOMAIN balances' = 1 .. n
    <2>1. balances' = Written(c) /\ DOMAIN Written(c) = 1 .. n
      BY <1>1 DEF CommitApply, Written
    <2>2. \A b \in 1 .. n : Written(c)[b] \in Balance
      BY <1>2, <1>4, <1>5
    <2>3. Written(c) \in [1 .. n -> Balance]
      BY <2>1, <2>2 DEF Written
    <2>4. Written(c) \in Seq(Balance) /\ Len(Written(c)) = n
      BY <1>1, <2>1, <2>3
    <2> QED
      BY <2>1, <2>3, <2>4
  <1>7. /\ \A b \in 1 .. n : spent'[b] = IF b \in call.used THEN spent[b] + call.take[b]
                                                          ELSE spent[b]
        /\ spent' \in Seq(Nat) /\ Len(spent') = n
    <2>1. spent' \in [1 .. n -> Nat]
      BY <1>1, <1>2, <1>3 DEF CommitApply
    <2> QED
      BY <1>1, <2>1 DEF CommitApply
  <1>8. payments' \in SUBSET Payment /\ movements' \in SUBSET Movement
    <2>1. ASSUME NEW b \in call.used
          PROVE  [call |-> c, balance |-> b, txn |-> balances[b].txn,
                  amount |-> calls[c].take[b]] \in Payment
      <3>1. b \in Nat /\ balances[b].txn \in Txns /\ calls[c].take[b] \in Nat
        BY <1>1, <1>2, <1>3 DEF Balance
      <3> QED
        BY <3>1 DEF Payment
    <2>3. PaymentsOf(c) \subseteq Payment
      BY <2>1 DEF PaymentsOf
    <2>2. MovementsOf(c) \subseteq Movement
      BY <1>1, <1>3 DEF MovementsOf, Movement
    <2> QED
      BY <2>3, <2>2 DEF CommitApply, LedgerInv, TypeOK
  <1>9. calls' \in [Calls -> Call] /\ stale' \in SUBSET Nat
    <2>1. calls' \in [Calls -> Call]
      BY <1>1, FinishedCall DEF CommitApply, Ended
    <2>2. call.used \in SUBSET Nat
      BY <1>1 DEF Call
    <2> QED
      BY <2>1, <2>2 DEF CommitApply, LedgerInv, TypeOK
  <1>10. TypeOK'
    BY <1>6, <1>7, <1>8, <1>9 DEF TypeOK
  <1>11. StatusTellsAmount'
    <2> SUFFICES ASSUME NEW b \in 1 .. n
                 PROVE  /\ balances'[b].current <= balances'[b].initial
                        /\ balances'[b].status = "AVAILABLE" => balances'[b].current = balances'[b].initial
                        /\ balances'[b].status = "PARTIALLY_USED" => balances'[b].current > 0
                        /\ balances'[b].status = "DEPLETED" => balances'[b].current = 0
      BY <1>6 DEF StatusTellsAmount, BalanceIds
    <2>1. CASE b \in call.used
      BY <1>3, <1>4, <1>6, <2>1 DEF StatusAfter
    <2>2. CASE b \notin call.used
      BY <1>1, <1>5, <1>6, <2>2 DEF LedgerInv, StatusTellsAmount
    <2> QED
      BY <2>1, <2>2
  <1>12. Conserved'
    <2> SUFFICES ASSUME NEW b \in (1 .. n) \ stale'
                 PROVE  balances'[b].current + spent'[b] = balances'[b].initial
      BY <1>6 DEF Conserved, BalanceIds
    <2>1. b \in BalanceIds \ stale
      BY <1>1 DEF CommitApply
    <2>2. balances[b].current + spent[b] = balances[b].initial
      BY <2>1 DEF LedgerInv, Conserved
    <2>3. CASE b \in call.used
      <3>1. balances[b].current = call.seen[b]
        BY <2>3 DEF CommitApply
      <3>2. balances'[b].current = Remaining(call, b) /\ balances'[b].initial = balances[b].initial
        BY <1>4, <1>6, <2>3
      <3>3. spent'[b] = spent[b] + call.take[b] /\ spent[b] \in Nat
        BY <1>2, <1>7, <2>3
      <3> QED
        BY <1>3, <2>2, <2>3, <3>1, <3>2, <3>3
    <2>4. CASE b \notin call.used
      BY <1>5, <1>6, <1>7, <2>2, <2>4
    <2> QED
      BY <2>3, <2>4
  <1>13. ASSUME NEW d \in Calls PROVE CallAgrees(d)'
    <2>1. CASE d = c
      <3>1. Finished(call, "applied").used = {} /\ Finished(call, "applied").pc # "applying"
        BY <1>1, FinishedCall DEF Ended
      <3> QED
        BY <1>1, <2>1, <3>1 DEF CommitApply, CallAgrees
    <2>2. CASE d # c
      <3>1. calls'[d] = calls[d] /\ CallAgrees(d)
        BY <1>1, <2>2 DEF CommitApply, LedgerInv
      <3>2. \A b \in 1 .. n : balances'[b].initial = balances[b].initial
        BY <1>4, <1>5, <1>6
      <3>3. calls[d] \in Call
        BY <1>1
      <3>4. calls[d].pc = "applying" => 1 .. Len(calls[d].seen) \subseteq 1 .. n
        BY <1>1, <3>1, <3>3 DEF CallAgrees, Call
      <3> QED
        BY <1>6, <3>1, <3>2, <3>4 DEF CallAgrees
    <2> QED
      BY <2>1, <2>2
  <1> QED
    BY <1>1, <1>6, <1>7, <1>10, <1>11, <1>12, <1>13 DEF LedgerInv

(* Every crash and every step of every call preserves the invariant.       *)
LEMMA StepInv == LedgerInv /\ [Next]_vars => LedgerInv'
  <1> SUFFICES ASSUME LedgerInv, [Next]_vars PROVE LedgerInv'
    OBVIOUS
  <1>1. ASSUME NEW client \in Clients, NEW txn \in Txns,
               NEW received \in Amounts, NEW expected \in Amounts,
               RegisterBalance(client, txn, received, expected)
        PROVE  LedgerInv'
    BY <1>1, RegisterInv
  <1>2. ASSUME NEW c \in Calls, NEW client \in Clients, NEW amount \in Amounts,
               StartApply(c, client, amount)
        PROVE  LedgerInv'
    BY <1>2, StartInv
  <1>3. ASSUME NEW c \in Calls, ApplyStep(c) PROVE LedgerInv'
    <2>1. CASE ReadBalances(c)
      BY <2>1, ReadInv
    <2>2. ASSUME NEW b \in BalanceIds, UseBalance(c, b) PROVE LedgerInv'
      BY <2>2, UseInv
    <2>3. CASE CommitApply(c)
      BY <2>3, CommitInv
    <2>4. CASE RefuseApply(c)
      BY <2>4, FinishInv DEF RefuseApply, Ended
    <2> QED
      BY <1>3, <2>1, <2>2, <2>3, <2>4 DEF ApplyStep
  <1>4. ASSUME NEW c \in Calls, FailApply(c) PROVE LedgerInv'
    BY <1>4, FinishInv DEF FailApply, Ended
  <1>5. CASE Crash
    <2>1. calls \in [Calls -> Call]
      BY DEF LedgerInv, TypeOK
    <2>2. ASSUME NEW c \in Calls PROVE calls'[c] \in Call /\ NothingPending(c)
      <3>1. Finished(calls[c], "crashed") \in Call
            /\ Finished(calls[c], "crashed").pc = "crashed"
            /\ Finished(calls[c], "crashed").used = {}
        BY <2>1, FinishedCall DEF Ended
      <3> QED
        BY <1>5, <2>1, <3>1 DEF Crash, NothingPending
    <2>3. calls' \in [Calls -> Call]
      BY <1>5, <2>2 DEF Crash
    <2> QED
      BY <1>5, <2>2, <2>3, EndsWithoutCommit DEF Crash
  <1>6. CASE UNCHANGED vars
    <2>1. calls' \in [Calls -> Call] /\ \A c \in Calls : NothingPending(c)
      BY <1>6 DEF LedgerInv, TypeOK, NothingPending, vars
    <2> QED
      BY <1>6, <2>1, EndsWithoutCommit DEF vars, tables, history
  <1> QED
    BY <1>1, <1>2, <1>3, <1>4, <1>5, <1>6 DEF Next

-----------------------------------------------------------------------------

THEOREM LedgerInvariant == Spec => []LedgerInv
  BY InitInv, StepInv, PTL DEF Spec

(* Every state of the ledger is well typed.                                *)
THEOREM TypeCorrect == Spec => []TypeOK
  <1>1. LedgerInv => TypeOK
    BY DEF LedgerInv
  <1> QED
    BY <1>1, LedgerInvariant, PTL

(* A balance stays between zero and what was received for it, and its      *)
(* status tells the amount, whatever concurrent calls of                   *)
(* applyBalanceToPayment, failures and crashes do.                         *)
THEOREM StatusCorrect == Spec => []StatusTellsAmount
  <1>1. LedgerInv => StatusTellsAmount
    BY DEF LedgerInv
  <1> QED
    BY <1>1, LedgerInvariant, PTL

(* Money is conserved on every balance that applyBalanceToPayment has not  *)
(* overwritten from an outdated snapshot.                                  *)
THEOREM ConservedWithoutLostUpdate == Spec => []Conserved
  <1>1. LedgerInv => Conserved
    BY DEF LedgerInv
  <1> QED
    BY <1>1, LedgerInvariant, PTL

LEMMA IdsOfBalances ==
  ASSUME LedgerInv, NEW b \in BalanceIds
  PROVE  /\ balances \in Seq(Balance) /\ Len(balances) \in Nat
         /\ b \in 1 .. Len(balances) /\ balances[b] \in Balance
  <1>1. balances \in Seq(Balance)
    BY DEF LedgerInv, TypeOK
  <1>2. Len(balances) \in Nat /\ b \in 1 .. Len(balances)
    BY <1>1 DEF BalanceIds
  <1> QED
    BY <1>1, <1>2, ElementOfSeq

(* Only a commit rewrites a balance, and without a lost update it writes   *)
(* what the balance held minus what the call drew from it.                 *)
LEMMA CommitDrawsDown ==
  ASSUME LedgerInv, NEW c \in Calls, CommitApply(c), NEW b \in BalanceIds,
         balances'[b].current > balances[b].current
  PROVE  b \in stale'
  <1> DEFINE call == calls[c]
  <1>1. /\ balances[b] \in Balance /\ balances[b].current \in Nat
        /\ call.seen \in Seq(Nat) /\ call.take \in Seq(Nat)
    BY IdsOfBalances DEF LedgerInv, TypeOK, Call, Balance
  <1>2. b \in call.used
    <2>1. b \notin call.used => balances'[b] = balances[b]
      BY DEF CommitApply, Written
    <2> QED
      BY <1>1, <2>1
  <1>3. b \in 1 .. Len(call.seen) /\ Len(call.take) = Len(call.seen)
    BY <1>2 DEF LedgerInv, CallAgrees, CommitApply
  <1>4. call.seen[b] \in Nat /\ call.take[b] \in Nat
    BY <1>1, <1>3, ElementOfSeq
  <1>5. balances'[b].current = call.seen[b] - call.take[b]
    BY <1>1, <1>2 DEF CommitApply, Written, Remaining, Balance
  <1>6. balances[b].current # call.seen[b]
    BY <1>1, <1>4, <1>5 DEF Balance
  <1> QED
    BY <1>2, <1>6 DEF CommitApply

(* A balance is only drawn down, and what is DEPLETED stays so: a step     *)
(* that raises it is a commit that loses another call's update.            *)
THEOREM BalancesOnlyDrawnDown == Spec => OnlyDrawnDown
  <1> DEFINE DrawnDown == \A b \in BalanceIds :
                balances'[b].current > balances[b].current => b \in stale'
  <1>1. ASSUME LedgerInv, Next PROVE DrawnDown
    <2> SUFFICES ASSUME NEW b \in BalanceIds,
                        balances'[b].current > balances[b].current
                 PROVE  b \in stale'
      OBVIOUS
    <2>1. /\ balances \in Seq(Balance) /\ Len(balances) \in Nat
          /\ b \in 1 .. Len(balances) /\ balances[b] \in Balance
      BY <1>1, IdsOfBalances
    <2>2. balances[b].current \in Nat
      BY <2>1 DEF Balance
    <2>3. CASE balances' = balances
      BY <2>2, <2>3
    <2>4. ASSUME NEW client \in Clients, NEW txn \in Txns,
                 NEW received \in Amounts, NEW expected \in Amounts,
                 RegisterBalance(client, txn, received, expected)
          PROVE  FALSE
      <3>1. [client |-> client, txn |-> txn, initial |-> received,
             current |-> received, status |-> "AVAILABLE"] \in Balance
        BY LedgerAssumption DEF Balance, Statuses
      <3>2. balances'[b] = balances[b]
        BY <2>1, <2>4, <3>1, AppendProperties DEF RegisterBalance
      <3> QED
        BY <2>2, <3>2
    <2>5. ASSUME NEW c \in Calls, CommitApply(c) PROVE b \in stale'
      BY <1>1, <2>5, CommitDrawsDown
    <2>6. ASSUME NEW c \in Calls, ApplyStep(c) PROVE b \in stale'
      <3>1. CASE CommitApply(c)
        BY <2>5, <3>1
      <3>2. CASE ReadBalances(c) \/ RefuseApply(c)
        BY <2>3, <3>2 DEF ReadBalances, RefuseApply, tables
      <3>3. ASSUME NEW d \in BalanceIds, UseBalance(c, d) PROVE balances' = balances
        BY <3>3 DEF UseBalance, tables
      <3> QED
        BY <2>3, <2>6, <3>1, <3>2, <3>3 DEF ApplyStep
    <2>7. ASSUME NEW c \in Calls, FailApply(c) PROVE b \in stale'
      BY <2>3, <2>7 DEF FailApply, tables
    <2>8. ASSUME NEW c \in Calls, NEW client \in Clients, NEW amount \in Amounts,
                 StartApply(c, client, amount)
          PROVE  b \in stale'
      BY <2>3, <2>8 DEF StartApply, tables
    <2>9. CASE Crash
      BY <2>3, <2>9 DEF Crash, tables
    <2> QED
      BY <1>1, <2>4, <2>6, <2>7, <2>8, <2>9 DEF Next
  <1>2. LedgerInv /\ [Next]_vars => [DrawnDown]_vars
    BY <1>1
  <1> QED
    BY <1>2, LedgerInvariant, PTL DEF Spec, OnlyDrawnDown

-----------------------------------------------------------------------------
(***************************************************************************)
(* The rows of invoice_payments and balance_movement.                      *)
(***************************************************************************)

(* A call only ever visits balances of its own client.                     *)
VisitsOwn(c) ==
    calls[c].pc = "applying" =>
        \A b \in calls[c].plan \cup calls[c].used : balances[b].client = calls[c].client

(* Rows exist only for calls that have committed; no later step changes    *)
(* the client such a call was made for.                                    *)
RowsInv ==
    /\ \A c \in Calls : VisitsOwn(c)
    /\ \A p \in payments : calls[p.call].pc = "applied"
    /\ RowsPaired

(* Between two states a balance row keeps its client, its transaction and  *)
(* the amount received for it.                                             *)
SameOwners ==
    \A b \in BalanceIds :
        /\ b \in BalanceIds'
        /\ balances'[b].client = balances[b].client
        /\ balances'[b].txn = balances[b].txn
        /\ balances'[b].initial = balances[b].initial

LEMMA OwnersKept ==
  ASSUME LedgerInv, [Next]_vars
  PROVE  SameOwners
  <1>1. CASE balances' = balances
    BY <1>1 DEF SameOwners, BalanceIds
  <1>2. ASSUME NEW client \in Clients, NEW txn \in Txns,
               NEW received \in Amounts, NEW expected \in Amounts,
               RegisterBalance(client, txn, received, expected)
        PROVE  SameOwners
    <2> DEFINE row == [client |-> client, txn |-> txn, initial |-> received,
                       current |-> received, status |-> "AVAILABLE"]
    <2>1. row \in Balance
      BY LedgerAssumption DEF Balance, Statuses
    <2>2. balances \in Seq(Balance) /\ Len(balances) \in Nat /\ BalanceIds = 1 .. Len(balances)
      BY DEF LedgerInv, TypeOK, BalanceIds
    <2>3. /\ balances' \in Seq(Balance) /\ Len(balances') = Len(balances) + 1
          /\ \A b \in 1 .. Len(balances) : balances'[b] = balances[b]
      BY <1>2, <2>1, <2>2, AppendProperties DEF RegisterBalance
    <2> QED
      BY <2>2, <2>3 DEF SameOwners, BalanceIds
  <1>3. ASSUME NEW c \in Calls, CommitApply(c) PROVE SameOwners
    <2>1. DOMAIN balances' = BalanceIds
      BY <1>3 DEF CommitApply, Written
    <2>2. ASSUME NEW b \in BalanceIds
          PROVE  /\ balances'[b].client = balances[b].client
                 /\ balances'[b].txn = balances[b].txn
                 /\ balances'[b].initial = balances[b].initial
      <3>1. balances[b] \in Balance
        BY IdsOfBalances
      <3> QED
        BY <1>3, <3>1 DEF CommitApply, Written, Balance
    <2> QED
      BY <2>1, <2>2 DEF SameOwners, BalanceIds
  <1>4. ASSUME NEW c \in Calls, ApplyStep(c) PROVE SameOwners
    <2>1. CASE CommitApply(c)
      BY <1>3, <2>1
    <2>2. CASE ReadBalances(c) \/ RefuseApply(c)
      BY <1>1, <2>2 DEF ReadBalances, RefuseApply, tables
    <2>3. ASSUME NEW d \in BalanceIds, UseBalance(c, d) PROVE balances' = balances
      BY <2>3 DEF UseBalance, tables
    <2> QED
      BY <1>1, <1>4, <2>1, <2>2, <2>3 DEF ApplyStep
  <1>5. ASSUME NEW c \in Calls, FailApply(c) PROVE balances' = balances
    BY <1>5 DEF FailApply, tables
  <1>6. ASSUME NEW c \in Calls, NEW client \in Clients, NEW amount \in Amounts,
               StartApply(c, client, amount)
        PROVE  balances' = balances
    BY <1>6 DEF StartApply, tables
  <1>7. CASE Crash
    BY <1>1, <1>7 DEF Crash, tables
  <1>8. CASE UNCHANGED vars
    BY <1>1, <1>8 DEF vars
  <1> QED
    BY <1>1, <1>2, <1>4, <1>5, <1>6, <1>7, <1>8 DEF Next

(* A step that writes no payment and no movement, and keeps the calls that *)
(* have returned.                                                          *)
LEMMA RowsUntouched ==
  ASSUME LedgerInv, RowsInv, SameOwners, UNCHANGED <<payments, movements>>,
         \A c \in Calls : calls[c].pc = "applied" => calls'[c] = calls[c],
         \A c \in Calls : VisitsOwn(c)'
  PROVE  RowsInv'
  <1>1. \A p \in payments : p.call \in Calls
    BY DEF LedgerInv, TypeOK, Payment
  <1>2. \A p \in payments' : calls'[p.call].pc = "applied"
    BY <1>1 DEF RowsInv
  <1>3. RowsPaired'
    <2>1. ASSUME NEW p \in payments'
          PROVE  /\ p.balance \in BalanceIds'
                 /\ p.txn = balances'[p.balance].txn
                 /\ balances'[p.balance].client = calls'[p.call].client
      BY <1>1 DEF RowsInv, RowsPaired, SameOwners
    <2>2. /\ \A m \in movements' : \E p \in payments' :
                p.call = m.call /\ p.balance = m.balance /\ p.amount = m.used
          /\ \A p \in payments' : \E m \in movements' :
                m.call = p.call /\ m.balance = p.balance /\ m.used = p.amount
      BY DEF RowsInv, RowsPaired
    <2> QED
      BY <2>1, <2>2 DEF RowsPaired
  <1> QED
    BY <1>2, <1>3 DEF RowsInv

(* A call that is not touched goes on visiting its own client's balances.  *)
LEMMA OthersVisitOwn ==
  ASSUME LedgerInv, RowsInv, SameOwners, NEW c \in Calls,
         calls'[c] = calls[c] \/ calls'[c].pc # "applying"
  PROVE  VisitsOwn(c)'
  <1>1. CASE calls'[c].pc # "applying"
    BY <1>1 DEF VisitsOwn
  <1>2. CASE calls'[c] = calls[c] /\ calls[c].pc = "applying"
    <2>1. VisitsOwn(c)
      BY DEF RowsInv
    <2>2. ASSUME NEW b \in calls[c].plan \cup calls[c].used
          PROVE  b \in BalanceIds
      <3>1. balances \in Seq(Balance) /\ calls[c] \in Call /\ Len(calls[c].seen) <= Len(balances)
        BY <1>2 DEF LedgerInv, TypeOK, CallAgrees
      <3>2. b \in 1 .. Len(calls[c].seen)
        BY <1>2 DEF LedgerInv, CallAgrees
      <3>3. Len(calls[c].seen) \in Nat /\ Len(balances) \in Nat
        BY <3>1 DEF Call
      <3> QED
        BY <3>1, <3>2, <3>3 DEF BalanceIds
    <2> QED
      BY <1>2, <2>1, <2>2 DEF VisitsOwn, SameOwners
  <1> QED
    BY <1>1, <1>2

(* A step that ends the call c without a commit.                           *)
LEMMA FinishRows ==
  ASSUME LedgerInv, RowsInv, NEW c \in Calls, NEW pc \in Ended,
         calls[c].pc \in InFlight,
         calls' = [calls EXCEPT ![c] = Finished(@, pc)],
         UNCHANGED <<tables, history>>
  PROVE  RowsInv'
  <1>1. calls \in [Calls -> Call]
    BY DEF LedgerInv, TypeOK
  <1>2. SameOwners
    BY DEF SameOwners, BalanceIds, tables
  <1>3. \A d \in Calls : d # c => calls'[d] = calls[d]
    BY <1>1
  <1>4. calls'[c].pc # "applying"
    BY <1>1, FinishedCall DEF Ended
  <1>5. \A d \in Calls : VisitsOwn(d)'
    BY <1>2, <1>3, <1>4, OthersVisitOwn
  <1>6. \A d \in Calls : calls[d].pc = "applied" => calls'[d] = calls[d]
    BY <1>3 DEF InFlight
  <1> QED
    BY <1>2, <1>5, <1>6, RowsUntouched DEF tables

LEMMA ReadRows ==
  ASSUME LedgerInv, RowsInv, NEW c \in Calls, ReadBalances(c)
  PROVE  RowsInv'
  <1>1. calls \in [Calls -> Call]
    BY DEF LedgerInv, TypeOK
  <1>2. CASE ActiveBalances(calls[c].client) = {}
    <2>1. calls' = [calls EXCEPT ![c] = Finished(@, "noBalance")]
      BY <1>2 DEF ReadBalances
    <2> QED
      BY <2>1, FinishRows DEF ReadBalances, InFlight, Ended
  <1>3. CASE ActiveBalances(calls[c].client) # {}
    <2>1. SameOwners
      BY DEF ReadBalances, SameOwners, BalanceIds, tables
    <2>2. \A d \in Calls : d # c => calls'[d] = calls[d]
      BY <1>1 DEF ReadBalances
    <2>3. /\ calls'[c].plan = ActiveBalances(calls[c].client)
          /\ calls'[c].used = calls[c].used
          /\ calls'[c].client = calls[c].client
      BY <1>1, <1>3 DEF ReadBalances, Call
    <2>4. calls[c].used = {}
      BY DEF LedgerInv, CallAgrees, ReadBalances
    <2>5. VisitsOwn(c)'
      BY <2>3, <2>4 DEF VisitsOwn, ActiveBalances, ReadBalances, tables
    <2>6. \A d \in Calls : VisitsOwn(d)'
      BY <2>1, <2>2, <2>5, OthersVisitOwn
    <2> QED
      BY <2>1, <2>2, <2>6, RowsUntouched DEF ReadBalances, tables
  <1> QED
    BY <1>2, <1>3

LEMMA UseRows ==
  ASSUME LedgerInv, RowsInv, NEW c \in Calls, NEW b \in BalanceIds, UseBalance(c, b)
  PROVE  RowsInv'
  <1>1. calls \in [Calls -> Call] /\ calls[c] \in Call
    BY DEF LedgerInv, TypeOK
  <1>2. SameOwners
    BY DEF UseBalance, SameOwners, BalanceIds, tables
  <1>3. \A d \in Calls : d # c => calls'[d] = calls[d]
    BY <1>1 DEF UseBalance
  <1>4. /\ calls'[c].plan = calls[c].plan \ {b}
        /\ calls'[c].used = calls[c].used \cup {b}
        /\ calls'[c].client = calls[c].client
    BY <1>1 DEF UseBalance, Call
  <1>5. calls[c].pc = "applying" /\ b \in calls[c].plan
    BY DEF UseBalance, Oldest
  <1>6. VisitsOwn(c)'
    <2>1. \A d \in calls[c].plan \cup calls[c].used : balances[d].client = calls[c].client
      BY <1>5 DEF RowsInv, VisitsOwn
    <2>2. calls'[c].plan \cup calls'[c].used \subseteq calls[c].plan \cup calls[c].used
      BY <1>4, <1>5
    <2>3. balances' = balances
      BY DEF UseBalance, tables
    <2> QED
      BY <1>4, <2>1, <2>2, <2>3 DEF VisitsOwn
  <1>7. \A d \in Calls : VisitsOwn(d)'
    BY <1>2, <1>3, <1>6, OthersVisitOwn
  <1> QED
    BY <1>2, <1>3, <1>5, <1>7, RowsUntouched DEF UseBalance, tables

LEMMA CommitRows ==
  ASSUME LedgerInv, RowsInv, SameOwners, NEW c \in Calls, CommitApply(c)
  PROVE  RowsInv'
  <1>1. calls \in [Calls -> Call] /\ \A p \in payments : p.call \in Calls
    BY DEF LedgerInv, TypeOK, Payment
  <1>2. /\ calls'[c].pc = "applied"
        /\ calls'[c].client = calls[c].client
        /\ \A d \in Calls : d # c => calls'[d] = calls[d]
    BY <1>1, FinishedCall DEF CommitApply, Ended
  <1>3. \A d \in Calls : VisitsOwn(d)'
    BY <1>2, OthersVisitOwn
  <1>4. \A b \in calls[c].used : b \in BalanceIds /\ balances[b].client = calls[c].client
    <2>1. balances \in Seq(Balance) /\ calls[c] \in Call
          /\ Len(calls[c].seen) <= Len(balances)
          /\ calls[c].used \subseteq 1 .. Len(calls[c].seen)
      BY DEF LedgerInv, TypeOK, CallAgrees, CommitApply
    <2>2. Len(calls[c].seen) \in Nat /\ Len(balances) \in Nat
      BY <2>1 DEF Call
    <2> QED
      BY <2>1, <2>2 DEF BalanceIds, RowsInv, VisitsOwn, CommitApply
  <1>5. ASSUME NEW p \in payments'
        PROVE  /\ calls'[p.call].pc = "applied"
               /\ p.balance \in BalanceIds'
               /\ p.txn = balances'[p.balance].txn
               /\ balances'[p.balance].client = calls'[p.call].client
               /\ \E m \in movements' :
                     m.call = p.call /\ m.balance = p.balance /\ m.used = p.amount
    <2>1. CASE p \in payments
      <3>1. p.call # c
        BY <2>1 DEF RowsInv, CommitApply
      <3>2. /\ calls'[p.call] = calls[p.call]
            /\ calls[p.call].pc = "applied"
            /\ p.balance \in BalanceIds
            /\ p.txn = balances[p.balance].txn
            /\ balances[p.balance].client = calls[p.call].client
        BY <1>1, <1>2, <2>1, <3>1 DEF RowsInv, RowsPaired
      <3>3. \E m \in movements :
               m.call = p.call /\ m.balance = p.balance /\ m.used = p.amount
        BY <2>1 DEF RowsInv, RowsPaired
      <3> QED
        BY <3>2, <3>3 DEF SameOwners, CommitApply
    <2>2. CASE p \in PaymentsOf(c)
      <3>1. PICK b \in calls[c].used :
               p = [call |-> c, balance |-> b, txn |-> balances[b].txn,
                    amount |-> calls[c].take[b]]
        BY <2>2 DEF PaymentsOf
      <3>2. [call |-> c, balance |-> b, used |-> calls[c].take[b],
             remaining |-> Remaining(calls[c], b)] \in movements'
        BY DEF CommitApply, MovementsOf
      <3> QED
        BY <1>2, <1>4, <3>1, <3>2 DEF SameOwners
    <2> QED
      BY <2>1, <2>2 DEF CommitApply
  <1>6. ASSUME NEW m \in movements'
        PROVE  \E p \in payments' :
                  p.call = m.call /\ p.balance = m.balance /\ p.amount = m.used
    <2>1. CASE m \in movements
      BY <2>1 DEF RowsInv, RowsPaired, CommitApply
    <2>2. CASE m \in MovementsOf(c)
      <3>1. PICK b \in calls[c].used :
               m = [call |-> c, balance |-> b, used |-> calls[c].take[b],
                    remaining |-> Remaining(calls[c], b)]
        BY <2>2 DEF MovementsOf
      <3>2. [call |-> c, balance |-> b, txn |-> balances[b].txn,
             amount |-> calls[c].take[b]] \in payments'
        BY DEF CommitApply, PaymentsOf
      <3> QED
        BY <3>1, <3>2
    <2> QED
      BY <2>1, <2>2 DEF CommitApply
  <1>7. RowsPaired' /\ \A p \in payments' : calls'[p.call].pc = "applied"
    BY <1>5, <1>6 DEF RowsPaired
  <1> QED
    BY <1>3, <1>7 DEF RowsInv

LEMMA InitRows == Init => RowsInv
  BY DEF Init, InitialCall, RowsInv, RowsPaired, VisitsOwn, Idle

LEMMA RowsStep == LedgerInv /\ RowsInv /\ [Next]_vars => RowsInv'
  <1> SUFFICES ASSUME LedgerInv, RowsInv, [Next]_vars PROVE RowsInv'
    OBVIOUS
  <1>1. SameOwners
    BY OwnersKept
  <1>2. calls \in [Calls -> Call]
    BY DEF LedgerInv, TypeOK
  <1>3. ASSUME NEW client \in Clients, NEW txn \in Txns,
               NEW received \in Amounts, NEW expected \in Amounts,
               RegisterBalance(client, txn, received, expected)
        PROVE  RowsInv'
    <2>1. \A d \in Calls : VisitsOwn(d)'
      BY <1>1, <1>3, OthersVisitOwn DEF RegisterBalance
    <2> QED
      BY <1>1, <1>3, <2>1, RowsUntouched DEF RegisterBalance
  <1>4. ASSUME NEW c \in Calls, NEW client \in Clients, NEW amount \in Amounts,
               StartApply(c, client, amount)
        PROVE  RowsInv'
    <2>1. /\ calls'[c].pc = "reading"
          /\ \A d \in Calls : d # c => calls'[d] = calls[d]
      BY <1>2, <1>4 DEF StartApply, Call
    <2>2. \A d \in Calls : VisitsOwn(d)'
      BY <1>1, <2>1, OthersVisitOwn
    <2>3. calls[c].pc # "applied"
      BY <1>4 DEF StartApply, Idle
    <2> QED
      BY <1>1, <1>4, <2>1, <2>2, <2>3, RowsUntouched DEF StartApply, tables
  <1>5. ASSUME NEW c \in Calls, ApplyStep(c) PROVE RowsInv'
    <2>1. CASE ReadBalances(c)
      BY <2>1, ReadRows
    <2>2. ASSUME NEW b \in BalanceIds, UseBalance(c, b) PROVE RowsInv'
      BY <2>2, UseRows
    <2>3. CASE CommitApply(c)
      BY <1>1, <2>3, CommitRows
    <2>4. CASE RefuseApply(c)
      BY <2>4, FinishRows DEF RefuseApply, InFlight, Ended
    <2> QED
      BY <1>5, <2>1, <2>2, <2>3, <2>4 DEF ApplyStep
  <1>6. ASSUME NEW c \in Calls, FailApply(c) PROVE RowsInv'
    BY <1>6, FinishRows DEF FailApply, Ended
  <1>7. CASE Crash
    <2>1. ASSUME NEW d \in Calls PROVE calls'[d] = calls[d] \/ calls'[d].pc # "applying"
      <3>1. Finished(calls[d], "crashed").pc = "crashed"
        BY <1>2, FinishedCall DEF Ended
      <3> QED
        BY <1>7, <3>1 DEF Crash
    <2>2. \A d \in Calls : VisitsOwn(d)'
      BY <1>1, <2>1, OthersVisitOwn
    <2>3. \A d \in Calls : calls[d].pc = "applied" => calls'[d] = calls[d]
      BY <1>7 DEF Crash, InFlight
    <2> QED
      BY <1>1, <1>7, <2>2, <2>3, RowsUntouched DEF Crash, tables
  <1>8. CASE UNCHANGED vars
    <2>1. \A d \in Calls : VisitsOwn(d)'
      BY <1>1, <1>8, OthersVisitOwn DEF vars
    <2> QED
      BY <1>1, <1>8, <2>1, RowsUntouched DEF vars
  <1> QED
    BY <1>3, <1>4, <1>5, <1>6, <1>7, <1>8 DEF Next

(* Every movement is paired with a BALANCE payment of the same amount, and *)
(* every such payment is booked on the funding transaction of a balance of *)
(* the paying client, for any interleaving of calls, failures and crashes. *)
THEOREM RowsAlwaysPaired == Spec => []RowsPaired
  <1>1. RowsInv => RowsPaired
    BY DEF RowsInv
  <1> QED
    BY <1>1, InitRows, RowsStep, LedgerInvariant, PTL DEF Spec

-----------------------------------------------------------------------------
(***************************************************************************)
(* What a step does to the invocations: for modules that compose them.     *)
(***************************************************************************)

(* Between two states only calls that are in flight move, and they keep    *)
(* the amount they were made with.                                         *)
CallMoves(c) ==
    \/ calls'[c] = calls[c]
    \/ /\ calls[c].pc \in InFlight /\ calls'[c].pc # Idle
       /\ calls'[c].amount = calls[c].amount

LEMMA FinishMoves ==
  ASSUME LedgerInv, NEW c \in Calls, NEW pc \in Ended, calls[c].pc \in InFlight,
         calls' = [calls EXCEPT ![c] = Finished(@, pc)]
  PROVE  \A d \in Calls : CallMoves(d) /\ (d # c => calls'[d] = calls[d])
  <1>1. calls \in [Calls -> Call]
    BY DEF LedgerInv, TypeOK
  <1>2. calls'[c] = Finished(calls[c], pc)
    BY <1>1
  <1>3. calls'[c].pc = pc /\ calls'[c].amount = calls[c].amount
    BY <1>1, <1>2 DEF Finished, Call
  <1> QED
    BY <1>1, <1>3 DEF CallMoves, Ended, Idle

LEMMA ApplyMoves ==
  ASSUME LedgerInv, NEW c \in Calls, ApplyStep(c) \/ FailApply(c)
  PROVE  /\ \A d \in Calls : CallMoves(d) /\ (d # c => calls'[d] = calls[d])
         /\ BalanceIds' = BalanceIds
  <1>1. calls \in [Calls -> Call]
    BY DEF LedgerInv, TypeOK
  <1>2. CASE ReadBalances(c)
    <2>1. CASE ActiveBalances(calls[c].client) = {}
      <3>1. calls' = [calls EXCEPT ![c] = Finished(@, "noBalance")]
        BY <1>2, <2>1 DEF ReadBalances
      <3> QED
        BY <1>2, <3>1, FinishMoves DEF ReadBalances, InFlight, Ended, tables, BalanceIds
    <2>2. CASE ActiveBalances(calls[c].client) # {}
      <3>1. calls'[c].pc = "applying" /\ calls'[c].amount = calls[c].amount
        BY <1>1, <1>2, <2>2 DEF ReadBalances, Call
      <3> QED
        BY <1>1, <1>2, <3>1 DEF ReadBalances, CallMoves, InFlight, Idle, tables, BalanceIds
    <2> QED
      BY <2>1, <2>2
  <1>3. ASSUME NEW b \in BalanceIds, UseBalance(c, b)
        PROVE  /\ \A d \in Calls : CallMoves(d) /\ (d # c => calls'[d] = calls[d])
               /\ BalanceIds' = BalanceIds
    <2>1. calls'[c].pc = "applying" /\ calls'[c].amount = calls[c].amount
      BY <1>1, <1>3 DEF UseBalance, Call
    <2> QED
      BY <1>1, <1>3, <2>1 DEF UseBalance, CallMoves, InFlight, Idle, tables, BalanceIds
  <1>4. CASE CommitApply(c)
    <2>1. BalanceIds' = BalanceIds
      BY <1>4 DEF CommitApply, Written, BalanceIds
    <2> QED
      BY <1>4, <2>1, FinishMoves DEF CommitApply, InFlight, Ended
  <1>5. CASE RefuseApply(c)
    BY <1>5, FinishMoves DEF RefuseApply, InFlight, Ended, tables, BalanceIds
  <1>6. CASE FailApply(c)
    BY <1>6, FinishMoves DEF FailApply, Ended, tables, BalanceIds
  <1> QED
    BY <1>2, <1>3, <1>4, <1>5, <1>6 DEF ApplyStep

LEMMA CrashMoves ==
  ASSUME LedgerInv, Crash
  PROVE  (\A d \in Calls : CallMoves(d)) /\ balances' = balances
  <1>1. calls \in [Calls -> Call]
    BY DEF LedgerInv, TypeOK
  <1>2. ASSUME NEW d \in Calls, calls[d].pc \in InFlight
        PROVE  calls'[d].pc = "crashed" /\ calls'[d].amount = calls[d].amount
    BY <1>1, <1>2 DEF Crash, Finished, Call
  <1> QED
    BY <1>1, <1>2 DEF Crash, CallMoves, Idle, tables
-----------------------------------------------------------------------------
(***************************************************************************)
(* Total, which folds over a finite set of rows: adding a row adds its     *)
(* amount.  The fold is a recursive function on the subsets of the rows;   *)
(* that it exists, and is the only one, goes by the size of the subset.    *)
(***************************************************************************)

(* Induction, in the form the provers can use: the least counterexample.   *)
LEMMA LeastNat ==
  ASSUME NEW T, T \subseteq Nat, T # {}
  PROVE  \E x \in T : \A y \in T : x <= y
  <1> DEFINE R == OpToRel(<, Nat)
  <1>1. IsWellFoundedOn(R, Nat)
    BY NatLessThanWellFounded
  <1>2. \A x, y \in Nat : x < y => <<x, y>> \in R
    BY DEF OpToRel
  <1> HIDE DEF R
  <1>3. PICK x \in T : \A y \in T : ~ (<<y, x>> \in R)
    BY <1>1, WFMin
  <1>4. ASSUME NEW y \in T PROVE x <= y
    <2>1. x \in Nat /\ y \in Nat
      OBVIOUS
    <2>2. ~ (y < x)
      BY <1>2, <1>3, <2>1
    <2> QED
      BY <2>1, <2>2
  <1> QED
    BY <1>4

Pick(s) == CHOOSE x \in s : TRUE

(* One turn of the fold behind Total, over the sets g is defined on.       *)
Folds(g, sets) ==
  g = [s \in sets |-> IF s = {} THEN 0 ELSE Pick(s).amount + g[s \ {Pick(s)}]]

Small(S, n) == {s \in SUBSET S : Cardinality(s) <= n}

LEMMA SmallSets ==
  ASSUME NEW S, IsFiniteSet(S), NEW n \in Nat
  PROVE  /\ Small(S, n) \subseteq Small(S, n + 1)
         /\ \A s \in Small(S, n + 1) : s # {} => s \ {Pick(s)} \in Small(S, n)
         /\ Small(S, 0) = {{}}
         /\ Small(S, Cardinality(S)) = SUBSET S
  <1>1. ASSUME NEW s \in SUBSET S
        PROVE  /\ IsFiniteSet(s) /\ Cardinality(s) \in Nat /\ Cardinality(s) <= Cardinality(S)
               /\ Cardinality(s) = 0 <=> s = {}
    BY FS_Subset, FS_CardinalityType, FS_EmptySet
  <1>2. ASSUME NEW s \in SUBSET S, s # {}
        PROVE  Cardinality(s \ {Pick(s)}) = Cardinality(s) - 1
    BY <1>1, <1>2, FS_RemoveElement DEF Pick
  <1>3. Small(S, n) \subseteq Small(S, n + 1)
    BY <1>1 DEF Small
  <1>4. \A s \in Small(S, n + 1) : s # {} => s \ {Pick(s)} \in Small(S, n)
    BY <1>1, <1>2 DEF Small
  <1>5. Small(S, 0) = {{}}
    BY <1>1 DEF Small
  <1>6. Small(S, Cardinality(S)) = SUBSET S
    BY <1>1 DEF Small
  <1> QED
    BY <1>3, <1>4, <1>5, <1>6

LEMMA FoldGrows ==
  ASSUME NEW S, IsFiniteSet(S), NEW n \in Nat, NEW g, Folds(g, Small(S, n))
  PROVE  \E h : Folds(h, Small(S, n + 1))
  <1> DEFINE h == [s \in Small(S, n + 1) |->
                      IF s = {} THEN 0 ELSE Pick(s).amount + g[s \ {Pick(s)}]]
  <1>1. ASSUME NEW s \in Small(S, n) PROVE s \in Small(S, n + 1) /\ h[s] = g[s]
    BY SmallSets DEF Folds
  <1>2. \A s \in Small(S, n + 1) :
           h[s] = IF s = {} THEN 0 ELSE Pick(s).amount + h[s \ {Pick(s)}]
    BY <1>1, SmallSets
  <1>3. h = [s \in Small(S, n + 1) |->
                IF s = {} THEN 0 ELSE Pick(s).amount + h[s \ {Pick(s)}]]
    BY <1>2
  <1> HIDE DEF h
  <1> QED
    BY <1>3 DEF Folds

LEMMA FoldExists ==
  ASSUME NEW S, IsFiniteSet(S)
  PROVE  \E g : Folds(g, SUBSET S)
  <1> DEFINE missing == {n \in Nat : ~ \E g : Folds(g, Small(S, n))}
  <1>1. 0 \notin missing
    <2> DEFINE g == [s \in {{}} |-> 0]
    <2>1. g = [s \in {{}} |-> IF s = {} THEN 0 ELSE Pick(s).amount + g[s \ {Pick(s)}]]
      OBVIOUS
    <2> HIDE DEF g
    <2>2. Small(S, 0) = {{}}
      BY SmallSets
    <2>3. Folds(g, Small(S, 0))
      BY <2>1, <2>2 DEF Folds
    <2> QED
      BY <2>3
  <1>2. ASSUME NEW n \in Nat, n \notin missing PROVE n + 1 \notin missing
    BY <1>2, FoldGrows
  <1>3. missing = {}
    <2> SUFFICES ASSUME missing # {} PROVE FALSE
      OBVIOUS
    <2>1. PICK n \in missing : \A m \in missing : n <= m
      BY LeastNat
    <2>2. n \in Nat /\ n # 0
      BY <1>1
    <2>3. n - 1 \in Nat /\ n - 1 \notin missing
      BY <2>1, <2>2
    <2>4. (n - 1) + 1 \notin missing
      BY <1>2, <2>3
    <2> QED
      BY <2>1, <2>2, <2>4
  <1>4. Cardinality(S) \in Nat
    BY FS_CardinalityType
  <1>5. \E g : Folds(g, Small(S, Cardinality(S)))
    BY <1>3, <1>4
  <1> QED
    BY <1>5, SmallSets

LEMMA FoldUnique ==
  ASSUME NEW S, NEW R, NEW g, NEW h, Folds(g, SUBSET S), Folds(h, SUBSET R),
         NEW s, s \subseteq S, s \subseteq R, IsFiniteSet(s)
  PROVE  g[s] = h[s]
  <1> DEFINE sizes == {n \in Nat : \E u \in SUBSET s : Cardinality(u) = n /\ g[u] # h[u]}
  <1>1. ASSUME NEW u \in SUBSET s
        PROVE  /\ IsFiniteSet(u) /\ Cardinality(u) \in Nat
               /\ g[u] = IF u = {} THEN 0 ELSE Pick(u).amount + g[u \ {Pick(u)}]
               /\ h[u] = IF u = {} THEN 0 ELSE Pick(u).amount + h[u \ {Pick(u)}]
    BY FS_Subset, FS_CardinalityType DEF Folds
  <1>2. CASE sizes = {}
    BY <1>1, <1>2
  <1>3. CASE sizes # {}
    <2>1. PICK n \in sizes : \A m \in sizes : n <= m
      BY <1>3, LeastNat
    <2>2. PICK u \in SUBSET s : Cardinality(u) = n /\ g[u] # h[u]
      BY <2>1
    <2>3. u # {}
      BY <1>1, <2>2
    <2>4. Pick(u) \in u
      BY <2>3 DEF Pick
    <2>5. Cardinality(u \ {Pick(u)}) = n - 1 /\ n \in Nat
      BY <1>1, <2>2, <2>4, FS_RemoveElement
    <2>6. n - 1 \notin sizes
      BY <2>1, <2>5
    <2>7. u \ {Pick(u)} \in SUBSET s
      BY <2>2
    <2>8. g[u \ {Pick(u)}] = h[u \ {Pick(u)}]
      <3>1. n - 1 \in Nat
        BY <1>1, <2>5, <2>7
      <3> QED
        BY <2>5, <2>6, <2>7, <3>1
    <2> QED
      BY <1>1, <2>2, <2>3, <2>8
  <1> QED
    BY <1>2, <1>3

LEMMA TotalFolds ==
  ASSUME NEW S, IsFiniteSet(S)
  PROVE  \E g : Folds(g, SUBSET S) /\ Total(S) = g[S]
  <1> DEFINE fold == CHOOSE g : g = [s \in SUBSET S |->
                        IF s = {} THEN 0
                        ELSE (CHOOSE x \in s : TRUE).amount + g[s \ {CHOOSE x \in s : TRUE}]]
  <1>1. Total(S) = fold[S]
    BY DEF Total, MapThenSumSet, MapThenFoldSet
  <1>2. \E g : g = [s \in SUBSET S |->
                        IF s = {} THEN 0
                        ELSE (CHOOSE x \in s : TRUE).amount + g[s \ {CHOOSE x \in s : TRUE}]]
    BY FoldExists DEF Folds, Pick
  <1>3. fold = [s \in SUBSET S |->
                        IF s = {} THEN 0
                        ELSE (CHOOSE x \in s : TRUE).amount + fold[s \ {CHOOSE x \in s : TRUE}]]
    BY <1>2
  <1> HIDE DEF fold
  <1>4. Folds(fold, SUBSET S)
    BY <1>3 DEF Folds, Pick
  <1> QED
    BY <1>1, <1>4

(* The definition of Total, by the row it takes first.                     *)
LEMMA TotalByPick ==
  ASSUME NEW S, IsFiniteSet(S)
  PROVE  Total(S) = IF S = {} THEN 0 ELSE Pick(S).amount + Total(S \ {Pick(S)})
  <1>1. PICK g : Folds(g, SUBSET S) /\ Total(S) = g[S]
    BY TotalFolds
  <1> DEFINE R == S \ {Pick(S)}
  <1>2. R \subseteq S /\ IsFiniteSet(R)
    BY FS_Subset
  <1>3. PICK h : Folds(h, SUBSET R) /\ Total(R) = h[R]
    BY <1>2, TotalFolds
  <1>4. g[R] = h[R]
    <2> HIDE DEF R
    <2> QED
      BY <1>1, <1>2, <1>3, FoldUnique
  <1>5. g[S] = IF S = {} THEN 0 ELSE Pick(S).amount + g[R]
    BY <1>1 DEF Folds
  <1> QED
    BY <1>1, <1>3, <1>4, <1>5

LEMMA TotalNat ==
  ASSUME NEW S, IsFiniteSet(S), \A p \in S : p.amount \in Nat
  PROVE  Total(S) \in Nat
  <1> DEFINE sizes == {n \in Nat : \E s \in SUBSET S : Cardinality(s) = n /\ Total(s) \notin Nat}
  <1>1. ASSUME NEW s \in SUBSET S PROVE IsFiniteSet(s) /\ Cardinality(s) \in Nat
    BY FS_Subset, FS_CardinalityType
  <1>2. CASE sizes = {}
    BY <1>1, <1>2
  <1>3. CASE sizes # {}
    <2>1. PICK n \in sizes : \A m \in sizes : n <= m
      BY <1>3, LeastNat
    <2>2. PICK s \in SUBSET S : Cardinality(s) = n /\ Total(s) \notin Nat
      BY <2>1
    <2>3. Total(s) = IF s = {} THEN 0 ELSE Pick(s).amount + Total(s \ {Pick(s)})
      BY <1>1, TotalByPick
    <2>4. s # {} /\ Pick(s) \in s
      BY <2>2, <2>3 DEF Pick
    <2>5. Cardinality(s \ {Pick(s)}) = n - 1 /\ n \in Nat
      BY <1>1, <2>2, <2>4, FS_RemoveElement
    <2>6. n - 1 \notin sizes
      BY <2>1, <2>5
    <2>7. s \ {Pick(s)} \in SUBSET S
      BY <2>2
    <2>8. n - 1 \in Nat
      BY <1>1, <2>5, <2>7
    <2>9. Total(s \ {Pick(s)}) \in Nat
      BY <2>5, <2>6, <2>7, <2>8
    <2> QED
      BY <2>2, <2>3, <2>4, <2>9
  <1> QED
    BY <1>2, <1>3

(* In whatever order the fold takes the rows, one more adds its amount.    *)
LEMMA TotalAdd ==
  ASSUME NEW U, IsFiniteSet(U), \A p \in U : p.amount \in Nat,
         NEW S, NEW x \in U, S \subseteq U, x \notin S
  PROVE  Total(S \cup {x}) = Total(S) + x.amount
  <1> DEFINE sizes == {n \in Nat : \E s \in SUBSET U, y \in U :
                          y \notin s /\ Cardinality(s) = n
                            /\ Total(s \cup {y}) # Total(s) + y.amount}
  <1>1. ASSUME NEW s \in SUBSET U
        PROVE  IsFiniteSet(s) /\ Cardinality(s) \in Nat /\ Total(s) \in Nat
    BY FS_Subset, FS_CardinalityType, TotalNat
  <1>2. CASE sizes = {}
    BY <1>1, <1>2
  <1>3. CASE sizes # {}
    <2>1. PICK n \in sizes : \A m \in sizes : n <= m
      BY <1>3, LeastNat
    <2>2. PICK s \in SUBSET U, y \in U :
             y \notin s /\ Cardinality(s) = n /\ Total(s \cup {y}) # Total(s) + y.amount
      BY <2>1
    <2> DEFINE w == Pick(s \cup {y})
    <2>3. s \cup {y} \in SUBSET U /\ w \in s \cup {y}
      BY DEF Pick
    <2>4. Total(s \cup {y}) = w.amount + Total((s \cup {y}) \ {w})
      BY <1>1, <2>3, TotalByPick
    <2> HIDE DEF w
    <2>5. CASE w = y
      <3>1. (s \cup {y}) \ {w} = s
        BY <2>2, <2>5
      <3>2. Total(s) \in Nat /\ y.amount \in Nat
        BY <1>1
      <3>3. Total(s \cup {y}) = y.amount + Total(s)
        BY <2>4, <2>5, <3>1
      <3> QED
        BY <2>2, <3>2, <3>3
    <2>6. CASE w # y
      <3>1. w \in s /\ (s \cup {y}) \ {w} = (s \ {w}) \cup {y} /\ s = (s \ {w}) \cup {w}
        BY <2>3, <2>6
      <3>2. Cardinality(s \ {w}) = n - 1 /\ n \in Nat
        BY <1>1, <2>2, <3>1, FS_RemoveElement
      <3>3. n - 1 \notin sizes
        BY <2>1, <3>2
      <3>4. s \ {w} \in SUBSET U /\ y \notin s \ {w} /\ w \in U /\ w \notin s \ {w}
        BY <2>2, <3>1
      <3>5. n - 1 \in Nat
        BY <1>1, <3>2, <3>4
      <3>6. Total((s \ {w}) \cup {y}) = Total(s \ {w}) + y.amount
        BY <3>2, <3>3, <3>4, <3>5
      <3>7. Total((s \ {w}) \cup {w}) = Total(s \ {w}) + w.amount
        BY <3>2, <3>3, <3>4, <3>5
      <3>8. Total(s \ {w}) \in Nat /\ y.amount \in Nat /\ w.amount \in Nat
        BY <1>1, <3>4
      <3>9. Total(s \cup {y}) = w.amount + (Total(s \ {w}) + y.amount)
        BY <2>4, <3>1, <3>6
      <3>10. Total(s) = Total(s \ {w}) + w.amount
        BY <3>1, <3>7
      <3> QED
        BY <2>2, <3>8, <3>9, <3>10
    <2> QED
      BY <2>5, <2>6
  <1> QED
    BY <1>2, <1>3
-----------------------------------------------------------------------------
(***************************************************************************)
(* What the rows say of the amounts drawn, and in which order.             *)
(***************************************************************************)

(* An open transaction has drawn what it has not left to apply, all of     *)
(* every balance it has gone past and from the older ones first.           *)
DrawsAgree(c) ==
    LET call == calls[c] IN
    /\ call.pc = "reading" => call.left = call.amount
    /\ call.pc = "applying" =>
        /\ IsFiniteSet(PaymentsOf(c))
        /\ Total(PaymentsOf(c)) + call.left = call.amount
        /\ \A b \in call.used : call.take[b] = call.seen[b] \/ call.left = 0
        /\ \A b \in call.used, o \in call.plan : b < o
        /\ \A b, o \in call.used : b < o => call.take[b] = call.seen[b]

(* What a balance holds that no outdated snapshot has overwritten.         *)
TrailEnds(b) ==
    \/ balances[b].current = balances[b].initial
    \/ \E n \in movements : n.balance = b /\ n.remaining = balances[b].current

AmountsInv ==
    /\ \A c \in Calls : DrawsAgree(c)
    /\ \A c \in Calls : calls[c].pc = "applied" =>
          Total({p \in payments : p.call = c}) = calls[c].amount
    /\ OldestFirst
    /\ \A b \in BalanceIds \ stale : TrailEnds(b)
    /\ MovementsChain

LEMMA InitAmounts == Init => AmountsInv
  BY DEF Init, InitialCall, Idle, AmountsInv, DrawsAgree, OldestFirst, TrailEnds,
         MovementsChain, BalanceIds

(* The balances a call has used are in the table.                          *)
LEMMA UsedIds ==
  ASSUME LedgerInv, NEW c \in Calls, NEW b \in calls[c].used
  PROVE  /\ calls[c].pc = "applying" /\ b \in BalanceIds /\ b \in Nat
         /\ b \in 1 .. Len(calls[c].seen) /\ b \in 1 .. Len(calls[c].take)
         /\ calls[c].seen[b] \in Nat /\ calls[c].take[b] \in Nat
         /\ calls[c].take[b] <= calls[c].seen[b]
  <1>1. /\ calls[c] \in Call /\ balances \in Seq(Balance) /\ calls[c].pc = "applying"
        /\ CallAgrees(c)
    BY DEF LedgerInv, TypeOK, CallAgrees
  <1>2. /\ calls[c].seen \in Seq(Nat) /\ calls[c].take \in Seq(Nat)
        /\ Len(calls[c].seen) \in Nat /\ Len(balances) \in Nat
    BY <1>1 DEF Call
  <1>3. b \in 1 .. Len(calls[c].seen) /\ b \in 1 .. Len(calls[c].take) /\ b \in BalanceIds
        /\ calls[c].take[b] <= calls[c].seen[b]
    BY <1>1, <1>2 DEF CallAgrees, BalanceIds
  <1>4. calls[c].seen[b] \in Nat /\ calls[c].take[b] \in Nat
    BY <1>2, <1>3, ElementOfSeq
  <1> QED
    BY <1>1, <1>3, <1>4

(* A call that a step leaves alone, or ends, agrees with what it drew.     *)
LEMMA OthersDrawAgree ==
  ASSUME LedgerInv, AmountsInv, SameOwners, NEW c \in Calls,
         calls'[c] = calls[c] \/ calls'[c].pc \notin InFlight
  PROVE  DrawsAgree(c)'
  <1>1. CASE calls'[c].pc \notin InFlight
    BY <1>1 DEF DrawsAgree, InFlight
  <1>2. CASE calls'[c] = calls[c]
    <2>1. PaymentsOf(c)' = PaymentsOf(c)
      BY <1>2, UsedIds DEF PaymentsOf, SameOwners
    <2> QED
      BY <1>2, <2>1 DEF AmountsInv, DrawsAgree
  <1> QED
    BY <1>1, <1>2

(* A step that writes no row and commits no call.                          *)
LEMMA AmountsUntouched ==
  ASSUME LedgerInv, AmountsInv, SameOwners, UNCHANGED <<payments, movements, stale>>,
         \A b \in BalanceIds : balances'[b] = balances[b],
         \A b \in BalanceIds' \ BalanceIds : balances'[b].current = balances'[b].initial,
         \A m \in movements : m.balance \in BalanceIds,
         \A c \in Calls : calls'[c].pc = "applied" => calls'[c] = calls[c],
         \A c \in Calls : DrawsAgree(c)'
  PROVE  AmountsInv'
  <1>1. \A c \in Calls : calls'[c].pc = "applied" =>
           Total({p \in payments' : p.call = c}) = calls'[c].amount
    BY DEF AmountsInv
  <1>2. OldestFirst'
    BY DEF AmountsInv, OldestFirst
  <1>3. ASSUME NEW b \in BalanceIds' \ stale' PROVE TrailEnds(b)'
    BY DEF AmountsInv, TrailEnds
  <1>4. MovementsChain'
    BY DEF AmountsInv, MovementsChain
  <1> QED
    BY <1>1, <1>2, <1>3, <1>4 DEF AmountsInv

LEMMA MovementsOnIds ==
  ASSUME RowsInv, NEW m \in movements
  PROVE  m.balance \in BalanceIds /\ calls[m.call].pc = "applied"
  BY DEF RowsInv, RowsPaired
(* A step that ends the call c without a commit.                           *)
LEMMA FinishAmounts ==
  ASSUME LedgerInv, RowsInv, AmountsInv, NEW c \in Calls, NEW pc \in Ended, pc # "applied",
         calls' = [calls EXCEPT ![c] = Finished(@, pc)],
         UNCHANGED <<tables, history>>
  PROVE  AmountsInv'
  <1>1. calls \in [Calls -> Call] /\ SameOwners
    BY DEF LedgerInv, TypeOK, SameOwners, BalanceIds, tables
  <1>2. calls'[c].pc = pc /\ \A d \in Calls : d # c => calls'[d] = calls[d]
    BY <1>1, FinishedCall
  <1>3. \A d \in Calls : DrawsAgree(d)'
    BY <1>1, <1>2, OthersDrawAgree DEF Ended, InFlight
  <1> QED
    BY <1>1, <1>2, <1>3, AmountsUntouched, MovementsOnIds DEF tables, history, BalanceIds

(* The snapshot is taken, and nothing drawn.                               *)
LEMMA ReadAmounts ==
  ASSUME LedgerInv, RowsInv, AmountsInv, NEW c \in Calls, ReadBalances(c)
  PROVE  AmountsInv'
  <1>1. calls \in [Calls -> Call] /\ calls[c].pc = "reading"
    BY DEF LedgerInv, TypeOK, ReadBalances
  <1>2. CASE ActiveBalances(calls[c].client) = {}
    <2>1. calls' = [calls EXCEPT ![c] = Finished(@, "noBalance")]
      BY <1>2 DEF ReadBalances
    <2> QED
      BY <2>1, FinishAmounts DEF ReadBalances, Ended
  <1>3. CASE ActiveBalances(calls[c].client) # {}
    <2>1. SameOwners
      BY DEF ReadBalances, SameOwners, BalanceIds, tables
    <2>2. \A d \in Calls : d # c => calls'[d] = calls[d]
      BY <1>1 DEF ReadBalances
    <2>3. /\ calls'[c].pc = "applying" /\ calls'[c].used = {}
          /\ calls'[c].left = calls[c].left /\ calls'[c].amount = calls[c].amount
      BY <1>1, <1>3 DEF ReadBalances, Call, LedgerInv, CallAgrees
    <2>4. PaymentsOf(c)' = {}
      BY <2>3 DEF PaymentsOf
    <2>5. IsFiniteSet({}) /\ Total({}) = 0
      BY FS_EmptySet, TotalByPick
    <2>6. calls[c].left = calls[c].amount /\ calls[c].left \in Nat
      BY <1>1 DEF AmountsInv, DrawsAgree, Call
    <2>7. Total(PaymentsOf(c)') + calls'[c].left = calls'[c].amount
      BY <2>3, <2>4, <2>5, <2>6
    <2>8. DrawsAgree(c)'
      BY <2>3, <2>4, <2>5, <2>7 DEF DrawsAgree
    <2>9. \A d \in Calls : DrawsAgree(d)'
      BY <2>1, <2>2, <2>8, OthersDrawAgree
    <2> QED
      BY <2>1, <2>2, <2>3, <2>9, AmountsUntouched, MovementsOnIds
         DEF ReadBalances, tables, history, BalanceIds
  <1> QED
    BY <1>2, <1>3

(* One turn of the loop draws on the oldest balance not yet visited: all   *)
(* of it, or all that was left to apply.                                   *)
LEMMA UseAmounts ==
  ASSUME LedgerInv, RowsInv, AmountsInv, NEW c \in Calls, NEW b \in BalanceIds,
         UseBalance(c, b)
  PROVE  AmountsInv'
  <1> DEFINE call == calls[c]
             draw == Lesser(call.seen[b], call.left)
             row == [call |-> c, balance |-> b, txn |-> balances[b].txn, amount |-> draw]
  <1>1. /\ calls \in [Calls -> Call] /\ call \in Call
        /\ call.pc = "applying" /\ b \in call.plan /\ \A o \in call.plan : b <= o
        /\ call.left \in Nat /\ call.left > 0 /\ call.amount \in Nat
        /\ call.plan \subseteq Nat /\ call.used \subseteq Nat
        /\ call.seen \in Seq(Nat) /\ call.take \in Seq(Nat)
    BY DEF LedgerInv, TypeOK, UseBalance, Oldest, Call
  <1>2. b \in 1 .. Len(call.take) /\ b \in 1 .. Len(call.seen) /\ call.seen[b] \in Nat
    <2>1. b \in 1 .. Len(call.seen) /\ Len(call.take) = Len(call.seen)
      BY <1>1 DEF LedgerInv, CallAgrees
    <2> QED
      BY <1>1, <2>1, ElementOfSeq
  <1>3. /\ draw \in Nat /\ draw <= call.left
        /\ draw = call.seen[b] \/ call.left - draw = 0
    BY <1>1, <1>2 DEF Lesser
  <1>4. /\ DrawsAgree(c) /\ b \notin call.used
        /\ \A d \in call.used : call.take[d] = call.seen[d] /\ d < b
    BY <1>1 DEF AmountsInv, DrawsAgree
  <1>5. /\ calls'[c].pc = "applying" /\ calls'[c].amount = call.amount
        /\ calls'[c].plan = call.plan \ {b} /\ calls'[c].used = call.used \cup {b}
        /\ calls'[c].seen = call.seen /\ calls'[c].take = [call.take EXCEPT ![b] = draw]
        /\ calls'[c].left = call.left - draw
        /\ \A d \in Calls : d # c => calls'[d] = calls[d]
    BY <1>1 DEF UseBalance, Call
  <1>6. /\ calls'[c].take[b] = draw
        /\ \A d \in call.used : calls'[c].take[d] = call.take[d]
    BY <1>1, <1>2, <1>4, <1>5, UsedIds
  <1>7. PaymentsOf(c)' = PaymentsOf(c) \cup {row} /\ row \notin PaymentsOf(c)
    <2>1. balances' = balances
      BY DEF UseBalance, tables
    <2>2. PaymentsOf(c)' = {[call |-> c, balance |-> d, txn |-> balances[d].txn,
                             amount |-> calls'[c].take[d]] : d \in call.used \cup {b}}
      BY <1>5, <2>1 DEF PaymentsOf
    <2>3. PaymentsOf(c)' = PaymentsOf(c) \cup {row}
      BY <1>6, <2>2 DEF PaymentsOf
    <2>4. row \notin PaymentsOf(c)
      BY <1>4 DEF PaymentsOf
    <2> QED
      BY <2>3, <2>4
  <1>8. IsFiniteSet(PaymentsOf(c)') /\ Total(PaymentsOf(c)') + calls'[c].left = calls'[c].amount
    <2>1. IsFiniteSet(PaymentsOf(c)) /\ Total(PaymentsOf(c)) + call.left = call.amount
      BY <1>1, <1>4 DEF DrawsAgree
    <2>2. \A p \in PaymentsOf(c) : p.amount \in Nat
      BY UsedIds DEF PaymentsOf
    <2>3. IsFiniteSet(PaymentsOf(c) \cup {row})
      BY <2>1, FS_AddElement
    <2>4. Total(PaymentsOf(c)) \in Nat
      BY <2>1, <2>2, TotalNat
    <2>5. row.amount = draw /\ \A p \in PaymentsOf(c) \cup {row} : p.amount \in Nat
      BY <1>3, <2>2
    <2> HIDE DEF row
    <2>6. Total(PaymentsOf(c) \cup {row}) = Total(PaymentsOf(c)) + row.amount
      BY <1>7, <2>3, <2>5, TotalAdd
    <2> HIDE DEF draw
    <2>7. (Total(PaymentsOf(c)) + draw) + (call.left - draw) = call.amount
      BY <1>1, <1>3, <2>1, <2>4
    <2> QED
      BY <1>5, <1>7, <2>3, <2>5, <2>6, <2>7
  <1>9. DrawsAgree(c)'
    <2>1. \A d \in calls'[c].used :
             calls'[c].take[d] = calls'[c].seen[d] \/ calls'[c].left = 0
      BY <1>3, <1>4, <1>5, <1>6
    <2>2. \A d \in calls'[c].used, o \in calls'[c].plan : d < o
      BY <1>1, <1>4, <1>5 DEF DrawsAgree
    <2>3. \A d, o \in calls'[c].used : d < o => calls'[c].take[d] = calls'[c].seen[d]
      <3>1. ASSUME NEW d \in call.used \cup {b}, NEW o \in call.used \cup {b}, d < o
            PROVE  d \in call.used
        BY <1>1, <1>4, <3>1
      <3> QED
        BY <1>4, <1>5, <1>6, <3>1
    <2> QED
      BY <1>5, <1>8, <2>1, <2>2, <2>3 DEF DrawsAgree
  <1>10. SameOwners
    BY DEF UseBalance, SameOwners, BalanceIds, tables
  <1>11. \A d \in Calls : DrawsAgree(d)'
    BY <1>5, <1>9, <1>10, OthersDrawAgree
  <1> QED
    BY <1>5, <1>10, <1>11, AmountsUntouched, MovementsOnIds
       DEF UseBalance, tables, history, BalanceIds
(* The commit leaves exactly the rows of the open transaction.             *)
LEMMA CommitAmounts ==
  ASSUME LedgerInv, RowsInv, AmountsInv, SameOwners, NEW c \in Calls, CommitApply(c)
  PROVE  AmountsInv'
  <1> DEFINE call == calls[c]
  <1>1. /\ calls \in [Calls -> Call] /\ call \in Call
        /\ call.pc = "applying" /\ call.left = 0 /\ call.amount \in Nat /\ DrawsAgree(c)
    BY DEF LedgerInv, TypeOK, CommitApply, AmountsInv, Call
  <1>2. /\ calls'[c].pc = "applied" /\ calls'[c].amount = call.amount
        /\ \A d \in Calls : d # c => calls'[d] = calls[d]
    <2>1. calls' = [calls EXCEPT ![c] = Finished(call, "applied")]
      BY <1>1 DEF CommitApply
    <2>2. Finished(call, "applied").amount = call.amount
      BY <1>1 DEF Finished, Call
    <2> QED
      BY <1>1, <2>1, <2>2, FinishedCall DEF Ended
  <1>3. /\ payments' = payments \cup PaymentsOf(c) /\ movements' = movements \cup MovementsOf(c)
        /\ stale' = stale \cup {b \in call.used : balances[b].current # call.seen[b]}
        /\ balances' = Written(c)
    BY DEF CommitApply
  <1>4. /\ \A p \in payments : p.call # c
        /\ \A m \in movements : m.call # c /\ m.balance \in BalanceIds
    BY <1>1, MovementsOnIds DEF RowsInv
  <1>5. \A d \in Calls : DrawsAgree(d)'
    BY <1>2, OthersDrawAgree DEF InFlight
  <1>6. ASSUME NEW d \in Calls, calls'[d].pc = "applied"
        PROVE  Total({p \in payments' : p.call = d}) = calls'[d].amount
    <2>1. CASE d = c
      <3>1. {p \in payments' : p.call = c} = PaymentsOf(c)
        BY <1>3, <1>4 DEF PaymentsOf
      <3>2. \A p \in PaymentsOf(c) : p.amount \in Nat
        BY UsedIds DEF PaymentsOf
      <3>3. IsFiniteSet(PaymentsOf(c)) /\ Total(PaymentsOf(c)) + 0 = call.amount
        BY <1>1 DEF DrawsAgree
      <3>4. Total(PaymentsOf(c)) \in Nat
        BY <3>2, <3>3, TotalNat
      <3>5. Total(PaymentsOf(c)) = call.amount
        BY <3>3, <3>4
      <3> QED
        BY <1>2, <2>1, <3>1, <3>5
    <2>2. CASE d # c
      <3>1. {p \in payments' : p.call = d} = {p \in payments : p.call = d}
        BY <1>3, <2>2 DEF PaymentsOf
      <3> QED
        BY <1>2, <1>6, <2>2, <3>1 DEF AmountsInv
    <2> QED
      BY <2>1, <2>2
  <1>7. ASSUME NEW m \in MovementsOf(c)
        PROVE  /\ m.call = c /\ m.balance \in call.used
               /\ m.used = call.take[m.balance]
               /\ m.remaining = call.seen[m.balance] - call.take[m.balance]
               /\ m.used + m.remaining = call.seen[m.balance]
    <2>1. PICK b \in call.used :
             m = [call |-> c, balance |-> b, used |-> call.take[b],
                  remaining |-> call.seen[b] - call.take[b]]
      BY DEF MovementsOf, Remaining
    <2>2. call.take[b] \in Nat /\ call.seen[b] \in Nat
      BY UsedIds
    <2>3. call.take[b] + (call.seen[b] - call.take[b]) = call.seen[b]
      BY <2>2
    <2> QED
      BY <2>1, <2>3
  <1>8. OldestFirst'
    <2> SUFFICES ASSUME NEW m \in movements', NEW n \in movements',
                        m.call = n.call, m.balance < n.balance
                 PROVE  m.remaining = 0
      BY DEF OldestFirst
    <2>1. CASE m \in movements /\ n \in movements
      BY <2>1 DEF AmountsInv, OldestFirst
    <2>2. CASE m \in MovementsOf(c) /\ n \in MovementsOf(c)
      <3>1. call.take[m.balance] = call.seen[m.balance]
        BY <1>1, <1>7, <2>2 DEF DrawsAgree
      <3>2. call.seen[m.balance] \in Nat
        BY <1>7, <2>2, UsedIds
      <3> QED
        BY <1>7, <2>2, <3>1, <3>2
    <2> QED
      BY <1>3, <1>4, <1>7, <2>1, <2>2
  <1>9. DOMAIN balances' = BalanceIds
    BY <1>3 DEF Written
  <1>10. ASSUME NEW b \in BalanceIds' \ stale' PROVE TrailEnds(b)'
    <2>1. CASE b \in call.used
      <3>1. balances[b] \in Balance
        BY <1>9, IdsOfBalances DEF BalanceIds
      <3>2. balances'[b].current = Remaining(call, b)
        BY <1>3, <1>9, <2>1, <3>1 DEF Written, Balance, BalanceIds
      <3>3. [call |-> c, balance |-> b, used |-> call.take[b],
             remaining |-> Remaining(call, b)] \in movements'
        BY <1>3, <2>1 DEF MovementsOf
      <3> QED
        BY <3>2, <3>3 DEF TrailEnds
    <2>2. CASE b \notin call.used
      <3>1. balances'[b] = balances[b]
        BY <1>3, <1>9, <2>2 DEF Written, BalanceIds
      <3>2. TrailEnds(b)
        BY <1>3, <1>9 DEF AmountsInv, BalanceIds
      <3> QED
        BY <1>3, <3>1, <3>2 DEF TrailEnds
    <2> QED
      BY <2>1, <2>2
  <1>11. MovementsChain'
    <2> SUFFICES ASSUME NEW m \in movements', m.balance \notin stale'
                 PROVE  \/ m.used + m.remaining = balances'[m.balance].initial
                        \/ \E n \in movements' : /\ n.call # m.call /\ n.balance = m.balance
                                                 /\ n.remaining = m.used + m.remaining
      BY DEF MovementsChain
    <2>1. m.balance \in BalanceIds /\ balances'[m.balance].initial = balances[m.balance].initial
      <3>1. m \in movements \/ m \in MovementsOf(c)
        BY <1>3
      <3>2. m.balance \in BalanceIds
        <4>1. CASE m \in movements
          BY <1>4, <4>1
        <4>2. CASE m \in MovementsOf(c)
          <5>1. m.balance \in call.used
            BY <1>7, <4>2
          <5> QED
            BY <5>1, UsedIds
        <4> QED
          BY <3>1, <4>1, <4>2
      <3> QED
        BY <3>2 DEF SameOwners
    <2>2. CASE m \in movements
      BY <1>3, <2>1, <2>2 DEF AmountsInv, MovementsChain
    <2>3. CASE m \in MovementsOf(c)
      <3>1. m.used + m.remaining = balances[m.balance].current
        BY <1>3, <1>7, <2>3
      <3>2. TrailEnds(m.balance)
        BY <1>3, <2>1 DEF AmountsInv
      <3> QED
        BY <1>3, <1>4, <1>7, <2>1, <2>3, <3>1, <3>2 DEF TrailEnds
    <2> QED
      BY <1>3, <2>2, <2>3
  <1> QED
    BY <1>5, <1>6, <1>8, <1>10, <1>11 DEF AmountsInv

LEMMA AmountsStep == LedgerInv /\ RowsInv /\ AmountsInv /\ [Next]_vars => AmountsInv'
  <1> SUFFICES ASSUME LedgerInv, RowsInv, AmountsInv, [Next]_vars PROVE AmountsInv'
    OBVIOUS
  <1>1. SameOwners /\ calls \in [Calls -> Call]
    BY OwnersKept DEF LedgerInv, TypeOK
  <1>2. ASSUME NEW client \in Clients, NEW txn \in Txns,
               NEW received \in Amounts, NEW expected \in Amounts,
               RegisterBalance(client, txn, received, expected)
        PROVE  AmountsInv'
    <2> DEFINE row == [client |-> client, txn |-> txn, initial |-> received,
                       current |-> received, status |-> "AVAILABLE"]
    <2>1. row \in Balance
      BY LedgerAssumption DEF Balance, Statuses
    <2>2. balances \in Seq(Balance) /\ Len(balances) \in Nat /\ BalanceIds = 1 .. Len(balances)
      BY DEF LedgerInv, TypeOK, BalanceIds
    <2>3. /\ balances' \in Seq(Balance) /\ Len(balances') = Len(balances) + 1
          /\ \A b \in 1 .. Len(balances) : balances'[b] = balances[b]
          /\ balances'[Len(balances) + 1] = row
      BY <1>2, <2>1, <2>2, AppendProperties DEF RegisterBalance
    <2>4. \A b \in BalanceIds' \ BalanceIds : balances'[b] = row
      BY <2>2, <2>3 DEF BalanceIds
    <2>5. \A d \in Calls : DrawsAgree(d)'
      BY <1>1, <1>2, OthersDrawAgree DEF RegisterBalance
    <2>6. \A b \in BalanceIds : balances'[b] = balances[b]
      BY <2>2, <2>3
    <2>7. \A b \in BalanceIds' \ BalanceIds : balances'[b].current = balances'[b].initial
      BY <2>4
    <2>8. UNCHANGED <<payments, movements, calls, stale>>
      BY <1>2 DEF RegisterBalance
    <2> QED
      BY <1>1, <2>5, <2>6, <2>7, <2>8, AmountsUntouched, MovementsOnIds
  <1>3. ASSUME NEW c \in Calls, NEW client \in Clients, NEW amount \in Amounts,
               StartApply(c, client, amount)
        PROVE  AmountsInv'
    <2>1. /\ calls'[c].pc = "reading" /\ calls'[c].left = calls'[c].amount
          /\ \A d \in Calls : d # c => calls'[d] = calls[d]
      BY <1>1, <1>3 DEF StartApply, Call
    <2>2. DrawsAgree(c)'
      BY <2>1 DEF DrawsAgree
    <2>3. \A d \in Calls : DrawsAgree(d)'
      BY <1>1, <2>1, <2>2, OthersDrawAgree
    <2> QED
      BY <1>1, <1>3, <2>1, <2>3, AmountsUntouched, MovementsOnIds
         DEF StartApply, tables, history, BalanceIds
  <1>4. ASSUME NEW c \in Calls, ApplyStep(c) PROVE AmountsInv'
    <2>1. CASE ReadBalances(c)
      BY <2>1, ReadAmounts
    <2>2. ASSUME NEW b \in BalanceIds, UseBalance(c, b) PROVE AmountsInv'
      BY <2>2, UseAmounts
    <2>3. CASE CommitApply(c)
      BY <1>1, <2>3, CommitAmounts
    <2>4. CASE RefuseApply(c)
      BY <2>4, FinishAmounts DEF RefuseApply, Ended
    <2> QED
      BY <1>4, <2>1, <2>2, <2>3, <2>4 DEF ApplyStep
  <1>5. ASSUME NEW c \in Calls, FailApply(c) PROVE AmountsInv'
    BY <1>5, FinishAmounts DEF FailApply, Ended
  <1>6. CASE Crash
    <2>1. ASSUME NEW d \in Calls
          PROVE  calls'[d] = calls[d] \/ calls'[d].pc = "crashed"
      BY <1>1, <1>6, FinishedCall DEF Crash, Ended
    <2>2. \A d \in Calls : DrawsAgree(d)'
      BY <1>1, <2>1, OthersDrawAgree DEF InFlight
    <2> QED
      BY <1>1, <1>6, <2>1, <2>2, AmountsUntouched, MovementsOnIds
         DEF Crash, tables, history, BalanceIds
  <1>7. CASE UNCHANGED vars
    <2>1. \A d \in Calls : DrawsAgree(d)'
      BY <1>1, <1>7, OthersDrawAgree DEF vars
    <2> QED
      BY <1>1, <1>7, <2>1, AmountsUntouched, MovementsOnIds DEF vars, BalanceIds
  <1> QED
    BY <1>2, <1>3, <1>4, <1>5, <1>6, <1>7 DEF Next

THEOREM AmountsInvariant == Spec => [](LedgerInv /\ RowsInv /\ AmountsInv)
  BY InitRows, RowsStep, InitAmounts, AmountsStep, LedgerInvariant, PTL DEF Spec

(* A call of applyBalanceToPayment that has returned has drawn its whole   *)
(* amount, and one that is in flight, was refused, failed or was cut off   *)
(* by a crash has drawn nothing: the database transaction is all or        *)
(* nothing, for any balances, calls and interleaving.                      *)
THEOREM AllDrawnOrNothing == Spec => []AllOrNothing
  <1>1. LedgerInv /\ RowsInv /\ AmountsInv => AllOrNothing
    <2> SUFFICES ASSUME RowsInv, AmountsInv PROVE AllOrNothing
      OBVIOUS
    <2>1. ASSUME NEW c \in Calls, calls[c].pc # "applied"
          PROVE  {p \in payments : p.call = c} = {}
      BY <2>1 DEF RowsInv
    <2> QED
      BY <2>1 DEF AmountsInv, AllOrNothing
  <1> QED
    BY <1>1, AmountsInvariant, PTL

(* A call empties the older balance before it touches a newer one, however *)
(* many balances it goes through.                                          *)
THEOREM OldestDrawnFirst == Spec => []OldestFirst
  <1>1. AmountsInv => OldestFirst
    BY DEF AmountsInv
  <1> QED
    BY <1>1, AmountsInvariant, PTL

(* The movements of a balance form a trail without a gap from the amount   *)
(* received, unless a call has overwritten it from an outdated snapshot.   *)
THEOREM MovementsFormTrail == Spec => []MovementsChain
  <1>1. AmountsInv => MovementsChain
    BY DEF AmountsInv
  <1> QED
    BY <1>1, AmountsInvariant, PTL
-----------------------------------------------------------------------------
(***************************************************************************)
(* The account behind the rows.  Sums over balances, whichever rows they   *)
(* are taken of.                                                           *)
(***************************************************************************)

LEMMA FiniteRows ==
  ASSUME NEW S, IsFiniteSet(S), NEW p
  PROVE  IsFiniteSet({p[b] : b \in S})
  <1> DEFINE T == {p[b] : b \in S}
             f == [b \in S |-> p[b]]
  <1>1. f \in Surjection(S, T)
    BY DEF Surjection
  <1> HIDE DEF T, f
  <1>2. IsFiniteSet(T)
    BY <1>1, FS_Surjection
  <1> QED
    BY <1>2 DEF T

(* The sum of the rows a function gives.                                   *)
TotalOf(p, S) == Total({p[b] : b \in S})

(* No two of S have the same row.                                          *)
Apart(p, S) == \A b, d \in S : p[b] = p[d] => b = d

(* The row of a balance stands for its amount in a sum.                    *)
LEMMA TotalTake ==
  ASSUME NEW S, IsFiniteSet(S), NEW p, \A b \in S : p[b].amount \in Nat,
         Apart(p, S), NEW x \in S
  PROVE  /\ TotalOf(p, S \ {x}) \in Nat
         /\ TotalOf(p, S) = TotalOf(p, S \ {x}) + p[x].amount
  <1> DEFINE U == {p[b] : b \in S}
             R == {p[b] : b \in S \ {x}}
  <1>1. IsFiniteSet(U) /\ \A row \in U : row.amount \in Nat
    BY FiniteRows
  <1>2. R \subseteq U /\ p[x] \in U /\ p[x] \notin R /\ U = R \cup {p[x]}
    BY DEF Apart
  <1>3. IsFiniteSet(R) /\ \A row \in R : row.amount \in Nat
    BY <1>1, <1>2, FS_Subset
  <1> HIDE DEF U, R
  <1>4. Total(R) \in Nat
    BY <1>3, TotalNat
  <1>5. Total(R \cup {p[x]}) = Total(R) + p[x].amount
    BY <1>1, <1>2, TotalAdd
  <1> QED
    BY <1>2, <1>4, <1>5 DEF U, R, TotalOf

LEMMA TotalOfNone == Total({}) = 0
  BY FS_EmptySet, TotalByPick

(* Rows of one amount per balance come to the same, whatever else they say.*)
LEMMA SameAmounts ==
  ASSUME NEW S, IsFiniteSet(S), NEW f, NEW g,
         \A b \in S : f[b].amount \in Nat /\ f[b].amount = g[b].amount,
         Apart(f, S), Apart(g, S)
  PROVE  Total({f[b] : b \in S}) = Total({g[b] : b \in S})
  <1> DEFINE Differ(s) == TotalOf(f, s) # TotalOf(g, s)
             sizes == {n \in Nat : \E s \in SUBSET S : Cardinality(s) = n /\ Differ(s)}
  <1>1. ASSUME NEW s \in SUBSET S PROVE IsFiniteSet(s) /\ Cardinality(s) \in Nat
    BY FS_Subset, FS_CardinalityType
  <1>2. CASE sizes = {}
    <2>1. S \in SUBSET S /\ Cardinality(S) \in Nat
      BY <1>1
    <2>2. ~ Differ(S)
      BY <1>2, <2>1
    <2> QED
      BY <2>2 DEF TotalOf
  <1>3. CASE sizes # {}
    <2>1. PICK n \in sizes : \A m \in sizes : n <= m
      BY <1>3, LeastNat
    <2>2. PICK s \in SUBSET S : Cardinality(s) = n /\ Differ(s)
      BY <2>1
    <2>3. s # {}
      <3>1. CASE s = {}
        <4>1. {f[b] : b \in s} = {} /\ {g[b] : b \in s} = {}
          BY <3>1
        <4> QED
          BY <2>2, <4>1 DEF TotalOf
      <3> QED
        BY <3>1
    <2>4. PICK x : x \in s
      BY <2>3
    <2> DEFINE r == s \ {x}
    <2>5. r \in SUBSET S /\ Cardinality(r) = n - 1 /\ Cardinality(r) \in Nat /\ n \in Nat
      BY <1>1, <2>1, <2>2, <2>4, FS_RemoveElement
    <2>6. ~ Differ(r)
      <3>1. n - 1 \notin sizes
        <4> HIDE DEF sizes
        <4> QED
          BY <2>1, <2>5
      <3> HIDE DEF Differ, r
      <3> QED
        BY <2>5, <3>1
    <2>7. IsFiniteSet(s) /\ \A b \in s : f[b].amount \in Nat /\ f[b].amount = g[b].amount
      BY <1>1, <2>2
    <2>8. TotalOf(f, s) = TotalOf(f, r) + f[x].amount
      <3>1. Apart(f, s)
        BY <2>2 DEF Apart
      <3>2. IsFiniteSet(s)
        BY <2>7
      <3>3. \A b \in s : f[b].amount \in Nat
        BY <2>7
      <3>4. TotalOf(f, s) = TotalOf(f, s \ {x}) + f[x].amount
        BY <2>4, <3>1, <3>2, <3>3, TotalTake
      <3> QED
        BY <3>4
    <2>9. TotalOf(g, s) = TotalOf(g, r) + g[x].amount
      <3>1. Apart(g, s)
        BY <2>2 DEF Apart
      <3>2. IsFiniteSet(s)
        BY <2>7
      <3>3. \A b \in s : g[b].amount \in Nat
        BY <2>7
      <3>4. TotalOf(g, s) = TotalOf(g, s \ {x}) + g[x].amount
        BY <2>4, <3>1, <3>2, <3>3, TotalTake
      <3> QED
        BY <3>4
    <2> QED
      BY <2>2, <2>4, <2>6, <2>7, <2>8, <2>9
  <1> QED
    BY <1>2, <1>3

LEMMA WorthOfNone == ASSUME NEW a PROVE Worth({}, a) = 0
  BY TotalOfNone DEF Worth

LEMMA WorthSame ==
  ASSUME NEW ids, NEW a, NEW d, \A b \in ids : a[b] = d[b]
  PROVE  Worth(ids, a) = Worth(ids, d)
  <1>1. {[balance |-> b, amount |-> a[b]] : b \in ids}
           = {[balance |-> b, amount |-> d[b]] : b \in ids}
    OBVIOUS
  <1> QED
    BY <1>1 DEF Worth

LEMMA WorthTake ==
  ASSUME NEW ids, IsFiniteSet(ids), NEW a, \A b \in ids : a[b] \in Nat, NEW x \in ids
  PROVE  /\ Worth(ids \ {x}, a) \in Nat
         /\ Worth(ids, a) = Worth(ids \ {x}, a) + a[x]
  <1> DEFINE p == [b \in ids |-> [balance |-> b, amount |-> a[b]]]
  <1>1. \A b \in ids : p[b] = [balance |-> b, amount |-> a[b]]
    OBVIOUS
  <1>2. Worth(ids, a) = TotalOf(p, ids)
    <2>1. {p[b] : b \in ids} = {[balance |-> b, amount |-> a[b]] : b \in ids}
      BY <1>1
    <2> QED
      BY <2>1 DEF Worth, TotalOf
  <1>3. Worth(ids \ {x}, a) = TotalOf(p, ids \ {x})
    <2>1. {p[b] : b \in ids \ {x}} = {[balance |-> b, amount |-> a[b]] : b \in ids \ {x}}
      BY <1>1
    <2> QED
      BY <2>1 DEF Worth, TotalOf
  <1>4. /\ \A b \in ids : p[b].amount \in Nat
        /\ Apart(p, ids)
        /\ p[x].amount = a[x]
    BY <1>1 DEF Apart
  <1> HIDE DEF p
  <1>5. /\ TotalOf(p, ids \ {x}) \in Nat
        /\ TotalOf(p, ids) = TotalOf(p, ids \ {x}) + p[x].amount
    BY <1>4, TotalTake
  <1> QED
    BY <1>2, <1>3, <1>4, <1>5

LEMMA WorthNat ==
  ASSUME NEW ids, IsFiniteSet(ids), NEW a, \A b \in ids : a[b] \in Nat
  PROVE  Worth(ids, a) \in Nat
  <1>1. CASE ids = {}
    BY <1>1, WorthOfNone
  <1>2. CASE ids # {}
    <2>1. PICK x : x \in ids
      BY <1>2
    <2>2. Worth(ids \ {x}, a) \in Nat /\ Worth(ids, a) = Worth(ids \ {x}, a) + a[x]
      BY <2>1, WorthTake
    <2>3. a[x] \in Nat
      BY <2>1
    <2> QED
      BY <2>2, <2>3
  <1> QED
    BY <1>1, <1>2

LEMMA WorthOfOne ==
  ASSUME NEW x, NEW a, a[x] \in Nat
  PROVE  Worth({x}, a) = a[x]
  <1> DEFINE row == [balance |-> x, amount |-> a[x]]
  <1>1. Worth({x}, a) = Total({row})
    <2>1. {[balance |-> b, amount |-> a[b]] : b \in {x}} = {row}
      OBVIOUS
    <2> QED
      BY <2>1 DEF Worth
  <1>2. IsFiniteSet({row}) /\ \A r \in {row} : r.amount \in Nat
    <2>1. row.amount \in Nat
      OBVIOUS
    <2> HIDE DEF row
    <2> QED
      BY <2>1, FS_Singleton
  <1>3. row \in {row} /\ {} \subseteq {row} /\ row \notin {} /\ row.amount = a[x]
    OBVIOUS
  <1>4. {} \cup {row} = {row}
    OBVIOUS
  <1> HIDE DEF row
  <1>5. Total({} \cup {row}) = Total({}) + row.amount
    BY <1>2, <1>3, TotalAdd
  <1>6. Total({row}) = a[x]
    BY <1>3, <1>4, <1>5, TotalOfNone
  <1> QED
    BY <1>1, <1>6

(* What an amount adds to a sum over ids.                                  *)
Part(b, ids, a) == IF b \in ids THEN a[b] ELSE 0

(* If it is so balance by balance, what some held before is what some hold *)
(* after and what some gave, or have got.                                  *)
LEMMA WorthAddsUp ==
  ASSUME NEW U, IsFiniteSet(U), NEW F, NEW G, NEW T, F \subseteq U, G \subseteq U, T \subseteq U,
         NEW f, NEW g, NEW t,
         \A b \in F : f[b] \in Nat, \A b \in G : g[b] \in Nat, \A b \in T : t[b] \in Nat,
         \A b \in U : Part(b, F, f) = Part(b, G, g) + Part(b, T, t)
  PROVE  Worth(F, f) = Worth(G, g) + Worth(T, t)
  <1> DEFINE AddUp(s) == Worth(F \cap s, f) = Worth(G \cap s, g) + Worth(T \cap s, t)
             sizes == {n \in Nat : \E s \in SUBSET U : Cardinality(s) = n /\ ~ AddUp(s)}
  <1>1. ASSUME NEW s \in SUBSET U PROVE IsFiniteSet(s) /\ Cardinality(s) \in Nat
    BY FS_Subset, FS_CardinalityType
  <1>2. CASE sizes = {}
    <2>1. U \in SUBSET U /\ Cardinality(U) \in Nat
      BY <1>1
    <2>2. AddUp(U)
      BY <1>2, <2>1
    <2>3. F \cap U = F /\ G \cap U = G /\ T \cap U = T
      OBVIOUS
    <2> QED
      BY <2>2, <2>3
  <1>3. CASE sizes # {}
    <2>1. PICK n \in sizes : \A m \in sizes : n <= m
      BY <1>3, LeastNat
    <2>2. PICK s \in SUBSET U : Cardinality(s) = n /\ ~ AddUp(s)
      BY <2>1
    <2>3. CASE s = {}
      <3>1. F \cap s = {} /\ G \cap s = {} /\ T \cap s = {}
        BY <2>3
      <3> QED
        BY <2>2, <3>1, WorthOfNone
    <2>4. CASE s # {}
      <3>1. PICK x : x \in s
        BY <2>4
      <3> DEFINE r == s \ {x}
      <3>2. r \in SUBSET U /\ Cardinality(r) = n - 1 /\ Cardinality(r) \in Nat /\ n \in Nat
        BY <1>1, <2>1, <2>2, <3>1, FS_RemoveElement
      <3>3. AddUp(r)
        <4>1. n - 1 \notin sizes
          <5> HIDE DEF sizes
          <5> QED
            BY <2>1, <3>2
        <4> HIDE DEF AddUp, r
        <4> QED
          BY <3>2, <4>1
      <3>4. ASSUME NEW ids, ids \subseteq U, NEW a, \A b \in ids : a[b] \in Nat
            PROVE  /\ Worth(ids \cap r, a) \in Nat /\ Part(x, ids, a) \in Nat
                   /\ Worth(ids \cap s, a) = Worth(ids \cap r, a) + Part(x, ids, a)
        <4>1. IsFiniteSet(ids \cap s) /\ \A b \in ids \cap s : a[b] \in Nat
          BY <1>1, <3>4
        <4>2. CASE x \in ids
          <5>1. x \in ids \cap s /\ (ids \cap s) \ {x} = ids \cap r
            BY <3>1, <4>2
          <5>2. /\ Worth((ids \cap s) \ {x}, a) \in Nat
                /\ Worth(ids \cap s, a) = Worth((ids \cap s) \ {x}, a) + a[x]
            BY <4>1, <5>1, WorthTake
          <5> QED
            BY <3>4, <4>2, <5>1, <5>2 DEF Part
        <4>3. CASE x \notin ids
          <5>1. ids \cap s = ids \cap r
            BY <4>3
          <5>2. Worth(ids \cap s, a) \in Nat
            BY <4>1, WorthNat
          <5>3. Worth(ids \cap r, a) = Worth(ids \cap s, a) /\ Part(x, ids, a) = 0
            BY <4>3, <5>1 DEF Part
          <5> HIDE DEF r
          <5> QED
            BY <5>2, <5>3
        <4> QED
          BY <4>2, <4>3
      <3>5. Part(x, F, f) = Part(x, G, g) + Part(x, T, t)
        BY <2>2, <3>1
      <3>6. /\ Worth(F \cap r, f) \in Nat /\ Part(x, F, f) \in Nat
            /\ Worth(F \cap s, f) = Worth(F \cap r, f) + Part(x, F, f)
        BY <3>4
      <3>7. /\ Worth(G \cap r, g) \in Nat /\ Part(x, G, g) \in Nat
            /\ Worth(G \cap s, g) = Worth(G \cap r, g) + Part(x, G, g)
        BY <3>4
      <3>8. /\ Worth(T \cap r, t) \in Nat /\ Part(x, T, t) \in Nat
            /\ Worth(T \cap s, t) = Worth(T \cap r, t) + Part(x, T, t)
        BY <3>4
      <3>9. Worth(F \cap r, f) = Worth(G \cap r, g) + Worth(T \cap r, t)
        BY <3>3
      <3>10. Worth(F \cap s, f) = Worth(G \cap s, g) + Worth(T \cap s, t)
        <4> HIDE DEF r
        <4> QED
          BY <3>5, <3>6, <3>7, <3>8, <3>9
      <3> QED
        BY <2>2, <3>10
    <2> QED
      BY <2>3, <2>4
  <1> QED
    BY <1>2, <1>3
-----------------------------------------------------------------------------
(***************************************************************************)
(* The refinement: what a step of the ledger does to the accounts.         *)
(***************************************************************************)

Currents == [b \in BalanceIds |-> balances[b].current]

BalancesTold ==
    /\ IsFiniteSet(BalanceIds) /\ Len(balances) \in Nat /\ BalanceIds = 1 .. Len(balances)
    /\ \A b \in BalanceIds : /\ balances[b] \in Balance /\ Currents[b] = balances[b].current
                             /\ Currents[b] \in Nat

LEMMA BalanceFacts == LedgerInv => BalancesTold
  <1> SUFFICES ASSUME LedgerInv PROVE BalancesTold
    OBVIOUS
  <1>1. balances \in Seq(Balance)
    BY DEF LedgerInv, TypeOK
  <1>2. Len(balances) \in Nat /\ BalanceIds = 1 .. Len(balances)
    BY <1>1 DEF BalanceIds
  <1>3. IsFiniteSet(BalanceIds)
    BY <1>2, FS_Interval
  <1>4. \A b \in BalanceIds : balances[b] \in Balance
    BY IdsOfBalances
  <1> QED
    BY <1>2, <1>3, <1>4 DEF BalancesTold, Currents, Balance

(* A balance that findMany leaves out holds nothing.                       *)
HeldTold ==
    \A client \in Clients :
        /\ Held(client) \in Nat
        /\ \A b \in BalanceIds :
              Part(b, ActiveBalances(client), Currents)
                 = IF balances[b].client = client THEN balances[b].current ELSE 0

LEMMA HeldFacts == LedgerInv => HeldTold
  <1> SUFFICES ASSUME LedgerInv, NEW client \in Clients
               PROVE  /\ Held(client) \in Nat
                      /\ \A b \in BalanceIds :
                            Part(b, ActiveBalances(client), Currents)
                               = IF balances[b].client = client THEN balances[b].current ELSE 0
    BY DEF HeldTold
  <1>1. BalancesTold /\ ActiveBalances(client) \subseteq BalanceIds
    BY BalanceFacts DEF ActiveBalances
  <1>2. IsFiniteSet(ActiveBalances(client)) /\ \A b \in ActiveBalances(client) : Currents[b] \in Nat
    BY <1>1, FS_Subset DEF BalancesTold
  <1>3. Worth(ActiveBalances(client), Currents) \in Nat
    BY <1>2, WorthNat
  <1>4. ASSUME NEW b \in BalanceIds
        PROVE  Part(b, ActiveBalances(client), Currents)
                  = IF balances[b].client = client THEN balances[b].current ELSE 0
    <2>1. balances[b].status \in Statuses /\ Currents[b] = balances[b].current
      BY <1>1 DEF Balance, BalancesTold
    <2>2. balances[b].status \notin Active => balances[b].current = 0
      BY <2>1 DEF LedgerInv, StatusTellsAmount, Statuses, Active
    <2> QED
      BY <2>1, <2>2 DEF Part, ActiveBalances
  <1> QED
    BY <1>3, <1>4 DEF Held, Currents

(* What a client holds changes by the sum of the changes.                  *)
LEMMA HeldMoves ==
  ASSUME LedgerInv, LedgerInv', BalanceIds \subseteq BalanceIds', NEW client \in Clients,
         NEW T, T \subseteq BalanceIds', NEW t, \A b \in T : t[b] \in Nat
  PROVE  /\ (\A b \in BalanceIds' :
                Part(b, ActiveBalances(client)', Currents')
                   = Part(b, ActiveBalances(client), Currents) + Part(b, T, t))
               => Held(client)' = Held(client) + Worth(T, t)
         /\ (\A b \in BalanceIds' :
                Part(b, ActiveBalances(client), Currents)
                   = Part(b, ActiveBalances(client)', Currents') + Part(b, T, t))
               => Held(client) = Held(client)' + Worth(T, t)
  <1> DEFINE F == ActiveBalances(client)
             G == ActiveBalances(client)'
             f == Currents
             g == Currents'
             U == BalanceIds'
  <1>1. IsFiniteSet(U) /\ \A b \in U : g[b] \in Nat
    <2>1. BalancesTold'
      BY BalanceFacts, PTL
    <2> QED
      BY <2>1 DEF BalancesTold
  <1>2. F \subseteq U /\ G \subseteq U
    BY DEF ActiveBalances
  <1>3. \A b \in F : f[b] \in Nat
    BY BalanceFacts DEF ActiveBalances, BalancesTold
  <1>4. \A b \in G : g[b] \in Nat
    BY <1>1, <1>2
  <1>5. Held(client) = Worth(F, f) /\ Held(client)' = Worth(G, g)
    BY DEF Held, Currents
  <1>6. ASSUME \A b \in U : Part(b, G, g) = Part(b, F, f) + Part(b, T, t)
        PROVE  Worth(G, g) = Worth(F, f) + Worth(T, t)
    <2>1. T \subseteq U
      OBVIOUS
    <2> HIDE DEF F, G, f, g, U
    <2> QED
      BY <1>1, <1>2, <1>3, <1>4, <1>6, <2>1, WorthAddsUp
  <1>7. ASSUME \A b \in U : Part(b, F, f) = Part(b, G, g) + Part(b, T, t)
        PROVE  Worth(F, f) = Worth(G, g) + Worth(T, t)
    <2>1. T \subseteq U
      OBVIOUS
    <2> HIDE DEF F, G, f, g, U
    <2> QED
      BY <1>1, <1>2, <1>3, <1>4, <1>7, <2>1, WorthAddsUp
  <1> QED
    BY <1>5, <1>6, <1>7

LEMMA HeldKept ==
  ASSUME balances' = balances
  PROVE  AccountsHeld' = AccountsHeld
  <1>1. \A client \in Clients : Held(client)' = Held(client)
    BY DEF Held, ActiveBalances, BalanceIds
  <1> QED
    BY <1>1 DEF AccountsHeld

(* The answer is told by where the call is.                                *)
LEMMA AnswerTold ==
  ASSUME NEW call
  PROVE  /\ call.pc = Idle => AnswerOf(call) = "none"
         /\ call.pc = "reading" => AnswerOf(call) = "asked"
         /\ call.pc = "applying" => AnswerOf(call) = IF Short(call) THEN "short" ELSE "asked"
         /\ call.pc = "applied" => AnswerOf(call) = "paid"
         /\ call.pc \in {"noBalance", "insufficient"} => AnswerOf(call) = "refused"
         /\ call.pc \in {"failed", "crashed"} => AnswerOf(call) = "failed"
  BY DEF AnswerOf, Idle, InFlight, Short

LEMMA OneAnswers ==
  ASSUME NEW c \in Calls, NEW to, AnswerOf(calls'[c]) = to,
         \A d \in Calls : d # c => calls'[d] = calls[d]
  PROVE  AnswersGiven' = [AnswersGiven EXCEPT ![c] = to]
  BY DEF AnswersGiven

LEMMA AskedKept ==
  ASSUME \A d \in Calls : calls'[d].client = calls[d].client /\ calls'[d].amount = calls[d].amount
  PROVE  Asked' = Asked
  BY DEF Asked

(* A call that does not move is overtaken by nothing but a balance that    *)
(* does.                                                                   *)
LEMMA OvertakenKept ==
  ASSUME LedgerInv, NEW c \in Calls, calls'[c] = calls[c],
         \A b \in BalanceIds : b \in BalanceIds' /\ balances'[b] = balances[b]
  PROVE  c \in OvertakenCalls' <=> c \in OvertakenCalls
  <1>1. calls[c].pc = "applying" => DOMAIN calls[c].seen \subseteq BalanceIds
    <2>1. calls[c].seen \in Seq(Nat) /\ Len(calls[c].seen) \in Nat
      BY DEF LedgerInv, TypeOK, Call
    <2>2. calls[c].pc = "applying" => Len(calls[c].seen) <= Len(balances)
      BY DEF LedgerInv, CallAgrees
    <2> QED
      BY <2>1, <2>2, BalanceFacts DEF BalancesTold
  <1> QED
    BY <1>1 DEF Overtaken, OvertakenCalls

BookedTold ==
    \A c \in Calls : Booked[c] = IF calls[c].pc = "applied" THEN calls[c].amount ELSE 0

LEMMA BookedFacts == RowsInv /\ AmountsInv => BookedTold
  <1> SUFFICES ASSUME RowsInv, AmountsInv, NEW c \in Calls
               PROVE  Booked[c] = IF calls[c].pc = "applied" THEN calls[c].amount ELSE 0
    BY DEF BookedTold
  <1>1. CASE calls[c].pc = "applied"
    BY <1>1 DEF AmountsInv, Booked
  <1>2. CASE calls[c].pc # "applied"
    <2>1. {p \in payments : p.call = c} = {}
      BY <1>2 DEF RowsInv
    <2>2. Booked[c] = Total({})
      BY <2>1 DEF Booked
    <2> QED
      BY <1>2, <2>2, TotalOfNone
  <1> QED
    BY <1>1, <1>2

LEMMA BookedKept ==
  ASSUME payments' = payments
  PROVE  Booked' = Booked
  BY DEF Booked
-----------------------------------------------------------------------------
(***************************************************************************)
(* Every operation is a step of the account, or none.                      *)
(***************************************************************************)

LEMMA RegisterAccount ==
  ASSUME LedgerInv, LedgerInv', NEW client \in Clients, NEW txn \in Txns,
         NEW received \in Amounts, NEW expected \in Amounts,
         RegisterBalance(client, txn, received, expected)
  PROVE  Account!Deposit(client, received)
  <1> DEFINE new == Len(balances) + 1
             row == [client |-> client, txn |-> txn, initial |-> received,
                     current |-> received, status |-> "AVAILABLE"]
             t == [b \in {new} |-> received]
  <1>1. BalancesTold /\ HeldTold /\ BalancesTold' /\ HeldTold'
    BY BalanceFacts, HeldFacts, PTL
  <1>2. received \in Nat /\ row \in Balance /\ balances \in Seq(Balance)
    BY LedgerAssumption DEF Balance, Statuses, LedgerInv, TypeOK
  <1>3. /\ BalanceIds' = BalanceIds \cup {new} /\ new \notin BalanceIds
        /\ \A b \in BalanceIds : b \in BalanceIds' /\ balances'[b] = balances[b]
        /\ balances'[new] = row
    <2>1. /\ Len(balances') = new
          /\ \A b \in 1 .. Len(balances) : balances'[b] = balances[b]
          /\ balances'[new] = row
      BY <1>2, AppendProperties DEF RegisterBalance
    <2>2. BalanceIds = 1 .. Len(balances) /\ BalanceIds' = 1 .. new /\ Len(balances) \in Nat
      BY <1>1, <2>1 DEF BalancesTold
    <2> QED
      BY <2>1, <2>2
  <1>4. ASSUME NEW cl \in Clients
        PROVE  Held(cl)' = Held(cl) + (IF cl = client THEN received ELSE 0)
    <2> DEFINE T == IF cl = client THEN {new} ELSE {}
    <2>1. T \subseteq BalanceIds' /\ \A b \in T : t[b] \in Nat
      BY <1>2, <1>3
    <2>2. ASSUME NEW b \in BalanceIds'
          PROVE  Part(b, ActiveBalances(cl)', Currents')
                    = Part(b, ActiveBalances(cl), Currents) + Part(b, T, t)
      <3>1. Part(b, ActiveBalances(cl)', Currents')
               = IF balances'[b].client = cl THEN balances'[b].current ELSE 0
        BY <1>1 DEF HeldTold
      <3>2. CASE b = new
        <4>1. Part(b, ActiveBalances(cl), Currents) = 0
          BY <1>3, <3>2 DEF Part, ActiveBalances
        <4>2. Part(b, T, t) = IF cl = client THEN received ELSE 0
          BY <3>2 DEF Part
        <4> QED
          BY <1>2, <1>3, <3>1, <3>2, <4>1, <4>2
      <3>3. CASE b # new
        <4>1. Part(b, ActiveBalances(cl), Currents)
                 = IF balances[b].client = cl THEN balances[b].current ELSE 0
          BY <1>1, <1>3, <3>3 DEF HeldTold
        <4>2. Part(b, T, t) = 0
          BY <3>3 DEF Part
        <4>3. balances'[b] = balances[b] /\ balances[b].current \in Nat
          BY <1>1, <1>3, <3>3 DEF BalancesTold, Balance
        <4> QED
          BY <3>1, <4>1, <4>2, <4>3
      <3> QED
        BY <3>2, <3>3
    <2>3. Held(cl)' = Held(cl) + Worth(T, t)
      <3> HIDE DEF T, t
      <3> QED
        BY <1>3, <2>1, <2>2, HeldMoves
    <2>4. Worth(T, t) = IF cl = client THEN received ELSE 0
      <3>1. CASE cl = client
        <4>1. t[new] = received
          OBVIOUS
        <4> HIDE DEF t, new
        <4>2. Worth({new}, t) = received
          BY <1>2, <4>1, WorthOfOne
        <4> QED
          BY <3>1, <4>2
      <3>2. CASE cl # client
        BY <3>2, WorthOfNone
      <3> QED
        BY <3>1, <3>2
    <2> QED
      BY <2>3, <2>4
  <1>5. AccountsHeld' = [AccountsHeld EXCEPT ![client] = @ + received]
    <2>1. \A cl \in Clients : cl # client => Held(cl)' = Held(cl)
      BY <1>1, <1>4 DEF HeldTold
    <2>2. Held(client)' = Held(client) + received
      BY <1>4
    <2> QED
      BY <2>1, <2>2 DEF AccountsHeld
  <1>6. /\ calls' = calls /\ payments' = payments
    BY DEF RegisterBalance
  <1>7. Asked' = Asked /\ AnswersGiven' = AnswersGiven /\ Booked' = Booked
    BY <1>6 DEF Asked, AnswersGiven, Booked
  <1>8. OvertakenCalls' = OvertakenCalls
    <2>1. \A d \in Calls : d \in OvertakenCalls' <=> d \in OvertakenCalls
      BY <1>3, <1>6, OvertakenKept
    <2> QED
      BY <2>1 DEF OvertakenCalls
  <1> QED
    BY <1>5, <1>7, <1>8 DEF Account!Deposit

LEMMA StartAccount ==
  ASSUME LedgerInv, NEW c \in Calls, NEW client \in Clients, NEW amount \in Amounts,
         StartApply(c, client, amount)
  PROVE  Account!Ask(c, client, amount)
  <1>1. /\ calls[c].pc = Idle /\ calls'[c].pc = "reading"
        /\ calls'[c].client = client /\ calls'[c].amount = amount
        /\ \A d \in Calls : d # c => calls'[d] = calls[d]
        /\ balances' = balances /\ payments' = payments
    BY DEF LedgerInv, TypeOK, Call, StartApply, tables
  <1>2. AccountsHeld' = AccountsHeld /\ Booked' = Booked
    BY <1>1, HeldKept, BookedKept
  <1>3. AnswersGiven[c] = "none" /\ AnswersGiven' = [AnswersGiven EXCEPT ![c] = "asked"]
    <2>1. AnswerOf(calls[c]) = "none" /\ AnswerOf(calls'[c]) = "asked"
      BY <1>1, AnswerTold
    <2> QED
      BY <1>1, <2>1, OneAnswers DEF AnswersGiven
  <1>4. Asked' = [Asked EXCEPT ![c] = [client |-> client, amount |-> amount]]
    BY <1>1 DEF Asked
  <1>5. OvertakenCalls' = OvertakenCalls
    <2>1. c \notin OvertakenCalls /\ c \notin OvertakenCalls'
      BY <1>1 DEF OvertakenCalls, Overtaken, Idle
    <2>2. \A d \in Calls : d # c => (d \in OvertakenCalls' <=> d \in OvertakenCalls)
      BY <1>1, OvertakenKept DEF BalanceIds
    <2> QED
      BY <2>1, <2>2 DEF OvertakenCalls
  <1> QED
    BY <1>2, <1>3, <1>4, <1>5 DEF Account!Ask, Account!Answer

(* A call ends that commits nothing.                                       *)
LEMMA EndAccount ==
  ASSUME LedgerInv, NEW c \in Calls, NEW pc \in Ended,
         calls' = [calls EXCEPT ![c] = Finished(@, pc)], UNCHANGED tables
  PROVE  /\ AccountsHeld' = AccountsHeld /\ Booked' = Booked /\ Asked' = Asked
         /\ OvertakenCalls' = OvertakenCalls \ {c}
         /\ calls'[c].pc = pc
         /\ \A d \in Calls : d # c => calls'[d] = calls[d]
  <1>1. calls \in [Calls -> Call]
    BY DEF LedgerInv, TypeOK
  <1>2. /\ calls'[c].pc = pc
        /\ \A d \in Calls : d # c => calls'[d] = calls[d]
        /\ balances' = balances /\ payments' = payments
    BY <1>1, FinishedCall DEF tables
  <1>3. calls'[c].client = calls[c].client /\ calls'[c].amount = calls[c].amount
    BY <1>1 DEF Finished, Call
  <1>4. OvertakenCalls' = OvertakenCalls \ {c}
    <2>1. c \notin OvertakenCalls'
      BY <1>2 DEF OvertakenCalls, Overtaken, Ended
    <2>2. \A d \in Calls : d # c => (d \in OvertakenCalls' <=> d \in OvertakenCalls)
      BY <1>2, OvertakenKept DEF BalanceIds
    <2> QED
      BY <2>1, <2>2 DEF OvertakenCalls
  <1> QED
    BY <1>2, <1>3, <1>4, HeldKept, BookedKept, AskedKept

LEMMA RefuseAccount ==
  ASSUME LedgerInv, NEW c \in Calls, RefuseApply(c)
  PROVE  Account!Refuse(c)
  <1>1. /\ calls[c].pc = "applying" /\ calls[c].plan = {} /\ calls[c].left > 0
        /\ calls' = [calls EXCEPT ![c] = Finished(@, "insufficient")]
        /\ UNCHANGED tables /\ "insufficient" \in Ended
    BY DEF RefuseApply, Ended
  <1>2. /\ AccountsHeld' = AccountsHeld /\ Booked' = Booked /\ Asked' = Asked
        /\ OvertakenCalls' = OvertakenCalls \ {c}
        /\ calls'[c].pc = "insufficient"
        /\ \A d \in Calls : d # c => calls'[d] = calls[d]
    BY <1>1, EndAccount
  <1>3. Short(calls[c])
    <2>1. calls[c].left \in Nat
      BY DEF LedgerInv, TypeOK, Call
    <2> QED
      BY <1>1, <2>1, WorthOfNone DEF Short
  <1>4. AnswerOf(calls[c]) = "short" /\ AnswerOf(calls'[c]) = "refused"
    BY <1>1, <1>2, <1>3, AnswerTold
  <1>5. AnswersGiven[c] = "short" /\ AnswersGiven' = [AnswersGiven EXCEPT ![c] = "refused"]
    BY <1>2, <1>4, OneAnswers DEF AnswersGiven
  <1> QED
    BY <1>2, <1>5 DEF Account!Refuse, Account!Answer

LEMMA FailAccount ==
  ASSUME LedgerInv, NEW c \in Calls, FailApply(c)
  PROVE  Account!Fail({c})
  <1>1. /\ calls[c].pc \in InFlight
        /\ calls' = [calls EXCEPT ![c] = Finished(@, "failed")]
        /\ UNCHANGED tables /\ "failed" \in Ended
    BY DEF FailApply, Ended
  <1>2. /\ AccountsHeld' = AccountsHeld /\ Booked' = Booked /\ Asked' = Asked
        /\ OvertakenCalls' = OvertakenCalls \ {c}
        /\ calls'[c].pc = "failed"
        /\ \A d \in Calls : d # c => calls'[d] = calls[d]
    BY <1>1, EndAccount
  <1>3. AnswerOf(calls[c]) \in {"asked", "short"} /\ AnswerOf(calls'[c]) = "failed"
    BY <1>1, <1>2, AnswerTold DEF InFlight
  <1>4. /\ AnswersGiven[c] \in {"asked", "short"}
        /\ AnswersGiven' = [d \in Calls |-> IF d \in {c} THEN "failed" ELSE AnswersGiven[d]]
    BY <1>2, <1>3 DEF AnswersGiven
  <1> QED
    BY <1>2, <1>4 DEF Account!Fail, Account!Open

LEMMA CrashAccount ==
  ASSUME LedgerInv, Crash
  PROVE  \E cut \in SUBSET Calls : Account!Fail(cut)
  <1> DEFINE cut == {c \in Calls : calls[c].pc \in InFlight}
  <1>1. calls \in [Calls -> Call] /\ balances' = balances /\ payments' = payments
    BY DEF LedgerInv, TypeOK, Crash, tables
  <1>2. ASSUME NEW c \in Calls
        PROVE  /\ calls'[c].client = calls[c].client /\ calls'[c].amount = calls[c].amount
               /\ c \in cut => calls'[c].pc = "crashed"
               /\ c \notin cut => calls'[c] = calls[c]
    <2>1. calls'[c] = IF c \in cut THEN Finished(calls[c], "crashed") ELSE calls[c]
      BY DEF Crash
    <2>2. calls[c] \in Call
      BY <1>1
    <2> QED
      BY <2>1, <2>2 DEF Finished, Call
  <1>3. AccountsHeld' = AccountsHeld /\ Booked' = Booked /\ Asked' = Asked
    BY <1>1, <1>2, HeldKept, BookedKept, AskedKept
  <1>4. \A c \in cut : AnswersGiven[c] \in {"asked", "short"}
    <2>1. \A c \in cut : AnswerOf(calls[c]) \in {"asked", "short"}
      BY AnswerTold DEF InFlight
    <2> QED
      BY <2>1 DEF AnswersGiven
  <1>5. AnswersGiven' = [c \in Calls |-> IF c \in cut THEN "failed" ELSE AnswersGiven[c]]
    <2>1. \A c \in cut : AnswerOf(calls'[c]) = "failed"
      BY <1>2, AnswerTold
    <2> QED
      BY <1>2, <2>1 DEF AnswersGiven
  <1>6. OvertakenCalls' = OvertakenCalls \ cut
    <2>1. \A c \in cut : c \notin OvertakenCalls'
      BY <1>2 DEF OvertakenCalls, Overtaken
    <2>2. \A c \in Calls \ cut : c \in OvertakenCalls' <=> c \in OvertakenCalls
      BY <1>1, <1>2 DEF OvertakenCalls, Overtaken
    <2> QED
      BY <2>1, <2>2 DEF OvertakenCalls
  <1>7. Account!Fail(cut)
    <2> HIDE DEF cut
    <2> QED
      BY <1>3, <1>4, <1>5, <1>6 DEF Account!Fail, Account!Open
  <1> QED
    BY <1>7

(* The snapshot finds what the account holds.                              *)
LEMMA ReadAccount ==
  ASSUME LedgerInv, AmountsInv, NEW c \in Calls, ReadBalances(c)
  PROVE  \/ Account!FindShort(c) \/ Account!FindEmpty(c)
         \/ UNCHANGED Account!accountVars
  <1> DEFINE call == calls[c]
             active == ActiveBalances(call.client)
             looked == [call EXCEPT !.pc = "applying", !.plan = active, !.seen = Currents,
                                    !.take = [b \in BalanceIds |-> 0]]
  <1>1. /\ calls \in [Calls -> Call] /\ call \in Call /\ call.client \in Clients
        /\ call.pc = "reading" /\ call.left = call.amount /\ call.amount \in Nat
    BY DEF LedgerInv, TypeOK, Call, ReadBalances, AmountsInv, DrawsAgree
  <1>2. Held(call.client) = Worth(active, Currents) /\ Held(call.client) \in Nat
    BY <1>1, HeldFacts DEF HeldTold, Held, Currents
  <1>3. AnswerOf(call) = "asked" /\ AnswersGiven[c] = "asked"
    BY <1>1, AnswerTold DEF AnswersGiven
  <1>4. CASE active = {}
    <2>1. /\ AccountsHeld' = AccountsHeld /\ Booked' = Booked /\ Asked' = Asked
          /\ OvertakenCalls' = OvertakenCalls \ {c}
          /\ calls'[c].pc = "noBalance"
          /\ \A d \in Calls : d # c => calls'[d] = calls[d]
      BY <1>4, EndAccount DEF ReadBalances, Ended
    <2>2. c \notin OvertakenCalls
      BY <1>1 DEF OvertakenCalls, Overtaken
    <2>3. AnswersGiven' = [AnswersGiven EXCEPT ![c] = "refused"]
      <3>1. AnswerOf(calls'[c]) = "refused"
        BY <2>1, AnswerTold
      <3> QED
        BY <2>1, <3>1, OneAnswers
    <2>4. AccountsHeld[Asked[c].client] = 0
      BY <1>1, <1>2, <1>4, WorthOfNone DEF AccountsHeld, Asked
    <2> QED
      BY <1>3, <2>1, <2>2, <2>3, <2>4
         DEF Account!FindEmpty, Account!Answer, Account!AccountOf
  <1>5. CASE active # {}
    <2>1. /\ calls'[c] = looked /\ balances' = balances /\ payments' = payments
          /\ \A d \in Calls : d # c => calls'[d] = calls[d]
      BY <1>1, <1>5 DEF ReadBalances, tables, Currents
    <2>2. /\ looked.pc = "applying" /\ looked.plan = active /\ looked.seen = Currents
          /\ looked.left = call.amount /\ looked.client = call.client
          /\ looked.amount = call.amount
      BY <1>1 DEF Call
    <2> HIDE DEF looked
    <2>3. AccountsHeld' = AccountsHeld /\ Booked' = Booked /\ Asked' = Asked
      BY <2>1, <2>2, HeldKept, BookedKept, AskedKept
    <2>4. OvertakenCalls' = OvertakenCalls
      <3>1. c \notin OvertakenCalls
        BY <1>1 DEF OvertakenCalls, Overtaken
      <3>2. c \notin OvertakenCalls'
        BY <2>1, <2>2 DEF OvertakenCalls, Overtaken, Currents
      <3>3. \A d \in Calls : d # c => (d \in OvertakenCalls' <=> d \in OvertakenCalls)
        BY <2>1, OvertakenKept DEF BalanceIds
      <3> QED
        BY <3>1, <3>2, <3>3 DEF OvertakenCalls
    <2>5. CASE Held(call.client) < call.amount
      <3>1. AnswerOf(calls'[c]) = "short"
        BY <1>2, <2>1, <2>2, <2>5, AnswerTold DEF Short
      <3>2. AnswersGiven' = [AnswersGiven EXCEPT ![c] = "short"]
        BY <2>1, <3>1, OneAnswers
      <3>3. AccountsHeld[Asked[c].client] < Asked[c].amount
        BY <1>1, <2>5 DEF AccountsHeld, Asked
      <3> QED
        BY <1>3, <2>3, <2>4, <3>2, <3>3
           DEF Account!FindShort, Account!Answer, Account!AccountOf
    <2>6. CASE ~ (Held(call.client) < call.amount)
      <3>1. AnswerOf(calls'[c]) = "asked"
        BY <1>2, <2>1, <2>2, <2>6, AnswerTold DEF Short
      <3>2. AnswersGiven' = AnswersGiven
        BY <1>3, <2>1, <3>1 DEF AnswersGiven
      <3> QED
        BY <2>3, <2>4, <3>2 DEF Account!accountVars
    <2> QED
      BY <2>5, <2>6
  <1> QED
    BY <1>4, <1>5

(* A turn of the loop takes as much off what is left as off what there is  *)
(* for it, as long as that will not do.                                    *)
LEMMA UseAccount ==
  ASSUME LedgerInv, NEW c \in Calls, NEW b \in BalanceIds, UseBalance(c, b)
  PROVE  UNCHANGED Account!accountVars
  <1> DEFINE call == calls[c]
             draw == Lesser(call.seen[b], call.left)
  <1>1. /\ calls \in [Calls -> Call] /\ call \in Call
        /\ call.pc = "applying" /\ b \in call.plan
        /\ call.left \in Nat /\ call.left > 0
        /\ call.seen \in Seq(Nat) /\ Len(call.seen) \in Nat
    BY DEF LedgerInv, TypeOK, UseBalance, Oldest, Call
  <1>2. /\ calls'[c].pc = "applying" /\ calls'[c].amount = call.amount
        /\ calls'[c].client = call.client
        /\ calls'[c].plan = call.plan \ {b} /\ calls'[c].seen = call.seen
        /\ calls'[c].left = call.left - draw
        /\ \A d \in Calls : d # c => calls'[d] = calls[d]
        /\ balances' = balances /\ payments' = payments
    <2>1. balances' = balances /\ payments' = payments
      BY DEF UseBalance, tables
    <2>2. calls' = [calls EXCEPT ![c] = [call EXCEPT !.plan = @ \ {b}, !.used = @ \cup {b},
                                                     !.take[b] = draw, !.left = @ - draw]]
      BY <1>1 DEF UseBalance
    <2>3. \A d \in Calls : d # c => calls'[d] = calls[d]
      BY <1>1, <2>2
    <2>4. calls'[c] = [call EXCEPT !.plan = @ \ {b}, !.used = @ \cup {b},
                                   !.take[b] = draw, !.left = @ - draw]
      BY <1>1, <2>2
    <2>5. /\ calls'[c].pc = "applying" /\ calls'[c].amount = call.amount
          /\ calls'[c].client = call.client
          /\ calls'[c].plan = call.plan \ {b} /\ calls'[c].seen = call.seen
          /\ calls'[c].left = call.left - draw
      <3> HIDE DEF call, draw
      <3> QED
        BY <1>1, <2>4 DEF Call
    <2> QED
      BY <2>1, <2>3, <2>5
  <1>3. /\ IsFiniteSet(call.plan) /\ \A o \in call.plan : call.seen[o] \in Nat
    <2>1. call.plan \subseteq 1 .. Len(call.seen)
      BY <1>1 DEF LedgerInv, CallAgrees
    <2>2. IsFiniteSet(1 .. Len(call.seen))
      BY <1>1, FS_Interval
    <2>3. \A o \in 1 .. Len(call.seen) : call.seen[o] \in Nat
      BY <1>1, ElementOfSeq
    <2> QED
      BY <2>1, <2>2, <2>3, FS_Subset
  <1>4. /\ Worth(call.plan \ {b}, call.seen) \in Nat
        /\ Worth(call.plan, call.seen) = Worth(call.plan \ {b}, call.seen) + call.seen[b]
        /\ call.seen[b] \in Nat
    <2>1. call.seen[b] \in Nat
      BY <1>1, <1>3
    <2> DEFINE plan == call.plan
               seen == call.seen
    <2>2. IsFiniteSet(plan) /\ b \in plan /\ \A o \in plan : seen[o] \in Nat
      BY <1>1, <1>3
    <2> HIDE DEF plan, seen
    <2>3. /\ Worth(plan \ {b}, seen) \in Nat
          /\ Worth(plan, seen) = Worth(plan \ {b}, seen) + seen[b]
      BY <2>2, WorthTake
    <2> QED
      BY <2>1, <2>3 DEF plan, seen
  <1>5. Short(calls'[c]) <=> Short(call)
    <2>1. Short(call) <=> Worth(call.plan, call.seen) < call.left
      BY <1>1 DEF Short
    <2>2. Short(calls'[c]) <=> Worth(call.plan \ {b}, call.seen) < call.left - draw
      BY <1>2 DEF Short
    <2>3. draw = IF call.seen[b] <= call.left THEN call.seen[b] ELSE call.left
      BY DEF Lesser
    <2> HIDE DEF call, draw
    <2> QED
      BY <1>1, <1>4, <2>1, <2>2, <2>3
  <1>6. AnswersGiven' = AnswersGiven
    <2>1. AnswerOf(calls'[c]) = AnswerOf(call)
      BY <1>1, <1>2, <1>5, AnswerTold
    <2> QED
      BY <1>2, <2>1 DEF AnswersGiven
  <1>7. AccountsHeld' = AccountsHeld /\ Booked' = Booked /\ Asked' = Asked
    BY <1>2, HeldKept, BookedKept, AskedKept
  <1>8. OvertakenCalls' = OvertakenCalls
    <2>1. c \in OvertakenCalls' <=> c \in OvertakenCalls
      BY <1>1, <1>2 DEF OvertakenCalls, Overtaken
    <2>2. \A d \in Calls : d # c => (d \in OvertakenCalls' <=> d \in OvertakenCalls)
      BY <1>2, OvertakenKept DEF BalanceIds
    <2> QED
      BY <2>1, <2>2 DEF OvertakenCalls
  <1> QED
    BY <1>6, <1>7, <1>8 DEF Account!accountVars

(* What a commit takes from the balances it has used, if it has seen them  *)
(* as they are, is what it was called for; no other client loses anything. *)
LEMMA CommitHeld ==
  ASSUME LedgerInv, LedgerInv', RowsInv, AmountsInv, NEW c \in Calls, CommitApply(c),
         NEW client \in Clients
  PROVE  /\ client # calls[c].client => Held(client)' = Held(client)
         /\ client = calls[c].client /\ ~ Overtaken(calls[c]) =>
               Held(client) = Held(client)' + calls[c].amount
  <1> DEFINE call == calls[c]
  <1>1. BalancesTold /\ HeldTold /\ BalancesTold' /\ HeldTold'
    BY BalanceFacts, HeldFacts, PTL
  <1>2. /\ call.pc = "applying" /\ call.left = 0 /\ call.amount \in Nat /\ call.client \in Clients
        /\ balances' = Written(c) /\ call.seen \in Seq(Nat) /\ VisitsOwn(c) /\ DrawsAgree(c)
    BY DEF LedgerInv, TypeOK, Call, CommitApply, RowsInv, AmountsInv
  <1>3. BalanceIds' = BalanceIds
    BY <1>2 DEF Written, BalanceIds
  <1>4. ASSUME NEW b \in call.used
        PROVE  /\ b \in BalanceIds /\ balances[b].client = call.client
               /\ b \in DOMAIN call.seen
               /\ call.seen[b] \in Nat /\ call.take[b] \in Nat /\ call.take[b] <= call.seen[b]
               /\ balances'[b].current = call.seen[b] - call.take[b]
               /\ balances'[b].client = balances[b].client
    <2>1. /\ b \in BalanceIds /\ call.seen[b] \in Nat /\ call.take[b] \in Nat
          /\ call.take[b] <= call.seen[b] /\ b \in 1 .. Len(call.seen)
      BY UsedIds
    <2>2. balances[b] \in Balance
      BY <1>1, <2>1 DEF BalancesTold
    <2>3. /\ balances'[b].current = call.seen[b] - call.take[b]
          /\ balances'[b].client = balances[b].client
      BY <1>2, <2>1, <2>2 DEF Written, Remaining, Balance
    <2> QED
      BY <1>2, <2>1, <2>3 DEF VisitsOwn
  <1>5. \A b \in BalanceIds \ call.used : balances'[b] = balances[b]
    BY <1>2 DEF Written
  <1>6. ASSUME client # call.client
        PROVE  Held(client)' = Held(client)
    <2>1. ASSUME NEW b \in BalanceIds'
          PROVE  Part(b, ActiveBalances(client)', Currents')
                    = Part(b, ActiveBalances(client), Currents) + Part(b, {}, << >>)
      <3>1. Part(b, ActiveBalances(client)', Currents')
               = IF balances'[b].client = client THEN balances'[b].current ELSE 0
        BY <1>1 DEF HeldTold
      <3>2. Part(b, ActiveBalances(client), Currents)
               = IF balances[b].client = client THEN balances[b].current ELSE 0
        BY <1>1, <1>3 DEF HeldTold
      <3>3. balances[b].current \in Nat
        BY <1>1, <1>3 DEF BalancesTold, Balance
      <3>4. CASE b \in call.used
        BY <1>4, <1>6, <3>1, <3>2, <3>4 DEF Part
      <3>5. CASE b \notin call.used
        BY <1>3, <1>5, <3>1, <3>2, <3>3, <3>5 DEF Part
      <3> QED
        BY <3>4, <3>5
    <2>2. Held(client)' = Held(client) + Worth({}, << >>)
      BY <1>3, <2>1, HeldMoves
    <2>3. Held(client) \in Nat
      BY <1>1 DEF HeldTold
    <2> QED
      BY <2>2, <2>3, WorthOfNone
  <1>7. ASSUME client = call.client, ~ Overtaken(call)
        PROVE  Held(client) = Held(client)' + call.amount
    <2>1. \A b \in call.used : balances[b].current = call.seen[b]
      BY <1>2, <1>4, <1>7 DEF Overtaken
    <2>2. ASSUME NEW b \in BalanceIds'
          PROVE  Part(b, ActiveBalances(client), Currents)
                    = Part(b, ActiveBalances(client)', Currents')
                         + Part(b, call.used, call.take)
      <3>1. Part(b, ActiveBalances(client)', Currents')
               = IF balances'[b].client = client THEN balances'[b].current ELSE 0
        BY <1>1, <1>2 DEF HeldTold
      <3>2. Part(b, ActiveBalances(client), Currents)
               = IF balances[b].client = client THEN balances[b].current ELSE 0
        BY <1>1, <1>2, <1>3 DEF HeldTold
      <3>3. balances[b].current \in Nat
        BY <1>1, <1>3 DEF BalancesTold, Balance
      <3>4. CASE b \in call.used
        <4>1. Part(b, call.used, call.take) = call.take[b]
          BY <3>4 DEF Part
        <4> QED
          BY <1>4, <1>7, <2>1, <3>1, <3>2, <3>4, <4>1
      <3>5. CASE b \notin call.used
        BY <1>3, <1>5, <3>1, <3>2, <3>3, <3>5 DEF Part
      <3> QED
        BY <3>4, <3>5
    <2>3. call.used \subseteq BalanceIds' /\ \A b \in call.used : call.take[b] \in Nat
      BY <1>3, <1>4
    <2>4. Held(client) = Held(client)' + Worth(call.used, call.take)
      <3> HIDE DEF call
      <3> QED
        BY <1>2, <1>3, <2>2, <2>3, HeldMoves
    <2>5. Worth(call.used, call.take) = Total(PaymentsOf(c))
      <3> DEFINE f == [b \in call.used |-> [balance |-> b, amount |-> call.take[b]]]
                 g == [b \in call.used |-> [call |-> c, balance |-> b, txn |-> balances[b].txn,
                                            amount |-> call.take[b]]]
      <3>1. IsFiniteSet(call.used)
        <4>1. call.used \subseteq BalanceIds
          BY <1>4
        <4> QED
          BY <1>1, <4>1, FS_Subset DEF BalancesTold
      <3>2. /\ \A b \in call.used : f[b].amount \in Nat /\ f[b].amount = g[b].amount
            /\ Apart(f, call.used) /\ Apart(g, call.used)
        BY <1>4 DEF Apart
      <3>3. Worth(call.used, call.take) = Total({f[b] : b \in call.used})
        <4>1. {f[b] : b \in call.used}
                 = {[balance |-> b, amount |-> call.take[b]] : b \in call.used}
          OBVIOUS
        <4> QED
          BY <4>1 DEF Worth
      <3>4. PaymentsOf(c) = {g[b] : b \in call.used}
        BY DEF PaymentsOf
      <3>5. Total({f[b] : b \in call.used}) = Total({g[b] : b \in call.used})
        <4> HIDE DEF f, g
        <4> QED
          BY <3>1, <3>2, SameAmounts
      <3> QED
        BY <3>3, <3>4, <3>5
    <2>6. Total(PaymentsOf(c)) = call.amount
      <3>1. Total(PaymentsOf(c)) + 0 = call.amount /\ IsFiniteSet(PaymentsOf(c))
        BY <1>2 DEF DrawsAgree
      <3>2. \A p \in PaymentsOf(c) : p.amount \in Nat
        BY <1>4 DEF PaymentsOf
      <3>3. Total(PaymentsOf(c)) \in Nat
        BY <3>1, <3>2, TotalNat
      <3> QED
        BY <3>1, <3>3
    <2> QED
      BY <2>4, <2>5, <2>6
  <1> QED
    BY <1>6, <1>7

LEMMA CommitAccount ==
  ASSUME LedgerInv, RowsInv, AmountsInv, LedgerInv', RowsInv', AmountsInv',
         NEW c \in Calls, CommitApply(c)
  PROVE  Account!Withdraw(c) \/ Account!Overwrite(c)
  <1> DEFINE call == calls[c]
  <1>0. PICK client \in Clients : client = call.client
    BY DEF LedgerInv, TypeOK, Call
  <1>1. /\ calls \in [Calls -> Call] /\ call \in Call
        /\ call.pc = "applying" /\ call.left = 0 /\ call.amount \in Nat
        /\ IsFiniteSet(call.plan) /\ \A b \in call.plan : call.seen[b] \in Nat
    <2>1. /\ calls \in [Calls -> Call] /\ call \in Call
          /\ call.pc = "applying" /\ call.left = 0 /\ call.amount \in Nat
          /\ call.seen \in Seq(Nat) /\ Len(call.seen) \in Nat
          /\ call.plan \subseteq 1 .. Len(call.seen)
      <3>1. calls \in [Calls -> Call] /\ CallAgrees(c) /\ call.pc = "applying" /\ call.left = 0
        BY DEF LedgerInv, TypeOK, CommitApply
      <3> QED
        BY <3>1 DEF Call, CallAgrees
    <2>2. IsFiniteSet(call.plan)
      <3>1. IsFiniteSet(1 .. Len(call.seen))
        BY <2>1, FS_Interval
      <3> QED
        BY <2>1, <3>1, FS_Subset
    <2>3. \A b \in call.plan : call.seen[b] \in Nat
      BY <2>1, ElementOfSeq
    <2> QED
      BY <2>1, <2>2, <2>3
  <1>2. /\ calls'[c] = Finished(call, "applied") /\ calls'[c].pc = "applied"
        /\ calls'[c].client = client /\ calls'[c].amount = call.amount
        /\ \A d \in Calls : d # c => calls'[d] = calls[d]
    <2>1. "applied" \in {Idle} \cup InFlight \cup Ended
      BY DEF Ended
    <2>2. Finished(call, "applied").pc = "applied" /\ Finished(call, "applied").client = client
      BY <1>0, <1>1, <2>1, FinishedCall
    <2>3. Finished(call, "applied").amount = call.amount
      BY <1>1 DEF Finished, Call
    <2> QED
      BY <1>1, <2>2, <2>3 DEF CommitApply
  <1>3. Asked' = Asked /\ Asked[c].client = client /\ Asked[c].amount = call.amount
    BY <1>0, <1>2, AskedKept DEF Asked
  <1>4. AnswersGiven[c] = "asked" /\ AnswersGiven' = [AnswersGiven EXCEPT ![c] = "paid"]
    <2>1. ~ Short(call)
      <3>1. Worth(call.plan, call.seen) \in Nat
        BY <1>1, WorthNat
      <3> QED
        BY <1>1, <3>1 DEF Short
    <2>2. AnswerOf(call) = "asked" /\ AnswerOf(calls'[c]) = "paid"
      BY <1>1, <1>2, <2>1, AnswerTold
    <2> QED
      BY <1>2, <2>2, OneAnswers DEF AnswersGiven
  <1>5. Booked' = [Booked EXCEPT ![c] = call.amount]
    <2>1. BookedTold /\ BookedTold'
      BY BookedFacts, PTL
    <2>2. Booked'[c] = call.amount /\ \A d \in Calls : d # c => Booked'[d] = Booked[d]
      BY <1>2, <2>1 DEF BookedTold
    <2>3. DOMAIN Booked = Calls /\ DOMAIN Booked' = Calls
      BY DEF Booked
    <2>4. Booked' = [d \in Calls |-> Booked'[d]] /\ Booked = [d \in Calls |-> Booked[d]]
      BY DEF Booked
    <2> QED
      BY <2>2, <2>4
  <1>6. c \notin OvertakenCalls'
    BY <1>2 DEF OvertakenCalls, Overtaken
  <1>7. ASSUME NEW d \in OvertakenCalls', d \notin OvertakenCalls
        PROVE  AnswersGiven[d] \in {"asked", "short"} /\ Asked[d].client = client
    <2>1. d # c /\ d \in Calls /\ calls'[d] = calls[d] /\ calls[d].pc = "applying"
      BY <1>2, <1>6 DEF OvertakenCalls, Overtaken
    <2>2. PICK b \in DOMAIN calls[d].seen :
             /\ balances'[b].client = calls[d].client
             /\ balances'[b].current # calls[d].seen[b]
      BY <1>7, <2>1 DEF OvertakenCalls, Overtaken
    <2>3. b \in BalanceIds
      <3>1. calls[d].seen \in Seq(Nat) /\ Len(calls[d].seen) \in Nat
            /\ Len(calls[d].seen) <= Len(balances)
        BY <2>1 DEF LedgerInv, TypeOK, Call, CallAgrees
      <3> QED
        BY <3>1, BalanceFacts DEF BalancesTold
    <2>4. b \in call.used
      <3>1. balances'[b] # balances[b]
        BY <1>7, <2>1, <2>2 DEF OvertakenCalls, Overtaken
      <3> QED
        BY <2>3, <3>1 DEF CommitApply, Written
    <2>5. balances'[b].client = balances[b].client /\ balances[b].client = client
      <3>1. balances[b] \in Balance
        BY <2>3, BalanceFacts DEF BalancesTold
      <3>2. balances'[b].client = balances[b].client
        BY <2>3, <3>1 DEF CommitApply, Written, Balance
      <3> QED
        BY <1>0, <1>1, <2>4, <3>2 DEF RowsInv, VisitsOwn
    <2>6. AnswerOf(calls[d]) \in {"asked", "short"}
      BY <2>1, AnswerTold
    <2> QED
      BY <2>1, <2>2, <2>5, <2>6 DEF AnswersGiven, Asked
  <1>8. OvertakenCalls' \subseteq OvertakenCalls \cup
           {d \in Calls : /\ AnswersGiven[d] \in {"asked", "short"}
                          /\ Asked[d].client = Asked[c].client}
    <2>1. OvertakenCalls' \subseteq Calls
      BY DEF OvertakenCalls
    <2> QED
      BY <1>3, <1>7, <2>1
  <1>9. Account!Book(c)
    <2> HIDE DEF call
    <2> QED
      BY <1>3, <1>4, <1>5, <1>6, <1>8 DEF Account!Book, Account!Answer, Account!Open
  <1>10. HeldTold /\ HeldTold'
    BY HeldFacts, PTL
  <1>11. \A cl \in Clients \ {client} : Held(cl)' = Held(cl)
    BY <1>0, CommitHeld
  <1>12. CASE c \notin OvertakenCalls
    <2>1. Held(client) = Held(client)' + call.amount
      BY <1>0, <1>12, CommitHeld DEF OvertakenCalls
    <2>2. Held(client) \in Nat /\ Held(client)' \in Nat
      BY <1>10 DEF HeldTold
    <2>3. call.amount <= Held(client) /\ Held(client)' = Held(client) - call.amount
      BY <1>1, <2>1, <2>2
    <2>4. AccountsHeld' = [AccountsHeld EXCEPT ![client] = @ - call.amount]
      BY <1>11, <2>3 DEF AccountsHeld
    <2>5. AccountsHeld[client] = Held(client)
      BY DEF AccountsHeld
    <2> HIDE DEF call
    <2> QED
      BY <1>3, <1>9, <1>12, <2>3, <2>4, <2>5 DEF Account!Withdraw, Account!AccountOf
  <1>13. CASE c \in OvertakenCalls
    <2>1. \A cl \in Clients \ {client} : AccountsHeld'[cl] = AccountsHeld[cl]
      BY <1>11 DEF AccountsHeld
    <2>2. AccountsHeld' \in [Clients -> Nat]
      BY <1>10 DEF HeldTold, AccountsHeld
    <2> HIDE DEF call
    <2> QED
      BY <1>3, <1>9, <1>13, <2>1, <2>2 DEF Account!Overwrite
  <1> QED
    BY <1>12, <1>13

LEMMA AccountStep ==
  ASSUME LedgerInv, RowsInv, AmountsInv, LedgerInv', RowsInv', AmountsInv', [Next]_vars
  PROVE  [Account!AccountNext]_Account!accountVars
  <1>1. ASSUME NEW client \in Clients, NEW txn \in Txns,
               NEW received \in Amounts, NEW expected \in Amounts,
               RegisterBalance(client, txn, received, expected)
        PROVE  Account!AccountNext
    BY <1>1, RegisterAccount DEF Account!AccountNext
  <1>2. ASSUME NEW c \in Calls, NEW client \in Clients, NEW amount \in Amounts,
               StartApply(c, client, amount)
        PROVE  Account!AccountNext
    BY <1>2, StartAccount DEF Account!AccountNext
  <1>3. ASSUME NEW c \in Calls, ApplyStep(c)
        PROVE  [Account!AccountNext]_Account!accountVars
    <2>1. CASE ReadBalances(c)
      BY <2>1, ReadAccount DEF Account!AccountNext
    <2>2. ASSUME NEW b \in BalanceIds, UseBalance(c, b)
          PROVE  UNCHANGED Account!accountVars
      BY <2>2, UseAccount
    <2>3. CASE CommitApply(c)
      BY <2>3, CommitAccount DEF Account!AccountNext
    <2>4. CASE RefuseApply(c)
      BY <2>4, RefuseAccount DEF Account!AccountNext
    <2> QED
      BY <1>3, <2>1, <2>2, <2>3, <2>4 DEF ApplyStep
  <1>4. ASSUME NEW c \in Calls, FailApply(c) PROVE Account!AccountNext
    <2>1. {c} \in SUBSET Calls
      OBVIOUS
    <2> QED
      BY <1>4, <2>1, FailAccount DEF Account!AccountNext
  <1>5. CASE Crash
    BY <1>5, CrashAccount DEF Account!AccountNext
  <1>6. CASE UNCHANGED vars
    <2>1. AccountsHeld' = AccountsHeld
      BY <1>6, HeldKept DEF vars
    <2>2. Asked' = Asked /\ AnswersGiven' = AnswersGiven /\ Booked' = Booked
      BY <1>6 DEF vars, Asked, AnswersGiven, Booked
    <2>3. OvertakenCalls' = OvertakenCalls
      BY <1>6 DEF vars, OvertakenCalls, Overtaken
    <2> QED
      BY <2>1, <2>2, <2>3 DEF Account!accountVars
  <1> QED
    BY <1>1, <1>2, <1>3, <1>4, <1>5, <1>6 DEF Next

LEMMA AccountStart == Init => Account!AccountInit
  <1> SUFFICES ASSUME Init PROVE Account!AccountInit
    OBVIOUS
  <1>1. AccountsHeld = [client \in Clients |-> 0]
    <2>1. \A client \in Clients : ActiveBalances(client) = {}
      BY DEF Init, ActiveBalances, BalanceIds
    <2>2. \A client \in Clients : Held(client) = 0
      BY <2>1, WorthOfNone DEF Held
    <2> QED
      BY <2>2 DEF AccountsHeld
  <1>2. ASSUME NEW c \in Calls
        PROVE  calls[c].pc = Idle /\ calls[c].client \in Clients /\ calls[c].amount = 0
    <2> DEFINE someone == CHOOSE cl \in Clients : TRUE
    <2>1. someone \in Clients
      BY LedgerAssumption
    <2>2. calls[c] = [pc |-> Idle, client |-> someone, amount |-> 0, left |-> 0,
                      plan |-> {}, used |-> {}, seen |-> << >>, take |-> << >>]
      BY DEF Init, InitialCall
    <2> HIDE DEF someone
    <2> QED
      BY <2>1, <2>2
  <1>3. Asked \in [Calls -> [client : Clients, amount : Nat]]
    BY <1>2 DEF Asked
  <1>4. AnswersGiven = [c \in Calls |-> "none"]
    <2>1. \A c \in Calls : AnswerOf(calls[c]) = "none"
      BY <1>2, AnswerTold
    <2> QED
      BY <2>1 DEF AnswersGiven
  <1>5. Booked = [c \in Calls |-> 0]
    <2>1. \A c \in Calls : {p \in payments : p.call = c} = {}
      BY DEF Init
    <2>2. \A c \in Calls : Total({p \in payments : p.call = c}) = 0
      BY <2>1, TotalOfNone
    <2> QED
      BY <2>2 DEF Booked
  <1>6. OvertakenCalls = {}
    BY <1>2 DEF OvertakenCalls, Overtaken, Idle
  <1> QED
    BY <1>1, <1>3, <1>4, <1>5, <1>6 DEF Account!AccountInit, Account!Request

(* The rows of the ledger are one account per client, for any balances,    *)
(* calls and interleaving: a call is only refused if the account held too  *)
(* little when it looked, and one that returns has taken, and booked, what *)
(* it was called for, unless another payment of the client came between.   *)
THEOREM ImplementsAccount == Spec => KeepsAccount
  <1> DEFINE Inv == LedgerInv /\ RowsInv /\ AmountsInv
  <1>1. Inv /\ Inv' /\ [Next]_vars => [Account!AccountNext]_Account!accountVars
    BY AccountStep
  <1>2. Spec => []Inv
    BY AmountsInvariant
  <1> QED
    BY <1>1, <1>2, AccountStart, PTL DEF Spec, KeepsAccount, Account!AccountSpec
=============================================================================
