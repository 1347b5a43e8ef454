---------------------------- MODULE QuotesProofs ----------------------------
(***************************************************************************)
(* What holds of Quotes for any number of updates and payments, for every  *)
(* rate, price, balance and configuration of taxes.                        *)
(***************************************************************************)
EXTENDS Quotes, Integers, TLAPS

-----------------------------------------------------------------------------
(***************************************************************************)
(* The rates.  An update counts its attempts before it makes them, so one  *)
(* that is making one has not used them up; what it saves are rates; and   *)
(* one that no other has overlapped saves what differs from the latest row *)
(* still, for it alone inserts.                                            *)
(***************************************************************************)
UpdateRecord == [pc : {"idle", "done"} \cup UpdateInFlight, then : {"scraping", "going"},
                 attempts : 0..MaxAttempts, reading : Readings]

UpdateOK(w) ==
    /\ w \in UpdateRecord
    /\ w.pc \in {"going", "evaluating", "failing"} => w.attempts < MaxAttempts
    /\ w.pc \in {"idle", "launching", "opening"} /\ w.then = "going" => w.attempts < MaxAttempts
    /\ w.pc = "comparing" => w.reading # Missing
    /\ w.pc = "saving" => w.reading \in Rates

RatesInv ==
    /\ dolar_rate \in Seq(Rates)
    /\ site \in Readings /\ changes \in 0..MaxChanges
    /\ browser \in Browsers \cup {None} /\ page.of \in Browsers \cup {None}
    /\ page \in [of : Browsers \cup {None}, loaded : BOOLEAN]
    /\ open \subseteq Browsers
    /\ DOMAIN update = Updates /\ \A u \in Updates : UpdateOK(update[u])
    /\ overlapped \subseteq Updates

AloneInv ==
    /\ \A u, v \in Updates : u # v /\ update[u].pc \in UpdateInFlight
                             /\ update[v].pc \in UpdateInFlight => u \in overlapped
    /\ \A u \in Updates \ overlapped :
          update[u].pc = "saving" => update[u].reading \notin LatestRate

LEMMA InitRatesInv == Init => RatesInv /\ AloneInv
<1> SUFFICES ASSUME Init PROVE RatesInv /\ AloneInv
    OBVIOUS
<1>1. /\ dolar_rate \in Seq(Rates) /\ site \in Readings /\ changes = 0 /\ browser = None
      /\ page = NoPage /\ open = {} /\ update = [u \in Updates |-> Fresh] /\ overlapped = {}
  BY DolarRatesAssumption DEF Init, InitRates
<1>2. UpdateOK(Fresh) /\ Fresh.pc = "idle"
  BY DolarRatesAssumption DEF UpdateOK, Fresh, UpdateRecord, Readings
<1> QED
  BY <1>1, <1>2, DolarRatesAssumption DEF RatesInv, AloneInv, NoPage, UpdateInFlight

(* One update moves on.                                                    *)
LEMMA OneUpdate ==
  ASSUME RatesInv, NEW u \in Updates, NEW w, UpdateOK(w), update' = [update EXCEPT ![u] = w],
         dolar_rate' \in Seq(Rates), UNCHANGED <<site, changes, overlapped>>,
         browser' \in Browsers \cup {None},
         page' \in [of : Browsers \cup {None}, loaded : BOOLEAN], open' \subseteq Browsers
  PROVE  RatesInv' /\ update'[u] = w /\ \A v \in Updates : v # u => update'[v] = update[v]
BY DEF RatesInv, UpdateOK

LEMMA LaunchedTyped ==
  ASSUME RatesInv, NEW u \in Updates, update[u].pc \in {"launching", "opening"}
  PROVE  Launched(u) \in Browsers
BY DolarRatesAssumption DEF RatesInv, UpdateOK, UpdateRecord, Launched, Browsers

(* An attempt that came to nothing is counted.                             *)
OnceMore(w) == [w EXCEPT !.pc = "scraping", !.attempts = w.attempts + 1]

LEMMA OnceMoreOK ==
  ASSUME NEW w, UpdateOK(w), w.pc \in {"evaluating", "failing"}
  PROVE  UpdateOK(OnceMore(w))
<1>1. w.attempts + 1 \in 0..MaxAttempts
  BY DolarRatesAssumption DEF UpdateOK, UpdateRecord
<1> QED
  BY <1>1 DEF UpdateOK, UpdateRecord, OnceMore, UpdateInFlight

LEMMA RatesStep ==
  ASSUME RatesInv, NEW u \in Updates, UpdateStep(u)
  PROVE  RatesInv' /\ \A v \in Updates : v # u => update'[v] = update[v]
<1> DEFINE Moves == RatesInv' /\ \A v \in Updates : v # u => update'[v] = update[v]
<1>0. UpdateOK(update[u]) /\ page \in [of : Browsers \cup {None}, loaded : BOOLEAN]
      /\ open \subseteq Browsers /\ browser \in Browsers \cup {None} /\ dolar_rate \in Seq(Rates)
  BY DEF RatesInv
<1>1. CASE Launch(u)
  <2>1. update[u].pc = "launching" /\ UNCHANGED <<dolar_rate, site, changes, page, overlapped>>
    BY <1>1 DEF Launch, At
  <2>2. PICK pc \in {"opening", update[u].then} : Goto(u, pc)
    BY <1>1 DEF Launch
  <2>3. browser' \in Browsers \cup {None} /\ open' \subseteq Browsers
    BY <1>0, <1>1, <2>1, LaunchedTyped DEF Launch
  <2> DEFINE w == [update[u] EXCEPT !.pc = pc]
  <2>4. UpdateOK(w)
    BY <1>0, <2>1, <2>2 DEF UpdateOK, UpdateRecord, UpdateInFlight
  <2>5. update' = [update EXCEPT ![u] = w]
    BY <2>2 DEF Goto
  <2> HIDE DEF w
  <2> QED
    BY <1>0, <2>1, <2>3, <2>4, <2>5, OneUpdate
<1>2. CASE OpenPage(u)
  <2>1. update[u].pc = "opening" /\ UNCHANGED <<dolar_rate, site, changes, browser, overlapped>>
        /\ open' \subseteq open
    BY <1>2 DEF OpenPage, At
  <2>2. page' \in [of : Browsers \cup {None}, loaded : BOOLEAN]
    <3>1. Launched(u) \in Browsers
      BY <2>1, LaunchedTyped
    <3>2. CASE page' = [of |-> Launched(u), loaded |-> FALSE]
      BY <3>1, <3>2
    <3>3. CASE page' = page
      BY <1>0, <3>3
    <3> QED
      BY <1>2, <3>2, <3>3 DEF OpenPage
  <2> DEFINE w == [update[u] EXCEPT !.pc = update[u].then]
  <2>3. UpdateOK(w)
    BY <1>0, <2>1 DEF UpdateOK, UpdateRecord, UpdateInFlight
  <2>4. update' = [update EXCEPT ![u] = w]
    BY <1>2 DEF OpenPage, Goto
  <2> HIDE DEF w
  <2> QED
    BY <1>0, <2>1, <2>2, <2>3, <2>4, OneUpdate
<1>3. CASE Scrape(u)
  <2>1. update[u].pc = "scraping"
        /\ UNCHANGED <<dolar_rate, site, changes, browser, page, open, overlapped>>
    BY <1>3 DEF Scrape, At
  <2>2. PICK pc \in {"closing", "going", "launching"} :
           /\ pc # "closing" => update[u].attempts < MaxAttempts
           /\ update' = [update EXCEPT ![u] = [@ EXCEPT !.pc = pc, !.then = "going"]]
    <3>1. MaxAttempts \in Nat /\ update[u].attempts \in Nat
      BY <1>0, DolarRatesAssumption DEF UpdateOK, UpdateRecord
    <3>2. CASE update[u].attempts >= MaxAttempts
      <4>1. update' = [update EXCEPT ![u] = [@ EXCEPT !.pc = "closing", !.then = "going"]]
        BY <1>3, <3>2 DEF Scrape
      <4> QED
        BY <4>1
    <3>3. CASE update[u].attempts < MaxAttempts /\ page.of \in open
      <4>0. ~(update[u].attempts >= MaxAttempts)
        BY <3>1, <3>3
      <4>1. update' = [update EXCEPT ![u] = [@ EXCEPT !.pc = "going", !.then = "going"]]
        BY <1>3, <3>3, <4>0 DEF Scrape
      <4> QED
        BY <3>3, <4>1
    <3>4. CASE update[u].attempts < MaxAttempts /\ page.of \notin open
      <4>0. ~(update[u].attempts >= MaxAttempts)
        BY <3>1, <3>4
      <4>1. update' = [update EXCEPT ![u] = [@ EXCEPT !.pc = "launching", !.then = "going"]]
        BY <1>3, <3>4, <4>0 DEF Scrape
      <4> QED
        BY <3>4, <4>1
    <3> QED
      BY <3>1, <3>2, <3>3, <3>4
  <2> DEFINE w == [update[u] EXCEPT !.pc = pc, !.then = "going"]
  <2>3. UpdateOK(w)
    BY <1>0, <2>2 DEF UpdateOK, UpdateRecord, UpdateInFlight
  <2>4. update' = [update EXCEPT ![u] = w]
    BY <2>2
  <2> HIDE DEF w
  <2> QED
    BY <1>0, <2>1, <2>3, <2>4, OneUpdate
<1>4. CASE GoToSite(u)
  <2>1. update[u].pc = "going" /\ UNCHANGED <<dolar_rate, site, changes, browser, open, overlapped>>
    BY <1>4 DEF GoToSite, At
  <2>2. PICK pc \in {"evaluating", "failing"} : Goto(u, pc)
    BY <1>4 DEF GoToSite
  <2>3. page' \in [of : Browsers \cup {None}, loaded : BOOLEAN]
    BY <1>0, <1>4 DEF GoToSite
  <2> DEFINE w == [update[u] EXCEPT !.pc = pc]
  <2>4. UpdateOK(w)
    BY <1>0, <2>1, <2>2 DEF UpdateOK, UpdateRecord, UpdateInFlight
  <2>5. update' = [update EXCEPT ![u] = w]
    BY <2>2 DEF Goto
  <2> HIDE DEF w
  <2> QED
    BY <1>0, <2>1, <2>3, <2>4, <2>5, OneUpdate
<1>5. CASE Evaluate(u)
  <2>1. update[u].pc = "evaluating"
        /\ UNCHANGED <<dolar_rate, site, changes, browser, page, open, overlapped>>
    BY <1>5 DEF Evaluate, At
  <2>2. PICK w : UpdateOK(w) /\ update' = [update EXCEPT ![u] = w]
    <3> DEFINE seen == IF page.loaded THEN site ELSE Missing
    <3>1. CASE seen = Missing
               /\ update' = [update EXCEPT ![u] =
                     [@ EXCEPT !.pc = "scraping", !.attempts = update[u].attempts + 1]]
      <4>1. UpdateOK(OnceMore(update[u]))
        BY <1>0, <2>1, OnceMoreOK
      <4>2. update' = [update EXCEPT ![u] = OnceMore(update[u])]
        BY <3>1 DEF OnceMore
      <4> QED
        BY <4>1, <4>2
    <3>2. CASE seen # Missing
               /\ update' = [update EXCEPT ![u] = [@ EXCEPT !.pc = "comparing", !.reading = seen]]
      <4> DEFINE w == [update[u] EXCEPT !.pc = "comparing", !.reading = seen]
      <4>1. UpdateOK(w)
        BY <1>0, <2>1, <3>2 DEF UpdateOK, UpdateRecord, UpdateInFlight, RatesInv, Readings
      <4>2. update' = [update EXCEPT ![u] = w]
        BY <3>2
      <4> QED
        BY <4>1, <4>2
    <3>3. CASE Goto(u, "failing")
      <4> DEFINE w == [update[u] EXCEPT !.pc = "failing"]
      <4>1. UpdateOK(w)
        BY <1>0, <2>1 DEF UpdateOK, UpdateRecord, UpdateInFlight
      <4>2. update' = [update EXCEPT ![u] = w]
        BY <3>3 DEF Goto
      <4> QED
        BY <4>1, <4>2
    <3> QED
      BY <1>5, <3>1, <3>2, <3>3 DEF Evaluate
  <2> QED
    BY <1>0, <2>1, <2>2, OneUpdate
<1>6. CASE Retry(u)
  <2>1. update[u].pc = "failing" /\ open' \subseteq open
        /\ UNCHANGED <<dolar_rate, site, changes, browser, page, overlapped>>
    BY <1>6 DEF Retry, At
  <2>2. UpdateOK(OnceMore(update[u]))
    BY <1>0, <2>1, OnceMoreOK
  <2>3. update' = [update EXCEPT ![u] = OnceMore(update[u])]
    BY <1>6 DEF Retry, OnceMore
  <2> QED
    BY <1>0, <2>1, <2>2, <2>3, OneUpdate
<1>7. CASE CompareRates(u)
  <2>1. update[u].pc = "comparing"
        /\ UNCHANGED <<dolar_rate, site, changes, browser, page, open, overlapped>>
    BY <1>7 DEF CompareRates, At
  <2> DEFINE w == [update[u] EXCEPT !.pc =
                      IF update[u].reading = NotANumber \/ update[u].reading \in LatestRate
                      THEN "closing" ELSE "saving"]
  <2>2. UpdateOK(w)
    BY <1>0, <2>1 DEF UpdateOK, UpdateRecord, UpdateInFlight, Readings
  <2>3. update' = [update EXCEPT ![u] = w]
    BY <1>7 DEF CompareRates, Goto
  <2> HIDE DEF w
  <2> QED
    BY <1>0, <2>1, <2>2, <2>3, OneUpdate
<1>8. CASE SaveRates(u)
  <2>1. update[u].pc = "saving" /\ dolar_rate' = Append(dolar_rate, update[u].reading)
        /\ UNCHANGED <<site, changes, browser, page, open, overlapped>>
    BY <1>8 DEF SaveRates, At
  <2>2. dolar_rate' \in Seq(Rates)
    BY <1>0, <2>1 DEF UpdateOK
  <2> DEFINE w == [update[u] EXCEPT !.pc = "closing"]
  <2>3. UpdateOK(w)
    BY <1>0, <2>1 DEF UpdateOK, UpdateRecord, UpdateInFlight
  <2>4. update' = [update EXCEPT ![u] = w]
    BY <1>8 DEF SaveRates, Goto
  <2> HIDE DEF w
  <2> QED
    BY <1>0, <2>1, <2>2, <2>3, <2>4, OneUpdate
<1>9. CASE UpdateFails(u)
  <2>1. UNCHANGED <<dolar_rate, site, changes, browser, page, open, overlapped>>
    BY <1>9 DEF UpdateFails
  <2> DEFINE w == [update[u] EXCEPT !.pc = "closing", !.reading = Missing]
  <2>2. UpdateOK(w)
    BY <1>0 DEF UpdateOK, UpdateRecord, UpdateInFlight, Readings
  <2>3. update' = [update EXCEPT ![u] = w]
    BY <1>9 DEF UpdateFails
  <2> HIDE DEF w
  <2> QED
    BY <1>0, <2>1, <2>2, <2>3, OneUpdate
<1>10. CASE Close(u)
  <2>1. open' \subseteq open /\ UNCHANGED <<dolar_rate, site, changes, browser, page, overlapped>>
    BY <1>10 DEF Close
  <2> DEFINE w == [update[u] EXCEPT !.pc = IF @ = "closing" THEN "closingAgain" ELSE "done"]
  <2>2. UpdateOK(w)
    BY <1>0 DEF UpdateOK, UpdateRecord, UpdateInFlight
  <2>3. update' = [update EXCEPT ![u] = w]
    BY <1>10 DEF Close
  <2> HIDE DEF w
  <2> QED
    BY <1>0, <2>1, <2>2, <2>3, OneUpdate
<1> QED
  BY <1>1, <1>2, <1>3, <1>4, <1>5, <1>6, <1>7, <1>8, <1>9, <1>10 DEF UpdateStep
-----------------------------------------------------------------------------
(* What a step of an update does to the table and to itself, as far as the *)
(* comparison with the latest row goes.                                    *)
LEMMA OnlyInFlight ==
  ASSUME NEW u \in Updates, UpdateStep(u)
  PROVE  /\ update[u].pc \in UpdateInFlight /\ overlapped' = overlapped
         /\ SaveRates(u) \/ UNCHANGED dolar_rate
BY DEF UpdateStep, Launch, OpenPage, Scrape, GoToSite, Evaluate, Retry, CompareRates, SaveRates,
       UpdateFails, Close, At, UpdateInFlight

LEMMA OnlyComparedSave ==
  ASSUME RatesInv, NEW u \in Updates, UpdateStep(u), update'[u].pc = "saving"
  PROVE  /\ update'[u].reading = update[u].reading /\ update[u].reading \notin LatestRate
         /\ dolar_rate' = dolar_rate
<1>0. UpdateOK(update[u]) /\ update[u] \in UpdateRecord /\ u \in DOMAIN update
  BY DEF RatesInv, UpdateOK
<1>1. update[u].then \in {"scraping", "going"}
  BY <1>0 DEF UpdateRecord
<1>2. CompareRates(u)
  <2>1. ~Launch(u)
    BY <1>0, <1>1 DEF Launch, Goto, UpdateRecord
  <2>2. ~OpenPage(u)
    BY <1>0, <1>1 DEF OpenPage, Goto, UpdateRecord
  <2>3. ~Scrape(u) /\ ~GoToSite(u)
    BY <1>0 DEF Scrape, GoToSite, Goto, UpdateRecord
  <2>4. ~Evaluate(u) /\ ~Retry(u)
    BY <1>0 DEF Evaluate, Retry, Goto, UpdateRecord
  <2>5. ~SaveRates(u) /\ ~UpdateFails(u) /\ ~Close(u)
    BY <1>0 DEF SaveRates, UpdateFails, Close, Goto, UpdateRecord
  <2> QED
    BY <2>1, <2>2, <2>3, <2>4, <2>5 DEF UpdateStep
<1> QED
  BY <1>0, <1>2 DEF CompareRates, Goto, UpdateRecord

LEMMA AloneStep ==
  ASSUME RatesInv, AloneInv, NEW u \in Updates, UpdateStep(u)
  PROVE  AloneInv'
<1>1. RatesInv' /\ \A v \in Updates : v # u => update'[v] = update[v]
  BY RatesStep
<1>2. update[u].pc \in UpdateInFlight /\ overlapped' = overlapped
  BY OnlyInFlight
<1>3. ASSUME NEW a \in Updates, NEW b \in Updates, a # b,
             update'[a].pc \in UpdateInFlight, update'[b].pc \in UpdateInFlight
      PROVE  a \in overlapped'
  <2>1. update[a].pc \in UpdateInFlight /\ update[b].pc \in UpdateInFlight
    BY <1>1, <1>2, <1>3
  <2> QED
    BY <1>2, <1>3, <2>1 DEF AloneInv
<1>4. ASSUME NEW v \in Updates \ overlapped', update'[v].pc = "saving"
      PROVE  update'[v].reading \notin LatestRate'
  <2>1. CASE v = u
    <3>1. /\ update'[u].reading = update[u].reading /\ update[u].reading \notin LatestRate
          /\ dolar_rate' = dolar_rate
      BY <1>4, <2>1, OnlyComparedSave
    <3> QED
      BY <2>1, <3>1 DEF LatestRate
  <2>2. CASE v # u
    <3>1. update[v].pc = "saving" /\ v \notin overlapped
      BY <1>1, <1>2, <1>4, <2>2
    <3>2. update[v].pc \in UpdateInFlight
      BY <3>1 DEF UpdateInFlight
    <3>3. v \in overlapped
      BY <1>2, <1>4, <2>2, <3>2 DEF AloneInv
    <3> QED
      BY <3>1, <3>3
  <2> QED
    BY <2>1, <2>2
<1> QED
  BY <1>3, <1>4 DEF AloneInv

(* An update that starts while another is under way overlaps it.           *)
LEMMA StartStep ==
  ASSUME RatesInv, AloneInv, NEW u \in Updates, StartUpdate(u)
  PROVE  RatesInv' /\ AloneInv'
<1> DEFINE rivals == {v \in Updates : update[v].pc \in UpdateInFlight}
           w == [update[u] EXCEPT !.pc = "launching"]
<1>0. UpdateOK(update[u]) /\ update[u].pc = "idle" /\ DOMAIN update = Updates
  BY DEF RatesInv, StartUpdate, At
<1>1. /\ update' = [update EXCEPT ![u] = w]
      /\ overlapped' = overlapped \cup rivals \cup (IF rivals = {} THEN {} ELSE {u})
      /\ UNCHANGED <<dolar_rate, site, changes, browser, page, open>>
  BY DEF StartUpdate
<1>2. UpdateOK(w)
  BY <1>0 DEF UpdateOK, UpdateRecord, UpdateInFlight
<1>3. overlapped' \subseteq Updates
  BY <1>1 DEF RatesInv
<1>4. update'[u] = w /\ w.pc = "launching" /\ \A v \in Updates : v # u => update'[v] = update[v]
  BY <1>0, <1>1 DEF UpdateOK, UpdateRecord
<1>5. RatesInv'
  <2>1. DOMAIN update' = Updates /\ \A v \in Updates : UpdateOK(update'[v])
    <3> HIDE DEF w
    <3> QED
      BY <1>1, <1>2, <1>4 DEF RatesInv
  <2> QED
    BY <1>1, <1>3, <2>1 DEF RatesInv
<1>6. ASSUME NEW a \in Updates, NEW b \in Updates, a # b,
             update'[a].pc \in UpdateInFlight, update'[b].pc \in UpdateInFlight
      PROVE  a \in overlapped'
  <2>1. CASE a = u
    <3>1. b \in rivals
      BY <1>4, <1>6, <2>1
    <3> QED
      BY <1>1, <2>1, <3>1
  <2>2. CASE b = u
    BY <1>1, <1>4, <1>6, <2>2
  <2>3. CASE a # u /\ b # u
    BY <1>1, <1>4, <1>6, <2>3 DEF AloneInv
  <2> QED
    BY <2>1, <2>2, <2>3
<1>7. ASSUME NEW v \in Updates \ overlapped', update'[v].pc = "saving"
      PROVE  update'[v].reading \notin LatestRate'
  <2>1. v # u /\ v \notin overlapped
    BY <1>1, <1>4, <1>7
  <2> QED
    BY <1>1, <1>4, <1>7, <2>1 DEF AloneInv, LatestRate
<1> QED
  BY <1>5, <1>6, <1>7 DEF AloneInv

LEMMA SiteStep == RatesInv /\ AloneInv /\ SiteChanges => RatesInv' /\ AloneInv'
<1> SUFFICES ASSUME RatesInv, AloneInv, SiteChanges PROVE RatesInv' /\ AloneInv'
    OBVIOUS
<1>1. UNCHANGED <<dolar_rate, browser, page, open, update, overlapped>>
      /\ site' \in Readings /\ changes' \in 0..MaxChanges
  BY DolarRatesAssumption DEF SiteChanges, RatesInv
<1> QED
  BY <1>1 DEF RatesInv, AloneInv, LatestRate

(* What an update that none has overlapped leaves is what it read.         *)
LEMMA LeavesWhatItRead ==
  ASSUME RatesInv, AloneInv, NEW u \in Updates \ overlapped, NEW v \in Updates, UpdateStep(v),
         update[u].pc \in {"comparing", "saving"}, update'[u].pc = "closing",
         update'[u].reading \in Rates
  PROVE  /\ LatestRate' = {update[u].reading}
         /\ dolar_rate' # dolar_rate => LatestRate # LatestRate'
<1>0. UpdateOK(update[u]) /\ u \in DOMAIN update /\ dolar_rate \in Seq(Rates)
  BY DEF RatesInv
<1>1. v = u
  BY RatesStep
<1>2. CASE SaveRates(u)
  <2>1. update[u].pc = "saving" /\ dolar_rate' = Append(dolar_rate, update[u].reading)
    BY <1>2 DEF SaveRates, At
  <2>2. update[u].reading \in Rates /\ update[u].reading \notin LatestRate
    BY <1>0, <2>1 DEF UpdateOK, AloneInv
  <2>3. LatestRate' = {update[u].reading}
    BY <1>0, <2>1, <2>2 DEF LatestRate
  <2> QED
    BY <2>2, <2>3
<1>3. CASE CompareRates(u)
  <2>1. /\ dolar_rate' = dolar_rate /\ update'[u].reading = update[u].reading
        /\ update[u].reading = NotANumber \/ update[u].reading \in LatestRate
    BY <1>0, <1>3 DEF CompareRates, Goto, UpdateOK, UpdateRecord
  <2>2. update[u].reading \in LatestRate
    BY <2>1, DolarRatesAssumption
  <2> QED
    BY <2>1, <2>2 DEF LatestRate
<1>4. CASE UpdateFails(u)
  <2>1. update'[u].reading = Missing
    BY <1>0, <1>4 DEF UpdateFails, UpdateOK, UpdateRecord
  <2> QED
    BY <2>1, DolarRatesAssumption
<1> QED
  BY <1>1, <1>2, <1>3, <1>4 DEF UpdateStep, Launch, OpenPage, Scrape, GoToSite, Evaluate, Retry,
     Close, At
-----------------------------------------------------------------------------
(***************************************************************************)
(* The payments.  The table only grows, so the id an object has kept stays *)
(* one of a row; a payment with an object of its own takes the last row    *)
(* there is when it reads, which is no older than the last one there was   *)
(* when it started.                                                        *)
(***************************************************************************)
PaymentOK(r, n) ==
    \/ r = [pc |-> "idle"]
    \/ /\ r \in [pc : {"reading", "paying", "recorded"}, direct : BOOLEAN, rate : Nat, since : 0..n]
       /\ r.pc # "reading" => r.rate \in 1..n /\ (~r.direct => r.rate >= r.since)

PaymentsInv ==
    /\ kept \in 0..Len(dolar_rate)
    /\ DOMAIN payment = Payments
    /\ \A p \in Payments : PaymentOK(payment[p], Len(dolar_rate))

IInv == RatesInv /\ AloneInv /\ PaymentsInv

LEMMA PaymentStays ==
  ASSUME NEW n \in Nat, NEW m \in Nat, n <= m, NEW r, PaymentOK(r, n)
  PROVE  PaymentOK(r, m)
BY DEF PaymentOK

LEMMA TableGrows ==
  ASSUME PaymentsInv, dolar_rate \in Seq(Rates), dolar_rate' \in Seq(Rates),
         Len(dolar_rate) <= Len(dolar_rate'), UNCHANGED <<payment, kept>>
  PROVE  PaymentsInv'
<1>1. Len(dolar_rate) \in Nat /\ Len(dolar_rate') \in Nat
  OBVIOUS
<1>2. \A p \in Payments : PaymentOK(payment'[p], Len(dolar_rate'))
  BY <1>1, PaymentStays DEF PaymentsInv
<1> QED
  BY <1>1, <1>2 DEF PaymentsInv

LEMMA PayingStep ==
  ASSUME RatesInv, PaymentsInv, UNCHANGED ratesVars, NEW p \in Payments, Paying(p)
  PROVE  PaymentsInv'
<1> DEFINE n == Len(dolar_rate)
<1>0. n \in Nat /\ dolar_rate' = dolar_rate /\ kept \in 0..n /\ PaymentOK(payment[p], n)
  BY DEF RatesInv, PaymentsInv, ratesVars
<1>1. PICK r, k : /\ payment' = [payment EXCEPT ![p] = r] /\ PaymentOK(r, n)
                  /\ kept' = k /\ k \in 0..n
  <2>1. CASE \E direct \in BOOLEAN : StartPayment(p, direct)
    <3>1. PICK direct \in BOOLEAN : StartPayment(p, direct)
      BY <2>1
    <3> DEFINE r == [pc |-> "reading", direct |-> direct, rate |-> kept, since |-> Len(dolar_rate)]
    <3>2. PaymentOK(r, n)
      BY <1>0 DEF PaymentOK
    <3> QED
      BY <1>0, <3>1, <3>2 DEF StartPayment
  <2>2. CASE ReadConfiguration(p)
    <3> DEFINE rate == IF payment[p].direct /\ kept # 0 THEN kept ELSE Len(dolar_rate)
               r == [payment[p] EXCEPT !.pc = "paying", !.rate = rate]
    <3>1. /\ payment[p].pc = "reading" /\ rate # 0 /\ payment' = [payment EXCEPT ![p] = r]
          /\ kept' = IF payment[p].direct THEN rate ELSE kept
      BY <2>2 DEF ReadConfiguration
    <3>2. rate \in 1..n /\ (~payment[p].direct => rate = n)
      BY <1>0, <3>1
    <3>3. PaymentOK(r, n)
      <4> HIDE DEF rate
      <4>1. payment[p] \in [pc : {"reading", "paying", "recorded"}, direct : BOOLEAN, rate : Nat,
                            since : 0..n]
        BY <1>0, <3>1 DEF PaymentOK
      <4>2. rate \in Nat
        BY <1>0, <3>2
      <4>3. r.pc = "paying" /\ r.rate = rate /\ r.direct = payment[p].direct
            /\ r.since = payment[p].since
        BY <4>1
      <4>4. r \in [pc : {"reading", "paying", "recorded"}, direct : BOOLEAN, rate : Nat,
                   since : 0..n]
        BY <4>1, <4>2
      <4>5. r.since \in 0..n
        BY <4>1, <4>3
      <4>6. ~r.direct => r.rate >= r.since
        BY <1>0, <3>2, <4>3, <4>5
      <4> HIDE DEF r
      <4> QED
        BY <3>2, <4>3, <4>4, <4>6 DEF PaymentOK
    <3>4. kept' \in 0..n
      BY <1>0, <3>1, <3>2
    <3> QED
      BY <3>1, <3>3, <3>4
  <2>3. CASE RecordTransaction(p)
    <3> DEFINE r == [payment[p] EXCEPT !.pc = "recorded"]
    <3>1. payment[p].pc = "paying" /\ payment' = [payment EXCEPT ![p] = r] /\ kept' = kept
      BY <2>3 DEF RecordTransaction
    <3>2. PaymentOK(r, n)
      BY <1>0, <3>1 DEF PaymentOK
    <3> QED
      BY <1>0, <3>1, <3>2
  <2> QED
    BY <2>1, <2>2, <2>3 DEF Paying
<1> QED
  BY <1>0, <1>1 DEF PaymentsInv

-----------------------------------------------------------------------------
LEMMA InitIInv == Init => IInv
<1> SUFFICES ASSUME Init PROVE IInv
    OBVIOUS
<1>1. RatesInv /\ AloneInv
  BY InitRatesInv
<1>2. PaymentsInv
  BY <1>1 DEF Init, PaymentsInv, PaymentOK, RatesInv
<1> QED
  BY <1>1, <1>2 DEF IInv

LEMMA NextIInv == IInv /\ [Next]_vars => IInv'
<1> SUFFICES ASSUME IInv, [Next]_vars PROVE IInv'
    OBVIOUS
<1>0. RatesInv /\ AloneInv /\ PaymentsInv
  BY DEF IInv
<1>1. CASE SiteChanges /\ UNCHANGED <<payment, kept>>
  <2>1. RatesInv' /\ AloneInv' /\ dolar_rate' = dolar_rate
    BY <1>0, <1>1, SiteStep DEF SiteChanges
  <2> QED
    BY <1>0, <1>1, <2>1 DEF IInv, PaymentsInv
<1>2. CASE (\E u \in Updates : StartUpdate(u)) /\ UNCHANGED <<payment, kept>>
  <2>1. PICK u \in Updates : StartUpdate(u)
    BY <1>2
  <2>2. RatesInv' /\ AloneInv' /\ dolar_rate' = dolar_rate
    BY <1>0, <2>1, StartStep DEF StartUpdate
  <2> QED
    BY <1>0, <1>2, <2>2 DEF IInv, PaymentsInv
<1>3. CASE (\E u \in Updates : UpdateStep(u)) /\ UNCHANGED <<payment, kept>>
  <2>1. PICK u \in Updates : UpdateStep(u)
    BY <1>3
  <2>2. RatesInv' /\ AloneInv'
    BY <1>0, <2>1, RatesStep, AloneStep
  <2>3. dolar_rate \in Seq(Rates) /\ dolar_rate' \in Seq(Rates)
    BY <1>0, <2>2 DEF RatesInv
  <2>4. Len(dolar_rate) <= Len(dolar_rate')
    <3>1. CASE dolar_rate' = dolar_rate
      BY <2>3, <3>1
    <3>2. CASE SaveRates(u)
      <4>1. dolar_rate' = Append(dolar_rate, update[u].reading) /\ update[u].reading \in Rates
        BY <1>0, <3>2 DEF SaveRates, At, RatesInv, UpdateOK
      <4> QED
        BY <2>3, <4>1
    <3> QED
      BY <2>1, <3>1, <3>2, OnlyInFlight
  <2>5. PaymentsInv'
    BY <1>0, <1>3, <2>3, <2>4, TableGrows
  <2> QED
    BY <2>2, <2>5 DEF IInv
<1>4. CASE (\E p \in Payments : Paying(p)) /\ UNCHANGED ratesVars
  <2>1. PaymentsInv'
    BY <1>0, <1>4, PayingStep
  <2> QED
    BY <1>0, <1>4, <2>1 DEF IInv, RatesInv, AloneInv, LatestRate, ratesVars
<1>5. CASE UNCHANGED <<ratesVars, payment, kept>>
  BY <1>0, <1>5 DEF IInv, RatesInv, AloneInv, PaymentsInv, LatestRate, ratesVars
<1> QED
  BY <1>1, <1>2, <1>3, <1>4, <1>5 DEF Next, Quote, vars

(* The invariant holds throughout.                                         *)
THEOREM QuotesInvariant == Spec => []IInv
BY InitIInv, NextIInv, PTL DEF Spec

(* QuotesTypeOK: whatever the updates do to each other's browser and page, *)
(* what is stored are rates, attempts stay within scrapeParallel's bound,  *)
(* and a transaction is connected to a row there is.                       *)
THEOREM QuotesTypeCorrect == Spec => []QuotesTypeOK
<1>1. IInv => QuotesTypeOK
  <2> SUFFICES ASSUME IInv PROVE QuotesTypeOK
      OBVIOUS
  <2>1. RatesTypeOK
    BY DEF IInv, RatesInv, RatesTypeOK, UpdateOK, UpdateRecord
  <2>2. ASSUME NEW p \in Payments
        PROVE  /\ payment[p].pc \in {"idle", "reading", "paying", "recorded"}
               /\ payment[p].pc \in {"paying", "recorded"} => payment[p].rate \in 1..Len(dolar_rate)
    BY <2>2 DEF IInv, PaymentsInv, PaymentOK
  <2> QED
    BY <2>1, <2>2 DEF IInv, PaymentsInv, QuotesTypeOK
<1> QED
  BY <1>1, QuotesInvariant, PTL

(* TransactionNamesItsRate: the configuration a payment through an invoice *)
(* reads (bank-products getBankProductConfig) names a rate that was the    *)
(* latest while that payment was under way.                                *)
THEOREM TransactionNamesRate == Spec => []TransactionNamesItsRate
<1>1. IInv => TransactionNamesItsRate
  <2> SUFFICES ASSUME IInv, NEW p \in Payments, payment[p].pc \in {"paying", "recorded"},
                      ~payment[p].direct
               PROVE  payment[p].rate \in payment[p].since..Len(dolar_rate)
      BY DEF TransactionNamesItsRate
  <2>1. PaymentOK(payment[p], Len(dolar_rate)) /\ Len(dolar_rate) \in Nat
    BY DEF IInv, PaymentsInv, RatesInv
  <2> QED
    BY <2>1 DEF PaymentOK
<1> QED
  BY <1>1, QuotesInvariant, PTL

(* LatestIsWhatWasRead: an update no other has overlapped leaves what it   *)
(* read as the latest row, and no row that repeats the one before it.      *)
THEOREM LatestIsRead == Spec => LatestIsWhatWasRead
<1>1. IInv /\ [Next]_vars =>
        [\A u \in Updates \ overlapped :
           /\ update[u].pc \in {"comparing", "saving"} /\ update'[u].pc = "closing"
           /\ update'[u].reading \in Rates
           => /\ LatestRate' = {update[u].reading}
              /\ dolar_rate' # dolar_rate => LatestRate # LatestRate']_ratesVars
  <2> SUFFICES ASSUME IInv, [Next]_vars, ratesVars' # ratesVars,
                      NEW u \in Updates \ overlapped,
                      update[u].pc \in {"comparing", "saving"}, update'[u].pc = "closing",
                      update'[u].reading \in Rates
               PROVE  /\ LatestRate' = {update[u].reading}
                      /\ dolar_rate' # dolar_rate => LatestRate # LatestRate'
      OBVIOUS
  <2>0. RatesInv /\ AloneInv
    BY DEF IInv
  <2>1. ~SiteChanges
    BY DEF SiteChanges
  <2>2. ASSUME NEW v \in Updates, StartUpdate(v)
        PROVE  FALSE
    <3>1. CASE v = u
      BY <2>2, <3>1 DEF StartUpdate, At
    <3>2. CASE v # u
      BY <2>2, <3>2 DEF StartUpdate
    <3> QED
      BY <3>1, <3>2
  <2>3. \E v \in Updates : UpdateStep(v)
    BY <2>1, <2>2 DEF Next, Quote, vars
  <2> QED
    BY <2>0, <2>3, LeavesWhatItRead
<1> QED
  BY <1>1, QuotesInvariant, PTL DEF Spec, LatestIsWhatWasRead
-----------------------------------------------------------------------------
(***************************************************************************)
(* The quotes.  The arithmetic of toFixed2: what it rounds to, that it     *)
(* keeps the order, and that whole cents and common factors pass it by.    *)
(***************************************************************************)
LEMMA Division ==
  ASSUME NEW x \in Int, NEW y \in Nat \ {0}
  PROVE  /\ x \div y \in Int
         /\ y * (x \div y) <= x /\ x < y * (x \div y) + y
BY SMT

LEMMA Cancel ==
  ASSUME NEW a \in Int, NEW b \in Int, NEW d \in Nat \ {0}, d * a < d * b
  PROVE  a < b
BY SMT

LEMMA Quotient ==
  ASSUME NEW x \in Int, NEW y \in Nat \ {0}, NEW q \in Int, y * q <= x, x < y * q + y
  PROVE  x \div y = q
<1> DEFINE r == x \div y
<1>1. r \in Int /\ y * r <= x /\ x < y * r + y
  BY Division
<1> HIDE DEF r
<1>2. y * q < y * (r + 1) /\ y * r < y * (q + 1)
  BY <1>1, SMT
<1>3. q < r + 1 /\ r < q + 1
  BY <1>1, <1>2, Cancel
<1>4. q = r
  BY <1>1, <1>3
<1> QED
  BY <1>4 DEF r

(* toFixed2(n, d) is the whole number nearest to n / d, ties upwards.      *)
LEMMA Rounded ==
  ASSUME NEW n \in Int, NEW d \in Nat \ {0}
  PROVE  /\ toFixed2(n, d) \in Int
         /\ 2 * (d * toFixed2(n, d)) <= 2 * n + d
         /\ 2 * n < 2 * (d * toFixed2(n, d)) + d
<1> DEFINE q == (2 * n + d) \div (2 * d)
<1>1. q \in Int /\ (2 * d) * q <= 2 * n + d /\ 2 * n + d < (2 * d) * q + 2 * d
  BY Division, 2 * n + d \in Int, 2 * d \in Nat \ {0}
<1>2. toFixed2(n, d) = q
  BY DEF toFixed2
<1> HIDE DEF q
<1>3. (2 * d) * q = 2 * (d * q)
  BY <1>1, SMT
<1> QED
  BY <1>1, <1>2, <1>3

(* No other whole number is.                                               *)
LEMMA RoundedTo ==
  ASSUME NEW n \in Int, NEW d \in Nat \ {0}, NEW q \in Int,
         2 * (d * q) <= 2 * n + d, 2 * n < 2 * (d * q) + d
  PROVE  toFixed2(n, d) = q
<1>1. (2 * d) * q = 2 * (d * q)
  BY SMT
<1>2. d * q \in Int
  BY SMT
<1>3. (2 * n + d) \div (2 * d) = q
  BY Quotient, <1>1, <1>2, 2 * n + d \in Int, 2 * d \in Nat \ {0}
<1> QED
  BY <1>3 DEF toFixed2

(* Whole cents pass the rounding by.                                       *)
LEMMA WholePartsStay ==
  ASSUME NEW n \in Int, NEW d \in Nat \ {0}, NEW k \in Int
  PROVE  toFixed2(n - k * d, d) = toFixed2(n, d) - k
<1> DEFINE q == toFixed2(n, d)
<1>1. q \in Int /\ 2 * (d * q) <= 2 * n + d /\ 2 * n < 2 * (d * q) + d
  BY Rounded
<1> HIDE DEF q
<1>2. d * (q - k) = d * q - k * d /\ k * d \in Int /\ d * q \in Int
  BY <1>1, SMT
<1>3. n - k * d \in Int /\ q - k \in Int
  BY <1>1, <1>2
<1>4. /\ 2 * (d * (q - k)) <= 2 * (n - k * d) + d
      /\ 2 * (n - k * d) < 2 * (d * (q - k)) + d
  BY <1>1, <1>2
<1>5. toFixed2(n - k * d, d) = q - k
  BY <1>3, <1>4, RoundedTo
<1> QED
  BY <1>5 DEF q

(* Rounding keeps the order.                                               *)
LEMMA Monotone ==
  ASSUME NEW n \in Int, NEW m \in Int, NEW d \in Nat \ {0}, n <= m
  PROVE  toFixed2(n, d) <= toFixed2(m, d)
<1> DEFINE q == toFixed2(n, d)
           r == toFixed2(m, d)
<1>1. q \in Int /\ r \in Int /\ 2 * (d * q) <= 2 * n + d /\ 2 * m < 2 * (d * r) + d
  BY Rounded
<1> HIDE DEF q, r
<1>2. d * q \in Int /\ d * r \in Int /\ d * (r + 1) = d * r + d
  BY <1>1, SMT
<1>3. d * q < d * (r + 1)
  BY <1>1, <1>2
<1>4. q < r + 1
  BY <1>1, <1>3, Cancel
<1>5. q <= r
  BY <1>1, <1>4
<1> QED
  BY <1>5 DEF q, r

(* A common factor of numerator and denominator does not matter.           *)
LEMMA SameFraction ==
  ASSUME NEW n \in Int, NEW d \in Nat \ {0}, NEW k \in Nat \ {0}
  PROVE  toFixed2(n * k, d * k) = toFixed2(n, d)
<1> DEFINE q == toFixed2(n, d)
<1>1. q \in Int /\ 2 * (d * q) <= 2 * n + d /\ 2 * n < 2 * (d * q) + d
  BY Rounded
<1> HIDE DEF q
<1>2. d * q \in Int /\ n * k \in Int /\ d * k \in Nat \ {0}
  BY <1>1, SMT
<1>3. /\ (2 * n + d) * k = 2 * (n * k) + d * k
      /\ (2 * (d * q)) * k = 2 * ((d * k) * q)
      /\ (2 * (d * q) + d) * k = 2 * ((d * k) * q) + d * k
      /\ (2 * n) * k = 2 * (n * k)
  BY <1>1, <1>2, SMT
<1>4. (2 * (d * q)) * k <= (2 * n + d) * k /\ (2 * n) * k < (2 * (d * q) + d) * k
  <2> DEFINE a == 2 * (d * q)
             b == 2 * n + d
             e == 2 * n
             f == 2 * (d * q) + d
  <2>1. a \in Int /\ b \in Int /\ e \in Int /\ f \in Int /\ a <= b /\ e < f
    BY <1>1, <1>2
  <2> HIDE DEF a, b, e, f
  <2>2. a * k <= b * k /\ e * k < f * k
    BY <2>1, SMT
  <2> QED
    BY <2>2 DEF a, b, e, f
<1>5. toFixed2(n * k, d * k) = q
  BY <1>1, <1>2, <1>3, <1>4, RoundedTo
<1> QED
  BY <1>5 DEF q

(* What is left to pay and what is applied, of a price f and a balance a.  *)
Left(f, a, d) == applyAvailableBalance(f, a, d)
Applied(f, a, d) == IF Left(f, a, d).d = 1 THEN toFixed2(f - Left(f, a, d).n * d, d)
                    ELSE toFixed2(f - Left(f, a, d).n, d)
SettlesAs(f, a, d) ==
    /\ toFixed2(Left(f, a, d).n, Left(f, a, d).d) + Applied(f, a, d) = toFixed2(f, d)
    /\ Applied(f, a, d) \in Int
    /\ d * Applied(f, a, d) < a + d
    /\ \A b \in Nat : a = b * d => Applied(f, a, d) <= b

(* What is left to pay and what is applied make up the price, and no more is*)
(* applied than there is.                                                  *)
LEMMA Settled ==
  ASSUME NEW f \in Nat, NEW a \in Nat, NEW d \in Nat, d > 1
  PROVE  SettlesAs(f, a, d)
<1> DEFINE paid == toFixed2(Left(f, a, d).n, Left(f, a, d).d)
           ap == Applied(f, a, d)
<1>0. toFixed2(f, d) \in Int /\ toFixed2(0, 1) = 0 /\ toFixed2(0, d) = 0
  <2>1. d \in Nat \ {0} /\ 1 \in Nat \ {0} /\ d * 0 = 0
    OBVIOUS
  <2>2. toFixed2(f, d) \in Int
    BY <2>1, Rounded
  <2>3. toFixed2(0, 1) = 0
    BY <2>1, RoundedTo
  <2>4. toFixed2(0, d) = 0
    BY <2>1, RoundedTo
  <2> QED
    BY <2>2, <2>3, <2>4
<1>1. CASE a <= 0
  <2>1. a = 0 /\ Left(f, a, d) = [n |-> f, d |-> d]
    BY <1>1 DEF Left, applyAvailableBalance
  <2>2. paid = toFixed2(f, d) /\ ap = 0
    BY <1>0, <2>1 DEF Applied
  <2> HIDE DEF paid, ap
  <2>3. paid + ap = toFixed2(f, d) /\ ap \in Int /\ d * ap < a + d /\ \A b \in Nat : ap <= b
    BY <1>0, <2>1, <2>2
  <2> QED
    BY <2>3 DEF paid, ap, SettlesAs
<1>2. CASE ~(a <= 0) /\ a >= f
  <2>1. Left(f, a, d) = [n |-> 0, d |-> 1]
    BY <1>2 DEF Left, applyAvailableBalance
  <2>2. paid = 0 /\ ap = toFixed2(f, d)
    BY <1>0, <2>1 DEF Applied
  <2>3. d * ap < a + d
    <3>1. ap \in Int /\ 2 * (d * ap) <= 2 * f + d
      BY <2>2, Rounded
    <3> HIDE DEF ap
    <3>2. d * ap \in Int
      BY <3>1
    <3> QED
      BY <1>2, <3>1, <3>2
  <2>4. ASSUME NEW b \in Nat, a = b * d
        PROVE  ap <= b
    <3>1. d * b = b * d /\ b * d \in Int
      OBVIOUS
    <3>2. toFixed2(b * d, d) = b
      BY <3>1, RoundedTo
    <3>3. toFixed2(f, d) <= toFixed2(b * d, d)
      BY <1>2, <2>4, <3>1, Monotone
    <3> QED
      BY <2>2, <3>2, <3>3
  <2> QED
    BY <1>0, <2>2, <2>3, <2>4 DEF SettlesAs
<1>3. CASE ~(a <= 0) /\ ~(a >= f)
  <2> DEFINE r == toFixed2(f - a, d)
  <2>1. Left(f, a, d) = [n |-> r, d |-> 1]
    BY <1>3 DEF Left, applyAvailableBalance
  <2>2. r \in Int /\ 2 * (d * r) <= 2 * (f - a) + d /\ 2 * (f - a) < 2 * (d * r) + d
    BY Rounded, f - a \in Int
  <2>3. paid = r
    BY <2>1, <2>2, RoundedTo
  <2>4. ap = toFixed2(f - r * d, d)
    BY <2>1 DEF Applied
  <2>5. ap = toFixed2(f, d) - r
    BY <2>2, <2>4, WholePartsStay
  <2>6. d * ap < a + d
    <3>1. r * d = d * r /\ r * d \in Int /\ f - r * d \in Int
      BY <2>2
    <3>2. ap \in Int /\ 2 * (d * ap) <= 2 * (f - r * d) + d
      <4> DEFINE rest == f - r * d
      <4>1. rest \in Int /\ ap = toFixed2(rest, d) /\ d \in Nat \ {0}
        BY <2>4, <3>1
      <4> HIDE DEF rest, ap, r
      <4>2. ap \in Int /\ 2 * (d * ap) <= 2 * rest + d
        BY <4>1, Rounded
      <4> QED
        BY <4>2 DEF rest
    <3> HIDE DEF ap, r
    <3>3. d * ap \in Int
      BY <3>2
    <3> QED
      BY <2>2, <3>1, <3>2, <3>3
  <2>7. ASSUME NEW b \in Nat, a = b * d
        PROVE  ap <= b
    <3>1. r = toFixed2(f, d) - b
      BY <2>7, WholePartsStay
    <3> QED
      BY <1>0, <2>5, <3>1
  <2> QED
    BY <1>0, <2>2, <2>3, <2>5, <2>6, <2>7 DEF SettlesAs
<1> QED
  BY <1>1, <1>2, <1>3

(* Four parts, each rounded on its own, miss the total by two cents.       *)
Near(x, y) == x <= y + 2 /\ y <= x + 2

LEMMA PartsAdd ==
  ASSUME NEW a \in Nat, NEW b \in Nat, NEW c \in Nat, NEW e \in Nat, NEW d \in Nat \ {0}
  PROVE  Near(toFixed2(a, d) + toFixed2(b, d) + toFixed2(c, d) + toFixed2(e, d),
              toFixed2(a + b + c + e, d))
<1> DEFINE ra == toFixed2(a, d)
           rb == toFixed2(b, d)
           rc == toFixed2(c, d)
           re == toFixed2(e, d)
           rt == toFixed2(a + b + c + e, d)
<1>1. /\ ra \in Int /\ 2 * (d * ra) <= 2 * a + d /\ 2 * a < 2 * (d * ra) + d
      /\ rb \in Int /\ 2 * (d * rb) <= 2 * b + d /\ 2 * b < 2 * (d * rb) + d
  BY Rounded
<1>2. /\ rc \in Int /\ 2 * (d * rc) <= 2 * c + d /\ 2 * c < 2 * (d * rc) + d
      /\ re \in Int /\ 2 * (d * re) <= 2 * e + d /\ 2 * e < 2 * (d * re) + d
  BY Rounded
<1>3. /\ rt \in Int /\ 2 * (d * rt) <= 2 * (a + b + c + e) + d
      /\ 2 * (a + b + c + e) < 2 * (d * rt) + d
  BY Rounded, a + b + c + e \in Int
<1> HIDE DEF ra, rb, rc, re, rt
<1> DEFINE parts == ra + rb + rc + re
<1>4. /\ d * ra \in Int /\ d * rb \in Int /\ d * rc \in Int /\ d * re \in Int /\ d * rt \in Int
      /\ d * parts = d * ra + d * rb + d * rc + d * re /\ parts \in Int
      /\ d * (rt + 3) = d * rt + 3 * d /\ d * (parts + 3) = d * parts + 3 * d
  BY <1>1, <1>2, <1>3
<1>5. d * parts < d * (rt + 3) /\ d * rt < d * (parts + 3)
  <2> HIDE DEF parts
  <2> QED
    BY <1>1, <1>2, <1>3, <1>4
<1>6. parts < rt + 3 /\ rt < parts + 3
  <2> HIDE DEF parts
  <2> QED
    BY <1>3, <1>4, <1>5, Cancel
<1>7. parts <= rt + 2 /\ rt <= parts + 2
  <2> HIDE DEF parts
  <2> QED
    BY <1>3, <1>4, <1>6
<1> QED
  BY <1>7 DEF ra, rb, rc, re, rt, Near

Isps == [igtf_rate : Nat, iva_rate : Nat, add_igtf : BOOLEAN, add_iva_usd : BOOLEAN,
         add_iva_ves : BOOLEAN, commission_type : {"CLIENT_ASSUMES", "ISP_ASSUMES"}]

Sum(r) == r.base + r.igtf + r.iva

(* In dollars: the parts of a price, and that they add up to it or more.   *)
LEMMA PartsUSD ==
  ASSUME NEW amount \in Nat, NEW isp \in Isps
  PROVE  LET r == calculateUSDPayment(amount, isp) IN
         /\ r \in [base : Nat, igtf : Nat, iva : Nat, den : Nat] /\ r.den > 1
         /\ Sum(r) >= amount * r.den
         /\ ~isp.add_igtf /\ ~isp.add_iva_usd => Sum(r) = amount * r.den
<1> DEFINE g == isp.igtf_rate
           v == isp.iva_rate
           r == calculateUSDPayment(amount, isp)
<1>1. g \in Nat /\ v \in Nat
  BY DEF Isps
<1>2. CASE ~isp.add_igtf /\ ~isp.add_iva_usd
  <2>1. r = [base |-> amount * 100, igtf |-> amount * g, iva |-> amount * v, den |-> 100 + g + v]
    BY <1>2 DEF calculateUSDPayment
  <2> HIDE DEF g, v, r
  <2>2. amount * g \in Nat /\ amount * v \in Nat
        /\ amount * (100 + g + v) = amount * 100 + amount * g + amount * v
    BY <1>1, SMT
  <2>3. r \in [base : Nat, igtf : Nat, iva : Nat, den : Nat] /\ r.den > 1
        /\ Sum(r) = amount * r.den /\ Sum(r) \in Nat
    BY <1>1, <2>1, <2>2 DEF Sum
  <2> QED
    BY <2>3 DEF r
<1>3. CASE ~isp.add_igtf /\ isp.add_iva_usd
  <2>1. r = [base |-> amount * 100, igtf |-> amount * g, iva |-> amount * v, den |-> 100 + g]
    BY <1>3 DEF calculateUSDPayment
  <2> HIDE DEF g, v, r
  <2>2. amount * g \in Nat /\ amount * v \in Nat /\ amount * (100 + g) = amount * 100 + amount * g
    BY <1>1, SMT
  <2>3. r \in [base : Nat, igtf : Nat, iva : Nat, den : Nat] /\ r.den > 1
        /\ Sum(r) >= amount * r.den
    BY <1>1, <2>1, <2>2 DEF Sum
  <2> QED
    BY <1>3, <2>3 DEF r
<1>4. CASE isp.add_igtf /\ ~isp.add_iva_usd
  <2>1. r = [base |-> amount * 10000, igtf |-> amount * g * (100 + v), iva |-> amount * v * 100,
             den |-> (100 + v) * 100]
    BY <1>4 DEF calculateUSDPayment
  <2> HIDE DEF g, v, r
  <2>2. /\ amount * v \in Nat /\ amount * v * 100 \in Nat
        /\ amount * ((100 + v) * 100) = amount * 10000 + amount * v * 100
    BY <1>1, SMT
  <2>3. amount * g \in Nat /\ 100 + v \in Nat
    BY <1>1, SMT
  <2>4. amount * g * (100 + v) \in Nat
    BY <2>3, SMT
  <2>5. r \in [base : Nat, igtf : Nat, iva : Nat, den : Nat] /\ r.den > 1
        /\ Sum(r) >= amount * r.den
    BY <1>1, <2>1, <2>2, <2>4 DEF Sum
  <2> QED
    BY <1>4, <2>5 DEF r
<1>5. CASE isp.add_igtf /\ isp.add_iva_usd
  <2>1. r = [base |-> amount * 100, igtf |-> amount * g, iva |-> amount * v, den |-> 100]
    BY <1>5 DEF calculateUSDPayment
  <2> HIDE DEF g, v, r
  <2>2. amount * g \in Nat /\ amount * v \in Nat
    BY <1>1, SMT
  <2>3. r \in [base : Nat, igtf : Nat, iva : Nat, den : Nat] /\ r.den > 1
        /\ Sum(r) >= amount * r.den
    BY <1>1, <2>1, <2>2 DEF Sum
  <2> QED
    BY <1>5, <2>3 DEF r
<1>6. isp.add_igtf \in BOOLEAN /\ isp.add_iva_usd \in BOOLEAN
  BY DEF Isps
<1> HIDE DEF r
<1> QED
  BY <1>2, <1>3, <1>4, <1>5, <1>6

(* In bolivares likewise, over a denominator of a thousand times a number. *)
LEMMA PartsVES ==
  ASSUME NEW amount \in Nat, NEW isp \in Isps, NEW rate \in Nat
  PROVE  LET r == calculateVESPayment(amount, isp, rate)
             price == toFixed2(amount * rate, 1000)
         IN  /\ r \in [base : Nat, igtf : Nat, iva : Nat, den : Nat]
             /\ \E k \in Nat \ {0} : r.den = 1000 * k
             /\ toFixed2(Sum(r), r.den) >= price
             /\ ~isp.add_iva_ves => toFixed2(Sum(r), r.den) = price
<1> DEFINE v == isp.iva_rate
           r == calculateVESPayment(amount, isp, rate)
           price == toFixed2(amount * rate, 1000)
           ar == amount * rate
           k == IF isp.add_iva_ves THEN 100 ELSE 100 + v
<1>1. v \in Nat /\ k \in Nat \ {0} /\ ar \in Nat
  BY DEF Isps
<1>2. r = [base |-> ar * 100, igtf |-> 0, iva |-> ar * v, den |-> 1000 * k]
  BY DEF calculateVESPayment
<1>3. price = toFixed2(ar * k, 1000 * k) /\ price \in Int
  <2>1. 1000 \in Nat \ {0} /\ ar \in Int
    BY <1>1
  <2> HIDE DEF ar, k
  <2>2. toFixed2(ar * k, 1000 * k) = toFixed2(ar, 1000)
    <3> DEFINE th == 1000
    <3>1. th \in Nat \ {0}
      OBVIOUS
    <3> HIDE DEF th
    <3>2. toFixed2(ar * k, th * k) = toFixed2(ar, th)
      <4>1. ar \in Int /\ k \in Nat \ {0}
        BY <1>1, <2>1
      <4> QED
        BY <4>1, <3>1, SameFraction
    <3> QED
      BY <3>2 DEF th
  <2>3. toFixed2(ar, 1000) \in Int
    BY <2>1, Rounded
  <2> QED
    BY <2>2, <2>3 DEF ar
<1>4. (~isp.add_iva_ves => k = 100 + v) /\ (isp.add_iva_ves => k = 100)
  OBVIOUS
<1> HIDE DEF v, r, ar, k, price
<1>5. ar * v \in Nat /\ ar * 100 \in Nat /\ ar * (100 + v) = ar * 100 + ar * v
  BY <1>1, SMT
<1>6. Sum(r) = ar * 100 + ar * v /\ Sum(r) \in Nat
  BY <1>2, <1>5 DEF Sum
<1>7. r \in [base : Nat, igtf : Nat, iva : Nat, den : Nat] /\ r.den = 1000 * k
  BY <1>1, <1>2, <1>5
<1>8. CASE ~isp.add_iva_ves
  <2>1. toFixed2(Sum(r), r.den) = price
    BY <1>3, <1>4, <1>5, <1>6, <1>7, <1>8
  <2> QED
    BY <1>1, <1>3, <1>7, <1>8, <2>1 DEF r, price, ar
<1>9. CASE isp.add_iva_ves
  <2>1. k = 100 /\ ar * k <= Sum(r) /\ ar * k \in Int
    BY <1>4, <1>5, <1>6, <1>9
  <2>2. toFixed2(ar * k, 1000 * k) <= toFixed2(Sum(r), 1000 * k)
    BY <1>6, <2>1, Monotone
  <2>3. toFixed2(Sum(r), r.den) >= price
    BY <1>3, <1>7, <2>2
  <2> QED
    BY <1>1, <1>7, <1>9, <2>3 DEF r, price, ar
<1> QED
  BY <1>8, <1>9

(* The fields of a quote, by what they are computed from.                  *)
Result(amount, currency, isp, rate) ==
    IF currency = "USD" THEN calculateUSDPayment(amount, isp)
    ELSE calculateVESPayment(amount, isp, rate)

LEMMA AnswerFields ==
  ASSUME NEW amount, NEW currency, NEW isp, NEW rate, NEW balance
  PROVE  LET r == Result(amount, currency, isp, rate)
             c == applySystemCommission(isp, currency, rate, r.den)
             f == r.base + r.igtf + r.iva + c
             a == InCurrency(balance, currency, rate, r.den)
             answer == calculatePayment(amount, currency, isp, rate, balance)
         IN  /\ answer.originalAmount = toFixed2(f, r.den)
             /\ answer.amount = toFixed2(Left(f, a, r.den).n, Left(f, a, r.den).d)
             /\ answer.balanceApplied = Applied(f, a, r.den)
             /\ answer.baseAmount = toFixed2(r.base, r.den)
             /\ answer.igtfAmount = toFixed2(r.igtf, r.den)
             /\ answer.ivaAmount = toFixed2(r.iva, r.den)
             /\ answer.systemCommission = toFixed2(c, r.den)
BY DEF calculatePayment, Left, Applied, Result

(* What holds of a quote in either currency.                               *)
PartsOf(answer) ==
    answer.baseAmount + answer.igtfAmount + answer.ivaAmount + answer.systemCommission

AddsUp(answer, r, c, a) ==
    /\ answer.originalAmount = toFixed2(Sum(r) + c, r.den) /\ Sum(r) \in Nat
    /\ SettlesInFull(answer)
    /\ answer.balanceApplied \in Int /\ r.den * answer.balanceApplied < a + r.den
    /\ \A b \in Nat : a = b * r.den => answer.balanceApplied <= b
    /\ Near(PartsOf(answer), answer.originalAmount)

LEMMA AnswerAdds ==
  ASSUME NEW amount, NEW currency, NEW isp, NEW rate, NEW balance, NEW r, NEW c \in Nat,
         NEW a \in Nat, r = Result(amount, currency, isp, rate),
         r \in [base : Nat, igtf : Nat, iva : Nat, den : Nat], r.den > 1,
         c = applySystemCommission(isp, currency, rate, r.den),
         a = InCurrency(balance, currency, rate, r.den)
  PROVE  AddsUp(calculatePayment(amount, currency, isp, rate, balance), r, c, a)
<1> DEFINE f == r.base + r.igtf + r.iva + c
           answer == calculatePayment(amount, currency, isp, rate, balance)
<1>1. /\ answer.originalAmount = toFixed2(f, r.den)
      /\ answer.amount = toFixed2(Left(f, a, r.den).n, Left(f, a, r.den).d)
      /\ answer.balanceApplied = Applied(f, a, r.den)
      /\ answer.baseAmount = toFixed2(r.base, r.den)
      /\ answer.igtfAmount = toFixed2(r.igtf, r.den)
      /\ answer.ivaAmount = toFixed2(r.iva, r.den)
      /\ answer.systemCommission = toFixed2(c, r.den)
  <2> HIDE DEF answer
  <2> QED
    BY AnswerFields DEF answer
<1>2. /\ r.base \in Nat /\ r.igtf \in Nat /\ r.iva \in Nat /\ r.den \in Nat \ {0}
      /\ f \in Nat /\ f = Sum(r) + c /\ Sum(r) \in Nat
  BY DEF Sum
<1> HIDE DEF answer
<1>3. Near(PartsOf(answer), answer.originalAmount)
  <2>1. Near(toFixed2(r.base, r.den) + toFixed2(r.igtf, r.den) + toFixed2(r.iva, r.den)
             + toFixed2(c, r.den), toFixed2(f, r.den))
    BY <1>2, PartsAdd, Zenon
  <2> QED
    BY <1>1, <2>1 DEF PartsOf
<1> HIDE DEF f
<1>4. SettlesAs(f, a, r.den)
  <2>1. r.den \in Nat /\ r.den > 1
    BY <1>2
  <2> QED
    BY <1>2, <2>1, Settled
<1> QED
  BY <1>1, <1>2, <1>3, <1>4 DEF answer, SettlesInFull, AddsUp, SettlesAs

(* A quote in dollars, and one in bolivares.                               *)
LEMMA QuoteInUSD ==
  ASSUME NEW amount \in Nat, NEW isp \in Isps, NEW rate \in Nat, NEW balance \in Nat, NEW q,
         q = [amountUSD |-> amount, currency |-> "USD", isp |-> isp, rate |-> rate,
              balance |-> balance,
              answer |-> calculatePayment(amount, "USD", isp, rate, balance)]
  PROVE  SettlesInFull(q.answer) /\ CoveredByBalance(q) /\ KeepsThePrice(q)
<1> DEFINE r == calculateUSDPayment(amount, isp)
           c == applySystemCommission(isp, "USD", rate, r.den)
           a == InCurrency(balance, "USD", rate, r.den)
<1>1. /\ r \in [base : Nat, igtf : Nat, iva : Nat, den : Nat] /\ r.den > 1
      /\ Sum(r) >= amount * r.den
      /\ ~isp.add_igtf /\ ~isp.add_iva_usd => Sum(r) = amount * r.den
  BY PartsUSD
<1>2. r = Result(amount, "USD", isp, rate)
  BY DEF Result
<1> HIDE DEF r
<1>3. a = balance * r.den /\ a \in Nat
  BY <1>1 DEF InCurrency
<1>4. c \in Nat /\ (isp.commission_type = "ISP_ASSUMES" => c = 0)
  BY <1>1 DEF applySystemCommission, InCurrency, systemCommission
<1> HIDE DEF a, c
<1>5. AddsUp(q.answer, r, c, a)
  <2>1. c = applySystemCommission(isp, "USD", rate, r.den) /\ a = InCurrency(balance, "USD", rate, r.den)
    BY DEF a, c
  <2>2. AddsUp(calculatePayment(amount, "USD", isp, rate, balance), r, c, a)
    BY <1>1, <1>2, <1>3, <1>4, AnswerAdds, <2>1, Zenon
  <2> QED
    BY <2>2
<1>6. ASSUME isp.commission_type = "ISP_ASSUMES"
      PROVE  /\ q.answer.originalAmount >= amount
             /\ ~isp.add_igtf /\ ~isp.add_iva_usd => q.answer.originalAmount = amount
  <2>1. q.answer.originalAmount = toFixed2(Sum(r), r.den) /\ Sum(r) \in Int
    BY <1>4, <1>5, <1>6 DEF AddsUp
  <2>2. r.den \in Nat \ {0} /\ amount * r.den = r.den * amount /\ amount * r.den \in Int
    BY <1>1
  <2>3. toFixed2(amount * r.den, r.den) = amount
    BY <2>2, RoundedTo
  <2>4. toFixed2(amount * r.den, r.den) <= toFixed2(Sum(r), r.den)
    BY <1>1, <2>1, <2>2, Monotone
  <2>5. toFixed2(Sum(r), r.den) \in Int
    BY <2>1, <2>2, Rounded
  <2> QED
    BY <1>1, <2>1, <2>3, <2>4, <2>5
<1>7. CoveredByBalance(q)
  BY <1>3, <1>5 DEF CoveredByBalance, AddsUp
<1>8. KeepsThePrice(q)
  BY <1>5, <1>6 DEF KeepsThePrice, AddsUp, Near, PartsOf
<1> QED
  BY <1>5, <1>7, <1>8 DEF AddsUp

LEMMA QuoteInVES ==
  ASSUME NEW amount \in Nat, NEW isp \in Isps, NEW rate \in Nat, NEW balance \in Nat, NEW q,
         q = [amountUSD |-> amount, currency |-> "VES", isp |-> isp, rate |-> rate,
              balance |-> balance,
              answer |-> calculatePayment(amount, "VES", isp, rate, balance)]
  PROVE  SettlesInFull(q.answer) /\ CoveredByBalance(q) /\ KeepsThePrice(q)
<1> DEFINE r == calculateVESPayment(amount, isp, rate)
           c == applySystemCommission(isp, "VES", rate, r.den)
           a == InCurrency(balance, "VES", rate, r.den)
           price == toFixed2(amount * rate, 1000)
<1>1. /\ r \in [base : Nat, igtf : Nat, iva : Nat, den : Nat]
      /\ \E k \in Nat \ {0} : r.den = 1000 * k
      /\ toFixed2(Sum(r), r.den) >= price
      /\ ~isp.add_iva_ves => toFixed2(Sum(r), r.den) = price
  BY PartsVES
<1>2. r = Result(amount, "VES", isp, rate)
  BY DEF Result
<1>3. PICK k \in Nat \ {0} : r.den = 1000 * k
  BY <1>1
<1> HIDE DEF r, price
<1>4. r.den > 1 /\ r.den \div 1000 = k
  <2>1. (1000 * k) \div 1000 = k
    BY SMT
  <2> QED
    BY <1>3, <2>1
<1>5. a = balance * rate * k /\ a \in Nat
  <2>1. balance * rate \in Nat
    BY SMT
  <2>2. balance * rate * k \in Nat
    BY <2>1, SMT
  <2> QED
    BY <1>4, <2>2 DEF InCurrency
<1>6. c \in Nat /\ (isp.commission_type = "ISP_ASSUMES" => c = 0)
  <2>1. 50 * rate \in Nat
    BY SMT
  <2>2. 50 * rate * k \in Nat
    BY <2>1, SMT
  <2> QED
    BY <1>4, <2>2 DEF applySystemCommission, InCurrency, systemCommission
<1> HIDE DEF a, c
<1>7. AddsUp(q.answer, r, c, a)
  <2>1. c = applySystemCommission(isp, "VES", rate, r.den) /\ a = InCurrency(balance, "VES", rate, r.den)
    BY DEF a, c
  <2>2. r \in [base : Nat, igtf : Nat, iva : Nat, den : Nat] /\ r.den > 1
    BY <1>1, <1>4
  <2>3. c \in Nat /\ a \in Nat
    BY <1>5, <1>6
  <2>4. AddsUp(calculatePayment(amount, "VES", isp, rate, balance), r, c, a)
    BY <1>2, <2>1, <2>2, <2>3, AnswerAdds, Zenon
  <2> QED
    BY <2>4
<1>8. ASSUME isp.commission_type = "ISP_ASSUMES"
      PROVE  /\ q.answer.originalAmount >= price
             /\ ~isp.add_iva_ves => q.answer.originalAmount = price
  BY <1>1, <1>6, <1>7, <1>8 DEF AddsUp
<1>9. q.answer.balanceApplied * 1000 < balance * rate + 1000
  <2> DEFINE ap == q.answer.balanceApplied
             br == balance * rate
  <2>1. ap \in Int /\ br \in Nat /\ (1000 * k) * ap < br * k + 1000 * k
    BY <1>3, <1>5, <1>7 DEF AddsUp
  <2> HIDE DEF ap, br
  <2>2. k * (ap * 1000) < k * (br + 1000)
    <3>1. k * (ap * 1000) = (1000 * k) * ap /\ k * (br + 1000) = br * k + 1000 * k
      BY <2>1, SMT
    <3> QED
      BY <2>1, <3>1
  <2>3. ap * 1000 < br + 1000
    BY <2>1, <2>2, Cancel
  <2> QED
    BY <2>3 DEF ap, br
<1>10. CoveredByBalance(q)
  BY <1>9 DEF CoveredByBalance
<1>11. KeepsThePrice(q)
  BY <1>7, <1>8 DEF KeepsThePrice, price, AddsUp, Near, PartsOf
<1> QED
  BY <1>7, <1>10, <1>11 DEF AddsUp

(* Every quote is of such a kind.                                          *)
LEMMA QuoteKept == RatesInv /\ [Next]_vars /\ QuoteSettles => QuoteSettles'
<1> SUFFICES ASSUME RatesInv, [Next]_vars, QuoteSettles, NEW q \in quote'
             PROVE  SettlesInFull(q.answer) /\ CoveredByBalance(q) /\ KeepsThePrice(q)
    BY DEF QuoteSettles
<1>1. CASE quote' = quote
  BY <1>1 DEF QuoteSettles
<1>2. CASE Quote
  <2>1. PICK rate \in LatestRate, amount \in Amounts, currency \in {"USD", "VES"},
             isp \in IspConfigs, balance \in Balances :
          q = [amountUSD |-> amount, currency |-> currency, isp |-> isp,
               rate |-> Bcv(rate), balance |-> balance,
               answer |-> calculatePayment(amount, currency, isp, Bcv(rate), balance)]
    BY <1>2 DEF Quote
  <2>2. Bcv(rate) \in Nat /\ amount \in Nat /\ balance \in Nat /\ isp \in Isps
    BY QuotesAssumption DEF RatesInv, LatestRate, Isps
  <2>3. CASE currency = "USD"
    BY <2>1, <2>2, <2>3, QuoteInUSD
  <2>4. CASE currency = "VES"
    BY <2>1, <2>2, <2>4, QuoteInVES
  <2> QED
    BY <2>3, <2>4
<1> QED
  BY <1>1, <1>2 DEF Next, vars

(* QuoteSettles: whatever the price, the rate, the taxes and the balance,  *)
(* what payment-calculator.service.ts answers adds up to the price it      *)
(* names, takes no more than the balance and never falls below the price,  *)
(* rounding each number on its own as it does.                             *)
THEOREM QuoteSettled == Spec => []QuoteSettles
<1>1. Init => QuoteSettles
  BY DEF Init, QuoteSettles
<1>2. IInv => RatesInv
  BY DEF IInv
<1> QED
  BY <1>1, <1>2, QuoteKept, QuotesInvariant, PTL DEF Spec
=============================================================================
