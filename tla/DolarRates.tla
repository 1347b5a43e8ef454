----------------------------- MODULE DolarRates -----------------------------
(***************************************************************************)
(* DolarRateScraper (currency-rates/services/): an update launches a       *)
(* browser, reads the two rates off one page, and inserts them when they   *)
(* differ from the latest row.  Nothing keeps two updates apart, and they  *)
(* share this.browser and this.page.  A pair of rates is one value here.   *)
(***************************************************************************)
EXTENDS Naturals, Sequences, FiniteSets

CONSTANTS
    Rates,          \* pairs of rates the site can show
    EarlierRows,    \* what earlier updates may have left
    Updates,        \* invocations of updateDolarRates, 1..n in their order
    MaxAttempts,    \* maxAttempts of scrapeParallel
    MaxChanges      \* bound: how often the site changes


VARIABLES
    dolar_rate,     \* the table, in the order of created_at
    site,           \* what the site shows
    changes,        \* how often it has changed
    browser,        \* this.browser
    page,           \* this.page: the browser it is of, and whether it shows the site
    open,           \* the browsers that run
    update,         \* what each update is doing
    overlapped      \* history: updates that were under way together

ratesVars == <<dolar_rate, site, changes, browser, page, open, update, overlapped>>

Missing == "missing"        \* a rate that is null or 0
NotANumber == "NaN"         \* a text parseFloat makes nothing of

ASSUME DolarRatesAssumption ==
    /\ MaxAttempts \in Nat \ {0} /\ MaxChanges \in Nat
    /\ EarlierRows \subseteq Seq(Rates)
    /\ Missing \notin Rates /\ NotANumber \notin Rates

None == <<>>               \* no browser

Readings == Rates \cup {Missing, NotANumber}

(* Each update's first browser, and the one of each of its attempts.       *)
Browsers == Updates \X (0..MaxAttempts)

NoPage == [of |-> None, loaded |-> FALSE]

UpdateInFlight == {"launching", "opening", "scraping", "going", "evaluating", "failing",
                   "comparing", "saving", "closing", "closingAgain"}

(* "then" is where initialize returns to.                                  *)
Fresh == [pc |-> "idle", then |-> "scraping", attempts |-> 0, reading |-> Missing]

RatesTypeOK ==
    /\ dolar_rate \in Seq(Rates)
    /\ site \in Readings /\ changes \in 0..MaxChanges
    /\ browser \in Browsers \cup {None} /\ page.of \in Browsers \cup {None}
    /\ open \subseteq Browsers
    /\ \A u \in Updates : /\ update[u].pc \in {"idle", "done"} \cup UpdateInFlight
                          /\ update[u].attempts \in 0..MaxAttempts
                          /\ update[u].reading \in Readings
    /\ overlapped \subseteq Updates

InitRates ==
    /\ dolar_rate \in EarlierRows
    /\ site \in Readings /\ changes = 0
    /\ browser = None /\ page = NoPage /\ open = {}
    /\ update = [u \in Updates |-> Fresh]
    /\ overlapped = {}

At(u, pc) == update[u].pc = pc
Goto(u, pc) == update' = [update EXCEPT ![u].pc = pc]

-----------------------------------------------------------------------------

SiteChanges ==
    /\ changes < MaxChanges
    /\ site' \in Readings \ {site}
    /\ changes' = changes + 1
    /\ UNCHANGED <<dolar_rate, browser, page, open, update, overlapped>>

(* The provider starts one at once and then one an hour, whatever has      *)
(* become of the last one.                                                 *)
StartUpdate(u) ==
    /\ At(u, "idle")
    /\ \A v \in 1..(u - 1) : ~At(v, "idle")
    /\ update' = [update EXCEPT ![u].pc = "launching"]
    /\ LET rivals == {v \in Updates : update[v].pc \in UpdateInFlight} IN
       overlapped' = overlapped \cup rivals \cup (IF rivals = {} THEN {} ELSE {u})
    /\ UNCHANGED <<dolar_rate, site, changes, browser, page, open>>

(* The browser an update launches next, or has just launched.              *)
Launched(u) ==
    <<u, IF update[u].then = "scraping" THEN 0 ELSE update[u].attempts + 1>>

(* The browsers somebody still refers to; others run on, out of reach.     *)
Referred(b, p) ==
    {b, p.of} \cup {Launched(u) : u \in {v \in Updates : At(v, "opening")}}

(* initialize: the browser is replaced, not closed; an error is caught,    *)
(* and the browser and the page there were stay.                           *)
Launch(u) ==
    /\ At(u, "launching")
    /\ \/ /\ browser' = Launched(u)
          /\ open' = (open \cap Referred(browser', page)) \cup {Launched(u)}
          /\ Goto(u, "opening")
       \/ /\ Goto(u, update[u].then)
          /\ UNCHANGED <<browser, open>>
    /\ UNCHANGED <<dolar_rate, site, changes, page, overlapped>>

OpenPage(u) ==
    /\ At(u, "opening")
    /\ \/ Launched(u) \in open /\ page' = [of |-> Launched(u), loaded |-> FALSE]
       \/ UNCHANGED page
    /\ open' = open \cap (Referred(browser, page') \ ({Launched(u)} \ {browser, page'.of}))
    /\ Goto(u, update[u].then)
    /\ UNCHANGED <<dolar_rate, site, changes, browser, overlapped>>

(* scrapeParallel: after the last attempt it returns null, which throws    *)
(* where updateDolarRates takes it apart.                                  *)
Scrape(u) ==
    /\ At(u, "scraping")
    /\ update' = [update EXCEPT ![u] = [@ EXCEPT
          !.pc = IF update[u].attempts >= MaxAttempts THEN "closing"
                 ELSE IF page.of \in open THEN "going" ELSE "launching",
          !.then = "going"]]
    /\ UNCHANGED <<dolar_rate, site, changes, browser, page, open, overlapped>>

GoToSite(u) ==
    /\ At(u, "going")
    /\ \/ /\ page.of \in open
          /\ page' = [page EXCEPT !.loaded = TRUE]
          /\ Goto(u, "evaluating")
       \/ Goto(u, "failing") /\ UNCHANGED page
    /\ UNCHANGED <<dolar_rate, site, changes, browser, open, overlapped>>

(* Both rates in one evaluation, off whatever page this.page is by now.    *)
(* What is null or 0 is tried again, what is not a number is not.          *)
Evaluate(u) ==
    /\ At(u, "evaluating")
    /\ LET seen == IF page.loaded THEN site ELSE Missing IN
       \/ page.of \in open /\ seen = Missing
          /\ update' = [update EXCEPT ![u] =
                [@ EXCEPT !.pc = "scraping", !.attempts = update[u].attempts + 1]]
       \/ page.of \in open /\ seen # Missing
          /\ update' = [update EXCEPT ![u] = [@ EXCEPT !.pc = "comparing", !.reading = seen]]
       \/ Goto(u, "failing")
    /\ UNCHANGED <<dolar_rate, site, changes, browser, page, open, overlapped>>

(* Mutant: an attempt that failed does not count.                          *)
RetryUncounted(u) ==
    /\ At(u, "failing")
    /\ open' = open \ {browser}
    /\ Goto(u, "scraping")
    /\ UNCHANGED <<dolar_rate, site, changes, browser, page, overlapped>>

(* close, and another attempt.                                             *)
Retry(u) ==
    /\ At(u, "failing")
    /\ open' = open \ {browser}
    /\ update' = [update EXCEPT ![u] =
          [@ EXCEPT !.pc = "scraping", !.attempts = update[u].attempts + 1]]
    /\ UNCHANGED <<dolar_rate, site, changes, browser, page, overlapped>>

(* Mutant: findFirst without an order.                                     *)
OldestRate == {dolar_rate[i] : i \in {1} \cap DOMAIN dolar_rate}

(* findFirst by created_at, descending.                                    *)
LatestRate == {dolar_rate[i] : i \in {Len(dolar_rate)} \cap DOMAIN dolar_rate}

(* A new row only for rates that differ from the latest.                   *)
CompareRates(u) ==
    /\ At(u, "comparing")
    /\ Goto(u, IF update[u].reading = NotANumber \/ update[u].reading \in LatestRate
               THEN "closing" ELSE "saving")
    /\ UNCHANGED <<dolar_rate, site, changes, browser, page, open, overlapped>>

SaveRates(u) ==
    /\ At(u, "saving")
    /\ dolar_rate' = Append(dolar_rate, update[u].reading)
    /\ Goto(u, "closing")
    /\ UNCHANGED <<site, changes, browser, page, open, overlapped>>

(* A query fails; the update ends with an error in the log.                *)
UpdateFails(u) ==
    /\ At(u, "comparing") \/ At(u, "saving")
    /\ update' = [update EXCEPT ![u] = [@ EXCEPT !.pc = "closing", !.reading = Missing]]
    /\ UNCHANGED <<dolar_rate, site, changes, browser, page, open, overlapped>>

(* close at the end of updateDolarRates, and once more in the provider:    *)
(* of this.browser, whoever has launched it.                               *)
Close(u) ==
    /\ At(u, "closing") \/ At(u, "closingAgain")
    /\ open' = open \ {browser}
    /\ update' = [update EXCEPT ![u].pc = IF @ = "closing" THEN "closingAgain" ELSE "done"]
    /\ UNCHANGED <<dolar_rate, site, changes, browser, page, overlapped>>

UpdateStep(u) ==
    \/ Launch(u) \/ OpenPage(u) \/ Scrape(u) \/ GoToSite(u) \/ Evaluate(u) \/ Retry(u)
    \/ CompareRates(u) \/ SaveRates(u) \/ UpdateFails(u) \/ Close(u)

-----------------------------------------------------------------------------
(* An update that gets its rates through leaves them as the latest, and a  *)
(* row never repeats the one before it, unless two updates overlapped.     *)
LatestIsWhatWasRead ==
    [][ \A u \in Updates \ overlapped :
          /\ update[u].pc \in {"comparing", "saving"} /\ update'[u].pc = "closing"
          /\ update'[u].reading \in Rates
          => /\ LatestRate' = {update[u].reading}
             /\ dolar_rate' # dolar_rate => LatestRate # LatestRate' ]_ratesVars

(* Every update ends, however the site, the browser and other updates get  *)
(* in its way.                                                             *)
UpdatesEnd ==
    \A u \in Updates : update[u].pc \in UpdateInFlight ~> update[u].pc = "done"
=============================================================================
