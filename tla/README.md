# A TLA+ model of netispay-backend

netispay-backend is the server internet providers let their clients pay through:
a client pays one or more invoices through a bank, the server confirms the payment
with the bank, registers it at the provider's network manager (MikroWisp or
Wisphub) and keeps the books in PostgreSQL. A payment that falls short becomes a
balance of the client, which later payments can draw on.

This directory holds TLA+ modules of that system, TLC configurations that check
them on small instances, and proofs that TLAPS checks for instances of any size.
Paths below are relative to `src/src/modules/` unless they start with `src/`.

## 1. The system

| Component | State it keeps | Operations | Talks to |
|---|---|---|---|
| Paying invoices, `users/invoices/invoices.service.ts` | `invoice_payments` rows of type BANK_TRANSACTION; locals of each request | `processPayment`, `deleteTransaction`, listings | a bank product, balances, a network manager |
| Client balances, `users/invoices/automatic-balance-registration.service.ts` | `client_balance`, `balance_movement`, `invoice_payments` rows of type BALANCE | `registerAutomaticBalance`, `applyBalanceToPayment`, `verifyAvailableBalance` | the database |
| Bank products, `bank-connectors/` | `transactions`; the configuration each service object keeps | `processPayment` of Binance, Banco Plaza, Banesco | the bank, the database |
| MikroWisp, `network-managers/mikrowisp/` | the configuration the adapter keeps; payments are kept by MikroWisp | `payInvoice` with a retry, `deleteTransaction`, `updateUser`, listings | MikroWisp over HTTP |
| Wisphub, `network-managers/wisphub/` | the configuration the adapter keeps | the same interface; every payment throws after the post | Wisphub over HTTP |
| Currency rates, `currency-rates/` | `dolar_rate`; one shared browser and page | hourly scrape with five attempts; payment calculator | a web page, the database |
| Sessions, `auth/session/` | `session` | sign in, validate and renew | the database |
| Users, `users/user/` | `user` and its profiles | create, update, soft and hard delete | network manager, database |
| Settings, `settings/` | `network_manager`, `isp_configuration` | create, update, remove | the database |
| Bank product administration, `bank-connectors/services/` | `bank_product` and its two tables | create, update | the database |
| Initialization, `initialization/` | seeds all configuration tables | seven services at every start | the database |
| Encryption, `encryption/` | none | `encrypt`, `decrypt`, which throw on what is absent | |
| Accounting managers, Bancaribe, logging, mail, HTTP wiring | none of interest | | |

The process is one Node.js event loop: between two `await`s nothing interleaves,
and at every `await` everything does. What is hard in it:

* **Interleaving over the database.** Only `applyBalanceToPayment` and the two
  deletes of `deleteTransaction` run inside a DB transaction, at READ COMMITTED,
  and the first reads what it decides on before the transaction opens. Everywhere
  else a check and the write it allows are separate statements: the duplicate check
  of Binance, the emails of users, the update of a bank product, the expiry of a
  session, the latest rate.
* **Side by side.** `Promise.all` pays all invoices of a request at once and
  answers with the first failure, while the others run on. Nothing is undone.
* **Answers that get lost.** A charge or a registration whose answer is lost looks
  like a refusal.
* **Crashes.** There is no record of a payment in progress: what a crash cuts off
  is never taken up again. Start-up is cut off between any two of its inserts, and
  some of its services take one row for all of them at the next start.
* **Two books.** A network manager and the database are changed one after the other,
  by payments, by deletions and by updates of users, the network manager first.
* **Shared objects.** The scraper's browser and page belong to whichever update
  touched them last; adapters keep the configuration they read first.
* **Rounding.** Amounts are compared in the payment's currency in one place and in
  USD cents in another; a quote rounds each of its numbers on its own.

PROJECT.json lists each of these hazards at its line, with the properties that
would notice it. Where it names none, the models have the behaviour and the properties
except it, since the code promises nothing better there; its note says which.

What makes each component correct:

* balances: money is neither made nor lost; what a call draws is drawn completely
  or not at all, oldest balance first; rows that belong together exist together;
* bank products: a SUCCESS row exists exactly for a confirmed payment, the money of
  it is there, and no deposit is credited twice;
* network managers: an invocation registers at most one payment and returns only if
  it did;
* paying invoices: success means everything is settled; the books never run ahead of
  MikroWisp; the money of a transaction has one use; every request is answered;
* rates: what an update reads becomes the latest rate, and every update ends; a
  transaction names the rate of its time; a quote is neither short nor beyond the
  balance;
* sessions: nobody gets in without the password, or after 30 days away, and who still
  sends the token in time is let in;
* users: one row per email, and an update that succeeds has reached both books;
* configuration: a restart completes what a crash cut off and takes nothing back; an
  edit takes effect as a whole; what a service keeps was really configured.

## 2. The modules

| Module | Models | State |
|---|---|---|
| `BalanceLedger` | the balance service over its three tables | `balances` (client_balance, oldest first), `payments` (BALANCE rows), `movements`, `calls` (one record per running `applyBalanceToPayment`), and two history variables: `spent`, what committed calls have drawn, and `stale`, the balances overwritten from an outdated snapshot |
| `BalanceAccount` | nothing of the code: the abstract promise `BalanceLedger` keeps to a client | `account` (one number per client), `request`, `answer`, `booked`, `overtaken` |
| `BankProducts` | Binance VERIFICATION_API, Banco Plaza C2P, Banesco PAY_BUTTON | `transactions`, `bank` (one record per running `processPayment`), `charged` (at Banco Plaza, external) |
| `Mikrowisp` | `payInvoice`, `processPayment`, `deleteTransaction` of MikroWisp | `paid` (at MikroWisp, external), `posts` (one record per running `payInvoice`), history variable `undone` |
| `Wisphub` | the same operations of Wisphub, and the choice between the two | those of `Mikrowisp`, and `manager` |
| `PaymentFlow` | `processPayment` and `deleteTransaction` of invoices.service.ts, composed of instances of `BankProducts`, `BalanceLedger` and `Mikrowisp` | their variables, and `requests`, `tasks` (one per invoice of a request), `bankRows`, `deletions` |
| `PaymentContract` | nothing of the code: the abstract promise `PaymentFlow` keeps | `money` (where the money of a request is), `answer` |
| `Encryption` | what callers can tell of `encrypt` and `decrypt` | |
| `Catalog` | the rows start-up inserts | |
| `ConfigurationTables` | the configuration tables with their keys and foreign keys | `db`, a record of tables |
| `Initialization` | the seven services of start-up | `boot` (the service and the inserts it has left), `deaths`, history `cutOff` |
| `Settings` | edits of network managers and ISP configurations | `db` |
| `BankProductAdmin` | creation of a bank product, and its update statement by statement | `update` (one record per running update), histories `contended` and `renamed` (the bank and name of products to which an update since start-up has given others) |
| `Configuration` | the three above over the lifetime of a process, with the services that read the configuration once and keep it | `kept`, `calls`, `edits`, history `seen` |
| `Accounts` | creation, update and deletion of users over a network manager | `users`, `lastId`, `isp`, `records` (at the network manager, external), `request`, history `contended` |
| `Sessions` | sign-in and the guard, with a clock | `sessions`, `now`, `visit`, histories `issued`, `lastUse`, `lastAnswer`, `crossed` |
| `Access` | `Accounts` and `Sessions` together | theirs, and histories `holders` (who has had the email an update asks for, ever since it began) and `entitled` (whose email and password a sign-in under way has sent) |
| `DolarRates` | updates of the rates, with the browser they share | `dolar_rate`, `site`, `browser`, `page`, `open`, `update`, history `overlapped` |
| `PaymentCalculator` | the calculator, operators only | |
| `Quotes` | quotes, and the rate a transaction is recorded with, over `DolarRates` | `payment`, `kept`, `quote` |
| `BalanceLedgerProofs`, `BankProductsProofs` | theorems about `BalanceLedger`, and that it implements `BalanceAccount`; about `BankProducts` | |
| `WisphubProofs` | theorems about `Wisphub`, and so about `Mikrowisp` | |
| `PaymentFlowProofs`, `PaymentContractProofs` | theorems about `PaymentFlow`; that it implements `PaymentContract` | |
| `ConfigurationProofs`, `AccessProofs`, `QuotesProofs` | theorems about `Configuration`, `Access`, `Quotes` and what they extend | |
| `MC...` | values for TLC | |

A step of the model is what the code does between two `await`s that matter; reads
and writes with nothing in between that another request can see are one step.

`BalanceLedger`. `ReadBalances` is the `findMany` before the transaction: from there
on the call works on `seen`, the amounts of that snapshot, and on `plan`, the ids of
it. `UseBalance` is one turn of the loop, three statements of one transaction; the
update blocks while another transaction has updated the row (`Locked`). Nothing is
visible before `CommitApply`, which writes snapshot minus use as the code does, not
current minus use. `RefuseApply` and `FailApply` are the throw after the loop and any
database error, with the rollback; `Crash` ends all calls. The ids of balances are
their positions in a sequence, so the order of ids is the order of `created_at`.

`BalanceAccount` has no rows: partial payments fill a client's account and a call draws
on it in one step. The account is what `findMany` offers the client (`Held`). A call that
pays does so where the transaction commits; a call that is refused for lack of money was
short where it took its snapshot (`Short`: what it has not visited yet will not do), even
if it throws much later. Where the snapshot of a call is outdated (`Overtaken`) the
abstract specification says so and lets it leave in the account whatever it does.

`BankProducts`. A request is at Binance (`StartVerification`, `CheckDuplicate`,
`AskHistory`) or at Banco Plaza (`StartCharge`, `ChargeAccepted`, `ChargeFailed`), and
then writes its row (`RecordSuccess`, `RecordFailure`) or throws. Binance can answer
with an error although it holds the deposit, but not with a deposit it does not hold.
`ChargeFailed` and `BankCrash` leave open whether the client was charged. A request
for Banesco always throws (`VerifyThrows`): nothing assigns the adapter it would ask.

`Mikrowisp`. A number MikroWisp knows is refused and retried under a prefix. The
answer of the retry is returned without the wrapping its caller reads from, so
`RetryReturns` always throws: that is the code, not a simplification. `UndoInvoice`
removes the payments of the invoice, since DeleteTransaccion names nothing else.

`Wisphub`. One post and no retry; the bare answer is read as in MikroWisp's retry, so
`WisphubPost` throws whatever Wisphub has done. `WisphubUndo` is one post for all
invoices, whose answer nobody reads.

`PaymentFlow`. `StartPayment` up to `ReturnRefusal` are processPayment until the bank
has answered; `SettlePartial` and `SettleFull` decide on the amounts; the tasks go
through `ManagerWorks`, `ApplyBalance`, `LedgerWorks` and `RecordPayment`;
`ReturnSuccess` and `ReturnFailure` are the two ends of `Promise.all`. A deletion is
`StartDeletion`, one `UndoPayment` per invoice, and `EraseLocally`. Each of these is a
conjunction of an action of an instance and what the service itself does.
`ToUsd` rounds to a cent as `Math.round` of the quotient does.

`Configuration` and what it extends. Each service of start-up reads its tables
(`ReadTables`) and plans batches of inserts, a batch being one `Promise.all` or one
statement; `WriteRow` makes one insert, in any order within a batch. A field of a row
is absent, empty, plain or encrypted (`Encryption`), which is what its readers tell
apart. `UpdateStep` is one statement of an update of a bank product, worked off against
the rows it read first. An update may name any part of a product, since its DTO is a
`PartialType` of that of the creation: `columns` of a dto are those of bank, name and
is_active it names. A product can so be renamed, or moved to another bank, where nothing
keeps it apart from another of that name; a bank there is not breaks the foreign key after
the rates and properties have been written (`WriteProduct`). `ReadConfig` and `KeepConfig` are the first call of an adapter,
or of the service behind /banco-plaza, which has one object for the whole process.
`DieWithMemory` ends the process.

`Access` and what it extends. Every query and every call of a network manager is a step
of `AccountStep`; every query of the guard or of sign-in one of `VisitStep`. A password
is stored hashed by a creation and as sent by an update, as in the code. `LoseManager`
is the removal of the ISP's network manager in the settings. A tick of the clock stands
for days; a request may see one tick pass, not more.

`DolarRates`. `Launch` and `OpenPage` are `initialize`; `Scrape` decides on another
attempt, `GoToSite` and `Evaluate` make it, `Retry` is its catch. After the last attempt
`scrapeParallel` returns null, which throws: the update goes to `closing` without having
read anything. `Close` closes whatever browser the object holds by then.

`PaymentCalculator`. Sums of fractions keep a common denominator until the code rounds
them with `toFixed(2)`.

### What is abstracted

* Amounts are naturals, in cents; `toFixed(2)` after every operation makes that exact
  for the ledger. Quotes are computed in exact fractions: what binary floating point
  adds below that is left out. Amounts a client claims below zero and a missing
  exchange rate are not among the inputs of `PaymentFlow`; an empty list of invoices,
  which the DTO lets through, is.
* A request is one call of `processPayment`; a client that tries again is another
  request.
* The amounts sent to the network manager are left out: nothing in the code depends on
  them.
* The look-ups at the start of a payment (user, product configuration, network manager)
  are one choice between going on and throwing; what they find is modelled by
  `Configuration` and `Quotes`.
* A commit whose confirmation is lost, and PostgreSQL aborting a transaction on its
  own, are covered by `FailApply` only as far as the transaction is undone.
* A Banco Plaza reference is new for each charge; a Binance reference is what the client
  names.
* Of a pair of rates, a text or a credential only what tells it from others is kept. The
  catalog in TLC's instance is a slice with every kind of entry.
* A quote changes nothing and reads one row of the rates, so `Quotes` makes quotes only
  while no update or payment has begun, for every row that can be the latest.
* `Accounts` has at most one active ISP, as start-up makes it.

## 3. What TLC checks

| Run | Instance | Result |
|---|---|---|
| `ledger` | 2 clients, 2 partial payments, 2 calls, amounts 0..3, fair | 266 thousand states; eight properties hold and `BalanceAccount` is implemented |
| `ledger_overspend` | 1 client, 2 partial payments, 2 calls | `NoOverspend` is violated |
| `bank` | 3 requests, a deposit that exists and one that does not, charges of 1 and 2, fair | 98 thousand states; five properties hold |
| `bank_double` | 2 requests | `CreditedOnce` is violated |
| `mikrowisp` | 3 payments, 2 invoices, 2 numbers, over MikroWisp or Wisphub, fair | 37 thousand states; four properties hold |
| `payment` | 2 requests, 2 invoices, 1 deletion, all kinds of payments | 1.3 million states; five invariants hold and `PaymentContract` is implemented |
| `payment_answers` | 2 requests, 2 invoices, 2 deletions, a short payment and one of two invoices with a balance applied, fair | 66 thousand states; `RequestsAnswered` and `DeletionsAnswered` hold |
| `payment_partial`, `payment_deleted` | 2 requests | one property each is violated |
| `configuration` | an empty database and one of an earlier release, 2 deaths, 2 disturbances, 2 updates, 2 calls | 428 thousand states; five properties hold |
| `access` | 2 requests, 2 visits, 1 token, 2 emails, 2 subscribers, 6 ticks | 2.3 million states; four properties hold |
| `quotes` | 2 updates, 2 payments, 2 rates, 2 prices, 4 balances, every configuration of taxes and commission, fair | 0.9 million states; five properties hold |

What the properties say, and why they could fail:

* `ledger`. `AllOrNothing` and `RowsPaired` depend on the rollback and on the commit
  being one step; `Conserved` and `OnlyDrawnDown` say exactly how far the outdated
  snapshot reaches: a balance nobody overwrote is right to the cent; `MovementsChain`
  makes the movements a trail an accountant can follow; `OldestFirst` and `CallsEnd`
  both hang on the order of `findMany`, the second because it is also the order in
  which rows are locked. `KeepsAccount` is what a client can see of all that: refused
  only if there was too little when the call looked, charged exactly what was asked, no
  money hidden by a wrong status and none of another client's touched, whatever fails.
* `bank`. `RowsTellOutcome` and `CreditsAreFunded` tie the table to what happened at
  the bank, in the direction that holds: a FAILED row may hide a charge, a SUCCESS row
  never lacks one. `NoLateCredit` is what the duplicate check does achieve: a deposit
  credited before a request starts is never credited to it.
* `mikrowisp`. `OnePaymentPerTask` says the retry never pays twice, `AnsweredIsPaid`
  that a return is never a guess, `PostsEnd` that every invocation comes back or throws. All
  three are per invocation: a client that tries again makes another. The types include that
  a second number is always the first one prefixed (`PrefixedOnRetry`).
* `payment`. `SuccessIsSettled` reads success the way a client does; `RecordedIsPaid`
  orders the two books; `MoneyHasOneUse` and `NothingDangles` relate four tables;
  `KeepsContract` says the money of a request only moves from the bank to a balance or
  to invoices, and is only lost by deleting what was spent on invoices. A request is
  told success with its money still at the bank only if it named no invoice.
* `configuration`. `SeedingHeals` takes the log line "Sistema inicializado
  correctamente" at its word and names the exceptions: a service that counts rows and
  was cut off between two of them stays incomplete for good; an administrator can have edited
  the network managers; and payments and start-up know a bank product by its bank and name,
  so that one an update since start-up has renamed may be missing under the old name, while
  no other may, until the next start creates it again. `RestartKeepsSettings`
  says that start-up, run over tables an administrator has edited, adds and renames but
  does not take back. `UpdateTakesEffect` reads an answered update as one piece,
  although it is as many statements as it has rates and properties: the product then has
  all it was sent, bank, name, is_active, each credential such that `decrypt` gives it
  back, each rate and property, the last of a currency or key that is sent twice, as the
  instance does; at no step does anything change that the update does not name, or a
  currency get a second rate, unless the update names it twice. Only updates of one product
  that cross are exempt. `KeptWasConfigured` says that an address and a key kept
  together were once configured together.
* `access`. `AdmissionIsEarned` first says who is given a token: the user whose email and
  password the visit has sent, as the table had them, hashed, when it came, although the
  comparison is awaited and the row can be changed or deleted meanwhile. Then it is about
  every chain of renewals: however many requests renew one session side by side, only that
  user gets in with it, and not 30 days after its last use.
  `ReturningUserIsLetIn` is the other direction, and names what spoils it: a request
  that read a session as expired can delete it after another has renewed it. It is about
  who still sends the token: a request without the cookie, which a browser drops after
  seven days, is refused before any session is looked up, and is left out.
  `UpdateReachesBoth` says how far the order "look the email up, network manager,
  database" keeps the two books together.
* `quotes`. `LatestIsWhatWasRead` and `UpdatesEnd` hold over a browser that other
  updates close and replace; `TransactionNamesItsRate` says that a payment through an
  invoice records a rate of its own time. `QuoteSettles` compares the quote with what
  the rest of the program does with it: paid as quoted, it is not a partial payment, the
  balance it applies is there but for a fraction of a cent in VES, and its parts add up
  although each is rounded alone.

**Bounds.** All sets are finite and each request, call and deletion runs once, so every
instance stops by itself, which is why the configurations switch the deadlock check off.
Two calls are what a lost update takes, and with two balances a call can need one, both
or more than there is; three calls were checked once (1.3 million states) and add
nothing. Amounts 0..3 make a balance spent in one, two or three draws, and 0 is what a
small payment in VES rounds to. Two requests are one that makes a balance and one that
spends it, or two under one reference; two invoices are the smallest `Promise.all`; two
deletions the smallest race between them. `Amounts` is not enumerated in `PaymentFlow`
and bounds nothing there.

`MaxDeaths` is two, a death and one more while the next start makes up for it;
`MaxDisturbances` bounds deaths and edits together by two: two edits, a death before an
edit or after it. A session of four ticks with two for its renewal has each of its
phases twice; `MaxTime` of six is a session, its renewal and the end of that, and
`ChangeCost` takes three ticks of it for each creation or update, so that long histories
have few of them and short ones two; `MaxBusy` lets two things run at once, what every
race here takes. Two attempts of an update stand for five (the first and the last); two
updates are the smallest overlap, and `MaxStarted` is two updates, or one and two
payments, or two payments alone before and after it. `MaxChanges`, one, is a site that
changes while it is read.

**Fairness.** Weak fairness per call, request, task, deletion and update of the rates, of
the steps the code itself makes: the event loop runs what can run, an HTTP call is
answered or fails (the HTTP clients and the operating system give up on a dead
connection, puppeteer has its own timeouts), and a database statement that is not blocked
is executed. Starting requests, database errors and crashes are never assumed to happen.
Properties say "unless the process dies" where a crash ends a request. `configuration`
and `access` have no liveness: their specifications only say what may happen.

**Symmetry.** `configuration` and `access` permute requests, visits, updates and calls,
which no definition tells apart; both check safety only.

**Mutants.** For every property of a passing run, PROJECT.json names a mutant: an
operator of the module, preceded by the comment "Mutant", that changes one definition
the way a bug would, and that breaks the property.

### Disagreements found

1. Two concurrent `applyBalanceToPayment` spend one balance twice (`NoOverspend`).
2. Two concurrent requests with one Binance order are both credited (`CreditedOnce`).
3. A payment in VES that is short by less than a USD cent is answered as registered, but
   no balance exists (`PartialIsRegistered`).
4. A deletion that answers success can leave a payment of the deleted transaction at
   MikroWisp (`DeletedIsUndone`).

Each is a run that TLC must find violated; PROJECT.json quotes the line of the
repository that says otherwise.

### Seen while modelling

Behaviour the models state as it is, and that a reader of the properties should know of:

* An update that gives a bank product another bank or name hides it from payments and from
  start-up, and the next start creates the product of the catalog again.
* An update of a user stores the password unhashed, so that user cannot sign in again.
* The hard delete of a user only works without a profile, since profiles do not cascade.
* Two subscriptions of one person share a dni, which is unique: the second cannot register.
* A payment that names no invoice is charged and answered with success.
* A removed network manager leaves its ISP without one, and nothing connects another.
* Every payment and every refused deletion over Wisphub is reported the wrong way round:
  the first throws, the second passes.
* /banco-plaza records all payments of a process under the rate of the first.
* A crash between two commission tiers, or between the administrator and its profile, is
  not made up for.
* A session is renewed in the database for 30 days, its cookie lasts seven.
* An applied balance quoted in VES can exceed what `verifyAvailableBalance` accepts by
  the rounding of one cent.
* The comment in `currency-rates/currency-rates.provider.ts` says every 30 minutes; the
  interval is 60.

## 4. What is proved

Every invariant and every action property of a passing run, and the refinements of
`PaymentContract` and `BalanceAccount`, are theorems of the specification the runs check
(without its fairness, where that is stated): for any number of clients, requests,
invoices, calls, updates and visits, any amounts and any bound, from the assumptions named
below, which TLC evaluates on every instance. Each proof module holds the inductive
invariant of its component and the lemmas per action; PROJECT.json lists the theorems with
the property each one states.

Two devices come back. Induction over numbers is needed in a few places, and the
induction theorems of the library cannot be used with these provers, as they take an
operator: it is done by a least counterexample, which the well-foundedness of `<` gives
(`LeastNat`, `LeastNumber`). And a record under `EXCEPT` is named and hidden before an
invariant of it is carried on, so that a leaf sees one fact about it.

### The ledger: `BalanceLedgerProofs`

From `LedgerAssumption` (there is a client, amounts are naturals).

| Theorem | Property |
|---|---|
| `TypeCorrect` | `TypeOK` (no remainder is ever negative) |
| `StatusCorrect` | `StatusTellsAmount`: a balance is between zero and what was received for it, and its status tells which; part of the invariant, no run lists it |
| `ConservedWithoutLostUpdate` | `Conserved`: with `ledger_overspend`, the outdated snapshot is the only way the ledger makes money |
| `BalancesOnlyDrawnDown` | `OnlyDrawnDown` |
| `RowsAlwaysPaired` | `RowsPaired` |
| `AllDrawnOrNothing` | `AllOrNothing` |
| `OldestDrawnFirst` | `OldestFirst` |
| `MovementsFormTrail` | `MovementsChain` |
| `ImplementsAccount` | `KeepsAccount`: `Spec` implements `BalanceAccount` |

The properties are not inductive, because what a step writes was decided on earlier, by
a snapshot. `LedgerInv` adds for each call in flight (`CallAgrees`) that its snapshot
covers balances that exist, that no amount of it exceeds what was received, and that what
is taken is at most what it shows. `RowsInv` adds that a call only visits balances of its
own client and that rows exist only for calls that have committed. `AmountsInv` says what a call has
drawn so far (`DrawsAgree`: taken and left to take make the amount, and whatever was
visited before the last is empty) and which movement a balance was left by (`TrailEnds`).
Commit is the only step with hard cases: a balance the call used is either as the
snapshot saw it, and the sum is kept, or it joins `stale`. `AllOrNothing` sums over rows:
`Total` is shown to grow by the row that is added, by induction on the size of the set.

`ImplementsAccount` needs no invariant beyond those. A commit rewrites several balances at
once, so what the account loses is a sum: `WorthAddsUp` says that sums add up if they do
balance by balance, again by induction on size, and `HeldFacts` that balances `findMany`
leaves out hold nothing, by their status. A call that is short stays so through the loop,
because each turn takes as much off what is left as off what there is (`UseAccount`).

### The bank products: `BankProductsProofs`

From `BankAssumption` (deposits and charges are naturals, a deposit's reference is not a
charge's): `BankTypeCorrect`, `CreditsFunded` (`CreditsAreFunded`), `RowsCorrect`
(`RowsTellOutcome`) and `NoLateCredits` (`NoLateCredit`). `FundedInv` carries the answer
of the bank over to the insert, two steps later: a call about to record a success holds
the deposit or the charge (`CallFunded`). `RowsInv` says at which step a request has which
row. The late credit is a property of two states far apart: `TooLate`, that the deposit
is credited and the request not yet past the look-up, is shown to stay true once it is.

### The network managers: `WisphubProofs`

About `Wisphub`, which extends `Mikrowisp`, so about both. From `MikrowispAssumption` (each
task has an invoice, there is a number): `ManagerTypeCorrect`, `AnswersArePaid`
(`AnsweredIsPaid`) and `PaysOnce` (`OnePaymentPerTask`). An invocation posts twice; what
makes the second post harmless is that it is only made after a refusal, and whoever is
refused has registered nothing: `PostAgrees` says of each step whether the
payment can be there already, `ManagerInv` adds the two properties.

### Payments: `PaymentFlowProofs` and `PaymentContractProofs`

From `FlowAssumption` (there are requests and inputs, inputs are typed, and Binance takes
dollars, so its rate is 1): `FlowTypeCorrect` (`TypeOK`), `RecordsArePaid`
(`RecordedIsPaid`), `NothingLeftDangling` (`NothingDangles`), `MoneyUsedOnce`
(`MoneyHasOneUse`) and `SuccessSettled` (`SuccessIsSettled`).

The composition uses what is proved of its parts: `FlowInv` is the types, the invariants
of the three components (`ComponentsInv`) and the stages (`StagesOK`). The proof modules of
the parts are instantiated, with `Nat` for the amounts since the proofs ask no more of
them, and the lemmas `SameBank`, `SameLedger` and `SameManager` show that the operations
`PaymentFlow` is composed of are the ones those theorems are about; so no step of a part
is looked at twice. `StagesOK` is what the composition adds: at which stage of a request
its bank call, its row, its balance and its tasks can be where. Its conjuncts that
make it inductive are about deletions: confirmed money has its transaction until an
invoice paid with it is done, so what a deletion finds has been spent or is a balance.

`ImplementsContract` is the refinement, `Spec => KeepsContract`: initial states map to
initial states, and every step, crash and deletion of `PaymentFlow` is a step of
`PaymentContract` or leaves `money` and `answer` as they were. Per request the step is
given by where its money was and is (`MoneyFacts`); a crash is the step that ends many
requests at once.

### Configuration: `ConfigurationProofs`

From `InitializationAssumption` and `ConfigurationAssumption` (the catalog and what
administrators send are typed, the catalog has no product twice, and the database the
program is first started on is typed and keeps its keys): `ConfigurationTypeCorrect`
(`ConfigurationTypeOK`: types, unique columns and foreign keys), `KeptConfigurations`
(`KeptWasConfigured`), `RestartKeeps` (`RestartKeepsSettings`) and `UpdatesTakeEffect`
(`UpdateTakesEffect`). `SeedingCompletes` (`SeedingHeals`) also needs `SeedingAssumption`:
the catalog has one key of global configuration, no bank twice, and MikroWISP in it, as
`initialization/` has, and of a table that is only filled when empty an earlier release
has left all its rows or none, which is what a start leaves that was not cut off.

`ConfigInv` is five parts. `TableOK` is typed and keyed tables; for that to survive,
`BootInv` says that the inserts start-up has left fit the tables as they are now and one
another (`TodoOK`: names free, parents there or earlier in the list), although they were
planned when the service began, and `AdminInv` that an update of a product holds an id
that still exists, since products are never removed (`ProductsStay`). `KeptInv` needs that
what the tables say while the process is up is in `seen` already. A new id is one no row
has (`NewIdFresh`, a pigeonhole over finite sets).

`SeedInv` follows each row a service has to provide: while the service runs the row is in
its table or among the inserts still to come (`Covered`), and once it has run to its end
uncut the row is there (`Healed`), through whatever the later services and the edits do;
a bank product may then be gone if it is among the `renamed` ones (`Stands`), since of all
statements of an update only the last changes a bank or a name (`UpdateKeepsNames`).
That takes that no two services insert into one table (so what a service is there for only
depends on its own, `OwnTables`) and, for the services that only count rows, that their
table is empty or complete unless a death has cut them off (`Exempt`).

`EffectInv` follows an update: what it has worked off is in the tables (`EffectOn`), the
last of a currency or key over the earlier ones, and stays there, because whoever else
writes to the product is a rival, and the two know of each other (`Rivals`). The proof
corrected the property and the model. That an update leaves no currency with two rates is
false where the product had two already, or where the update names a new currency twice:
neither was in the instance, both are in the code. A product cannot have two properties of
one key, which is a unique column; and which of several rates of a currency `find` returns
is open, since `findMany` has no order there.

### Users and sessions: `AccessProofs`

From `AccessAssumption` and `SessionsAssumption` (typed requests, and a renewal of less than
a lifetime): `AccessTypeCorrect` (`AccessTypeOK`: an email or a dni belongs to one user at
most, although both are looked up long before they are written), `AdmissionEarned`
(`AdmissionIsEarned`), `ReturningUser` (`ReturningUserIsLetIn`) and `UpdateReaches`
(`UpdateReachesBoth`).

`AccessInv` is `AccountsInv` (what a request has read decides what it will write) and
`SessionsInv`: a session belongs to whom it was issued to, ends at most a lifetime after
its last use (`SessionOK`), a visit holds an outdated copy of it within a tick (`VisitOK`),
and a session that is gone had run out, unless a renewal was crossed (`GoneOK`).
`PasswordInv` carries the password from the look-up to the session: a visit about to be
given one has sent the email and password of the user it holds.
`ReachInv` adds that two updates of one user know of each other (`Rivals`),
and that a user found stays as found until it is written (`Found`, `Reached`).

This proof corrected the model. The second half of `UpdateReachesBoth`, that an update does
not fail after MikroWisp has taken it, held in the run and is false for four requests: a
user can have the email when the update begins, give it up before the look-up, and take it
back before the write. Two requests do not reach that. The history `holders` now keeps who
has had the email ever since the update began, and the property says what holds: it does
not fail because of one of those (`Warned`).

### Rates and quotes: `QuotesProofs`

From `DolarRatesAssumption` (there is at least one attempt, earlier rows are rates, a rate is
neither missing nor NaN) and `QuotesAssumption` (prices, balances, and rates are naturals,
configurations are typed): `QuotesTypeCorrect` (`QuotesTypeOK`), `LatestIsRead`
(`LatestIsWhatWasRead`), `TransactionNamesRate` (`TransactionNamesItsRate`) and
`QuoteSettled` (`QuoteSettles`).

`IInv` is `RatesInv` (an update is within its attempts, what it saves is a rate), `AloneInv`
(updates under way at once are in `overlapped`, so one that is not there still differs from
the latest row when it saves) and `PaymentsInv` (a payment's rate id is a row, no older than
the payment unless it came through `/banco-plaza`). `QuoteSettled` is arithmetic and no
invariant: for every price, rate, balance and configuration of taxes, `toFixed2` is the
nearest whole number (`Rounded`), keeps whole cents and the order (`WholePartsStay`,
`Monotone`) and depends on the fraction, not on its denominator (`SameFraction`); hence
what is left to pay and what the balance pays add up to the quoted total, and the parts,
each rounded alone, miss it by two cents at most (`PartsAdd`).

### Only model-checked

* Liveness: `CallsEnd`, `BankCallsEnd`, `PostsEnd`, `RequestsAnswered`, `DeletionsAnswered`
  and `UpdatesEnd`. The provers have no fairness and no ENABLED.

Some definitions have the form they have for the provers: sums are `Total`, a fold over a
set; what the tables keep is two parts, `Typed` and `Keyed`; a service of start-up plans its
inserts as batches by their place; a quote keeps its `answer`.

## 5. Plan

Done: all modules of the plan, and the theorems of section 4. What is left of it is
liveness, which stays with TLC.

Not modelled, and why:

* Banesco beyond the throw, since none of it runs: the polling, the records of its
  answers, and the mock of the development environment, which records what the client
  says it has paid. Bancaribe and Banesco's other products, and the accounting managers,
  are stubs.
* Wisphub under `PaymentFlow`: a payment over it throws, as one whose post fails over
  MikroWisp does, and leaves no row a deletion could start from.
* Mail, logging, the exception filter and the HTTP wiring decide nothing that is stored.
  Which endpoint is behind a guard is wiring too; several controllers of users and of
  network managers have theirs commented out.
* Listings of invoices, clients, users and transactions only read; `createUser`,
  `activateService` and the like of the network managers only forward.
* Browsers nobody refers to any more run on; the model forgets them.
* `payment-amount-validator.ts`, `invalidateSession`, `reversePayment` and a few look-ups
  of the initialization services have no caller.
