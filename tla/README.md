# Galafy: TLA+ models, checks and proofs

Galafy is a NestJS backend for live events at which guests "spray" money on one
another. Users hold wallets at a payment provider; the platform keeps its own
copy of every balance in Postgres and moves money by asking the provider first
and writing its tables afterwards. This directory holds TLA+ models of the
parts that move money, of the customers, wallets and events around them, of the
accounts, and of what stands at the edge (rate limit, sockets, devices); the TLC
runs that check them on small instances; and TLAPS proofs, for every number of
calls, of the safety properties and refinements those runs check.

Paths below are relative to `src/src/` unless they start with `prisma/`
(`src/prisma/schema.prisma`).

1. [The system](#1-the-system)
2. [Why it is hard](#2-why-it-is-hard)
3. [The modules](#3-the-modules)
4. [How code becomes actions](#4-how-code-becomes-actions)
5. [The runs](#5-the-runs)
6. [Disagreements between code and text](#6-disagreements-between-code-and-text)
7. [The proofs](#7-the-proofs)
8. [What is not modelled](#8-what-is-not-modelled)
9. [What is left](#9-what-is-left)

## 1. The system

One Node.js process serves HTTP requests and a socket gateway. Handlers are
`async` functions: they run without interruption from one `await` to the next,
and any number of them are in progress at once. What they share is the
database, the provider, and a few maps in memory.

| Component | State | Operations | Talks to | Correct when |
|---|---|---|---|---|
| **Sprays** `sprays/` | `Spray`, `Transaction`, `Wallet` rows | `createSpray` with an idempotency key, lists | provider, live gateway | one spray per key; a spray is recorded whole or not at all, and only when paid; balances explained by rows; events only after the commit |
| **Wallet transfers** `walletmodule/walletmodule.service.ts` | `Wallet`, `Transaction`, `Spray` | `createWalletByUserId`, `getWalletByAccountNumber`, `walletToWalletTransfer`, `walletpayout`, history | provider | rows appear in order and only for moved money; balances follow |
| **Payout confirmation** `walletmodule/services/payout-security.service.ts` | PIN, one-time code, pending payout in the `User` row | `setPayoutPin`, `initiatePayout`, `confirmPayout` | provider, mail | a payout needs the PIN and a fresh code; a code pays once, and pays what it was mailed for |
| **Payments** `payments/payments.service.ts` | `Transaction`, `PayoutTransaction`, `BankAccount` | `interBankTransfer`, `transactionStatusRequery`, `walletToWalletRequery`, `reverseTransaction`, `closeWallet`, `restrictByAccountId`, name enquiry, lists | provider | a payout row has its transaction; final statuses are the provider's |
| **Webhooks** `payments/webhooks.service.ts` | `FundingTransaction`, `ProviderWebhookEvent`, `Transaction`, `PayoutTransaction`, `Wallet` | `handleInflowWebhook`, `handlePayoutWebhook` | called by the provider | a deposit credits once; only failed payouts are refunded |
| **Customers and KYC** `customer-kyc/` | `Customer` with its tier, `NinVerification`, `BvnVerification`, `AddressVerification` | `createCustomer`, `createCustomerWithBvn`, NIN, BVN and address checks, `upgradeWithNinAndAddress`, changes of name and contacts | provider | a tier has the checks behind it that earn it; one customer per user |
| **Events** `events/` | `Event`, `EventParticipant`, `EventLink` | create, update, remove, join, leave, verify performer, leaderboard | live gateway | roles have the tier they need; an event keeps its host; seats do not outlive it; codes are unique |
| **Live gateway** `live/` | sockets and rooms | connect, join room, leave room, broadcast | Sprays, Events | members of a room hear of what happened, after it happened |
| **Users** `users/` | `User` row, verification and reset codes | sign-up, resend, verify, login, forgot, reset | mail | accounts are distinct; only a mailed code verifies; a code works once |
| **Authentication** `auth/` | refresh tokens in the `User` row | Google login, refresh, logout | Google | a session that was replaced or ended refreshes nothing |
| **Notifications** `notifications/` | `NotificationDevice` rows | register, update, deactivate, remove, send to one or many | Firebase | one row per token; who registered a device keeps it; messages reach their users |
| **Rate limit of sprays** `sprays/guards/` | a map of time stamps | `canActivate` | | at most five sprays per user and second |
| **Provider client** `provider/` | API keys from the environment | one `fetch` per operation | the provider | external |
| **Mail** `users/email.service.ts` | | send | | best effort |
| **Admin, bootstrap, database client** | | | | wiring |

The unique columns that the models rely on are `Transaction.reference`,
`FundingTransaction.providerReference`, `PayoutTransaction.providerTransactionRef`,
`Event.code`, the pair `EventParticipant.(eventId, userId)`, `User.email`,
`User.username`, `User.phone` and `NotificationDevice.deviceToken`.

Interactions. A spray needs a live event and two participants (Events), whose
wallets are those of Wallet transfers; it asks the provider to move the money
and then tells the room of the event (Live gateway). Transfers, payouts,
webhooks and sprays all write `Wallet.availableBalance` and
`Wallet.ledgerBalance`; only `createSpray` takes row locks. Requeries and
webhooks write the status of rows that transfers and payouts have made.

## 2. Why it is hard

`PROJECT.json` lists each hazard at its line. They are of these kinds:

* **A balance is read, the provider is asked, and the old balance plus or minus
  the amount is written.** Every writer of balances does this; whatever another
  call has written in between is lost. (`sprays.service.ts:263`, `:299`,
  `walletmodule.service.ts:340`, `:665`, `webhooks.service.ts:98`)
* **The provider acts first, the rows follow.** A lost answer, a taken
  reference, a timeout or a crash leaves money moved and nothing recorded.
* **A check and its use are separated.** The key of a spray is looked up long
  before it is recorded; a code is compared before it is cleared; an order is
  stored before its code is.
* **A tier moves while it is relied on.** A check of a NIN, a BVN or an address
  asks the provider, writes its row, looks for the other row and writes the tier
  in four steps; a role in an event is written some awaits after the tier was read.
* **Writes outside a database transaction.** A transfer, a deposit or a payout
  is a sequence of statements; a fault leaves a prefix of them, and the retry
  starts from there.
* **Webhooks** are repeated, delayed, reordered and run at the same time as
  each other and as requeries about the same payout.
* **Two row locks in an order that depends on the direction of a spray**: two
  sprays in opposite directions deadlock until one of them is aborted.
* **A row is read, an `await` passes, and the row is written by its id.** Every
  handler about accounts and devices does this. What keeps accounts and devices
  apart are unique columns, not the reads; a code is compared in one statement
  and cleared, whichever it is by then, in another.
* **State in the memory of the process**: the rate limit with its timers, the
  sockets with their rooms. A message may arrive while the connection is still
  being let in, a join may end after the socket has gone, a timer works with the
  time of an old request, and a crash empties all of it.

## 3. The modules

| Module | Models | About |
|---|---|---|
| `Ledger` | `Wallet`, `Transaction`, `Spray` rows, row locks, unique reference | the tables every writer of balances extends |
| `Sprays` | `createSpray`, `updateEvent` and `leaveEvent` as far as they touch a spray, crashes | one variable `pc[q]` per call, locals that are read again later, the provider's books |
| `PostingBook` | nothing in particular: what an idempotent endpoint promises | the abstract specification `Sprays` implements, and `Spending` too |
| `SpraysProofs` | | theorems about `Sprays`: safety, and that it implements `PostingBook` |
| `Transfers` | `walletToWalletTransfer`, `walletpayout`, `walletToWalletRequery`, `reverseTransaction` | statements that commit one by one |
| `Spending` | the composition of `Sprays` and `Transfers` | one set of tables, one provider, one process; keys they may share |
| `DepositDesk` | what a consumer of repeated notices promises | the abstract specification `Payments` implements |
| `PayoutDesk` | what a payout in two steps promises | the abstract specification `Payouts` implements |
| `Payouts` | `setPayoutPin`, `initiatePayout`, `confirmPayout` | one user's row: PIN, code, pending payout |
| `Payments` | `interBankTransfer`, `transactionStatusRequery`, both webhooks | deposits, notices and statuses |
| `Server` | the process: calls that arrive, statements that fail, crashes | what the modules below share |
| `Customers` | the `Customer` tier | what the next three share |
| `Kyc` | `CustomerKycService`: two creations, three checks, the check of NIN and address together | verification rows, the tier |
| `Openings` | `createWalletByUserId`, `getWalletByAccountNumber` | a temporary row that is completed or deleted |
| `Events` | `createEvent`, `joinEvent`, `leaveEvent`, `removeEvent` | events, seats, codes |
| `Guests` | the composition of `Kyc`, `Openings` and `Events` | a step of one leaves the variables of the others alone; the tiers are common |
| `Accounts` | `UsersService` and `AuthService`: nine operations on the `User` row | codes, mails, sessions, user names |
| `RateLimit` | `SprayRateLimitGuard` | the sliding window and its timers |
| `Rooms` | `LiveGateway` | sockets, the user each belongs to, event rooms |
| `Devices` | `NotificationsService` | device rows, pushes that reach a part |
| `Edge` | the composition of `RateLimit`, `Rooms` and `Devices` | one process; a crash empties the memory of the first two |
| `SpendingProofs`, `PayoutsProofs`, `PaymentsProofs`, `GuestsProofs`, `AccountsProofs`, `EdgeProofs` | | theorems about the component of that name |
| `LedgerProofs` | | lemmas about sums of the amounts of rows, for the first three of these |
| `MCSprays`, `MCSpending`, `MCPayouts`, `MCPayments`, `MCGuests`, `MCAccounts`, `MCEdge` | | instances for TLC: values of the function constants, symmetry sets |

The components that move money are specified over the variables of `Ledger`,
which they extend; in `Spending`, `Sprays` is an instance whose `transfers` are
the moves of `Transfers`, so that the definitions the proofs are about are the
ones that are composed. The others extend `Server`. Components whose
specification is in a composition have no `Spec` of their own.

Definitions that begin with the comment *Slip:* are not part of a specification.
Each one is a plausible mistake in the definition
that follows it or stands near it (a dropped check, a missing reset, a value of
the wrong wallet); `PROJECT.json` pairs it with a property that notices the
mistake, which shows that the property depends on that code.

## 4. How code becomes actions

**Every `await` is a place.** A handler in progress stands at an `await`, and
one action is the code from there to the next one. `pc[q]` (in `Sprays`) or
`at[c]` names the statement about to run. The variables a handler reads again
later are kept in `local`, `took`, `read`, `snap`, `told`, `verdict`, `name`,
`found`, `left`; where they would multiply the states they go back to a neutral
value when the handler ends, as its stack frame does.

**Requests.** A call runs once. A client that retries is another call, with the
same key. What calls ask for ranges over all combinations: chosen in `Init` (in
`Sprays` and `Payouts`) or when the call arrives (everywhere else, where there are
too many combinations to fix them beforehand). A client presents what it can
have: the codes in its inbox and the sessions it was answered (`Given`), the ids
of devices that have been inserted.

**The provider** is a set of things done (`transfers`, `paid`, `moved`,
`reversed`, `outcome`) and three answers: done; done and the answer lost (the
connection breaks, the process never hears of it); refused. It is not assumed
to recognise a reference it has seen, because nothing in the code depends on
that or says so. In `Payments` it also decides the fate of an accepted payout
(`Settle`), sends notices, sends them again, late, or never, and may answer a
requery with no status at all. What the provider does is modelled from how
`src/` uses it.

**Database transactions.** `createSpray` has two. In the first (`LockCheck`)
nothing is written and the lock is given back at the commit, so it is one step
that either finds the row free or, after five seconds, times out. The second is
`LockSprayer`, `LockReceiver`, `InsertAndCommit`: nobody sees its writes before
the commit, so its two balance updates only take the row locks and the last
step applies everything at once or nothing. `TxAbort` is its ten second timeout
and Postgres breaking a deadlock. Elsewhere a statement is its own transaction;
an update waits (`Free`) while a row is locked.

**Faults.** `Crash` ends all calls in progress and rolls back what was open.
`Fault` in `Payments` and `Fail` in `Transfers` and `Server` also let a single
statement fail, which throws out of that handler. In `Payouts` there is only
`Crash`: a statement that fails while no other call is in progress has the same
effect, and one that fails beside others is a call that takes no further step.

**Amounts** are integers. `Prisma.Decimal` is exact, and no property depends on
digits after the point.

**References** are either given by a client, `ClientRef(k)`, or drawn by the
server, `DrawnRef(kind, a)`; random ones are taken never to collide.

**History variables.** `overlapped` records whether two calls were ever in
progress together. A property that begins with `~overlapped =>` says what the
code achieves when calls come one at a time, and is checked in the same run
that explores their interleavings; those runs show at once that the arithmetic
is right and that it is concurrency, and nothing else, that breaks it. `credits`
records which webhook wrote which balance, `vouched` which checks the provider
found verified, `reached` the highest tier a customer has had, `accepted` and
`retired` the codes that were taken and the sessions that were replaced,
`promised` and `delivered` what users were told of their devices, `asked` the
last message of a socket about a room, `passed` the times the guard has let a
spray through, `mixed` whether calls of the two services ever overlapped. None
of them influences an action.

**Abstractions.** Message texts, formats, pagination, DTO validation and logs
are left out. An account number stands for its wallet. Rows keep the columns
some property or some reader can tell apart. Finding or creating the
`BankAccount` of a payout is left out: two equal rows cannot be told apart by
any reader. A webhook with a wrong signature is refused before it does anything.

In `Accounts` a secret is named by the call that drew it. Time is a set: `fresh`
holds the users whose row was written in the last quarter of an hour, which is
what the code compares (`updatedAt`), and `TimePasses` empties it, or lets a week
go by, between calls. A mail may be lost. `OtherWrite` is any other update of the
row, such as setting a payout PIN. The cost of hashing is an `await` like any other.

In `Edge` the guard of sprays has a clock, since what it computes is about
time; timers run at their time or later. `socket.io` puts a socket in a room at
once, and does nothing for one that is closed. A push reaches any part of the
devices of a request; a request that throws as a whole may have reached some.

In `Openings` a balance is one of zero, the one a new wallet opens with, or the
provider's; the balances that move are in the other components, whose wallets
exist from the start.

In `Guests`: the wallet a join may name is looked up and compared with the
user; its state is not modelled, so `ReadWallet` either goes on or throws. A new
customer starts at Tier_0, the default, or at the tier the body names
(`AskedTiers`, `customer-kyc/dto/create-customer.dto.ts:66`), with no check behind it; the
history `given` remembers which. Customers
that exist at the start have verified checks for their tier, or were given it
(`Profiles`), and the one event that exists has its host. Customers and users are never deleted,
so a read that only finds the row again is left out. An event with participants
is not removed under the migration (`ON DELETE RESTRICT`,
`prisma/migrations/20251125131828_databaseinit`) and is removed with them under
the schema (`onDelete: Cascade`, `prisma/schema.prisma:426`): `DeleteEvent` may
do either.

## 5. The runs

`tlc -config X.cfg MCmodule`. State counts and times are of two workers.

### Sprays

`sprays_two` (`SpraysTwo.cfg`): two calls in progress together, by either of
two users to either (also to herself), with one key or two, one user falling
back on her default wallet, one crash, the event ending and starting again and a
guest leaving at any moment. 177 thousand states, without symmetry, which would
not be sound for the liveness property.

* `SpraysAreWhole`: a spray has the debit it points at and exactly the credit of
  its group; no such row stands alone.
* `SpraysArePaid`: the provider has moved that amount, in that call, between
  those wallets.
* `OneSprayPerKey`: also for two calls that have both passed the key check.
* `EventsFollowCommits`: `spray.created` tells of committed sprays only.
* `BalanceWritesAreBooked`: no balance changes without a new spray of its wallet.
* `ImplementsPostingBook`: the endpoint refines `PostingBook`. A client that
  gets an answer gets the spray of its key, its own or an earlier one's; a
  client that gets an error may or may not have caused one.
* `IInv`: the inductive invariant of the proofs, on the same instance. It
  contains `BalancesStaySound` (stale writes can be wrong, but never negative,
  and the available and the ledger balance stay equal) and `LocksAreInUse` (a
  locked row belongs to a call inside its transaction).
* `EveryCallEnds`: under fairness, also of two sprays in opposite directions.
  Fairness is weak and per call: on `Step`, because the event loop runs every
  handler whose await is over, and a provider that does not answer runs into the
  timeouts that Node's `fetch` has of itself (`provider/provider.service.ts:70` sets no
  other), which the handler sees as a refusal;
  and on `TxAbort`, because the transaction has a timeout. Without `TxAbort` the two sprays wait for each
  other for ever, which is the mutant of this property.

### Sprays and transfers together

`spending` (`Spending.cfg`): any two of a spray, two transfers (with the key of
the spray, or drawn references), a cashout, a requery and a reversal, over one
set of tables; a user without a wallet; one fault. 639 thousand states.

* `RecordsAreWrittenInOrder`: a fault leaves a prefix of debit, credit, spray,
  balances, never a hole.
* `RecordsWereMoved`: whatever is recorded was moved by the provider, by the
  same call, whichever service recorded it. (Of two transfers with one
  reference the provider may move both, and the unique column lets one be
  recorded.)
* `ImplementsPostingBook`: the two services keep that promise together, though one
  writes its rows in a transaction and the other one by one. A reference shared
  by a spray and a transfer has one `Spray`, and whoever is answered is answered
  with it. Only errors are promised to those who come too late: a key whose
  transfer died before its `Spray` gets one at every retry, after paying again.
* `FinishedMovesAreInTheBalance`: for calls in turn and without faults the
  balances are what the finished sprays, transfers and payouts left. That calls
  which overlap lose updates is seen by dropping `~mixed`.

### Payouts

`payouts` (`Payouts.cfg`): two orders and two confirmations, up to three in
progress, on the user's wallet and on one that is not hers, with any code (also
one never drawn) and either PIN, codes expiring at any moment, a crash.
869 thousand states.

* `ImplementsPayoutDesk`: ownership is checked only when a payout is initiated,
  and the PIN and the code only when it is confirmed; what is paid has
  nevertheless always passed all three. When a confirmation pays, the order is in
  the row or was taken from it by a confirmation, its code is there or has
  been compared, both were stored for wallets of the user, and a PIN is set; it
  pays once, and success is reported only after that. That the order and the code
  are of one call, or that they are used up, is not promised: they need calls
  in turn, which is what the next three are about.
* `CodesPayOnceInTurn`, `CodesConfirmTheirOrder`, `BalancesMatchPayouts`: as long
  as calls have not overlapped, a code and an order pay once, a code pays the
  order it was mailed for (unless the call that drew it died between its two
  writes), and balances have gone down by what was paid.

### Payments

`payments` (`Payments.cfg`): any three of two payouts, two deliveries of
deposits (of one or of two), two payout notices and a requery; two in progress
at a time; one fault. 437 thousand states.

* `ImplementsDepositDesk`: the unique `providerReference` lets a deposit be
  credited once, however often and however closely it is announced: one delivery
  takes it, only that one credits it, for what it is worth, to the wallet of its
  account, and an answer without an error comes only after that.
* `InflowsAreExplained`: a delivery that goes on has a `FundingTransaction` that
  points at its `Transaction`; one that is refused after it wrote a `Transaction`
  repeats a deposit another delivery has recorded. The repetition of a delivery
  that died before the credit is refused too: that deposit is never credited,
  which `BalancesMatchTheRecords` spells out.
* `RefundsFollowFailures`: a refund has a failed payout behind it, and a second
  refund has a second notice of the failure.
* `PayoutStatusesAreTheProviders`: final statuses are the provider's whatever the
  order of notices and requeries, and the two rows of a payout agree when calls
  come in turn.
* `BalancesMatchTheRecords`.

### Guests

`guests` (`Guests.cfg`): any two calls of two users, in turn or together: two of
the customer service (any of its six operations), two wallets opened and a
lookup, two creations of events, two joins, a leave and a removal; two event
codes; users who are no customers or customers of any tier; customers who are created
at Tier_0 or at Tier_2; one fault. 985 thousand states, about two minutes.

* `TiersFollowTheChecks`: unless the customer was created with the tier, Tier_1 has
  a check behind it that the provider found verified, Tier_2 the rows of both, Tier_3 a
  verified address, however checks overlap and die; and for calls in turn and without faults a customer verified
  both ways is in Tier_2 at least.
* `OnlyEarlierChecksTakeTierTwo`: the tier is written without a look at the one
  that is there, so that Tier_2 can be lost: to one of two checks that overlap and
  miss each other's row, and, in turn, to the first check of a customer who was
  created at Tier_2. Whichever call takes it came before both rows were there (the
  history `hadBoth`); later ones do not, however they overlap. A NIN or
  BVN check that is repeated writes Tier_2 over Tier_3, which the property allows.
* `RolesWereEarned`: a performer or a celebrant has been in Tier_2, though the
  tier may have fallen since the role was written.
* `EventsHoldTogether`: a created event keeps its host among the participants,
  whoever joins, leaves or removes it meanwhile, and a seat taken during the
  removal does not outlive it.
* `WalletsAreTheProviders`: a wallet's owner had the tier for it; one with an
  account or a balance exists at the provider; one without belongs to a call
  that will still link or delete it, or that died. The reverse does not hold: a
  lost answer leaves a wallet at the provider whose row is deleted.

### Accounts

`accounts` (`Accounts.cfg`): any three calls of nine kinds about two e-mail
addresses whose Google user names collide, two at a time, from a database
that is empty or has one user, verified or not; mails that may be lost; a
quarter of an hour or a week that goes by once; one fault. 3.35 million states, about two minutes.

* `AccountsAreDistinct`: user names and phone numbers are not shared, and who was
  told that the account was created has it. Several sign-ups may find one name
  free; the unique columns decide.
* `VerificationsWereMailed`: an account that signed up is verified only by a code
  it was mailed, and a session belongs to a verified account or to a Google
  sign-in.
* `MailedCodesWorkOnce`: for calls in turn, a code is taken once, and works until
  it has been or another was drawn. For calls that overlap neither is so, since
  the update clears whatever code is in the row.
* `RetiredTokensStayRetired`: a session that was replaced or ended is not
  refreshed, also when the refresh runs beside the login or the logout.

### Edge

`edge` (`Edge.cfg`): four requests of one user at a guard that lets two pass
in a window of two ticks, with a clock of five and timers that may be late; or
four messages of one socket, which may go at any moment; or two calls about
devices of two users with two tokens, and a device from before; two in progress
at a time; a fault, or a crash which forgets the first two. 406 thousand states.
The three share nothing but the process, so a behaviour uses one of them
(`MaxComponents = 1`): the interleavings of two would be products of what is there.

* `WindowIsKept`: no window, wherever it begins, has more sprays in it than
  allowed, whatever the timers filter.
* `RoomsFollowTheirMessages`: who is in a room is connected and was known by a
  token, though a join may end after the socket has gone; in turn, a socket is
  in the rooms it asked for last.
* `RegistrationsHold`: devices never share a token; in turn, who was told that a
  device is registered keeps it, active, until it is changed or removed.
* `MessagesReachTheirUsers`: in turn, a message reaches devices of the users it is
  for only.

`CHECK_DEADLOCK FALSE` is set in the runs of `Spending`, `Payments`, `Guests`,
`Accounts` and `Edge`, which end when their calls have been served.

### Bounds

| Bound | Value | Why it is enough for these questions |
|---|---|---|
| calls | 2 (`Sprays`, `Spending`, `Guests`), 2 + 2 (`Payouts`), 3 (`Payments`, `Accounts`), 4 (`Edge`; 2 about devices) | every race above is between two calls; the third is the payout, order or account the two are about; the guard and a socket need more, to fill a window and to join and leave twice |
| `MaxInFlight` | 2, 3 in `Payouts` | two racing calls, plus an order that arrives meanwhile |
| `MaxCrashes`, `MaxFaults` | 1 | one fault at every point; what follows it is again a state the other calls start from |
| `MaxTurns` in `Accounts` | 1 | codes and sessions from before it are old, those after it are not |
| users, codes in `Guests` | 2, 2 | a host and a guest or performer; a code that is drawn twice and one that is free |
| wallets | 1 or 2 | both directions, a self spray, a stranger's wallet |
| amounts, `Opening` | 1 against 1 in `Sprays`, 2 against 3 in `Payouts`, 1 and 2 against 2 in `Spending` | covered, exactly covered, not covered by one and by two calls |
| `MaxRequests`, `Window`, `MaxClock` in `Edge` | 2, 2, 5 (5, 1000 ms and none in the code) | a window fills, slides, and is cleaned up after two windows |

The theorems of section 7 hold for every value of these bounds, but for
`SerialSpraysMoveTheirAmount`, which is about `MaxInFlight = 1`. They also hold for
every `AskedTiers`; TLC takes 0 and 2, a tier with and one without anything to lose.

## 6. Disagreements between code and text

Five runs show that the code does not do what a comment or a doc says. Each
counterexample is a behaviour of the model of the code.

| Run | Property | Text | What happens |
|---|---|---|---|
| `sprays_double_spend` | `SpendingIsCovered` | "This prevents race conditions where multiple requests try to spend the same balance" (`sprays/sprays.service.ts:234-235`) | the lock is released before the provider is asked: two calls check one balance and both spend it |
| `sprays_double_charge` | `ChargedOncePerKey` | "Requires Idempotency-Key header to prevent duplicate charges." (`sprays/sprays.controller.ts:37`) | two calls with one key are both sent to the provider; one of them is recorded |
| `payouts_code_reuse` | `CodesPayOnce` | "Clear OTP after successful verification" (`walletmodule/services/payout-security.service.ts:129`) | two confirmations read the code before either clears it, and both are paid |
| `payouts_not_cleared` | `PaidOrdersAreCleared` | "Retrieve and clear pending payout data" (`payout-security.service.ts:154`) | the update sets the column to `undefined`, which Prisma leaves alone; the order stays |
| `payments_refund_gift` | `RefundsReverseADebit` | "If failed, reverse the wallet balance (refund)" (`payments/webhooks.service.ts:193`) | `interBankTransfer` never lowered the balance, so the refund adds money; a second notice adds it again |

Others are visible in the models without a run of their own:

* `users/users.service.ts:146-147` says a code expires "15 minutes from when code
  was last sent" and that `updatedAt` tracks it. Every other update of the row
  moves `updatedAt` too. In `Accounts`: a code is mailed, `TimePasses`, a login,
  a reset of the password or `OtherWrite` writes the row, and the old code passes
  `InTime`. The same holds for reset codes (`:312`).
* `sprays/guards/spray-rate-limit.guard.ts:49-61` means to delete the entries of
  users who stopped. `Cleanup` filters with the time of the request that set the
  timer, which that request itself survives: an entry is cut, never emptied.
* `customer-kyc/customer-kyc.service.ts:465` says "If both NIN and BVN are
  verified, upgrade to Tier_2"; `NewTier` asks whether the other row exists,
  whatever its verdict.
* Two refresh tokens signed for one user within one second are the same string,
  since nothing else goes into them (`auth/auth.service.ts:194-203`). `Accounts`
  takes secrets of two calls to be different and leaves this out.

## 7. The proofs

`tlapm XProofs.tla` checks the theorems of one module. They hold for any number of
calls, users, wallets, keys, amounts, devices, codes and faults, and for calls
that overlap in any way, unless the property itself speaks of calls in turn.

**Assumptions.** The named `ASSUME`s of the modules, which TLC evaluates on every
run. They say that the kinds of calls are disjoint sets and finite; that the
values that stand for "none" (`NoOne`, `NoWallet`, `NoEvent`, `NoSeat`, `NoDevice`,
`Null`, `Nobody`, `Old` and the like) differ from what they are told apart
from; that amounts are integers or naturals, bounds and the opening balance
naturals, `Window` and `MaxRequests` positive; that seats and default wallets are
total functions; and that the rows a database starts with are legal: `Starts` has
unique names and numbers, and a tier in `Profiles` has its checks or was given.

| Module | Theorem | States |
|---|---|---|
| `SpraysProofs` | `TypeCorrect`, `InductiveInvariant` | `TypeOK`, `IInv` |
| | `WholeAndPaid`, `SpraysWerePaid` | `SpraysAreWhole`, `SpraysArePaid` |
| | `KeysAreUnique` | `OneSprayPerKey` |
| | `BalancesSound`, `NoLeakedLock` | `BalancesStaySound`, `LocksAreInUse` |
| | `BroadcastAfterCommit` | `EventsFollowCommits` |
| | `BalanceWrites` | the action property `BalanceWritesAreBooked` |
| | `Implements` | `Spec => ImplementsPostingBook` |
| | `SerialSpraysMoveTheirAmount` | with `MaxInFlight = 1`, the action property `SpraysMoveTheirAmount` |
| `SpendingProofs` | `TypeCorrect`, `InductiveInvariant` | `TypeOK`, `SpendingInv` |
| | `RecordsAreMoves` | `RecordsWereMoved` |
| | `TransfersWriteInOrder` | `RecordsAreWrittenInOrder` |
| | `KeysHaveOneSpray` | `KeysStandForOneSpray` |
| | `FinishedMovesAddUp` | `FinishedMovesAreInTheBalance` |
| | `Implements` | `Spec => ImplementsPostingBook` |
| `PayoutsProofs` | `TypeCorrect`, `InductiveInvariant` | `TypeOK`, `PayoutsInv` |
| | `PaymentsStayAuthorised` | `PaymentsAreAuthorised` |
| | `CodesPayOnceEach` | `CodesPayOnceInTurn` |
| | `CodesConfirmOrders` | `CodesConfirmTheirOrder` |
| | `BalancesStayMatched` | `BalancesMatchPayouts` |
| | `Implements` | `Spec => ImplementsPayoutDesk` |
| `PaymentsProofs` | `TypeCorrect`, `InductiveInvariant` | `TypeOK`, `PaymentsInv` |
| | `DepositsOnce` | `DepositsAreCreditedOnce` |
| | `InflowsStayExplained` | `InflowsAreExplained` |
| | `RefundsAreDue` | `RefundsFollowFailures` |
| | `StatusesAreTheProviders` | `PayoutStatusesAreTheProviders` |
| | `BalancesStayMatched` | `BalancesMatchTheRecords` |
| | `Implements` | `Spec => ImplementsDepositDesk` |
| `GuestsProofs` | `TypeCorrect`, `InductiveInvariant` | `TypeOK`, `GuestsInv` |
| | `RolesAreEarned` | `RolesWereEarned` |
| | `EventsStayWhole` | `EventsHoldTogether` |
| | `WalletsAreBacked` | `WalletsAreTheProviders` |
| | `ChecksInvariant`, `TiersAreEarned` | `ChecksInv` and `TiersFollowTheChecks` |
| | `TierTwoIsTakenByEarlierChecks` | the action property `OnlyEarlierChecksTakeTierTwo` |
| `AccountsProofs` | `TypeCorrect`, `InductiveInvariant` | `TypeOK`, `AccountsInv` |
| | `AccountsStayDistinct` | `AccountsAreDistinct` |
| | `VerificationsAreEarned` | `VerificationsWereMailed` |
| | `CodesWorkOnce` | `MailedCodesWorkOnce` |
| | `RetiredTokensAreRefused` | the action property `RetiredTokensStayRetired` |
| `EdgeProofs` | `TypeCorrect`, `InductiveInvariant` | `TypeOK`, `EdgeInv` |
| | `LimitsHold` | `WindowIsKept` |
| | `RoomsFollow` | `RoomsFollowTheirMessages` |
| | `RegistrationsStand` | `RegistrationsHold` |
| | `MessagesArrive` | `MessagesReachTheirUsers` |

Hardly any of these properties is inductive. Each is about rows, and the rows were
written by calls that had read something some awaits before; so each inductive
invariant says what a call may still rely on at the place where it stands. TLC
checked every one of them on the instance of the component's run before it was
proved.

### Sprays

* `WalletsKnown`: from the lock check on, both wallets are wallets and the
  amount is positive. Needed because the seats may change while the call waits.
* `SnapshotsAreSound`: the balances a call remembers, however stale, were
  non-negative with available equal to ledger, and the locked one covers the
  amount. This is why stale writes never make a balance negative: the new
  balance is computed from the same remembered value that was checked.
* `PaidBeforeRecording`: a call inside the recording transaction stands on the
  provider's books. It gives `SpraysArePaid` at the commit.
* `SpraysBelong`: a spray belongs to a call past its commit, under its own key.
  So a call that is about to commit has no spray yet, which makes the new rows
  the only ones of their group (`SpraysAreWhole`), and the unique reference
  gives `OneSprayPerKey`.
* `AnswersAreRecorded`: what a call returns is in the table, under the key it
  asked for. It carries `EventsFollowCommits` and the refinement.

The proof that `Next` preserves each conjunct splits in two: the step that
commits (`Commits`, whose effect is stated once in `CommitEffect`) and all
others, which leave balances and rows alone (`OtherwiseUnchanged`).

*The refinement.* `Book` maps the sprays to postings, and the place of a call
to its answer: pending, error, or the posting that was returned. Every step of
`Sprays` is a step of `PostingBook` or leaves its variables unchanged: the commit is
`Post`; `Answer` and `Replay` are `Return`; `Throw` and `TxAbort` are `Fail` of
one call and `Crash` is `Fail` of all calls in progress. `Post` needs that the
key is unposted, which is the unique reference together with `SpraysAreWhole`.

*Calls in turn.* `SerialSpraysMoveTheirAmount` needs more than `IInv`: with one
call in progress what a call remembers of the two wallets is what the
wallets hold (`Current`), because nobody else has written them since. The
assumption `MaxInFlight = 1` is in the theorem; without it the property is false.

### Sprays and transfers together

`SpendingInv` cannot reuse `IInv`, in which every row is a spray's and rows and
balances are written together: a transfer writes its rows one by one.

* `PaidBeforeRecording`, for both kinds of calls.
* `ReferencesTell`: rows of one reference are of one call, a drawn credit
  reference names the call that drew it, and each spray has the row it
  points at. A key may be a spray's or a transfer's: without the second part
  another call's row might be taken for the credit of a transfer.
* `TransfersStand`: where a transfer stands tells which of its rows exist, in both
  directions. Each statement commits by itself, so `RecordsAreWrittenInOrder`
  follows for every place at which a call can die.
* `OneSprayPerReference` with `AnswersAreRecorded`: the unique column, and what
  a spray that is answered or replayed has found.

A requery rewrites the status of rows that are there; that references, groups and
directions stay is stated once (`Like`) and used by every conjunct.

*The balances.* `MovesFit` adds to `SpendingInv` that a call has one move at most and,
of calls in turn without faults, that what a spray has locked and what a transfer
has read is what the wallets hold until it is written (`SprayFresh`, `SnapFresh`),
and that a wallet holds what it opened with, less the moves of those that have
written it as payers (`Gave`) and with those of the ones that have written it as
receivers (`Got`). A transfer writes its two balances in two statements, so `Gave` and
`Got` differ in between; when nothing is in progress both are the finished calls.

*The refinement.* `Book` takes the `Spray` rows of both services for the postings.
The arrival of a call is `Ask`, the commit of a spray and the insertion of the
`Spray` of a transfer are `Post`, the last step of either is `Return`, an error is
`Fail` of one call and a crash `Fail` of all in progress; the inserts of debit and
credit, the writes of balances, requeries and reversals leave the book alone.
`TransfersPoint` is needed besides `SpendingInv`: the `Spray` of a transfer that is
about to report success is the one of its own reference.

### Sums

The last property of each of the three components that follow the money compares
a balance with a sum over rows. `SumOfAmounts` is a fold, defined by a recursive
function over the subsets of the rows. `LedgerProofs` proves that the function
exists (`UnfoldsExists`), that the sum does not depend on which row is taken first,
and so that a row that is added adds its amount and one that is removed takes
it away (`SumAdd`, `SumWithout`). These are inductions over finite sets. The library's
induction theorems take a predicate as a parameter, which the provers cannot
instantiate; its `WFMin` and `NatLessThanWellFounded` do not, and give each of these
inductions as the impossibility of a least counterexample, on the number of rows.

### Payouts

The row has room for one order and one code, and two calls may store there.

* `RowFits`, `ConfirmFits`: an order in the row has passed the check of its wallet,
  whichever call stored it, and a code in it was drawn; so has the order a
  confirmation took, with a code that matched and a PIN that is set. These
  hold however calls overlap and give `PaymentsStayAuthorised`.
* `RowInTurn`, `InitiateInTurn`, `ConfirmInTurn`: while calls have come one at a
  time (`OneAtATime`), the order and the code in the row are of one call, unless
  it died between its two writes, and neither has been paid. They give the two
  theorems about codes. Nothing about them survives an overlap (`payouts_code_reuse`).
* `BalancesFit`: a confirmation has one payment at most, and has it when it is about to
  write the balance; in turn, the balance it has read is then still the wallet's,
  however long the provider took.

*The refinement.* To `PayoutDesk`, an order is offered if it is in the row or was taken
by a confirmation, and a code is valid if it is in the row or was compared by a
confirmation in progress. `StorePending` is `Offer`, `StoreOtp` is `Draw`,
`CallProvider` is `Pay` (with a refusal at once, if the money moved and the answer
was lost), `Debit` is `Accept`; what clears or overwrites the row, or ends a
confirmation, withdraws at most. It rests on `ConfirmFits` (who asks the provider
has an order and a code that match), on `BalancesFit` (it has not paid yet) and on
`DrawsFit`: who draws a code has passed the check of its wallet.

### Payments

* `RowFits`, `ReferencesDiffer`: a `Transaction` names the call that wrote it, and a
  call writes one.
* `FundingFits`, `FundingsDiffer`, `CreditFits`: one funding per reference by the
  unique column, and one credit per funding by the place of its call. Together
  they give `DepositsOnce` (`DepositsAreCreditedOnce`).
* `LeftBehind`: a delivery that failed after its row found the funding of another.
* `ToldTruly`, `AskingFits`: what a notice or a requery was told of a payout is
  still so when it writes, however late, except that a success may have been
  reversed. So no final status is ever the provider's opposite.
* `RowsAgree`, `HalfWritten`, `AskingInTurn`: in turn, the two rows of a payout
  agree but for a call that has written one of them, or died there.
* `RecordsFit`: in turn, the balance a webhook has read is still that of the wallet when
  it writes; deposits are counted by their fundings while their delivery lives, and
  by their credits when it died after writing.

*The refinement.* To `DepositDesk` a deposit is taken when its `FundingTransaction`
is inserted, not when its `Transaction` is, which a delivery that is refused
leaves behind. `Arrive` is `Announce`, `InsertFunding` is `Take`, the write of the
balance `Credit`, `StoreEvent` `Accept`, a refusal, a fault and a crash are `Refuse`;
payouts, notices about them and requeries do nothing there. `Take` needs the unique
column, `Credit` that `CreditsAreOfTheirTaker` and `FundingFits`: who credits has
taken the deposit and has not credited it yet.

### Guests

`Kyc`, `Openings` and `Events` meet in the `Customer` rows. `TiersAreReached` (a tier
is at most the highest its user has had, and that one never falls) is what the
other two rely on: the tier they read may have fallen when they write.

* `OpenerFits`, `LookUpFits`: where a call stands tells whether its wallet row is
  there, linked, empty, and held by the provider; a linked row is not deleted.
* `EventFits`, `CreatorFits`, `JoinerFits`, `LeaverFits`: a seat belongs to an event
  that stands, the host of a finished creation is seated, and who is about to be
  deleted from the seats is not the host. The host's seat depends on the
  last: a leave reads the event, waits, and deletes.
* `ChecksInv`: what a check has found (`CheckFits`) and what the rows and the tier
  of a customer have behind them, if not the creation (`CustomerFits`). For Tier_2 it
  is enough that rows are never removed. For the same reason a check that came
  when both were there finds the other one and writes Tier_2 (`CameFits`), which
  gives `OnlyEarlierChecksTakeTierTwo`. In turn, a check that saw no other row is right
  about it when it writes Tier_1 (`AloneFits`), and of two verified checks the
  second is about to write Tier_2 (`Rising`).

### Accounts

* `CallFits`: where a call stands tells what it has found (`Known`, the free name,
  the accepted code); who is told that an account was created has it.
* `CodesFit`, `InboxesFit`: a code in a row was drawn by a call of its kind that
  has stored it; a code in an in-box was drawn by one that has ended. Since codes are
  cleared and drawn again at any moment, `VerificationsWereMailed` rests on
  these and on `AcceptancesFit`: the check was passed, and what was compared had
  been mailed.
* `SessionsFit`: a session that was retired is in no row, and a login stores a
  session that nobody has had. This gives `RetiredTokensStayRetired`.
* `ReadsHold`, `UsedCodesAreSpent`: in turn, the code a call has compared is still
  there when it clears it, and one that was used is good for nothing.

### Edge

A conjunct for each part, since they share nothing but the process
(`StepCases`).

* `EntriesAreRecent`: of the sprays let through, the entry in memory has all that
  are less than a window old. A late timer filters with an older time than
  the clock's and so removes less. `WindowIsKept` then follows for every window, since a
  window that contains the new spray contains only sprays of the entry and it.
* `RoomCallsFit`, `ListenersAreKnown`, `AskedOfIts`, `JoinsInTurn`: a join that ends
  looks at the socket again, in one stretch with the write.
* `DeviceCallFits`, `ReadsHold`, `TracesOfCalls`: in turn, the device a registration
  has found for its token is still that user's with that token when it is written,
  and the tokens a message has still to reach are on devices of its users.

### Only model-checked

* `EveryCallEnds`: liveness under fairness and `ENABLED` are out of the prover's
  reach.

Every other property of a passing run is a theorem. Five theorems have no run of
their own. `BalancesSound` states a conjunct of `IInv`, which is checked.
`SerialSpraysMoveTheirAmount` is about calls in turn, where `spending` checks the sums
instead. `KeysHaveOneSpray`, `PaymentsStayAuthorised` and `DepositsOnce` state what
follows from the refinements of their components, in the terms of the rows; the
runs check the refinements.

## 8. What is not modelled

* `updateCustomerName` and `updateCustomerContacts` send a name or an address to
  the provider and write it to the row, where nothing reads it.
* `closeWallet` and `restrictByAccountId` pass the wish on to the provider and
  write at most one column that no other code reads. Name enquiry, bank list,
  histories, the leaderboard and the lists of events, devices and users write
  nothing.
* `create`, `update` and `remove` of `UsersService`: their endpoints are commented
  out, and nothing else calls them.
* Refusals that are decided by the request alone (validation of DTOs, a PIN of
  the wrong length, a missing header, a wrong webhook signature).
* The provider, Google, Firebase, mail and Postgres themselves: modelled as
  their callers see them.
* Admin, bootstrap and database client: wiring.
* Two hazards the models have and no property is about, since the code promises
  nothing: an event that ends, or a participant who leaves, between the check
  and the commit of a spray (`SetStatus`, `LeaveEvent` in `Sprays`); and of two calls of
  `createCustomer` that both register with the provider one that gets no row
  (`Register`, `InsertCustomer` in `Kyc`).

## 9. What is left

Every component that keeps state is modelled, by itself or with those it shares
tables with. Every safety property of the runs is proved, and so are the four
refinements (`Sprays`, `Spending`, `Payments`, `Payouts`).

Out of the prover's reach is `EveryCallEnds`, which TLC checks.

A team that goes on from here would add, in this order:

1. Webhooks and payouts over the tables of `Spending`: a deposit lost under a
   spray, and which pairs of writers preserve the sum of all rows.
2. Abstract specifications of the accounts (who holds an in-box may act for it)
   and of the guard (a window that is never exceeded, without timers).
