# Verification of the tip marketplace

TLA+ modules, TLC runs and TLAPS proofs about the NestJS back end in this
repository. The back end lets tipsters publish betting tips, sells them to
buyers over the PalmPay mobile-money gateway, holds the money in escrow until
the matches of the tip are over, and then pays the tipster or refunds the buyer.
It keeps its match table up to date from The Odds API, and writes tips of its own
with a language model. Everything here is translated from the TypeScript source,
the entities and the SQL migrations; the line numbers are in `PROJECT.json`
("map").

## The system

One Node.js process, TypeORM over PostgreSQL (READ COMMITTED, nobody raises it),
cron jobs of `@nestjs/schedule` in the same process. HTTP requests, webhook
handlers, cron runs and callbacks interleave at every `await`; `@nestjs/schedule`
does not keep a job from overlapping with its own previous run. Outside of an
explicit transaction every query commits by itself.

| Component | State it keeps | Talks to | What is hard | What makes it correct | Modelled |
|---|---|---|---|---|---|
| Checkout, `TipsService.purchaseTip` | `purchases`, `payments` | PalmPay, inside an open transaction | concurrent calls of one buyer, one idempotency key twice, a crash after the order is opened | one purchase per buyer and tip, one order per key, a URL shown belongs to a recorded order | yes, `TipPurchase` |
| PalmPay gateway, `PalmpayService` | writes `payments`, `purchases` | checkout, checker, escrow, e-mail, admin webhook | duplicated, late and reordered notifications; stale entities | nothing counts as paid that was not paid | partly, `TipPurchase`, `EscrowSettlement` |
| Payment crons, `PaymentStatusScheduler` | lists held in memory | PalmPay, escrow, notifications | two saves without a transaction, a crash between them | nothing stays pending for ever | yes, `TipPurchase` |
| Escrow creation, `EscrowService` | `escrow` | webhook, checker | check then insert, started before the commit it depends on | one escrow per completed purchase, none without payment | yes, `TipPurchase` |
| Escrow settlement, `EscrowSettlementScheduler` | `escrow`, payout rows in `payments` | PalmPay payouts | HTTP payout inside a transaction, overlapping runs, no retry | an escrow is paid out once, to the right party | yes, `EscrowSettlement` |
| Tip life cycle, `TipsService` | `tips`, `tip_selections` | matches, crons | two tabs, saves of a tip loaded earlier, publication against the clock | what is sold does not change, and its odds are those of its selections | yes, `TipLifecycle`, `TipViews` |
| Selection evaluation and tip outcome | `tip_selections`, `tips`, outcome columns of `purchases` | matches, settlement | whole-row saves outside of a transaction, half-done runs | the outcome is earned, final and passed on | yes, `TipLifecycle`, `PredictionEvaluation` |
| Match synchronisation | `match_data`, `teams` | The Odds API | overlapping intervals, refused keys, recovery inside an aborted transaction, deadlocks | one row per club and match, a final match stays final, the table catches up | yes, `MatchSync`, `OddsExtraction` |
| Authentication, `AuthService` | `users`, `user_roles`, `deleted_users`, `invalidated_tokens` | e-mail, PalmPay's bank lists | no call is a transaction, users saved as they were loaded | the password of an account is the one last given for it, no account vanishes or comes back, a log-out sticks | yes, `Accounts` |
| AI tips, prompts, Ollama client | AI tipster, `tips` | Ollama, matches | an answer that may be anything, overlapping jobs, a failure in the middle | what is published is whole and, read as it was checked, can win; one failure does not stop the rest | yes, `AiTips`, `AiPrompt` |
| Gateway registry, admin webhook | configurations; none | PalmPay; the admin service | — | bounded tries | partly, inside `TipPurchase` |
| E-mail, rate limits, settings, leagues, DTOs, guards, controllers, Stripe stub, old payout | — | — | formatting, single-row reads and writes | — | no (see the end) |

## Modules

| Module | What it is |
|---|---|
| `TipPurchase` | checkout, gateway, webhook, both payment crons, escrow creation and crashes, over the three tables they share |
| `EscrowSettlement` | the settlement cron: overlapping runs, the transaction of each escrow, the payout inside it |
| `EscrowLedger` | what settlement promises: held once, released once, booked in the same step |
| `PredictionEvaluation` | from what a tipster types to a verdict on a final score: pure functions, and what betting says of them |
| `TipLifecycle` | one tip from draft to outcome: the calls of its tipster, both evaluation crons, buyers, matches, crashes |
| `TipViews` | what `TipsService` shows of that tip, as functions of its tables |
| `OddsExtraction` | the five extractors of odds: pure functions |
| `MatchSync` | three intervals that save the feed match by match, with PostgreSQL's locks, keys and deadlocks |
| `Accounts` | registration, codes, log-in, tokens, passwords, profile, deletion |
| `AiPrompt` | what the language model is told: pure functions |
| `AiTips` | the jobs that make AI tips, the check of an answer, the transaction that stores it |
| `MCTipPurchase`, `MCEscrowSettlement`, `MCTipLifecycle`, `MCMatchSync`, `MCAccounts`, `MCAiTips` | small instances for TLC |
| `TipPurchaseProofs`, `TipSaleProofs`, `EscrowSettlementProofs`, `TipLifecycleProofs`, `TipViewsProofs`, `MatchSyncProofs`, `AccountsProofs`, `AiTipsProofs` | TLAPS proofs |

Definitions with the comment "A fault for TLC to find" are faulty variants of the
definition that follows them; `PROJECT.json` ("mutants") says which property each
of them breaks. No specification uses them.

How the modules fit together: `TipLifecycle` and `AiTips` judge with the same
`PredictionEvaluation`. `TipPurchase` ends where an escrow row is `HELD`;
`EscrowSettlement` starts with completed purchases and adds the escrow row in one
step (`CreateEscrow`); its step `Decide` is what `OutcomeFinal` and `OutcomeEarned`
of `TipLifecycle` show of the outcome cron. `TipLifecycle` has the purchases of
`TipPurchase` cut down to a status (`Buy`, `Pay`). `FinishedStays` of `MatchSync`
is what `TipLifecycle` assumes of a match that is over. The components share
tables and no process state, and each module has all the writers of the columns it
is about; they are not composed into one state machine, which no instance of
interest would let TLC finish.

### TipPurchase

One published tip. A call of `purchaseTip` is a member of `Requests`; the
purchase it inserts, the payment it inserts and the order it opens are named by
that request, because each call creates fresh identifiers. `Owner` gives its
buyer (the unique key of `purchases` is tip and buyer), `Ref` its order number
`TIP-<idempotency key>` (unique in `payments`).

*Tables.* `purchase`, `payment` and `escrow` are the committed rows. A payment
is cut down to what the code branches on: its status, whether it has a provider
transaction id and a checkout URL, whether `purchaseId` still points to its
purchase, and the two notification flags. What an open transaction has written
but not committed is told from the program counter of its owner, so the commit
is one action (`CommitRequest`, `CommitWebhook`) and a crash or rollback simply
drops it. Row locks and waits for an uncommitted unique key are guards
(`PaymentHeld`, `PurchaseHeld`, `SlotRivals`, `KeyRivals`); the cycle between
the DELETE of a retry (purchase, then by `ON DELETE SET NULL` the payment) and
the webhook (payment, then purchase) is there, with PostgreSQL's choice of a
victim (`ResolveDeadlock`).

*Checkout.* `ReadExisting`, `DeleteFailed`, `NullifyPayments`,
`CheckOrderNumber`, `InsertPurchase`, `InsertPayment`, `CallGateway` and
`FinishRequest` are the stretches of `purchaseTip` between two points where
another process can act. `CallGateway` is `initiateMobileMoneyPayment` over
`makeApiRequest`: the answer is a URL, none, or a failure; the order may or may
not have been opened in the last case.

*Webhook.* `ReceiveWebhook` validates and loads the entity, the next three
actions are the transaction, then `SendMail`, `MarkMailed` and
`SendAdminWebhook`. The duplicate check of the code compares with a hash that is
never stored, so it is not in the model: every delivery is processed.

*Crons.* A run loads entities (`ListPending`) and works through them with the
stale copies it has: `QueryStatus`, then `RefreshPayment`, `CompletePayment`,
`ReadPurchase`, `CompletePurchase`, `AwaitEscrow`, or `FailPayment` and
`FailPurchase`; the clean-up starts with `ExpirePayment`.

*TypeORM.* `save` of a loaded entity reloads the row and updates the columns
that differ, so stale columns overwrite newer ones, unless the write fell after
the reload: `SaveOutcomes` has both. A `findOne` with a null id drops the
condition and may return any row: `PurchaseOf`.

*Outside.* `AdvanceOrder` (PalmPay's order: 0 or 1 pending, 2 paid, 3 failed,
4 cancelled; once final it stays), `Notifications` (the current status or the
initial one, at any time and in any order), `AgePayment` (under 30 minutes,
between, over 24 hours).

*Crash.* Everything in memory is lost, open transactions roll back, committed
rows and mails stay.

### EscrowSettlement

*State.* `tip`, `purchase` (status only), `escrow` and `payments` (the rows of the
three outgoing types) are committed rows, `orders` the payouts PalmPay has
accepted. `run[r]` is a run of `processEscrowSettlements`: where it is, the
escrows it has still to look at (`todo`), and the payments row its open
transaction has inserted (`draft`).

*One settlement.* `Start` reads the list. `Refresh` opens the transaction, reads
the escrow again and chooses the branch, `Skip` finds it settled. Then `Insert`,
if the recipient has bank details one of `PayoutAccepted`, `PayoutUnanswered`,
`PayoutRefused`, then `SaveEscrow` (which takes the row lock) and `Commit`. A
failed database call is `Abort`: it rolls back and the loop goes on with the next
escrow. A refresh that fails leaves what `Refresh` followed by `Abort` leaves, and
has no action of its own. The reads take no lock, and the foreign key from
payments to escrow takes one that does not conflict with the later update, so
that two runs may do all this for one escrow at the same time.

*Around it.* `CreateEscrow`, `Decide` (the outcome cron), `Renotify` (a late
notification gives a completed purchase another status, which `TipPurchase`
shows to be possible), `Crash`. A tip is decided once: the outcome cron selects
pending tips only, and `OutcomeFinal` of `TipLifecycle` is the check of it, but for
the tip that is published empty (see there). The deletion of purchases is in
`TipPurchase` (`DeletesOnlyFailed`).

*Schema.* `settleEscrow` sets neither `orderNumber` nor
`globalPaymentMethodId` of the payments rows it makes, and both are `NOT NULL`
in the migration and in the entity. With `ColumnsRequired = TRUE` (the
repository as it is) every settlement fails at its insert (`Insert`).
With `FALSE` the columns accept null, and the rest of the scheduler, as it is
written, can be checked; the runs that are not about the schema have `FALSE`.

*PalmPay.* That it refuses an order id it has already taken is an assumption
about an external service; the source relies on it without saying so. The order
id keeps the first eight characters of the escrow's id (`Reference`), and
nothing is assumed of how they differ in the proofs.

*Amounts.* Cents. The fee and the earnings are computed in doubles and rounded
one by one to `decimal(10, 2)`; `RoundCents` rounds halves up. A product that is
half a cent exactly is a double a little above or below it, so that at other
amounts than those of the runs a tie may fall the other way; 1.05 at 0.1 gives
0.11 and 0.95 in the code as in the model. The rate is read once in a run and
does not change here.

### PredictionEvaluation

A text is what it says and the number in it, in quarter goals; synonyms say the
same. `mapPredictionString` is the mapping of `TipsService` with its order of
tests (a text nobody recognises becomes a match result), `evaluateSelection` and
the operators below it are `PredictionEvaluationService`, strict comparisons,
"no unless yes" and "void unless understood" included. The reference is betting
itself: `Books` are sets of predictions of which exactly one comes true on any
score, `Implications` pairs of which the second follows from the first, and
`PredictionsCohere` checks both over all scores up to 4:4 (the run states it as
`PredictionsJudged`, looked at before there is a tip).

### TipLifecycle

*State.* `match` and `score` are a match as the code tells it apart: scheduled and
twelve hours ahead, scheduled and nearer, live, finished, or cancelled or
postponed. `tip` is the row (its status, its flag, and as `totals` the list its
odds and date were computed from), `rows` the selections, `purchase` one row for
each buyer.

*The tipster.* `Create` is `createTip` with `validateCreateTipDto`. A call of
`addSelection`, `removeSelection`, `updateTip` or `publishTip` is a member of
`Calls`. It begins with the tip it loads (`Begin`); `ChooseChange` is the branch of
`addSelection` (take out, replace, insert, or refuse); `WriteRow` writes it and
computes the totals from what the transaction sees; the commits differ in what
they save: two columns (`CommitAdd`) or the tip as it was loaded (`CommitRemove`,
`CommitUpdate`, `CommitPublish`). `tabs` is chosen once and says how many calls
overlap, so that a property can say what holds for a tipster who does one thing
at a time.

*The crons.* `StartEval`, `SaveVerdict`: the rows whose match is over and has its
scores, saved one by one as they were loaded. `Determine`, `ReadPurchases`,
`MarkPurchase`, `SaveOutcome`: the tip and its purchases are held in memory in
between. TypeORM makes the rows of a one-to-many relation those of the saved
entity; it would take `tip_id`, which is `NOT NULL`, from a selection that was
added since, so such a save fails (`NoRowAdded`).

*The tip that is published empty.* Of two overlapping calls one may publish a tip
another is emptying. Such a tip is lost at once, without a match, and a third call
may fill it and take it back before its matches are over. `OutcomeEarned`,
`OutcomeFinal` and `EventuallyDecided` say so: for overlapping calls they speak of
a tip whose matches are over (`AllOver`), or of won and void only.

*Assumptions.* One save is one step. A match lasts longer than a call or a run
(`Quiet` in `PlayMatch`). Prices, titles, roles and bank details, which are checks
before the first query, are left out, and so is a tip that is created without a
list of selections, at which `createTip` throws.

### TipViews

Each view of `TipsService` is an operator of the tables of `TipLifecycle` and of
who looks: the public list (`getTips`), the counters beside it, the tipster's own
list, the page of a tip (`getTipDetails`, `getTipForEditing`) and the streak.
The tipster's own list is shaped without the user who asks (`mapWithoutUser`), so that
it does not say whose the tips are. Searching, sorting and pages are left out. A
`decimal` column is read as a text
(`ReadPrice`), as the PostgreSQL driver returns it and the entity does not
transform it.

### OddsExtraction and MatchSync

`OddsExtraction` has the five extractors with their keys: which outcomes are
passed over, which of two wins, how a line is rounded into a key (`Tenths`), when a
missing name breaks all of them. `OddsTrue` is the reference.

`MatchSync`: `feed` is what the provider would say, `stored` and `team` the
committed rows, `run[r]` a run with the transaction it is in. `TakeEntry` looks the
match up, `LookTeam` and `WriteTeam` are `getOrCreateTeam` for either side,
`SaveMatch`, `CommitMatch` the rest. What a transaction has written is seen by
itself only (`Overlaid`), an insert waits for the holder of the key and an update
for the holder of the row (`Waits`), PostgreSQL breaks a circle (`BreakDeadlock`),
and a key that is taken by now aborts the transaction, in which the code's attempt
to read the row again fails as well. `solo` is chosen once: the runs overlap or
they do not. Time, teams and odds of a fixture are one version number, and the
clubs of a fixture do not change.

### Accounts

The rows of four tables, what is in the mailbox (`inbox`) and which passwords were
last given for an account (`given`), by whoever gave them. Calls with more than one
query are members of `Calls` with a program counter; each query and each mail is a
step, a failed one (`FailCall`) ends the call with what is written by then, except
in `logout`, which goes on. Single reads followed by an update of named columns are
one step (`VerifyOtp`, `ResetPassword`). `solo` says, as above, whether calls overlap.

*Passwords.* `SaveUser` saves the user as it was loaded, and a user who was removed
meanwhile is inserted again. The hook of the entity hashes what does not begin with
"$2" (`hashPassword`): a hash is left alone, and so is a password that begins so
(`Prefixed`), with which nobody can log in afterwards. `ResetPassword` takes an
address and a password; the token in its body is not looked at, as `forgotPassword`
stores none. `PasswordAsGiven` therefore speaks of the password last given for the
account, not of what its owner knows, and of text that is hashed once or left by the
hook, not of one that can be validated. What it leaves out is among the refuted
claims (`PasswordWorks`, `ResetUsesToken`).

*Log-out.* The user is looked up first, and nothing is done with the result; but a
failure there goes straight to the answer (`BeginLogout`). Then `PutAccess`, and
`PutRefresh` if a refresh token was in the body, which is optional; a failed insert
is swallowed. `passed` are the tokens of the call, `lost` those whose query, or the
lookup before them, has failed. The answer is "Logout successful" in every case
(`ReplyLogout`), so `LogoutSticks` speaks of the tokens passed and not lost, and
`LogoutInvalidates` is the refuted claim about the pair.

### AiPrompt and AiTips

`AiPrompt` computes what the prompts are made of: the level of data, three times
and by two averages, and the sections of each match that fit the budget, of which
`combineContexts` keeps none. `AiTips`: a job goes through its competitions;
`Pick` chooses the matches, `NoAnswer` and `Answer` are `executeWithRetry` over
Ollama, which may answer anything, `validateTip` reads each match again,
`getOrCreateAiTipster`, `Save` and `Commit` are the transaction. A prediction is
judged by the `evaluateSelection` of `PredictionEvaluation`.

*Texts.* The validation trims a prediction and the store does not; the evaluation puts
it in lower case only. A prediction says whether it is `padded`: `validatePredictionValue`
does not look at that, and `AsRead` is what the evaluation makes of the stored text. The
patterns of goals and scores find their match inside a padded text, other padded texts
are unknown, so that " home_draw" is published and always lost. `TipsCanWin` speaks of
predictions that are read as they were validated (`ReadAsValidated`); without that it is
false (`ValidatedCanWin`). Nor does it speak of "home_-1.5", which passes the validation
and is always void, and of "under_0", which passes and can never win (`OfScore`).

*Matches.* A match that has begun stays stored as scheduled for a while (`"late"`). Only
the weekend job compares its date with the clock; the others take what is scheduled
from midnight on, and so does the check of an answer.

## Runs

Deadlock is checked in every run but Ai, where the system really stops: the jobs
are switched off and the matches have begun. In `TipPurchase` and `TipLifecycle`,
`Resting` allows a stop only when nobody is in the middle of something.

| Run | Instance | Checks | Distinct states |
|---|---|---|---|
| Checkout | 3 requests, 2 buyers, one key for all, 1 crash | `OneSale`, `ShownIsRecorded`, `OneOrderPerKey` | 31,792 |
| Retry | 2 requests of one buyer, fresh keys, 1 webhook, clean-up, fair | `NoOrphans`, `EveryoneFinishes` | 371,018 |
| CleanUp | 1 request, 1 webhook, both crons, 1 crash, fair | `TypeOK`, `PaidBacked`, `OneSale`, `EventuallySettled` | 133,898 |
| Ledger | 2 escrows, a tipster's tip and an AI tip, 1 run at a time, 2 faults, fair | `TypeOK`, `BooksAgree`, `LedgerSpec`, `EventuallySettled` | 7,160 |
| Overlap | the same, all recipients payable, 2 overlapping runs, 2 faults | `OneTransfer` | 640,344 |
| Tips | 2 matches, 2 predictions (one unreadable), 2 calls in 1 or 2 tabs, 1 buyer, 1 run of each cron at a time, 1 fault, fair | `TypeOK`, `OutcomeEarned`, `OutcomeFinal`, `PublishedStays`, `TotalsAgree`, `OutcomesAgree`, `PagesAgree`, `PredictionsJudged`, `EventuallyDecided` | 1,173,528 |
| Sync | 2 fixtures between the same clubs, one spelled in two ways, 2 intervals that overlap or not, 1 change in the feed, 1 fault, fair | `TypeOK`, `TeamsAgree`, `StoredOddsTrue`, `FinishedStays`, `NeverBackwards`, `EventuallyFresh` | 429,514 |
| Auth | 1 person, 2 calls that overlap or not, 2 codes and token pairs, 2 passwords of which one begins with "$2", 1 fault, fair | `TypeOK`, `PasswordAsGiven`, `RecordedFirst`, `DeletedStays`, `LogoutSticks`, `EventuallyVerified` | 604,683 |
| Ai | the start-up run and a job of two competitions, 2 matches of which 1 begins, answers of up to 2 selections, 1 fault, fair | `TypeOK`, `WholeTips`, `TipsCanWin`, `LevelsCohere`, `EveryCompetitionTried` | 261,696 |

*Why the bounds are enough.* Two requests of one buyer are what it takes to
delete, retry and race for the unique key; a third, of another buyer, shows what
a shared idempotency key does across buyers. One webhook delivery races one
retry, one cron and one escrow job; in CleanUp the escrow job of the webhook races the
checker, so that `OneSale` is there about the escrow. In the settlement runs two escrows make a list
with a rest to go on with after a failure, two runs are what a race for a row
takes, and of two faults the first leaves an escrow held after its payout and the
second does it again to the repetition. Two calls of a tipster are what it takes
to save a tip that has changed since it was loaded; two selections, one of which
cannot be judged, give every outcome. Two fixtures of the same clubs in opposite
order make two transactions wait for each other, and two spellings of one club
reach the key that its names share. Two calls of `AuthService` let one save what
the other has replaced. The language model answers Ai with "over 2.5" with
blanks around it or with a text that nothing reads for one match, and with a double
chance with blanks for the other: what passes the validation and is read, what must not
pass, and what passes and is not read. The matches of Ai have maturities of which the mean is
29.5, where the averages round in different directions. `MaxCrashes`, `MaxFaults`,
`MaxNews`, `MaxTips`, `MaxBegun` bound faults, news, generated tips and matches that
begin. In Auth faults happen only where calls do not overlap (`Both = FALSE`), and
log-outs overlap with log-outs only (`Mixed = FALSE`): a log-out reads a user without
use and writes a table that no other call in progress writes. With either of them `TRUE` the
invariants and action properties hold as well (2.2 and 1.3 million states, checked by
hand), and the theorems have neither restriction. Everything else is finite by itself.

Larger instances that take longer than a run of the project may were checked by
hand with the same properties: three calls in three tabs over one match with a
fault, liveness included (1.7 million states), four calls in three tabs, two
overlapping runs of the outcome cron with a fault, and three overlapping intervals
of the synchronisation (6.5 million states). The theorems below hold for any
number of them.

Three more runs check what a comment of the code claims, and TLC refutes it:

| Run | Claim | What happens |
|---|---|---|
| EscrowJob | "We'll do this after the transaction commits" (`palmpay.service.ts:718`) | the escrow job is queued before the commit, reads PENDING and gives up: a completed purchase without escrow |
| NeverSettled | "Process escrow settlements (payouts and refunds)" (`escrow-settlement.scheduler.ts:76`) | with the columns of the migrations no escrow is ever settled |
| Cancelled | "cancelled/postponed matches are always void" (`prediction-evaluation.service.ts:27`) | the cron skips every match that is not finished before it asks; the tip stays pending for ever |

Further claims are stated in the modules and refuted in the same way; no run of
the project is about them. To see one fail, put the property in place of those of
the configuration named, as an INVARIANT if it speaks of one state and as a
PROPERTY if of steps.

| Property | Configuration | Claim | What happens |
|---|---|---|---|
| `FinalStatusStays` | CleanUp | "Invalid status transition: cannot change payment status" | the table only logs; a late notification moves a final payment back |
| `FailedTogether` | CleanUp | "Mark payment as failed and update corresponding purchase status" | a crash between the two saves: the purchase stays PENDING, and no cron will look at it |
| `FailedCallIsFailed` | CleanUp | "If payment fails, update payment and purchase status to FAILED" | the service reports a failure as an answer, the checkout commits PENDING |
| `DeletesOnlyFailed` | Retry | "delete the failed purchase record" | the row is deleted by id in whatever status it is by then |
| `NotifiesOwnPurchase` | Retry | "Purchase not found for payment" | a payment without purchase is notified from somebody else's |
| `OneRow` | Overlap | "Check if already settled" | two runs pass the check and book two payments for one escrow (PalmPay refuses the second order) |
| `PendingRetried` | Ledger | "Payment remains in PENDING status, will be retried later" | the escrow is settled, no code looks at the payment again |
| `SplitExact` | Ledger | "split between platform and tipster" | 1.05 is split into 0.11 and 0.95 |
| `SettlesCompleted` | Ledger | "Purchase is COMPLETED" | the purchase is failed between the reading of the list and the settlement, which does not look again |
| `PublishedFrozen` | Tips | "Cannot add selections: tip has already been published" | a call that began before the publication commits after it |
| `OneExclusive` | Tips | `mutuallyExclusiveTypes` | `createTip` does not look; two overlapping calls insert both |
| `PaidStaysPaid` | Tips | "Update all purchases of this tip" | a purchase that is paid while a run holds it goes back to PENDING |
| `FreeTipsAreOpen` | Tips | "Free tips (price = 0) are accessible to all authenticated users when published." (`tips.controller.ts:444`) | the price is read as a text, and a text is never `=== 0` |
| `RecoversFromRace` | Sync | "already exists in database (unique constraint violation), fetching existing match" | the transaction is aborted by then, and so fails the fetch |
| `NeverBackwardsAtAll` | Sync | — | of two overlapping runs the one with the older answer saves last |
| `SidesKept` | Sync | — | "1. FC Köln", away, is read as the home team |
| `PasswordAsGivenAtAll` | Auth | — | `updateProfile` saves the password hash it loaded before the change |
| `DeletedStaysAtAll` | Auth | — | `updateProfile` inserts a removed user again |
| `PasswordWorks` | Auth | — | a password that begins with "$2" is stored as it is, and compares with nothing |
| `ResetUsesToken` | Auth | "Reset password using token from email" (`auth.controller.ts:428`) | no token is stored, and the one passed is not looked at |
| `LogoutInvalidates` | Auth | "Logout successful" (`auth.service.ts:443`, `445`) | the answer after a failed lookup or insert, and after a body without a refresh token |
| `DeletedIsGone` | Auth | "User not found for deletion" | the removal fails after the record is saved: the user can still log in |
| `HasRole` | Auth | — | the role is inserted after the user; a failure in between is never repaired |
| `OneAiTipster` | Ai | `getOrCreateAiTipster` | two jobs that overlap each find none and each create one |
| `ValidatedCanWin` | Ai | "Validate prediction value matches prediction type" (`tip-validation.service.ts:203`) | it trims what is stored untrimmed: " home_draw" is published and lost on every score |
| `PromptShowsMatches` | Ai | "Odds (from provided odds data)" | the combined context has neither odds nor teams nor the ids the answer must name |

Other things met while modelling, which contradict no statement of the
repository: between 30 minutes and 24 hours after its creation no cron asks
PalmPay about a payment, and after 24 hours the clean-up fails it without asking,
so that a paid order ends as a failed purchase if the webhook is lost as well. "not
both teams to score" is stored as the price of "yes". `getNextFriday` may return a
Thursday; a context that is up to a tenth over the token budget is left as it is; a
restart makes the weekend tips again; a price in local currency that ends in half a
cent is rounded one way for PalmPay and another way in the table (1.50 at 10.85:
1627 sent, 16.28 stored), and no notification of such a payment is accepted; AI tips
skip the twelve hours of `publishTip`. `invalidated_tokens` is never cleaned up.

## Fairness

`Scheduled` of `TipPurchase`: the event loop runs every request, handler, job and
cron run that has started; the gateway call ends (HTTP timeout) and so do lock
waits (the holder ends, or PostgreSQL breaks the cycle). `CleanedUp`: the daily
clean-up fires again and again and time passes. Nothing is assumed of buyers, of
PalmPay, of its webhooks or of the checker. `EveryoneFinishes` says "again and
again everybody is through". As calls and deliveries are finitely many, a request
or a handler that hung would falsify it.

`EscrowSettlement`: weak fairness of `Advance(r)`: the cron ticks again and again,
and a run that has started comes to its end (database calls and HTTP end, with an
answer or an error). Nothing is assumed of PalmPay's answers, of the outcome cron
or of notifications. `EventuallySettled` therefore speaks of an escrow that is
ready from some moment on.

`TipLifecycle`: weak fairness of `EvalStep` and `OutcomeStep`: both crons tick
again and again and their runs end. Nothing of tipsters, buyers, matches or whoever
enters scores; `EventuallyDecided` begins where matches and scores are there.

`MatchSync`: weak fairness of the steps of each run (the intervals fire, queries
end) and strong fairness of the two that wait for locks: PostgreSQL serves waiting
transactions in their order, so that a lock which becomes free again and again is
got. Nothing of the provider. `EventuallyFresh` begins where the match stays ahead.

`Accounts`: weak fairness of the steps of a call, and strong fairness of asking for
a code and of typing it in time: somebody who wants an account tries again and
again. `EventuallyVerified` is about such a person.

`AiTips`: weak fairness of the steps of each job: the event loop goes on, and a call
of Ollama is answered or times out after two minutes.

## Proofs

`TipPurchaseProofs` proves, for every set of requests, buyers, deliveries and
every number of crashes, from the three assumptions of `TipPurchase` (there is a
request, keys and owners are functions of it, the crons are not deliveries):

* `TypeCorrect`: `Spec => []TypeOK`, by induction over the actions.
* `PaidAlwaysBacked`: `Spec => []PaidBacked`. `PaidBacked` is not inductive. A
  handler carries a code and an entity from its read to its commit, the checker
  the answer of PalmPay across its saves, a cron a list of entities, and an
  escrow job the fact that it saw the purchase COMPLETED. The inductive
  invariant `PaidInv` adds that each of these is backed by a paid order
  (`ProcsBacked`, `ListsBacked`), that the process a job works for does not
  move on to another payment meanwhile (`JobsOwned`), and that no order is open
  before the gateway has been called (`NotYetOrdered`), so that the call cannot
  reset a paid one. `PaidStable` (paid stays paid) and `PutEntry` (a process
  takes an entry that is backed) carry the weight.

`TipSaleProofs` proves from the same assumptions what the rows of a sale have to do
with each other:

* `SoldOnce`: `Spec => []OneSale`, one purchase per buyer and one escrow per purchase.
* `NothingOrphaned`: `Spec => []NoOrphans`, a deleted purchase leaves neither escrow
  nor linked payment.
* `ShownAlwaysRecorded`: `Spec => []ShownIsRecorded`, over any number of crashes.
* `KeyOpensOneOrder`: `Spec => []OneOrderPerKey`: until the process dies a key opens
  one order, and each order is recorded in the end.

None of the four is inductive: each is upheld by rows no other transaction sees yet,
or by a copy in memory. `SaleInv` adds both. What an open transaction holds: a key
that is inserted is nobody else's (`SlotsHeld`, `KeysHeld`), a request deletes at most
one purchase, of its own buyer and without escrow (`Victims`), and only a request that
has answered has a visible payment (`Uncommitted`). What is carried: an entity of a
handler, a cron or a list still has the transaction id and the URL of its row, which
nothing changes once they are there (`ProcsCarry`, `ListsCarry`), so that the late
save of a stale entity cannot take them away; a handler that has saved the purchase
keeps it in the table (`HandlersHold`). Deletion is the hard case: it takes the
purchase and the link of its payment in one step, while handlers and crons hold
copies of both and escrow jobs are about to insert.

`EscrowSettlementProofs` proves, for every set of escrows, tips and runs, all
amounts, every rate and every number of faults, from the two assumptions of
`EscrowSettlement` (`EscrowsAssumption`, `SwitchesAssumption`):

* `TypeCorrect`: `Spec => []TypeOK`.
* `TransferOnce`: `Spec => []OneTransfer`, however many runs overlap.
  `OneTransfer` alone is not inductive: that a second order for an escrow has
  the id of the first needs that both runs chose the same branch. `TransferInv`
  adds that every draft and every order is what the decided outcome calls for,
  and that an id is taken once.
* `SchemaFailsSafe`: `Spec => []FailsSafe`: because with `ColumnsRequired` no run
  gets beyond its insert (`SafeInv`), no money moves and every escrow stays held.
* `BooksKept`, `OneRowKept`: `BooksAgree` and `OneRow` hold if `Runs` has one
  member (`OneRun`). The hypothesis is needed, see `OneRow` above; with it `OneRow`
  says little beside `BooksAgree`, and no run checks it. `BooksInv`
  adds that a run with a draft works on an escrow that is still held.
* `ImplementsLedger`: under the same hypothesis `Spec => LedgerSpec`: `Commit`
  is the ledger's `Release`, `CreateEscrow` its `Take`, `Decide` its `Decide`,
  and everything else, crashes included, a stutter.

`AccountsProofs` proves, for every set of people, codes, passwords, tokens and
calls and any number of faults, overlapping calls included, from
`FaultsAssumption`:

* `AccountsTyped`: `Spec => []TypeOK`.
* `AccountsRecordedFirst`: `Spec => RecordedFirst`. Only the last step of a deletion
  takes a row away (`OnlyRemoval`), and what it must know is that the step before
  has recorded the person and that nobody takes that back.
* `AccountsLogoutSticks`: `Spec => LogoutSticks`. A log-out that is about to answer has
  invalidated every token that was passed to it and not lost (`LoggingOut` says what
  is done at each of its places), however its failures and other calls fall.
* `AccountsPasswordAsGiven`, `AccountsDeletedStays`: `Spec => []PasswordAsGiven`,
  `Spec => DeletedStays`. Both are about calls that do not overlap (`solo`).

The inductive invariant of the first three is `Inv`: `TypeOK`, and for each call that it
is about one person (`OneWho`), saves a user (`SavesUser`), has recorded before it
removes (`Recorded`), and a log-out is through with one token before it comes to the
next (`LoggingOut`). `OthersKept` says that a step of one call leaves the others' part
of it alone, because deletions, invalid tokens and faults only grow.
The last two need `SoloInv` besides: one call at most is in progress, and what it
relies on (`SoloCall`) is still so when it comes to write: the address it registers
is not recorded as deleted, the user it saves is still there, and the password it
leaves was given for the account.

`TipLifecycleProofs` proves, for all matches, predictions, calls, runs of both crons
and buyers and any number of faults, from `ResultsAssumption`, `BoundsAssumption`
and `CallsAssumption` (there are finitely many calls, and `createTip` is none of
them):

* `TipTyped`: `Spec => []TypeOK`.
* `OutcomeIsEarned`, `OutcomeIsFinal`: `Spec => []OutcomeEarned`, `Spec => OutcomeFinal`.
* `PublishedTipStays`: `Spec => PublishedStays`.
* `MarksAgree`: `Spec => []OutcomesAgree`. `MarksInv` adds that a run that is under
  way when a match of the published tip has ended knows that tip (`RunsKnow`), so
  that all such runs mark the same outcome, and that what a run has no longer to
  mark is marked or was not there (`Marked`).
* `TotalsOfSale`: `Spec => []TotalsAgree`. `TotalsInv` adds that a call of the only
  tab holds the totals of the selections as long as one of their matches has not
  ended (`Open`). A deciding run can give a draft stale totals only when none of
  its matches is open, and such a draft cannot be published.

The inductive invariant is `Inv`, about what everybody else still knows of the tip.
A verdict is there only when it can be, and it is the right one (`RowsOK`); what a
judging run holds is still true of its selection (`EvalOK`), because a match ends
only when nobody is in the middle of something and a selection of an ended match
is not changed (`CallOK`, `ChangedRows`). A published tip with an ended match has
no call left (`TipOK`). A deciding run that read the tip before its publication
holds selections of ended matches only, and those of a tip at its publication have
not ended, so that its save fails; one that read the published tip knows its
outcome (`RunOK`, `SavedTip`). `OneTab` adds what holds for a tipster who does one
thing at a time.

`TipViewsProofs` goes on from there, with `TipsterAssumption` (a tipster does not buy
the own tip, `tips.service.ts:1988`):

* `PagesAlwaysAgree`: `Spec => []PagesAgree`. To `Inv` it needs `SoldInv`: what has been
  bought, and what a deciding run has read of purchases, is of a published tip; without
  it a draft could be on the page of a buyer. That a won or void tip costs no streak is
  shown for a history of any length (`StreakGrows`).
* `AnyScoreIsJudged`: of the texts in a book of `Books` exactly one wins, and
  `Implications` hold, on every final score there can be. TLC checks scores of up to
  four goals each.
* `PredictionsAlwaysJudged`: `Spec => []PredictionsJudged`, from it.

`MatchSyncProofs` proves, for all fixtures, clubs, leagues and intervals and any
number of faults, from `RunsAssumption`:

* `SyncTyped`: `Spec => []TypeOK`.
* `SyncTeamsAgree`: `Spec => []TeamsAgree`, and `SyncFinishedStays`:
  `Spec => FinishedStays`. `Inv` adds what a run has in hand: what it has listed is
  still ahead (`Ahead`), the teams it has written are those of its match, one for
  each (`OwnTeams`), and it comes to save with both teams at hand (`TeamsFound`).
* `SyncNeverBackwards`: `Spec => NeverBackwards`. `SoloInv` adds for intervals that
  do not overlap that one run at most is under way, and that what it holds is no
  older than the table.

* `HandicapsKept`: of any number of handicap bets with any lines, each that is unlike
  the others keeps its price: with the sign, rounding to tenths tells any two quarter
  lines apart (`TenthsTell`). `TotalsKept`, `ResultsKept` and `BetwayAlone` say the like
  of the other extractors.
* `SyncOddsTrue`: `Spec => []StoredOddsTrue`, from these: it is a fact about the
  extraction alone, and needs no invariant.

`AiTipsProofs` proves, for all jobs, plans, matches, data, predictions and any number
of crashes and refused queries, from the assumptions of `AiTips` (finitely many
matches, with dates; each job has a list of competitions, which is written in the
code):

* `AiTypeCorrect`: `Spec => []TypeOK`. Hidden in it: the number of AI tipsters is
  bounded although every job may create one, because only runs that found none do, and
  those were all active before the first tip (`CrewBounded`).
* `AiTipsAreWhole`: `Spec => []WholeTips`, `AiTipsCanWin`: `Spec => []TipsCanWin`. What a
  commit stores was chosen, asked, checked and written by earlier steps: `AiInv` says
  what a run holds at each place (`Held`) and what a tip has kept of it (`Whole`).
  `AiTipsCanWin` then has for every prediction of the score that the validation lets
  through, and the evaluation reads as it was validated, a score on which it comes true
  and one on which it fails (`ValidatedDecides`).
* `AiLevelsCohere`: `Spec => []LevelsCohere`. The mean is a sum over a set, which the
  library defines by the choice of a recursive function. That there is one is shown by
  counting (a match of maturity *k* is *k* pairs, `Points`), its bounds by a smallest
  set that breaks them (`SumBetween`, with the well-foundedness of finite sets), and
  rounding crosses no threshold (`RoundedLow`, `RoundedHigh`).

With these every invariant that a run checks is a theorem, and so is every action
property. TLC looks at an inductive invariant before it is proved: `SaleInv` holds on
the instances of Checkout, Retry and CleanUp, `SoldInv` on that of Tips, `AiInv` on that
of Ai, as the invariant of a configuration of a module that extends the proofs.

What stays model-checked only is liveness: `EveryoneFinishes`, both
`EventuallySettled`, `EventuallyDecided`, `EventuallyFresh`, `EventuallyVerified` and
`EveryCompetitionTried` need fairness, hence ENABLED, which the prover does not treat.
The theorems about overlapping calls and runs that carry a hypothesis (`OneRun`,
`solo`, one tab) are false without it; the table of refuted claims shows how.

## Not modelled

* `palmpay-payout.service.ts`: the whole file is commented out. The Stripe gateway is
  a stub.
* The e-mail templates and SMTP: texts. Which mail is sent about what to whom is in
  `TipPurchase`, lost and late code mails are in `Accounts`.
* Rate limits: parameters of the library express-rate-limit.
* Leagues, matches, country and app settings: reads, and writes of one row without
  interplay. The switches they hold are `Enabled` and `SwitchOff`.
* Controllers, guards, filters, DTOs, health, telemetry: routing, decorators and
  formatting. Checks that come before the first query are left out where no
  property depends on them.
* The virtual-account webhook of PalmPay (`palmpay.service.ts:992-1173`), which no
  code calls; the signing of requests; the choice among gateways in the registry,
  of which PalmPay is the only one; the back-off of `WebhookService` (its tries are
  one step).
* Currencies, and amounts before the escrow, which are products of doubles that TLC
  does not have; several tips in one module (purchases of different tips share
  nothing but the mail look-up of an unlinked payment, which the model keeps within
  the tip); the number of repeated mails; the
  settlement branch of a cancelled tip, a status no code gives; statistics and the
  list of top tipsters, which only read.
* The process is single, as deployed.

## Plan

1. An abstract sale (an order is paid at most once, an escrow follows) that
   `TipPurchase` implements, as the ledger is implemented by the settlement.
   `SaleInv` is what its proof needs.
2. `EscrowSettlement` with the outcome cron of `TipLifecycle` in place of `Decide`.
3. The steps liveness rests on that need no fairness: a payment, an escrow, a
   selection that has come to its end stays there, as action properties.
