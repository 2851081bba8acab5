# StokvelOS: formal models

TLA+ models of StokvelOS, checked with TLC and in their most important parts
proved with TLAPS. A *stokvel* is a savings club: members pay contributions
into a shared pot and officers (treasurers and a chairperson) approve payouts
from it; grocery clubs buy goods from the pot and share them out. The models
follow the NestJS backend in `src/backend-nest`, the only backend with these
operations, and the parts of the phone app (`src/mobile`) and the web client
(`src/web`) that keep state of their own: queues, retries, caches.

## 1. Inventory

All services of the backend are classes whose handlers are chains of awaited
Prisma queries against PostgreSQL. Node runs any number of requests at once and
switches between them at every `await`; several processes may run side by side.
Apart from the unique indexes, the only thing that orders the handlers of one
group is the serializable transaction of `LedgerService.createEntry`.

| Component | State | Operations | Hard part | What makes it correct |
|---|---|---|---|---|
| Ledger (`ledger/`) | `ledger_entries`, append-only, each row with the balance after it | `createEntry` and its callers, `getBalance`, `getSummary` | read, compute, insert while others do the same; aborts are not retried | every row continues the row before it; never negative; totals agree with the balance |
| Savings payouts (`savings/savings-payouts.service.ts`) | payouts, officers' votes, the rules' `minApprovalCount` | create, approve, reject, cancel | five awaits between the status check and the debit; vote, debit and status are three commits | no money without a quorum; debited once; APPROVED means debited; a quorum is carried out |
| Contributions (`contributions/`) | contributions with a status | create, approve, reject, cancel | checks before inserts; status before credit; two schemas disagree on the unique index | one approved contribution per period; credited once; APPROVED means credited |
| Savings groups (`savings/savings.service.ts`) | groups, rules, the opening entry | create, update rules | a chairperson check outside the transaction | payouts and contributions agree with the ledger |
| Grocery catalogue and stock (`grocery/services/product`, `stock`) | products; stock movements, whose sum is the stock | create, rename, switch off, delete; adjust, move | names looked up, then written; stock summed, then taken, in no transaction; losses counted as gains | one name per product; nothing taken that is not there; no history for what was deleted but late deliveries |
| Grocery purchases (`purchase`) | purchases with their lines | enter, approve, reject | status, goods and ledger debit are three writes | the pot pays only for goods that came; booked once |
| Grocery distributions (`distribution`) | distributions, items, idempotency keys | create, set a status, confirm | nothing is reserved; an item leaves the stock after its status was written; completion is counted, not locked | shares add up; an item is taken once; what is taken is confirmed; all confirmed means completed |
| Memberships and groups (`memberships/`, `groups/`, two guards) | groups, members, roles, statuses | found, dissolve, add, update, remove | role checks outside transactions, and paths that skip them; two guards that read different columns | one savings group per chairperson; the guards agree |
| Sessions (`auth/`) | sessions with their two tokens | sign-in, refresh with rotation, logout | find, revoke, insert in no transaction; lost answers; two tokens of one second are equal | one live session per sign-in, and one more per refresh that lost a race |
| Mobile offline queue (`src/mobile/lib/core`, contributions) | queued operations, retry counts, `_isSyncing`, temporary rows | ask, queue, sync, sign out | lost answers, overlapping syncs, a sign-out between, crashes | what was queued is sent or kept; sent as its author; nothing hangs |
| Confirmations on the phone (`src/mobile/lib/features/grocery`) | `pending_confirmations` | confirm, two starters of a sync | nothing keeps two syncs apart; rows outlive the sign-out | what was shown as collected is confirmed or will be |
| Documents (`documents/`, S3) | rows, objects in a bucket, signed URLs | upload, sign, confirm, delete | rows and objects in separate writes; any user may confirm any key | a listed file is there |
| Notifications (`notifications/`) | `notifications` rows; the jobs of a Bull queue in Redis | send one or many, schedule and cancel reminders, notify of an event; four job handlers | row and jobs are separate writes; handlers fail and are run again from the start; workers die; old jobs are evicted | what was asked for is sent, will be tried again, or is known to have failed |
| Screens of the web client (`src/web/src/pages`) | the query cache: data, whether they are out of date, requests under way | open a screen, refetch, give a command, invalidate by key | an answer read before a command may arrive after it; keys match by prefix | after a command no view passes off as up to date what was true before it |
| Audit log | rows | log | - | (nothing depends on it) |
| Legacy Express backend (`src/backend`) | - | - | a skeleton; its SQL migration is one of the two schemas | - |

Interactions: contributions, payouts and grocery purchases call the ledger and
wait for it; they share no transaction with it. Purchases and distributions
move the stock in the same way. Everything else they share is rows. The clients
call the services and repeat calls with idempotency keys; sign-out on the phone
clears what its queues hold.

## 2. Modules

| Module | Models | Correspondence |
|---|---|---|
| `AtomicPot` | what callers of the ledger may rely on | a balance and, per caller, the change it waits for; a change is applied at once or refused |
| `Ledger` | `LedgerService` | `ledger` = the rows of one group in commit order; `tx` = the open transaction of each caller, with the length of the ledger it has read. `BeginEntry` / `CommitEntry` / `AbortEntry` are the three steps of `createEntry` |
| `SavingsGroup` | what the services share | officers, chairperson, keys, the group as `createSavingsGroup` leaves it |
| `Payouts` | `SavingsPayoutsService`, `updateSavingsRules` | `payout`, `vote`, `minApprovals` = the tables; `payoutCall` = each handler in flight with a program counter and what it has read. One action per awaited query |
| `Contributions` | `ContributionsService` | `contribution` = the table; `contributionCall` = the handlers. `UniqueOver` chooses the unique index: all statuses (`schema.prisma:358`) or only APPROVED (`001_savings_schema.sql:200`) |
| `Savings` | one group with both services on one ledger | composes `Payouts` and `Contributions`; `MaxInFlight` bounds the requests served at once |
| `Catalogue` | `ProductService`, `StockService` | `product` = the table; `movement` = the movement rows, as a bag; `Stock` is their sum, as in `getProductStock`; `groceryCall` = the handlers of all grocery services |
| `Purchases` | `PurchaseService` | `purchase` = the table; the status, the IN movements and the two steps of the ledger debit are an action each |
| `Distributions` | `DistributionService` | `distribution` = rows with their items, `answered` = the idempotency keys; the shares of `calculateAllocations` are operators |
| `Grocery` | one grocery group over the ledger of its pot | composes the three above, in scenes (below) |
| `Accounts` | users and `None`, which the next modules share | - |
| `Memberships` | `GroupsService`, `MembershipsService`, `createSavingsGroup`, `RolesGuard`, `validateMemberRole` | `group`, `member` = the tables; `lapsed` remembers who had a membership that was not active |
| `Sessions` | `AuthService` | `session` = the table, by the second its tokens were signed in; `sessionCall` = the handlers; `handed` = the tokens a client has been given; `origin` of a row remembers the sign-in it descends from, `forestalled` how many refreshes of a sign-in had found a session that another request then revoked |
| `OfflineQueue` | `OfflineSyncService`, the writing half of `ContributionRepository`, connectivity, sign-out | `queue` = `offline_queue`, each row with what was queued before it (for `created_at`); `run` = the syncs, each with the rows it has still to send; `applied` = as whom the server took an operation; `overtaken` remembers a sign-out that met something under way |
| `Confirmations` | `GroceryRepository`, `GrocerySyncService` | `receipt` = `pending_confirmations`; `tap`, `sweep` = the calls and syncs; `taken`, `told` = what the server knows and what the member was shown |
| `Documents` | `DocumentsService`, `S3Service` | `document`, `bucket`, `offer` = rows, objects, signed URLs. `ConfirmUpload` takes any key from any user, as `confirmUpload` does: also the key of a document that is listed |
| `Notifications` | `NotificationsService`, `NotificationsProcessor`, the mail and SMS services | `notice` = the rows, with the job that an event's row is `of`; `job` = the queue, each job with its state, tries and what its handler has sent so far; `task` = what it was queued for, which outlives it; `notifying` = the calls; `missed` remembers senders that broke off and jobs that ran out of tries |
| `Screens` | the query cache of the web client behind the screens of messages, products and purchases | one view, whichever it is: its rows as the number of times they changed (`changes`), `cached`, `outdated` and `fetch` = the entry of the cache, `click` = the commands under way; `owed` remembers the newest change the view was told of |
| `Services` | the last seven side by side | one part, chosen at the start, runs at a time: in the code they meet only through values each takes as given |
| `*Proofs` | theorems | one lemma per operation (section 4) |
| `MC*` | instances for TLC | symmetry sets; the constants are in the `.cfg` files |

**Scenes.** `Grocery` explores a group in four scenes. *whole* is everything at
once, with one request at a time and crashes: products are created, renamed and
deleted while purchases of them wait, distributions hand out what purchases
brought, members confirm, the stock is adjusted. The other three let two
requests overlap, where all of it together would be too much: *shop* (products,
adjustments, purchases), *share* (officers create distributions and set
statuses, members confirm, and with one request at a time the stock is adjusted
meanwhile) and *collect* (members confirm, with idempotency keys and retries,
the items of one distribution). Each of the three has one or two requests at
once, and crashes or none. A second product is explored in *shop* with one
request at a time only, keys only in *collect*. Properties that hold only for
requests that do not overlap say `Alone`.

What is abstracted: descriptions, units, dates and currencies; audit rows
(`AuditService.log` never throws); soft deletion where nothing sets it. Amounts
and quantities are small naturals standing for `Decimal` values, which the code
adds and subtracts exactly; shares are rounded half up as their column rounds
them. Ledger rows are ordered by commit; the code orders them by `createdAt` and
then by a random id (see the hazards in `PROJECT.json`). `Prisma.Serializable`
is modelled by its effect: a transaction aborts if an entry was committed after
its read. Row ids are random in the code and fresh members of a pool in the
model. An item that is PACKED is treated as PENDING by the service, so the model
has PENDING only; a SECRETARY may do what a MEMBER may; no code tells PENDING
and SUSPENDED memberships from LEFT. A token's only varying part is the second
it was signed in, so tokens are seconds, the same for both tokens of a session:
two sign-ins of one second give equal tokens, and the unique index refuses the
second. Memberships do not change while money or goods move.

*Messages.* Bull is external: it ignores a job under an id it still has a record
of, hands a stalled job to another worker once, and evicts finished jobs. The
channels of one `send` may be queued in any order; the code takes them as
listed. `sentAt` is one column for all channels, so one job's success marks the
row. An SMS provider the service does not know counts as sent
(`sms.service.ts:33`), and a member without a phone number is passed over.
Nothing in the repository calls these operations yet; the model has every call
they allow.

*Screens.* React Query 5 is external too: it fetches what is out of date when a
screen opens, finds keys by prefix, and calls a request off for a new one only
if the view is on the screen with data to show. A retried request is the same
request. A failed one leaves the data. The cache keeps views apart, so a
behaviour is about one view. The screens left out are those that ask the
backend for routes or fields it does not have (contribution review, payouts,
group details, stock, distributions); recording a purchase and rejecting one
are always answered with an error. Logging out leaves the cache as it is, and
another user of the tab is not modelled.

Operators whose comment starts with *Faulty variant* are no part of the model.
Each is the form a definition would take with a plausible bug in the code (a
missing index, a lower isolation level, a dropped check), and is there to show
that the property named in `PROJECT.json` would notice.

## 3. Runs

| Run | Instance | Shows |
|---|---|---|
| `ledger` | 3 callers, amounts 1 and 2, 3 entries, lost connections | `RunningBalance`, `NeverNegative`, `SummaryAgrees` and the refinement `ImplementsPot` |
| `payouts` | 1 payout, 3 officers, thresholds 2 and 3, 2 requests in flight, a depositor, failures at every step | `QuorumBehindDebit`, `DebitsBackedByVotes`, `ApprovedIsDebited` |
| `contributions` | 3 rows, 2 officers, the partial index, 2 requests in flight, failures | `OneApprovedPerPeriod`, `CreditedIsDecided` |
| `savings` | 2 payouts, 2 contributions, thresholds 1 and 2, one request at a time, no failures | `PotReconciles` (every row is booked as its status says, and the balance is their sum), `DecisionsFinal` and, with fairness, `QuorumSettles`, `ApprovedReachesPot` |
| `grocery` | 2 products, 1 purchase, 1 distribution, 2 members and an officer, all scenes (2,695,655 states) | in any interleaving: `GoodsBeforeMoney`, `CompletesWhenConfirmed`, `AllocationWithinTotal`, and that members receive what they take (`MemberTakesOnce`); one request at a time: `NeverOversold`, `PurchaseBookedOnce`, `DeletedOnlyBought`, `NamesUnambiguous`, `ConfirmedIsFinal`, and that an item is taken once |
| `services` | 2 users; 2 groups; 2 session requests in flight and 3 seconds; a phone with 2 queued operations; 2 taps; 2 files; 2 messages and 2 jobs with 2 tries; every view of 3 commands (974,451 states) | `OneChairPerUser`, `GuardsAgree`; `RotationBounded`; `QueuedNotLost`, `ServedAsAuthor`, `OpSettles`; `ConfirmedIsBacked`; `ListedHasObject`; `NothingForgotten`; `ScreensCatchUp` |
| `payout_stuck` | 2 officers, 2 requests in flight, no failures | a violation of `QuorumSettles` |
| `payout_twice` | 3 officers, 2 requests in flight, no failures | a violation of `DebitedOnce` |
| `contribution_lost` | 2 contributions, 2 requests in flight, no failures | a violation of `ApprovedIsCredited` |
| `contribution_twice` | 1 contribution, 2 requests in flight, no failures | a violation of `CreditedOnce` |
| `oversold` | the instance of `grocery` | a violation of `ShownStockNeverNegative` |
| `write_off` | the instance of `grocery` | a violation of `OnHandNeverNegative` |

With requests that overlap, the models show which guarantees survive: those
that rest on the ledger transaction, on a unique index, or on the order of the
writes. Those that rest on a status or a stock read earlier do not, and the
five runs from `payout_stuck` to `oversold` show it. With one request at a time,
`savings` and the `Alone` properties of `grocery` show that the services are
right about most of the rest; the sign of an adjustment, in `write_off`, is
wrong without any race.

Some properties leave out what is known to fail, and say so:

- `OneChairPerUser` and `GuardsAgree` are for requests that do not overlap, and
  the first for users none of whose memberships ever lapsed: taking one up
  again skips the chairperson check (`memberships.service.ts:47, 218`).
- `NeverOversold` is for products of which no loss was entered; `write_off`
  shows what becomes of the others.
- `RotationBounded` counts the refreshes that lost a race: a refresh that found
  a session which a logout or another refresh then revoked opens one all the
  same (`auth.service.ts:190`).
- `ListedHasObject` leaves out documents whose key a client confirmed as well
  and whose second row was deleted: the object goes with the first row.
- `ServedAsAuthor` leaves out sign-outs that meet a sync or are cut short.
- `CompletesWhenConfirmed` leaves out items whose stock movement was refused.
- `NothingForgotten` counts a message as missed if its sender broke off between
  the row and the jobs (`notifications.service.ts:55`), or a job of it failed as
  often as it may.
- `ScreensCatchUp` leaves out commands answered while a request was under way
  that cannot be called off: the first one for a view, or one for a screen that
  was left. Its answer may be older than the command, and counts as fresh. The
  property is about the views that are there to show what a command writes.
  Others show it by the way and are never told: the summary counts a product
  that was switched off, and the lists of stock miss an approved purchase,
  until they are fetched again.

**Bounds.** Two requests in flight are enough for every race between a check and
a write, and three callers of `createEntry` for a conflict behind a conflict.
Three officers with thresholds 2 and 3 give a quorum with one officer to spare
and one without. `MaxEntries` stops new requests of the stand-alone ledger and
of the outside caller (`Deposit`, `Withdraw`), never a step of a handler.
`MaxMovements` stops adjustments, and `MaxOverrides` limits a distribution to
one override, which is enough for one that exceeds the quantity or names
somebody who left. The stock starts with two units: enough for both members or
short for one. In *whole* quantities are all 2 (`MixedQuantity`), which a
purchase brings and two members share, and there are no overrides
(`MixedOverrides`). `LastSecond` allows three sessions of one sign-in, or of
three. `MaxRetries` is 2 where the code has 5: one attempt that may be repeated
and one that may not. `MaxBusy` bounds operations, crashes and syncs together;
it never keeps a lone sync from starting. The phone has two syncs, the two that
the flag fails to keep apart. Memberships have one caller, for the reason above;
sessions have two, and with the logouts, which need one query only, three
requests meet. `MaxOpen` bounds the jobs in the queue at once, so that a sender
may have to wait; `MaxTrouble` the jobs and senders that something goes wrong
with, so that one job fails, stalls or runs out of its two tries while another
does not. `MaxChanges` is 2, a command and one other change, and one command is
under way at a time; the theorem has any number of both. Rows are finite, so all
instances come to an end when their rows are decided: this is why the runs do
not check deadlock. `services` uses no symmetry, because it checks liveness.

**Fairness.** `PayoutFairSpec` and `SavingsFairSpec` assume weak fairness of the
steps of each handler in flight and nothing else: the event loop runs a handler
that has started until it returns or throws. Nobody has to send a request, so a
payout may wait for its officers forever. `ServicesFairness` says the same of a
sync that has begun: each of its waits ends with an answer or a timeout.
`OpSettles` needs more, and states it as a premise: the phone at last stays
online, and its connection is reported again and again, since only such a report
starts a sync.

**Findings.**

- `payout_stuck`: `approvePayout` counts the votes it read before it added its
  own (`savings-payouts.service.ts:157, 215`). Two officers who approve at the
  same time each count one; the payout has its two approvals, stays PENDING,
  and neither may vote again. ADR-003:47 has "threshold met" lead to APPROVED.
- `payout_twice`: the status is read at line 169 and the debit made at line 221
  whatever has happened since. With a third officer a payout is taken from the
  pot twice; `schema.prisma:236` declares one ledger entry per payout, but
  `reference_id` carries no unique index. `DebitsBackedByVotes` is what does
  hold: each further debit takes a further officer.
- `contribution_lost`: `approve` sets the status and then credits the ledger.
  When two approvals in one group overlap, one ledger transaction aborts, is
  not retried, and its contribution stays APPROVED but unpaid for good; LI-003
  in `docs/agents/QA.md:26` expects "Both recorded, no lost writes".
- `contribution_twice`: two overlapping approvals of one contribution both pass
  the check for PENDING and both credit it (`schema.prisma:356`).
- `oversold`: `createMovement` reads the stock (`stock.service.ts:128`) and
  inserts the OUT movement with no transaction around them. Two members who
  confirm for the last unit both pass; GS-002 (`docs/agents/QA.md:173`) expects
  "One succeeds, one fails".

Met on the way, with no run of their own:

- The clients and the backend disagree on the answer to a sign-in. `register`
  and `login` answer `{user, tokens: {accessToken, refreshToken}}`
  (`auth.service.ts:86, 148`), while the web store takes both tokens from the
  top of it (`auth-store.ts:49, 68`), as `docs/api/API.md:98` and
  `test/auth.e2e-spec.ts:52` have them, and so does the phone
  (`auth_repository.dart:24, 65`), which throws on the missing field. A browser
  that has signed in sends no valid token, and a session stays behind that
  nobody holds. This is why `Sessions` ends where the server hands the tokens
  out.
- When a refresh fails, the web store calls `logout` without awaiting it, and
  the 401 of that request enters the same interceptor (`api.ts:32`).
- A refresh does not look at the user's status (`auth.service.ts:177`), which a
  sign-in does (line 112): a user who was suspended is refused by the guard but
  can go on refreshing.
- `confirmUpload` stores any key for any user (`documents.service.ts:186`). A
  row with the key of another document shares its object, and the first of them
  to be deleted takes it along (line 251).
- A product that was deleted while a purchase of it was pending still receives
  the goods, and distributions hand them out (`distribution.service.ts:64` looks
  at the stock only).
- The phone cannot read the answer to a confirmation:
  `ConfirmationResult.fromJson` expects other fields than `distribution.dto.ts`
  gives. `Confirmations` treats it as an error after the confirmation, which
  puts the tap in the queue. The grocery data source calls extension methods of
  `ApiClient` that throw (`grocery_remote_datasource.dart:133`), and the
  contribution repository routes that the backend does not serve, so today every
  such call fails. `OfflineQueue` and `Confirmations` have the answers the
  clients are written for as well: they allow more than the code can do, and the
  properties hold of that too.
- The grocery services call `NotificationsService.create`, which does not exist,
  and `notifications.service.ts` uses fields that `schema.prisma` does not
  have.
- `updateMember` cannot hand the chair of a savings group to another member: it
  refuses a second chairperson (`memberships.service.ts:193`), and once the
  first has stepped down nobody may appoint. `addMember` (line 74) does not
  look for one.
- A reminder's job id names group, member and offset but not the due date
  (`notifications.service.ts:152`): while the record of last period's job is
  kept, this period's reminder is ignored. `QueueReminder` has it so.
- `cancelScheduledReminders` throws at the first job that a worker holds
  (`notifications.service.ts:170`), and the rest stay scheduled.
- The relations on `LedgerEntry.referenceId` in `schema.prisma` lack the
  `@unique` that Prisma demands of a one-to-one relation.

## 4. Proofs

Every theorem is about the specification that TLC checks, for all values of the
constants that satisfy the module's assumptions; failures, crashes and
overlapping requests included wherever the model has them.

| Module | Theorems | About |
|---|---|---|
| `LedgerProofs` | `LedgerTypeCorrect`, `LedgerRunningBalance`, `LedgerNeverNegative`, `LedgerSummaryAgrees`, `LedgerImplementsPot` | `LedgerSpec` |
| `PayoutProofs` | `PayoutTypeCorrect`, `PayoutsNeverOverdraw`, `ApprovedPayoutIsDebited`, `DebitsAreBacked`, `DebitHasQuorum` | `PayoutSpec` |
| `ContributionProofs` | `ContributionTypeCorrect`, `OneApprovedEachPeriod`, `CreditFollowsDecision` | `ContributionSpec` |
| `SavingsProofs` | `SavingsPayoutsSafe`, `SavingsContributionsSafe`, `SavingsPotSound`; one request at a time: `SavingsDecisionsFinal`; and without failures: `SavingsBookedOnce`, `SavingsReconcile` | `SavingsSpec` |
| `GroceryProofs` | `ConfirmationsComplete`, `TakenIsReceived`, `NamesStayUnambiguous` | `GrocerySpec` |
| `StockProofs` | `GroceryTypeCorrect`, `GroceryNeverOversold`, `GroceryGoodsFirst`, `GroceryBookedOnce`, `GroceryTakenOnce`, `ConfirmedStaysFinal`, `GroceryDeletedOnlyBought`, `GroceryAllocationWithinTotal`, `GroceryPotSound` | `GrocerySpec` |
| `ServiceProofs` | `ServicesTypesCorrect`, `ListedDocumentsHaveObjects`, `ConfirmationsAreBacked`, `SessionsBounded`, `NothingQueuedIsLost`, `SentAsItsAuthor`, `NoMessageForgotten`, `ScreensCaughtUp`; with one membership request at a time: `OneChairEach`, `GuardsAnswerAlike` | `ServicesSpec` |
| `SumProofs` | lemmas on `SumFunctionOnSet`: empty, one more element, one value changed, termwise order, none positive | - |

Every invariant and action property of the passing runs is stated by one of
these theorems.

**Ledger.** The inductive invariant is `LedgerInv`, the conjunction of types,
running balance and sign: the running balance needs the types, and the sign of
the balance after a credit needs the sign of the balance before it and of the
amount. The step that matters is `CommitEntry`: a transaction that commits has
read the last row, so the balance it computed continues that row
(`CommitEffect`, `CommitKeepsInv`). For `LedgerImplementsPot` every step is a
step of `AtomicPot` or a stutter, under the mapping that takes the balance of
the newest row for the balance and the signed amount of an open transaction for
what its caller waits for: overlapping calls of `createEntry` cannot be told
from calls made one after another. `LedgerSummaryAgrees` adds that the totals of
the entries so far differ by the balance of the newest one, whatever the entry
that is added.

**Payouts.** Thresholds are within the 1 to 10 of
`create-savings-group.dto.ts:78`, and the officers are finitely many. None of
the properties is inductive: when `DebitPayout` starts, nothing in the rows says
that the quorum is there, since the handler counted votes it had read several
steps earlier. `PayoutInv` adds what handlers in flight still know:

- `HandlersOK`: the votes a handler has read stand, because no action takes an
  approval back; so does its own; its open transaction is the debit of its own
  payout; and a handler that settles has debited.
- `SignedOnce`: debits made or under way are signed by different approving
  officers. It is preserved by the vote, since the unique index lets an officer
  vote only once and every earlier signer has voted already.
- `Backed`: beside the signers of a payout's debits, at least n - 1 further
  officers have approved it, n being a number that some rules asked for. They
  are the votes which the first signer had read; later handlers add their own
  signer only.
- `OthersCredit`: the rest of the group makes no payout debits.

`ApprovedIsDebited` follows from the last clause of `HandlersOK`. The signers
number the debits (`SignersCount`), and they are disjoint from the officers of
`Backed`, so k approvers allow at most k - n + 1 debits (`VotesBehindDebits`),
and one debit takes n approvers.

**Contributions.** `ContributionInv` says that a handler reviewing a row has a
row (`ReviewerOK`); that the rows of handlers still checking are nobody else's
(`SubmitterOK`); that an open credit is for a decided contribution, and so is
every credit made (`CreditedWasDecided`); that the others only debit
(`OthersDebit`). The status checks of the handlers play no part: the unique
index carries `OneApprovedPerPeriod`, and the order "status, then credit"
carries `CreditedIsDecided`. The theorems hold for either form of the index over
member and period; the run `contributions` has the one over APPROVED rows, the
other runs the one over all.

**Savings.** `BothInv` is `PayoutInv /\ ContributionInv` with the two services
on one ledger: a payout handler leaves no CONTRIBUTION entries, a contribution
handler no debits, so each service is an "other" to the other one
(`OthersCredit`, `OthersDebit`). This gives the theorems of both services for
the group as a whole, for any number of requests in flight and with failures.
`SavingsInv` is for one request at a time and no failures: with nobody at work
each payout has as many debits as its status says and each contribution as many
credits; a handler at work accounts for the one row that is ahead or behind.
`TurnInv` is its part that survives failures: what a lone handler has read of
its row is still so, and `DecisionsFinal` needs no more.

**Sums.** Stock, shares and totals are sums over sets. `SumProofs` shows what is
needed of them by well-founded induction over the subsets of a finite set
(`FS_StrictSubsetOrderingWellFounded`): a smallest subset for which the
statement fails has an element to take away.

**Grocery.** `CollectInv` is about the scene in which members collect: whatever
is taken is confirmed, a handler past its first write has a confirmed item, and,
without crashes, `SomeoneLooks`: a distribution that is confirmed and taken
throughout is completed, or some handler has yet to count. It is preserved when
the last item is confirmed, because nothing was taken for that item yet, and
when a handler counts and goes, because it found an item open.
The proof needs a distribution to have an item; `create` sees to it, by a check
and by its DTO. `NamesInv` says that with one request under way a handler about
to write a name has found no other product of it.

`StockProofs` rests on `BaseInv`: the types of rows and calls (`StoreInv`), that
distributions under construction have ids of their own (`SharesInv`), and that
in a scene of one request there is one (`OnlyOne`). On it stands an invariant
for each property. Those marked (A) are for requests that do not overlap.

- `StockInv` (A): the stock is not negative, and a handler about to take goods
  out has found a stock that covers its item.
- `TakesInv` (A, in the scene *collect*): no item was taken twice, and a handler
  that has yet to take one has an item that was not taken.
- `FinalInv` (A): the officer's handler that sets a status found an item that
  was not CONFIRMED.
- `GoodsInv`: each debit, made or under way, has a delivery of its own, and
  goods came only for purchases that an officer decided on. It holds however
  approvals overlap, since each approval brings its goods before it pays.
- `BookedInv` (A): goods came only for APPROVED purchases, one movement for each
  line, and an officer's handler that will decide found the purchase pending.
- `DeletedInv` (A): what was adjusted, or is about to be, is a product that was
  not deleted, and a handler about to delete has found nothing moved. That a
  deleted product's stock is not negative follows from `StockInv`.

`AllocationWithinTotal` is about rounding: a share is at most half a unit more
than its fair part, for each member who shares, and the shares are computed
over the members who are there, not over those whom overrides name. Movements
are never taken back, so the bag of movements only grows; this is why most of
these are preserved by steps of others.

**Documents, confirmations, memberships, sessions, queue, messages, screens.**
`DocumentInv` keeps the key of an upload that the server is at work on out of
every row and every other request, so no two rows that came through the server
share a key (`ServerKeys`); a deletion erases the object of a row that is hidden
by then. So the object of a listed row is erased only for another row with its
key, which a client confirmed. `ReceiptInv` says that what is marked as synced,
or is about to be, the server has. `MemberInv` is for one caller: what a handler
has read still holds when it writes; a membership that is not active has its
user among the lapsed, and a deleted one is not active. `SessionInv` counts, for
each sign-in, its live sessions and the refreshes that have yet to open one and
no longer have a live session behind them (`Work`): together one at most, and
one more for each that was forestalled. Revoking turns a live session into work,
inserting turns work into a session, and a request that revokes a session others
have found forestalls just those. `QueueInv` says what a sync knows: the rows it
has read were queued, those it has gone past are sent or kept with one more
retry, and, unless a sign-out has overtaken it, the user who is signed in is the
author of all of them, because the sign-out wipes the queue (`AllMine`).

`NoticeInv` says of a job (`TaskOK`) that it will be tried, has failed for good
or has done what it was queued for, and that it has done so as soon as its
handler has written; of a row that is not sent (`RowKept`) that its sender is
still at it or a job was queued for it, whatever became of the job; of a sender
(`SenderOK`) that its rows are there. What is written stays written (`RowsGrow`,
`TasksGrow`), so only the step that touches a job can disturb it: a job leaves
the queue through `CompleteJob`, behind its write, or through `FailForGood`,
which is remembered. That a record is evicted or a reminder cancelled does no
harm, because `task` and the rows outlast it. `ScreenInv` adds to
`ScreensCatchUp` that a request which has read has read at least what the view
is owed, and that neither the view nor a command knows of more changes than
there were. The step that matters is `AfterSuccess`: the prefixes find every
view that the command concerns (`FoundByKey`), and a request that may have read
too early is called off, or the view owes nothing new.

The type theorem covers all seven parts and any number of membership requests.

TLC checked these invariants on the instances of the runs before the proofs.

**Assumptions.** The theorems hold for all constants that satisfy the `ASSUME`s
of the modules: sets of users, rows and products are finite where something is
counted or summed over them, the value `None` is none of theirs, thresholds are
from 1 to 10. `SavingsBookedOnce` and `SavingsReconcile` also suppose
`MaxInFlight = 1` and no failures, `SavingsDecisionsFinal` the former,
`OneChairEach` and `GuardsAnswerAlike` one membership request at a time, as the
runs do; the runs `payout_twice`, `contribution_twice` and `contribution_lost`
show why.

**Only model-checked.** Liveness: `QuorumSettles`, `ApprovedReachesPot` and
`OpSettles`. They rest on weak fairness, whose definition has ENABLED, and TLAPS
does not reason about ENABLED.

## 5. What is not modelled

- The audit log: it is append-only and never throws, so no handler depends on
  it.
- The Express backend in `src/backend`: a skeleton.
- Listings, statements and statistics: they change no state. The fairness
  statistics of distributions are among them.
- The screens whose requests the backend does not serve, their forms, and
  filters by text (section 2).
- Password hashing, the uniqueness of e-mail and phone, deactivated users, the
  JWT guard.
- The token stores of the browser and the phone and what they do on a 401: they
  take no token from the answer of a sign-in as the backend gives it.
- The phone's caches of groups and allocations, which are overwritten by each
  answer.
- The clock behind `createdAt`, by which the ledger finds its newest entry.

## 6. What could come next

1. The order of ledger rows by `createdAt` and random id, with clocks of several
   processes: the last hazard of the money path that no property covers.
2. Overlapping membership requests, in the form of what survives; and, once
   clients and backend agree on the answer to a sign-in, the clients' refreshes
   against `Sessions`.
3. Joining `Confirmations` with `Distributions`: the phone's taps against the
   real service and not against what it promises.
