# Verification of the personal expense ledger

TLA+ models of the parts of this repository where money, decisions and outside services meet
concurrency, with TLC runs on small instances and TLAPS proofs for every size. Sources are under
`src/src/`; line references in `PROJECT.json` ("map") are to those files.

Run from this directory:

    tlc -workers 2 -config MCExpenseLedger.cfg MCExpenseLedger
    tlapm ExpenseLedger_proof.tla

## 1. The system

A single-user ledger (TypeScript, PostgreSQL, drizzle). A bank statement is imported into
`payments`; a model or a local reader proposes what each payment was; a person decides; an
approved `expense` is divided by an `allocation`, corrected by refunds (`expense_adjustments`),
pushed to Splitwise, compared with what others changed there, and explained to a friend by a
proof pack. Every change is one `runAudited` transaction at READ COMMITTED, so all of its writes
appear together, but what it read, and what it checked before it began, may be old by then. Some
services take a row lock or an advisory lock first; some do not. That, and calls to Splitwise and
to the message transport made outside any transaction, is where the difficulty is.

| Component | State it keeps | Operations | Interacts with | Hard because |
|---|---|---|---|---|
| Expense ledger | `expenses.state`, `relationship_type`, allocations, adjustments | approve a split, record / reverse / distribute a refund, correct the kind, move the state | Splitwise rows go stale | half the operations lock the row, half do not; states are written back from stale reads |
| Refund arithmetic | allocation lines, adjustments by item | divide, reduce, restore, rebuild by item | the ledger's net amount | sums must be exact; refunds, reversals and distributions in any order |
| Splitwise sync and repair | `splitwise_expenses` | first sync, re-sync, drift detection | ledger; Splitwise | remote call before the record; lost answers; other people edit |
| Splitwise remote changes, settlement sync | remote reads and changes, `splitwise_settlements` | discover, accept (drift, deletion, adoption, mapping), reject | sync rows, Splitwise | reads spread over a remote listing; decisions about what may have moved on |
| Payment decisions and duplicates | `payments.state`, `ai_inferences`, links, settlements | classify, re-classify, accept / modify / reject, settle, fund, confirm / dismiss a duplicate | creates and approves expenses | checks before the transaction, locks per class, look-alike pairs |
| Proof-pack delivery | `proof_pack_deliveries` | claim a key, send, record, retry, status callback | message transport | message sent and record lost; callbacks out of order |
| Job queue | `jobs` | enqueue, claim, finish, retry, cancel | handlers | select-then-update; workers that cannot be stopped |
| Process shutdown | listener, sockets, the database handle | signal, sweep, deadline, close, exit | request handlers | callbacks race; keep-alive connections; two signals |
| Splitwise audit | runs, findings | run, decide | reconciliation | findings superseded by later runs |
| Import, normalization, evidence, receipts, rules | their tables | parse, match, link once | payments | mostly data transformation |
| Queries, API, web, AI adapters | none | reads, routing, prompts | all | no state of their own |

What makes each correct: the **ledger** never refunds more than was spent, divides an expense
by exactly one current split that agrees with its state and its kind; the **arithmetic** adds up
to the paisa and moves nobody's share but the one a refund is about; **sync** leaves a row that
says what stands in Splitwise and moves as the lifecycle draws; **remote changes** report what is
so, apply a decision once, and converge; **payment decisions** count one movement once, within
what it moved, and a decision stays decided; **deliveries** carry the recorded text, a bounded
number of times, and are resolved; the **queue** runs a job once and reports what happened; the
**process** closes its ledger after the work and ends.

Three facts about callers bound what is worth asking. The bare `approveExpense` has no route
(ADR-0071 notes it), so an expense becomes approved by a decision or at creation. The only
route that calls `transitionExpense` asks for `ready_to_sync`. Nothing in `src/src` calls
`runNextJob` outside tests.

## 2. Modules

| Module | What it is |
|---|---|
| `ExpenseLedger`, `ExpenseLedger_proof` | the expense ledger and its theorems |
| `RefundDistribution`, `RefundDistribution_proof` | the lines of an itemized purchase under refunds, reversals and distributions, and their theorems |
| `SplitwiseSync`, `SplitwiseSync_proof` | EXTENDS `ExpenseLedger`: first sync, re-sync and drift beside every ledger operation |
| `SplitwiseLink` | the abstract specification of a sync row |
| `SplitwiseRemoteChanges`, `SplitwiseRemoteChanges_proof` | discovery runs and decisions beside pushes and other people, and their theorems |
| `PaymentDecisions`, `PaymentDecisions_proof` | proposals, decisions, counting by hand, possible duplicates, and their theorems |
| `ProofPackDelivery`, `ProofPackDelivery_proof` | one recipient's deliveries and their theorems |
| `JobQueue`, `JobQueue_proof` | the jobs table, its workers and the people who retry and cancel |
| `GracefulShutdown`, `GracefulShutdown_proof` | the end of the API process |
| `MC*` | one per module: values, symmetry, starting states, what stuttering at rest is allowed |

**How a unit of work is modelled.** A *request* runs once. Its beginning makes the reads and
checks of the code up to the point where another request may intervene; its commit makes all its
writes at once and releases its locks; `Rollback` stands for every refusal, deadlock victim,
crash or lost connection. A request lends its identity to the rows it inserts. What the code
checks again inside the transaction is a guard of the later step; what it only checked before is
not. In-process variables are `job` (the input) and `rd` or fields of `job` (what was read).

### ExpenseLedger

`state`, `kind` are the columns; `refunded[e]` is the sum `listAdjustmentAmounts` returns;
`live[e]` the allocations with `superseded_at` null; `adj`, `row` the adjustment and the
Splitwise row a request inserted; `lock[e]` the holder of `select .. for update`.

* `BeginAllocate`, `ReadAllocation`, `CommitAllocate` -- `approveAllocation`: no lock, expense
  first, current allocation in a later statement, `StateAfterAllocation` from the state *read*.
* `BeginRecord`/`CommitRecord`, `BeginDistribute`/`CommitDistribute`,
  `BeginCorrect`/`CommitCorrect` -- the three services that lock before they read.
* `BeginReverse`/`CommitReverse` -- the check is before the transaction, the stamp is by id.
* `BeginTransition`, `ReadAllocation`, `CommitTransition` -- `transitionExpense` with its gate.

A commit that updates the expense row, or inserts an allocation whose foreign key it is, waits
for the row lock (`LockFree`); one that only touches an adjustment does not.
Abstractions: an allocation is its total and whether somebody other than the payer holds a share
above zero; which line holds what is `RefundDistribution`'s business. `requireExpenseSnapshot` is
two selects made one step: an adjustment arriving between them gives a snapshot that a single read
before or after it would also give, since it touches no column of the expense.
`allocations_one_current_per_expense` is `OnlySupersedes`: a commit that would leave two
current rows is refused. That an expense has one current split therefore holds by the index and
is not stated as a property.

### RefundDistribution

The pure half of the same component. `amount` are the lines of the current allocation, each
naming one item; `refund` the adjustments with their attribution by item (`Unattributed` for a
refund of the basket). `Split` is `splitByLargestRemainder` with its tie-breaks; `Reduced`,
`Restored` and `ItemAware` are the three ways `distributeAdjustment` rebuilds the lines, as sets
that are empty when the code refuses; `Rebuilt` chooses among them and applies the checks that
guard the write. `AttributedTo` reads `listItemAttributionTotals`, reversed refunds included, as
the code does; the reductions and the net amount read active refunds only. Requests are atomic
here: their interleavings are `ExpenseLedger`'s.

### SplitwiseSync and SplitwiseLink

`SplitwiseSync` adds `remote` (the entries in Splitwise, external) and `push` (the repair chosen
and the entry it is about). A push reads the expense (`BeginSync`, `BeginResync`), then the shares
and, for a re-sync, its row again (`ReadShares`, `ReadRow`), calls (`CallSplitwise`: `Create`,
`Correct`, `Withdraw`), and records (`CommitSync`, `CommitResync`) -- or the answer is lost
(`LoseAnswer`). `EditEntry` and `DeleteEntry` are other people. `DetectDrift` marks every synced
row of the pair drifted whatever the balance differs by.

Nothing in the code keeps a second push of an expense from beginning while one is in flight, and
nothing in the model does. `crossed[e]` is a history variable: which kinds of push (first sync,
re-sync) of `e` began while another push of `e` was in flight. The properties speak of expenses
that did not cross, each naming the crossing that can break it, so they say which race is the
*only* way to two links, or to a row that tells a lie; that those races do it is in section 3.

`SplitwiseLink` is the abstract specification: a row appears `synced` or `drifted` with an entry
nobody else names, moves as the tables of `domain/lifecycle.ts` draw, keeps its entry while
something stands behind it and names a fresh one when nothing does; of rows that are `contested`
it promises nothing. `RowsFollowTheLink` is `Link!Spec` under the mapping *row, its status, its
entry, whether pushes of its expense crossed*; `SplitwiseSync` implements it.

### SplitwiseRemoteChanges

One user and one friend. `links` are both link tables, `changes` the remote changes, `run`,
`decision`, `push` what is under way. A run reads the expense links (`BeginRun`), lists Splitwise
(`ListEntries`: all of it, a part, or nothing), reads the current allocations, the settlement links
and the current changes and compares (`Compare`; `Discover` is the pure comparison with its five
kinds of change), and writes (`Reconcile`: fresh changes are proposed, refuted ones superseded where
`CanRetire` allows; a collision on the partial unique index refuses the run). A decision checks
(`BeginDecision`) and writes its effect and itself by id (`Reject`, `AcceptDrift`,
`AcceptDeletion`, `AcceptAdoption`, `AcceptMapping`). Pushes are here in short, expenses and
settlements alike; `SplitwiseSync` has an expense's in full.

*Who takes part.* `within` are the expenses whose current allocation names the friend; `Redivide`
is a new split that moves an expense in or out and leaves its row as it is. `friend` says of an
entry whether it names the friend: a push writes what the allocation says, other people edit it.
`snap` says of a row whether the payload it recorded did. As in the code these three may disagree: a
listing holds only entries that name the friend (the `friend_id` filter of `fetchLedgerEntries`),
while a row becomes a view of the friend when the allocation, read after the listing, or the
payload names the friend (`Participates`, `buildLinkedExpenseViews`). `omitted[d]` is a history
variable: the entries that stood and did not name the friend when run `d` listed.

Runs, decisions and pushes overlap freely. `contested` is a history variable: the changes two
decisions had in hand at once, and the records that two adoptions or first syncs had. `clean[d]`
says that nothing else moved during run `d`.
Abstractions: a digest is what it digests; money is a figure; a split is its total and whether the
friend is in it.

### PaymentDecisions

`pay`, `dupOf`, `dismissed` are the payment rows and the recorded answers about pairs; `inf[r]`
and `exp[r]` the inference and the expense request `r` inserted; `links`, `settled`, `spent` what
is drawn on a payment; `class[c]` the advisory lock of a class; `held[i]` the row lock of an
inference. `ClassOf` is the class of a payment: its amount and direction.

* `BeginClassify`/`CommitClassify`, `BeginReclassify`/`Decline`/`CommitReclassify`.
* `BeginReject`/`Decline`/`CommitReject` -- writes (holds) the inference row, *then* reads the
  expense; `BeginAccept`/`TakeClass`/`CommitAccept` -- takes the class lock, reads the expense,
  writes it, and writes the inference row last.
* `BeginByHand`/`CommitSettle`/`CommitFund` -- `recordSettlement`, `createExpense`,
  `linkPaymentToExpense`.
* `BeginConfirm`/`CommitConfirm`, `Dismiss`.

Abstractions: expense states before a decision are one state `derived`, those after it one
state `approved`; `accepted` and `modified` are one; a proposal is its kind. A request counts one
payment: a created expense funded by several payments, and so several class locks in one request,
is left out. The self-transfer leg of classification is not modelled.

### ProofPackDelivery

One recipient, address and set of attachments, so a delivery's idempotency key is the version of
its text. `row` is the table by version, `call` what a request was given, `carried` what reached
the recipient through it. `BeginSend` builds the pack from the ledger as it is now and compares it
with the digest the reviewer saw; `Claim` inserts under the unique key; `BeginRetry` reads, checks
and sends as recorded; `Carry`, `Accept`, `Refuse`, `Timeout` are the transport: the text may
arrive before the answer, after the call was given up, or although the answer is a refusal (a
document that fails after its text); `Record` writes by id; `Die` is the process. `BeginReport` and
`ApplyReport` are the provider's callback, with the table's check as `TimestampsAgree`.
Nothing stops two people from retrying one failed delivery at once. `crossed` is a history
variable: the versions two attempts of which were in hand together (`InHand`). Then both send, and
the later record may walk a confirmed delivery back to `sent` or `failed`; the properties say that
this happens to no other delivery.

### JobQueue

`status`, `started`, `finished`, `attempts` are the columns; a worker selects, claims if the row
is still queued, runs, and writes its outcome by id; a person reads, then updates under the
narrower condition of the statement, which may match nothing. `stopped` is a history variable:
jobs cancelled while a worker ran them. Which due job is selected is left open.

### GracefulShutdown

A step is one event-loop callback. `conn` are the sockets, `work` the handlers that run, `lost`
those whose socket went away under them. `Signal` runs `run()` up to its first await: it stops
listening (Node may report that it was not listening), releases idle connections and arms the
sweep and the deadline; `CloseCallback`, `Deadline`, `CloseDatabase`, `DatabaseSettles`, `Exit`
are the rest. A client that hangs up in the middle of a request leaves its handler running: the
listener then counts no connection and the ledger may close under that handler. The code promises
no more (it waits for connections, not for handlers), and the property says so (`lost`).

## 3. Runs

| Run | Instance | Shows |
|---|---|---|
| `ledger` | 1 expense, 5 requests, amount 3 | eight properties of the ledger under every interleaving |
| `refunds` | 2 items on 3 lines for 2 people, 3 refunds, 2 weight sets | three properties of the arithmetic |
| `sync` | 1 expense, 4 requests after the one that divided it, amount 1 | four properties, one of them the refinement of `SplitwiseLink` |
| `remote` | 1 expense, 1 settlement, 2 runs, 2 decisions, 1 push, 2 entries, 1 move of the ledger, 1 edit by others | five properties of discovery and decisions |
| `payments` | 2 look-alike payments of amount 2, 4 requests | seven properties of decisions and duplicates |
| `delivery` | 3 requests, 2 versions, 1 report, 2 attempts | five properties, one of them liveness |
| `jobs` | 2 jobs, 2 workers, 2 people, 3 claims per job | three properties of the queue |
| `shutdown` | 2 connections, 3 requests, 2 signals | five properties, two of them liveness |
| `reported`, `settlement`, `divided`, `reversal` | as above, one decision | disagreements 1 to 4 below |

*Deadlock* is checked for the ledger, sync, payments and jobs: their `MC*` modules allow
stuttering only where the program may rest (all requests over, no worker busy). In `delivery` and
`remote` every request may be over, in `refunds` every refund recorded and reversed, and the
process of `shutdown` is meant to stop, so these do not check it.

*Why the bounds are enough.* One expense, because no operation of the ledger relates two. Five
requests let a distribution or a correction race two refunds and a reversal of one of them over a
split somebody approved. Amounts up to 3 allow two partial refunds and a remainder. Four
requests push an expense, refund it, distribute the refund or divide again, and repair it, or let
two pushes cross beside one of these. Two payments are
the pair the duplicate rule is about; amount 2 admits partial settlements; four requests admit a
proposal, two decisions that race and a re-run or an answer about the pair. The sync run starts
from `ReadyInit`, states that the ledger reaches by dividing an expense and moving it, with at
most one late request still holding what it read before the move. Costs of 3 and 2 over two
owners make every division leave a remainder somewhere and a tie somewhere; three refunds are one
by item, one of the basket and one to reverse. Two runs race each other; a second decision
races or follows the first; the ledger (a refund or a new split) and another person each act
once, and with the push one of each suffices for every disagreement among split, row and entry. Three
requests on a limit of two attempts are one too many.

*Fairness.* `delivery`: a request that is running goes on (`Claim`, `Record`) and the abort timer
of the transport fires (`Timeout`, whatsapp-cloud.ts); nothing is assumed of the provider or of
people. `shutdown`: Node runs a callback that is due (the sweep, the close callback) and promises
settle; handlers and clients owe nothing, and that handlers answer, or that the deadline fires, is
the antecedent of the property that needs it. Elsewhere whatever must happen happens because a
person acts, and no schedule in the code guarantees that they do: no liveness is claimed.

### What the passing runs say

* **Ledger.** `NetNonNegative`, `LockedReadingsHold`, `LockedSplitNeverOverstates` are why three
  services lock; dropping the lock breaks each.
  `AllocationMatchesState` and `ReadyOnlyWithDebt` hold although states and kinds are written from
  stale reads. `KindChangeIsComplete`: no personal expense becomes shared without a split that
  names somebody. `RefundedIsSumOfActive`: reversing twice takes off once.
* **Refunds.** `RefundTypeOK`: no line goes below zero, whatever weights a person gives.
  `OnlyALostProportionRefuses`: what is pending can be distributed unless the proportion to divide
  by is gone (all lines zero) or a refund of an item was reversed. `RefundsStayOnTheirItem`: a
  refund of one item leaves every share of the others alone.
* **Sync.** `OneLinkPerExpense`: only a first sync begun while another push of the expense was in
  flight gives it a second link; lost answers, retries and repairs in any order do not.
  `RowTellsWhatStands`: a synced row names a standing entry at the figure it recorded unless other
  people touched it or pushes of the expense crossed. `RowsFollowTheLink`.
* **Remote changes.** `AbsenceIsExplained`: when a run finds an expense's entry gone, the entry is
  deleted or left the friend out when the run listed, whatever part it saw and whatever pushes,
  adoptions and splits came between its reads. (So the second case is the one way to a false
  report, disagreement 3.) `OneLinkPerRecord` and `EffectHasItsDecision`: no sequence of adoptions,
  first syncs, repairs and decisions gives a record two links or applies a change twice or for
  nothing; only two of them in hand at once for that very record or change do.
  `RunsConvergeOnTheTruth`: a run that nothing disturbed, if partial, retires no true change; if
  complete, makes every difference current; and while the entries behind live rows name the friend
  exactly as splits and payloads do (`InStep`), it leaves nothing else current. Out of step a false
  deletion may stay current, and a claimed entry may stand for a set of duplicates.
* **Payments.** `WithinBudget`, `PairCountedOnce` (inside one class), `DiscardedNeverCounts`,
  `AcceptedStands`, `ApprovedNeverRejected` -- this one holds because rejections write the
  inference row before they read the expense. `AcceptanceIsFinal`: the acceptance of a proposal
  that brought an expense is never overwritten by a rejection, a re-run or another acceptance that
  read it pending; the expense's own state is what stops them.
* **Delivery.** `ReceivedAsRecorded`: what arrives is the recorded text and the reviewed one,
  retries after the ledger moved included. `AttemptsCapped`, `AcceptedIsFinal`: unless two attempts
  of a delivery were in hand at once, it is attempted at most `MaxAttempts` times, never after an
  acceptance was recorded, and a confirmation is never walked back (`AttemptsCapped` leaves out attempts
  whose process died). `PendingIsResolved`: silence of the provider ends in `failed`. After a
  process died the row stays `pending`, which nothing may retry; the property says so.
* **Jobs.** `JobTypeOK` contains the table's own `jobs_terminal_check`; `TwoWorkersNeedACancel`;
  `SuccessStays`.
* **Shutdown.** The ledger closes once and after the last request that is being served, the exit
  code tells which step failed, the deadline ends the process whatever its clients do, and without
  it the sweep alone does once handlers answer.

### Where the code and what is said of it disagree

1. `reported`: a provider's report that an accepted message failed writes `failed` and keeps
   `sent_at`; `proof_pack_deliveries_timestamps_check` refuses the row, so the callback errors and
   the delivery says `sent` for ever.
2. `settlement`: the settlement links are read after Splitwise was listed. A settlement synced in
   between is proposed as deleted; accepting marks a standing entry's row `externally_deleted`,
   and the repair records the repayment a second time. (Expense links are read first, and the
   passing run shows that this order suffices for them.)
3. `divided`: a synced expense is divided again to bring a mapped friend in. Its row stays
   `synced` and becomes a view of the friend, whose listing, filtered by `friend_id`, cannot have
   the entry: "The Splitwise entry for this expense is gone" is proposed of an entry that stands.
   Accepting closes the row, and the repair creates a second entry.
4. `reversal`: `listItemAttributionTotals` counts reversed refunds. The item's ceiling stays
   consumed, a later distribution is refused because its lines do not sum to the net, a split by
   units is refused likewise; and when the reversed refund was the only one by item the lines are
   restored over the whole basket instead of the item, which moves other people's shares.

The models also exhibit the following, which no run of this project isolates:

* An approval of a split made from a stale read writes `allocated` over `ready_to_sync`; a
  reversal takes no lock, so a distribution can commit a split that is not the net.
* A lost answer and the documented retry leave two entries in Splitwise; dividing a synced
  expense again does not mark its row stale, so neither does a re-sync that read an older split.
* The acceptance of a settlement proposal has no expense to protect it: a rejection or a re-run
  that read it pending overwrites it, and the settlement stays behind a rejected proposal.
* A superseded proposal can end up accepted, because `pending` is checked before the transaction.
  Two opposite confirmations discard both halves of a pair. With two classes an acceptance can
  revive an expense rejected meanwhile, and with it a payment of another class whose twin has
  been counted, or that has itself been discarded, since.
* Cancel and retry of a running job give it a second worker.
* Two pushes of one expense, or two retries of one delivery, that overlap: two links and two
  entries for one expense, or a row that says what no longer stands; more attempts than the limit,
  and a confirmed delivery walked back.
* Accepting a drift writes `drifted` by id over whatever the row has become, without the lifecycle
  assertion that the other writers make: a row marked `externally_deleted` or `stale` meanwhile
  becomes `drifted`, which `lifecycle.ts` does not draw.
* Accepting a drift changes what the row's digest is made of, so the next run raises the change
  again (ADR-0056 intends the digest to see our side). A deletion observed, then repaired by
  withdrawing and re-creating, can still be accepted and closes a row whose entry stands. An
  acceptance that races a rejection of the same change leaves `rejected` with the effect applied,
  and an adoption that races a first sync gives one record two links.
* Distributing once and distributing after each of two refunds can differ by a paisa of rounding,
  which the comment at adjustment-service.ts:584-586 rules out.
* A document that fails after its text has gone makes the delivery `failed`, and a retry sends the
  text again (whatsapp-cloud.ts:138-139 promises that nothing was sent).

## 4. Proofs

Eight `_proof` modules hold 40 theorems, for every set of expenses, items, lines, payments,
requests, runs, decisions, jobs, workers, connections and calls and every amount. They use the named assumptions of the modules
they extend and nothing else; a further condition is part of the theorem.

**ExpenseLedger.** `TypeCorrect`, one lemma per kind of step. `NetStaysNonNegative`,
`LockProtectsReadings` from `RefundInv`: that the net is not negative is not inductive, because a
refund is checked against the net *read*; the invariant adds that whoever read under the lock
still holds it and that the net has not fallen since (`LockedReadingsHold`), that amounts are not
negative, and that no locking operation reads twice. `StateAgreesWithSplit` from `SplitInv`: a request that read a state other than approved
never finds the expense approved again; it assumes `DividedTargets`, transitions are asked only
for states after division, as the one route does. `OnlyDebtsAreReady` from `DebtInv`: a kind read
as debt-creating stays so. `KindChangesAreComplete`, `LockedSplitsNeverOverstate` are action
properties, from `RefundInv`. The step lemmas speak of `Opens`, what every beginning looks like to
the other requests, so each invariant is checked once against all beginnings and then against
each commit. `RefundedAddsUp` from `SumInv`: a request that is not over has no active adjustment
yet, so a refund adds exactly one row to the sum; and only finitely many adjustments are active at
a time, since the set of requests may be infinite.

**RefundDistribution.** Two layers. The arithmetic first, for any number of lines and any weights:
`LargestRemainderIsExact` (`Split` adds up to the total, each share its quotient or one more),
`ReductionsFit` (a proportional reduction takes no line below zero), `ExactSharesStay` (lines that
already have the total are left as they are). Then the requests: `RefundInv` adds to the types
that the amounts recorded against an item stay within its cost and the active ones within the
basket's, that the attribution of a refund adds up to it, that finitely many are recorded
(`RowsAddUp`), and that before the first of them the lines add up to the cost. From it
`RefundsTypeCorrect`, `DistributionIsPossible` and the action property `OtherItemsAreLeftAlone`.

Both modules need induction over a finite set, and the library's induction theorems take an
operator as a parameter, which the provers cannot instantiate. `OneByOne` says it with a set in
place of the operator: a collection of subsets that has the empty set, and with a set that set
with one element more, has the whole set; it follows from the well-foundedness of strict inclusion
among finite subsets. With it the fold of the community modules gets its equations (`SumAdd`,
`SumRemove`, `SumSame`): any element may be taken out of a sum first.

**SplitwiseSync.** Pushes overlap as they like. `SyncInv` adds to the types: rows name entries that
exist, each its own (`RowsAreRecorded`), and what a push knows of its row (`PushesKnown`); and of an
expense that did not cross, that one push is in flight (`PushesAlone`, `FirstsAlone`), that a first
sync still finds no link (`FirstsUnlinked`), that the repair chosen still fits the row
(`RepairsFit`), and that what Splitwise accepted stands until it is recorded (`AnswersStand`). From
it `SyncTypeCorrect`, `RowsTellWhatStands`, `LinksAreUnique` (its one condition: nobody moves an
expense to `synced` by hand), and `SyncImplementsLink`, the refinement: initial states map to
initial states, every step to a step of `SplitwiseLink` or a stutter, one lemma per action that
touches a row.

**PaymentDecisions.** `DecisionInv` adds to the types what a request that is under way may rely on:
it has inserted nothing (`Uninserted`), an undecided proposal points at its own expense or at none
(`PendingOwns`), what a request was asked still fits the inference (`JobsFit`), whoever declines an
expense holds the inference row and whoever counts a payment holds its class, and in both cases
nobody has approved the expense meanwhile (`DeclinersHold`, `CountersHold`). It gives, for any
classes, `DecisionTypeCorrect`, `BudgetIsKept`, `ApprovalsAreFinal` and `AcceptancesStand`.
`AcceptancesAreKept` adds `FinalInv`: whoever read a proposal read the expense it brought
(`ReadersHold`), and that expense can no longer be declined once the proposal is accepted.
`PairsAreCountedOnce` and `DiscardedExplainNothing` assume a single class (`SingleClass`): the
duplicate rule and its lock work inside a class, and with two classes both are false (section 3).
They need `CountingInv`: an acceptance may revive the expense it read, so while it runs the links
of that expense have to count already (`CountsIf`), and what it found out under the lock holds in
that stronger sense (`MayCommit`) until it commits. `Canonical` stays opaque to the provers: only
that it is a payment is used.

**ProofPackDelivery.** `DeliveryInv` (a call speaks of its own version, nothing is sent that was
not claimed) gives `DeliveryTypeCorrect` and `TextIsTheRecordedOne` without conditions.
`AttemptsAreCapped` and `AcceptancesAreFinal` need `AttemptInv`, which speaks of the deliveries that
did not cross whatever the others do: one sender per version (`OneSender`), whose reading of the
row still is the row (`SendersKnowTheRow`), reports that still fit it (`ReportsFit`), and a row that
counts the recorded attempts exactly (`RowsCount`, with the cardinality theorems of the library).

**SplitwiseRemoteChanges.** `RemoteInv` says, for every stage of a run, a decision and a push, what
is still true of what it has read although others have moved since: a row it saw is still there
with its record and, unless it was rewritten, its entry; a deletion it saw stays a deletion; a
change it will write says of an entry what the entry may be found to be; at most one draft for each
kind and entry. Every step is first shown to leave the footprint `Grows`/`Persist` (rows keep their
record, entries stay and stay deleted, changes keep what they compare), and the readings of all the
others survive any such footprint, so no pair of actors is looked at twice. It gives
`RemoteTypeCorrect` and `AbsencesAreExplained`. `CleanInv` adds that what a run nobody disturbed has
read is what stands, and that its drafts say the truth (`SaysTheTruth`); it gives `RunsConverge`.
`OneLinkEach` and `DecisionsApplyOnce` are from `WorkInv`: decisions and first syncs that are not
contested are apart (`Apart`), and what each found is still so (`Found`: the change is proposed, the
record has no link). No theorem here has a condition. TLC checked the three invariants before they
were proved.

**JobQueue.** `QueueInv`: a worker running a job finds it running unless somebody stopped it.
`QueueTypeCorrect`, `SharingNeedsACancel`, `SuccessIsKept`.

**GracefulShutdown.** `ShutdownInv`: where `run()` is determines how often the ledger was closed
and what the exit code can be, and once the listener is settled only lost handlers run.
`ShutdownTypeCorrect`, `LedgerOutlivesTheWork`, `ExitCodeIsTrue`.

Only model-checked: the three liveness properties (`PendingIsResolved`, `SignalEndsTheProcess`,
`DrainsOnItsOwn`), because liveness under fairness and `ENABLED` are out of the prover's reach, and
of course that the four violations occur. Every invariant and every action property of a passing
run, and the refinement, is a theorem. What a recursive definition computes for every input is out
of reach too; the models have none.

## 5. Not modelled

* Import, normalization, document text, prompting, queries and the web client: data
  transformation, or reads with no state of their own.
* The Splitwise audit: its findings are reconciled by fingerprint as the remote changes are.
* Evidence and match candidates, rules, sessions, people and accounts: single-row edits under
  audit, whose uniqueness is an index each.
* Percentage, exact and equal splits and group expansion: `Split` with other weights; expansion
  multiplies weights before the division.
* Several class locks in one request, the self-transfer leg, and reimbursement payments whose
  refund ceiling spans two expenses.
* Several friends in one discovery run, and several recipients of one pack: the code loops over
  them without shared state, but for the one transaction of a run.
