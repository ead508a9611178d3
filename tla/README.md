# tippr, a verification development

tippr is a Python 3 fork of reddit's r2: a web application (`src/r2/r2`) that
runs as many single-threaded gunicorn workers and queue consumers around shared
stores.  This directory holds TLA+ modules of its core logic, TLC
configurations that check them on small instances, and TLAPS proofs that hold
for every instance.  Paths below are relative to `src/r2/r2` unless they start
with `src/`, `docs/` or `scripts/`; `docs/` is `src/docs/`.

Contents: 1 inventory; 2 the modules and how they correspond to the code; 3 the
runs; 4 the proofs; 5 what the runs refute and what is known to fail; 6 what is
not modelled; 7 the plan.

## 1. Inventory

### 1.1 How the parts interact

A request (or a message of a queue) runs in one process.  It reads *things*
through memcached, changes its own copies, and commits them to PostgreSQL and
to memcached under a memcached *lock*.  Denormalised data (listings, votes,
comment trees) lives in Cassandra or in the permacache, is written after the
fact by *queue consumers* fed by RabbitMQ, and is read by requests that take no
lock.  Nothing but the lock, the conditional writes of the stores, and the
redelivery of messages orders these processes.

| part | source | state it keeps | operations |
|---|---|---|---|
| distributed lock | `lib/lock.py` | an entry in memcached per key; a thread-local set of keys | acquire (add, retry, timeout), release (get, delete) |
| thing store | `lib/db/thing.py`, `lib/db/tdb_sql.py` | thing and data tables; cached object; the copy in hand with its dirty set | create, look up, set, `_commit`, `_incr` |
| voting | `lib/voting.py`, `models/vote.py` | two column families of votes, counters and karma of things, liked and disliked listings | `cast_vote`, the vote consumers, the query-queue consumers |
| comment tree | `models/comment_tree.py`, `lib/comment_tree.py` | one tree per link in the permacache | new link, add comments (consumer), load (pages), rebuild |
| payments | `lib/payments/`, `controllers/payments.py`, `controllers/ipn.py` | a row per payment with its status; the gold table; the account's gold | checkout, return page, webhook, sync, refund, mark refunded |
| cached queries | `models/query_cache.py` | Cassandra rows of (id, sort values) | insert, delete, replace, prune |
| precomputed queries | `lib/db/queries.py` | sorted lists in the permacache, cut at a limit | insert, delete, update |
| caches | `lib/cache.py` | memcached, a cache local to the process, Cassandra below | get, set, mutate, get_multi |
| message queues | `lib/amqp.py` | RabbitMQ queues; a thread per process that publishes | add, consume one by one, handle batches |
| delayed jobs | `models/trylater.py` | Cassandra rows by due time, and columns that say which item is a subject's | schedule, run what is due, unschedule |
| promotions and their payments | `lib/promote.py`, `lib/bids.py`, `lib/payments/ads.py`, `controllers/promotecontroller.py` | the status of a sponsored link, its campaigns, their bids and payments | pay, edit, delete, give away, accept, reject, terminate, refund, daily job |
| bans, mutes and timeouts | `models/vault.py`, `models/bans.py`, `controllers/api.py` | relations of accounts, and their ends in delayed jobs | impose, change, lift, end |
| gold and coins | `models/gold.py` | balances of accounts | buy, give, spend, under a lock per account |
| sign-in | `lib/two_factor.py`, `lib/linked_logins.py`, `lib/passkeys.py` | codes, linked providers | check, use up a recovery code |
| wiki | `models/wiki.py` | page and revisions in Cassandra | revise, under a lock per page |
| operations | `lib/server_update.py`, `scripts/tippr_update.py`, `lib/backups.py` | requests in ZooKeeper | update, back up |

The lock is used by nearly everything else; the thing store uses the lock and
the caches; votes, trees and payments use things, the lock and the queues;
precomputed listings use the lock and the caches; the payments for ads are the
payments with another thing to deliver; bans use the delayed jobs.

### 1.2 What is hard, and what should hold

* **Lock.** A process can die inside a block, memcached can apply a call and
  answer with an error, entries expire, blocks nest and are re-entered.
  *Mutual exclusion; the thread-local set agrees with the stack of blocks; a
  release deletes no entry but its own; every wait ends.*
* **Thing store.** The database and memcached are written one after the other,
  readers fill the cache without the lock, copies in hand are stale, what is
  dirty is decided against the cached object, a data counter may have no row.
  *The cache is coherent outside the two writes; what a commit returned for is
  in the database; no increment is lost; each call takes effect at one moment, on
  what it was asked for; a failure between the two writes leaves the cache off by
  just what failed.*
* **Voting.** Messages are delivered again, two consumers see the same previous
  vote, an account changes its vote while the comment's standing changes.
  *Counters are the votes on record; one account gives at most one point of
  karma; the last vote stands; listings follow.*
* **Comment tree.** Batches come back half stored, the tree is read from three
  caches, pages fill memcached without the lock.  *What was acknowledged is in
  the tree and stays, once; pages show it in the end; every comment is stored.*
* **Payments.** The return page, its reloads, several webhooks and an admin act
  on one payment at once and on old answers; requests die between the status
  change and the delivery.  *Delivered at most once and taken back at most
  once; the row never claims money the provider does not have; what was paid is
  noticed and delivered.*
* **Ads and their payments.** A payment arrives for a campaign whose budget has
  changed, that was deleted or has been paid for; a rejection, a new budget or the
  provider's dashboard takes a payment back in several writes, with no lock; the
  provider refuses, and some providers cannot refund at all.  *A campaign's
  transaction has its bid; money that is kept is the campaign's; what is shown is
  paid for.*
* **Bans and delayed jobs.** A restriction, its end and the name of that end are
  three writes; the job deletes what it has worked off by write timestamp, while
  moderators lift and impose again; a hook raises half way.  *No restriction ends
  before its end; each that has one ends.*
* **Listings.** Insertions and deletions are read-modify-write on a truncated
  list behind memcached; readers fill memcached without the lock.  *No update is
  lost; the best items are listed.*
* **Cached queries.** Prunings run on what was read earlier, in a batch that
  ignores the timestamps it is given.  *A pruning leaves the best.*
* **Publishing.** A consumer acknowledges before the worker thread has sent what
  the callback added; connections break and publications raise.  *A consumer that
  has ended has sent all of it.*

Every hazard is listed at its line in `PROJECT.json`.

## 2. Modules

| module | models | composed with |
|---|---|---|
| `Mutex` | abstract: one holder per key | |
| `MemcacheLock` | `lib/lock.py` | implements `Mutex` |
| `AtomicThing` | abstract: one value; each commit changes what its caller set, each increment adds, at one moment of the call | |
| `ThingStore` | `lib/db/thing.py`, `tdb_sql.py` | implements `AtomicThing`; its lock is one step, which `MemcacheLock` justifies |
| `Voting` | `lib/voting.py`, `models/vote.py`, `amqp.consume_items` | an increment of a thing is one step, which `ThingStore` justifies |
| `CommentTree` | `models/comment_tree.py`, `Permacache`, `amqp.handle_items`, `run_commentstree` | its lock is one step |
| `Payments` | `lib/payments/`, `controllers/payments.py`, two functions of `ipn.py` | |
| `AdPayments` | `lib/payments/ads.py`, `lib/bids.py`, `lib/promote.py`, handlers of `promotecontroller.py` | that a payment is paid, or refunded, once is `Payments`; here it is one step |
| `TempBans` | `models/trylater.py`, `models/vault.py`, `models/bans.py`, handlers of `api.py` | |
| `Listings` | `CachedResults` of `lib/db/queries.py`, `Permacache` of `lib/cache.py`, `mr_top` | its lock is a mutex, which `MemcacheLock` justifies |
| `QueryCache` | `models/query_cache.py`, the batches of `lib/db/cassandra_compat.py` | |
| `Publisher` | the worker thread of `lib/amqp.py` under `consume_items` | `Voting` has its two ends, the message handed over and published |
| `MC_*` | constants of the runs | extend the modules above |
| `*Proofs` | theorems | extend the modules above, `BackgroundProofs` both `TempBans` and `Publisher`, which share no name |

Operators named `X_Something` and marked `Mutant:` are mistakes one could make
in `X`; the checks put them in its place and expect a property to fail.

### 2.1 MemcacheLock

A lock object is a *frame* on the stack of `with` blocks of its thread
(`frames`); `locks` is the thread-local set; `store` is memcached, whose values
are the nonces of threads.  `Reenter` is the early return of `acquire` for a
key in the set (78-81); `StartAcquire`, `AddSucceeds`, `TimeOut`, `AddErrs`,
`CheckFinds`, `CheckFindsOther` and `GiveUpAfterError` are the retry loop
(86-116), with the `get` that finds out after an error whether the `add` was
applied.  `ExitNested`, `CheckRelease`, `Delete` and `ReleaseErrs` are
`release` (127-139), in which the get and the delete are two steps.  An
exception unwinds all blocks of a thread (`failing`).  `Expire` is the TTL: it
strikes a live owner only if `MayOutlast`.

`Mutex` is what the callers believe: `Take` and `LetGo` of a key by one holder.
The mapping sends a key to the thread inside an owning block of it.

### 2.2 ThingStore

One thing: its plain base properties, one base counter (`_ups`) and one data
counter.  `Create` and `PublishNew` are the creator's COMMIT and its cache
write; `LookUpCached`, `ReadBase`, `ReadData` and `FillCache` are a lookup with
and without a cache hit; `SetProp` is an assignment; `StartCommit`,
`UpdateFromCache`, `NothingToCommit`, `CommitChanges`, `CacheCommitted` and
`Release` are `_commit`; `StartIncr`, `CacheIncremented`, `CommitIncrement` are
`_incr`, in which the cache is written *before* COMMIT.  Faults are named
(`FaultNames`) and switched on by a constant: eviction, an early lookup, a cache
write or a fill that fails, a statement that fails, a COMMIT that is answered with an
error (applied or not, `CommitFails`), a crash, an expired lock.  A cache write that
fails may have been applied too.  Three history variables keep account of them:
`ahead` is what memcached has of `_ups` and the database lost, `behind` are the
properties whose commit did not get as far as memcached, and `amiss` says that
something came to pass that the cache does not withstand: an object in hand at an
eviction or beside an empty cache, a lookup between a creator's two writes, a live
owner's lock that expired.

`AtomicThing` is what a caller can tell.  Its state is the value, what each caller has
set (`asked`), and how far each caller's call is: ready, started, or answered with the
values it goes on with.  `TakeEffect` is the one moment at which a call changes
anything, and it changes exactly the properties that were asked for, to what was
asked, or adds exactly the amount to one counter; a call returns only if it took
effect, and may fail only if it did not.  The mapping reads `CallOf` off the place of
the process and the object in its hand.

### 2.3 Voting

`queue` says which votes these are (links or comments), who consumes them, how
many messages RabbitMQ sends ahead, and what may go wrong; it is chosen by `Init`
and never changes, so that one run has several queues.  The queue itself is `log`
(all votes published), `ready` (not delivered) and `held` (delivered and not
acknowledged).  A consumer goes through `Start` (take the
voter's lock, read the previous vote), `Make`, `Undo`, `Add`, `Reward` (with
`FindNoKarma` and `SetKarma`: karma that has no property yet), `WriteRelation`,
`WriteDetails`, `UpdateLiked`, `QueueUpdate`, `Ack`, each of which is a write to
one store.  A comment's consumer (`queue.kind = "comment"`) takes no lock.

`sorted` is where the author's listing (`get_submitted`, `get_comments`) has the
thing.  `QueueUpdate` has the code's three conditions: the vote is valid
(`VoteValid`), and the thing in hand is neither removed nor deleted, which may be or
not at any time (`skipped` says that it was not updated for the last valid vote).  A
link's update goes through the worker thread (`Publish`) and the `author_query_q`,
whose consumer reads the thing (`ReadUpdate`, into `reading`), writes the listing
(`SortListing`), or fails before it acknowledges (`SortingFails`), while votes go on.
The vault's and the domain's listings have queues of their own with the same three
steps, and nothing is shared between the three.  A comment's consumer updates the
listing itself.  `Raise`,
`Kill` and `TimeOut` put what is held back into the queue where it was.
`listed` follows Cassandra's rule that of a deletion and an insertion with one
timestamp the deletion wins.

### 2.4 CommentTree

A tree is a function from comments to how often it lists them; `row`, `mem`,
`local` are its copies in Cassandra, memcached and a process.  `LoadCached`,
`ReadRow` and `Fill` are `Permacache.get`, for pages (`OpenPage`) and for the
consumer, which loads twice: for the scores, without the lock, and in
`add_comments`, with it.  `WriteRow` and `WriteCaches` are `Permacache.set`,
`GetBatch`, `Ack` and `GiveBack` are `handle_items`.  `Work` is what is really
added: the batch and the parents of the author's responses, with which
`_calculate_qa_comment_scores` extends the very list it is given.

### 2.5 Payments

One payment.  `Create`, `CreateCheckout`, `SaveRef` are the checkout;
`HearWebhook` and `Return` start a sync; `Fetch` (or `Capture`, PayPal's) asks
the provider, and `ActPaid`, `ActRefunded`, `ActOther` act on the answer with
the conditional UPDATE of `_transition`.  Who wins goes on to `Deliver` and
`Record`, or to `TakeBack`, `Reverse` and `Close`.  `StartRefund`,
`ProviderRefunds`, `RefundFails`, `Mark`, `MarkByHand` are an admin's refund.
The provider (`prov`) is external and only moves forward.

### 2.6 AdPayments

One link, one campaign, any payments for it.  `campaign`, `link`, `row` and `bid`
are the stores; `req[r]` is a request (or the daily job, one at a time) with the
transaction and the link it has read, which it goes on to use.  The actions named
after operations (`Pay`, `Edit`, `Delete`, `GiveFree`, `Reject`, `DeleteLink`,
`Accept`, `StartJob`, `Refund`) make the request's checks and its first write;
then there is an action per write: `Void`, `Mark`, `Unbid`, `Clear` are
`void_campaign`; `Load`, `Unwanted`, `MarkUnwanted`, `Book`, `Attach`, `Review`
are `on_paid`; `FreeBid`, `Name` a freebie; `OnRefunded` the dashboard's refund;
`Charge`, `Queue`, `Promote`, `Launch`, `Expire` the job and the acceptance;
`Return`, `Note`, `Close` the refund page, whose partial refunds carry a key that
the provider honours once.  `Refund` has the checks of the page's handler only, so a
page that is out of date, or sent twice, refunds a campaign that is live, was not
charged, was refunded, or is a freebie (which has no payment, only the bid to
`Close`).  `Book` is two commits, the bid and its charge, in one step: until `Attach`
no campaign names the bid, so no step reads it.  `byhand` are the payments for which an administrator
has been written to.  `load` bounds how many requests work at once and in all.

### 2.7 TempBans

`rel` is the restriction, `items` the TryLater row, `subject` the column by
subject with the end of its TTL.  `use` says whether these are bans, mutes or
timeouts, which write the three in different orders and cancel differently.
`Ban`, `Mute`, `Timeout` and `Lift` are the requests, `Look`, `CancelOld`,
`ForgetOld`, `Schedule` and `NameNew` their further writes.  `StartJob` reads what
is due, `RunItem` with `JobCancels` and `JobForgets` are the three hooks on one
item, `Cleanup` deletes either the items or the row up to a timestamp.  `spoilt`
notes what has come between the writes for an account; the properties say which
of that matters to which restriction.  A request that comes when the job is so late
with an item of the account that the subject's column is gone (`Unnamed`) leaves a
mark there too.  Time moves by `Tick`, which requests do not outlast, and the job is
never later than `Lateness`.

### 2.8 Listings

A list is a sequence of items with their sort values.  `Inserted` is
`_insert_tuples` with its early refusal, its sort and its truncation.  `Look`,
`Fetch`, `Store`, `Cache` are `Permacache.mutate` under its lock, `Replace` and
`Drop` are `pessimistically_set`, by which `mr_top` writes the listings with a time
filter, without the lock.  `Miss` and `Fill` are a reader.  `expected` is the
list had each change been made at once.

### 2.9 QueryCache

A row has a column per item with its sort value and write timestamp; `Insert` and
`Delete` are batches, `Fetch` and `Prune` the pruning after an insertion, on the
row as it was read, by either method: `PruneFast` deletes the row, since a batch
has no timestamps of its own, `PruneSlow` the last items.

### 2.10 Publisher

`fg` is the foreground, a consumer whose callbacks add items and that joins the
worker's queue when it ends.  The worker gets, connects, publishes and counts the
task as done (`PublisherInit`, `PublisherNext`); a broken connection adds the item once more for the main exchange,
any other exception loses the item and its `task_done`.  `unfinished` is the count
that `Queue.join` waits for.

## 3. The runs

Each `.cfg` holds the whole instance.  Deadlock is checked unless the system may
really stop: every thread of the lock can be dead, the votes and the queue can
run out, a payment can be closed and its faults used up.  Symmetry is used for
processes, properties, consumers, requests and items (`thing_*`, `votes`, `ads`, `listings`),
which no definition tells apart, and only where no liveness property is checked.
Several modules take their bounds from a set of records (`Queues`, `Loads`), of
which `Init` picks one: so one run has both wide and long behaviours.

### 3.1 Runs that pass

| run | instance | properties | shows |
|---|---|---|---|
| `lock` | 2 threads, 2 keys, blocks 2 deep; crashes, errors in add, get and delete | `TypeOK`, `MutualExclusion`, `OwnersOnStack`, `ImplementsMutex`, `WaitEnds` | the memcached lock is a mutex, whatever fails, while no critical section outlasts the TTL; nobody waits for ever |
| `thing_safety` | 2 processes, 2 properties of 2 values, 3 increments; SQL statements fail | `TypeOK`, `CacheCoherent`, `CommitLands`, `KarmaExact`, `ImplementsThing` | with stale copies everywhere, commits and increments act as on one atomic value, a commit on what its caller set and nothing else |
| `thing_faults` | 2 processes, a property of 2 values, 2 increments, all eight faults, up to the first thing the cache does not withstand | `DriftIsKnown` | a failure between database and cache leaves the cache off by what failed, whatever is committed on top of it, until an eviction |
| `votes` | 2 voters (one the author); links with 2 consumers and either 3 votes and 1 death or 2 votes and 2 deaths; links (3 votes) or comments (4 votes) with 1 consumer that prefetches 2 and dies twice | `TypeOK`, `DriftIsBounded`, `ListedAreVotes`, `KarmaAddsUp`, `LastVoteStands`, `ListingsFollow` | redelivery moves a counter by at most one per death; no listing shows a vote that is not on record; karma adds up, the last vote stands and the author's listing catches up |
| `payments` | 2 requests at once, any number one after the other; 2 faults of three kinds | `TypeOK`, `DeliveredOnce`, `StatusIsTrue`, `WorkIsDone`, `PaidIsNoticed` | gold is delivered at most once and only for money; without faults nothing is left undone and what was paid is noticed |
| `tree` | 1 consumer, 2 pages, 3 comments in a chain, batches of 2; eviction, raises and kills, 2 deaths | `TypeOK`, `AckedAreListed`, `ListedOnce`, `PagesAreCurrent`, `AllListed` | no acknowledged comment is lost or shown twice; all are stored in the end; pages show the stored tree |
| `ads` | 2 payments, 1 of a provider that cannot refund, 2 budgets; 2 requests at once and 3 in all, or 4 one after the other; 1 refused refund or crash | `TypeOK`, `TransactionsAreBacked`, `KeptMoneyIsTheCampaigns`, `LiveIsPaidFor` | a campaign never names a transaction without a bid, whatever overlaps; without overlaps the money that is kept is the campaign's and what is shown is paid for |
| `bans` | bans, mutes and timeouts; 2 requests at once, 3 for one account or 2 for two; time to 5, terms of 2 and 4 (mutes 3), a job at most 2 late, as long as the column by subject outlasts its item; 1 fault | `TypeOK`, `NotLiftedEarly`, `BansEnd` | no restriction ends before its end and each that has one ends, but for the interference the properties name |
| `listings` | 4 items, 2 sort values, limit 3; 2 writers and a reader with 3 changes, or 1 writer with 4; evictions and deaths | `TypeOK`, `UpdatesLand`, `BestAreListed` | no update is lost unless memcached was left with an old list; the best items are listed |
| `publisher` | 3 items, 2 exchanges, 3 failures | `EndsPublished` | a consumer that has ended has sent what it added |

Why the bounds are enough:

* *lock*: two threads and two keys are what it takes to wait in a circle; depth
  two has nesting, re-entrance and unwinding; the theorems of section 4 lift
  the safety properties to any numbers.
* *thing*: two processes are a writer and another one whose copy, or whose fill of
  the cache, is old; two properties are one that a commit sets and one that it must
  leave alone while another commit sets it; with two values a change can equal a
  stale one; of three increments the first makes the row of a data counter, the
  second brings it back to the default and the third has to tell which it is.
  The theorems lift this to any numbers.
  `thing_faults` stops (`NotYetAmiss`) where `amiss` is set, because it stays set and
  `DriftIsKnown` says nothing from there on; two increments are one that fails and one
  that is made on top of it.  Its theorem needs no such constraint.
* *votes*: three votes are a vote, its change, and a vote of the other account;
  four add an unvote or a second account's change while two messages are held;
  two deaths kill a message twice.  The theorems lift every property of the run
  to any numbers.
* *payments*: two requests are enough for every pair of an old and a new answer,
  and each starts again when it ends, so there is no bound on webhooks, reloads or
  refunds; `MaxFaults` bounds failures.  The theorems have neither bound.
* *tree*: three comments need two batches and can come back cut differently; the
  second is an author's response, whose parent is added with it;
  two pages fill the caches while the consumer writes.  The theorems have no bounds.
* *ads*: two payments are one that counts and one that comes too late; of three
  requests two overlap and the third acts on what they leave; four in a row are
  paid, edited, paid again, and rejected or refunded.  The theorems lift all four
  properties to any numbers; three refunds that overlap (5.2) need a third request
  at once, and were found by the proof, not by this run.
* *bans*: three requests on one account are imposed, changed and lifted, or lifted
  and imposed anew, with ends on both sides of a job that may be late, so late that the request does
  not find the item; a second account is what the deletion by timestamp can hit.
  The theorems lift all but `BansEnd`, and to a job that is late by any time.
* *listings*: a limit of three has a list that is full with one item to spare, and
  four items overflow it; two writers and a reader are all the roles.
  The theorems have no bounds.
* *publisher*: three items and three failures put one back behind another, twice.
  The theorem has no bounds.

### 3.2 Fairness

* `MemcacheLock.Fairness`: a thread that waits looks again (weak, on `Acquire`)
  and its clock runs (strong, on giving up after an error: the branch is
  enabled again and again as the retry loop runs); bodies end (weak on `Exit`,
  strong at each depth, since a body may nest other blocks first); memcached
  keeps its TTLs (strong on `Expire`).  Errors and crashes are not fair.
* `Payments.Fairness`: requests run to their end (weak); a webhook the provider
  still owes is heard (strong), because providers repeat a webhook until it is
  answered.  Nothing makes a buyer pay or return.
* `CommentTree.Fairness`: requests end, the supervisor restarts consumers, the
  lock's TTL runs; all weak, which is enough for one consumer.  Raises and
  kills are bounded by `MaxDeaths`: a message that raises every time would come
  back for ever, in the code as well.

* `TempBans.Fairness`: time passes, the timer starts the job, and the job and
  requests that have begun go on; all weak.  Nobody has to ask for anything.

`Voting`, `ThingStore`, `AdPayments`, `Listings`, `QueryCache` and `Publisher` are
checked for safety only: a publisher's join may wait for ever (5.2), and nothing
in the others has to happen that their safety properties do not already demand at
quiet states.

### 3.3 Mutants

Each property of a passing run has a mutated definition under which the same run
refutes it, for instance an add that failed and counts as success without the
read back, a counter written with the value of the object in hand, a status
written without a condition, an acknowledgement that covers what was sent
ahead, comments added without the test for what is there, a payment that is not
compared with the budget, a job without a cutoff, a mutation without its lock.

## 4. The proofs

The proofs are about `Spec` (`PublisherSpec` for `Publisher`), for every value of the constants that the named
assumptions admit, and need no bound of the runs.  Each rests on one inductive
invariant, whose parts are named conjuncts.

**MemcacheLockProofs** (`LockInv`).  A key has at most one owning block on a
thread's stack, and its key is in the thread-local set while the block lasts
(`StackInv`); that is `OwnersOnStack` and is inductive under every fault
(`BlocksMatchSet`).  For mutual exclusion one must
add that an owning block has its entry in memcached (`OwnersEntry`): the entry
has one value, so there is one owner.  `OwnersEntry` is what an expiry under an
owner breaks, so `MutexHolds`, `DeletesOwn` and `Refinement` assume
`MayOutlast = FALSE`; crashes and errors stay.

**ThingStoreProofs** (`StoreInv`, `DriftInv`).  `TypeCorrect` and `DriftStaysKnown`
hold for all faults.  `CacheIsCoherent`, `CommitsLand`, `KarmaIsExact` and `Refinement`
assume `Benign`, that only SQL statements fail.  `StoreInv` has to say, for
each place in `_commit` and `_incr`, how the cached object, the merged copy and
the database may differ: that the process at that place holds the lock and finds
the thing in the cache (`LockHeld`, `CacheFilled`), that a creator is alone
(`CreatorAlone`), and that the properties a process asked for are still dirty or
have landed (`ObjectsInHand`).

`Refinement`: the moment at which a call takes effect is the UPDATE of a commit, the
COMMIT of an increment, or, for a commit that finds nothing dirty any more, the look
at the merged copy.  What has to be shown of it is that a commit, which writes only
what differs from the cached object, leaves the database with everything its caller
asked for and the rest as it was, and that the object in the caller's hand is then the
database's value: both rest on the coherence of the cache it started from.

`DriftStaysKnown` (`DriftIsKnown`): each writer under its lock has memcached's object
in hand but for what it is changing (`OffBy`), so what it writes to the cache is off by
what memcached was off by, less the properties it has just set; what is dirty was asked
for (`DirtyAsked`); and memcached is not empty while somebody works on an object,
unless `amiss` says so.  An increment that memcached keeps and the database loses adds
its amount to `ahead`, and nothing else does.

**PaymentsProofs** (`PaymentInv`, `WorkInv`).  At most one request delivers and
at most one takes back (`AloneInv`), since each won its conditional UPDATE; the
row, the gold table and the counters agree with where those requests are
(`RowInv`, `RequestInv`); an answer that a request holds was true once, and the
provider moves only forward.  From this
`NoDoubleDelivery` and `StatusHolds` follow for any number of requests and any
faults, and `WorkDone` until the first fault.

**CommentTreeProofs** (`OnceInv`, `TreeInv`).  `StoredOnce`: every tree anywhere
(row, memcached, process caches, trees in hand) lists a comment at most once,
for any number of consumers and all faults.  `NothingLost`: with one consumer `w`
and neither of the faults "late" and "stranded", what is acknowledged is in the
tree that a load would return (memcached's, or the row's if it has none), whose
comments are in the row.  The invariant adds that every load under way has
all that is acknowledged (`LoadInv`), that what `w` has in its own cache when
it adds is that tree (`WriterInv`), and that unless `w` is between its two writes
whoever has loaded a tree has the row's, as memcached has (`QuietInv`): so
memcached is behind the row only while nobody else holds a copy.  `PagesCatchUp`
(`PagesAreCurrent`, under the same assumptions): while the consumer is not between
its two writes, memcached is the row, or the messages to come hold a comment, or
the parent of a response, that memcached's tree does not list (`PageInv`, `Short`);
so a consumer that died after the row finds something to add when it gets the
batch again, whatever the pages have put into memcached since, and an empty queue
leaves nothing to add.

**VotingProofs** (`BaseInv`, `AloneInv`, `ListInv`, `FollowInv`, `DriftInv`).  `BaseInv` is the type
invariant with one fact that makes it inductive: whoever works has a message.
`LastVoteCounts` (`LastVoteStands`): with one consumer there is an `n` such that
the first `n` messages are acknowledged and the consumer has, or will get, the
others in their order (`OrderInv`), through any redelivery; the last of an
account's votes among those `n` is on record, or the pending vote is, which a
consumer that died may have written (`RecordInv`); the two column families agree,
or the first has the pending vote (`AgreeInv`), which is why a second delivery
that finds its vote in the details need not write the relation.
`NoWrongListing` (`ListedAreVotes`): the lock of an account is held by the consumer
that works on the account's vote and by nobody else (`LockInv`), so what that
consumer has read is still so when it writes, and the listings agree with the
recorded vote until it is replaced and with the replaced vote until they follow
(`HandInv`).  `ListingsCatchUp` (`ListingsFollow`): a vote scores if and only if it
is not the author's (`ScoreInv`), so whatever moves a counter also gets an update of
the author's listing queued, or finds the thing removed; while what the listing has, or
will get from its consumer's read (`Coming`), is behind the counters, an update is on
its way, the last one was skipped, or a message that scores is not yet acknowledged,
wherever exceptions have put it back (`Catching`, the body of `FollowInv`).
`CountersAreVotes` (`DriftIsBounded`) assumes finitely many voters
and, as a comment's votes take no lock, one consumer of comments
(`LoneComments`).  Nobody else works on the same account's votes (`OneEach`), also
when locks of dead consumers expire, and what the counter has is then a set of
voters at every step, of whom a vote in hand takes off or puts on one
(`Applied`); only a death parts the two, by at most that one (`DriftInv`).
`KarmaIsGiven` (`KarmaAddsUp`), under the same assumptions: while no consumer has
died, what a voter has given agrees with what is recorded of its vote, or with the
vote in hand once its karma is given, and a vote that gives karma does not follow
one that gave none (`PointInv`), also when the comment becomes or stops being the
sticky between the two.
The sum of the points is a fold over the voters.  That it moves by what one
voter's points move by (`SumChanges`) is an induction over the finite sets of
voters, made with a least counterexample, and with it one consumer keeps the
karma equal to the default and the sum (`SumInv`).

**AdPaymentsProofs** (`AdInv`).  Bids and payments are never undone (`Grows`), so
what a request knows of the ones it has in hand stays true while others work:
its transaction had a bid when it was read, its payment was paid, it names only
what it has booked (`Knows`).  From this `AlwaysBacked` follows for any number of
payments, of requests at once, of refusals and deaths.  Under the same generality
the row's `refunded_pennies` are never more than the provider has sent, nor that
more than the price, and every idempotency key the provider has seen names money
it has sent (`Books`); a request that is about to note a part has that much behind
it (`Noted`).  `KeptMoney` (`KeptMoneyIsTheCampaigns`) and `LivePaid`
(`LiveIsPaidFor`) add what holds until requests first overlap or one dies
(`AloneInv`): the one request at work, if there is any, can count on the
transaction in its hand, on its payment and on the budget (`Grip`); a payment that
is kept is the campaign's, or told to somebody, or in that request's hands
(`Holding`); what is sent is noted, or about to be (`Sending`); and a campaign that
names a payment no longer kept is about to lose it (`Ending`).  The job may work
beside it, since it touches no payment and only charges a bid (`AloneKept`); this
needs that the job takes only its own steps (`JobInv`).

**ListingsProofs** (`ListingInv`, `GoodInv`, `BoundsInv`, `BestInv`).
`NoUpdateLost`: mutations exclude one another; while nothing is spoilt, what a
writer makes its change of is the row, and an old list in memcached is about to be
set right (`CacheInv`).  `TypeCorrect`: every list that is stored, cached or in
hand is sorted, holds no item twice and fits (`GoodInv`), because inserting,
removing and truncating keep lists so; the positions at which an item goes in or is
taken out are least elements, which stand in for inductions over the list.
`BestListed` (`BestAreListed`): while nothing was taken out or lost rank
(`narrowed`), an item that is not listed has at least `Limit - 1` listed ones that
are no worse (`Above`).  Both
take from `DumpsAssumption` that the lists `mr_top` writes are listings.

**BackgroundProofs** has the two components that run beside the site.

*TempBans* (`TypeInv`, `EarlyInv`, `ScheduledInv`).  `EndsInTime`
(`NotLiftedEarly`) holds for any accounts, requests at once, terms and faults, and
however late the job is.  What holds of an account (`CleanInv`) while no mark of
`Hastens` is on it: one request at a time works on it and the job not beside it
(`AloneInv`); what is scheduled, or left for the job, is the restriction's own end
(`EndInv`); the subject's column names it unless it is overdue by more than the grace
(`NamedInv`), in which case no request comes without the mark "late" and the job,
which has it in hand, cleans it up; so a request has cancelled what there was before
it schedules anything (`WriteInv`).  Once a ban or mute is lifted its items are gone
or ready for the clean-up (`LiftedInv`), which removes whatever was ready in either
of its two ways (`ReadyAreRemoved`).

`EndStaysScheduled` is the safety part of `BansEnd`: while no mark of `Prevents` is
on an account that is restricted for a time, the row has an item due at that time
which the job has not passed.  The clean-up deletes everything up to the newest
write timestamp of what was ready; it deletes nothing else, because an item that the
job has not read was written after all it has to delete (`NewerInv`), and one it has
read and that was not due is in the list whose oldest timestamp decides between the
two ways (`OnlyReadyRemoved`).  Only fairness is missing for the end to come.
`RowAgrees` joins the two: between requests and runs of the job, the row has exactly
one item for a ban or mute with an end, due then, and none for any other account.

*Publisher* (`PublisherInv`).  `SentBeforeTheEnd` (`EndsPublished`): the count of
unfinished tasks is never below what is queued or in the worker's hand, and is above
it from the first item that was lost (`CountInv`, `Lost`); so a count of zero means
that every item added was published (`TraceInv`).

**Only model-checked**: liveness (`WaitEnds`, `PaidIsNoticed`, `AllListed`,
`BansEnd`), which this prover does not reach, and what the two runs of 5.1 refute.
Every invariant and every other action property or refinement of a passing run is
a theorem.

What the prover cannot do is instantiate the library's induction theorems, whose
parameter is an operator, or see into a recursive operator.  Where a proof needs an
induction over data, it takes the least counterexample of a set instead (`WFMin` on
the naturals), and `Listings` removes an item by its position (`Without`) rather
than with a recursive filter.

Three of this project's statements changed when their proofs were tried.
`KeptMoneyIsTheCampaigns` had said that the row has all that was sent even where
requests overlap; three partial refunds at once refute that (5.2), and what is true
then is that the row never has more.  `Listings` left open which lists `mr_top` may
write; that they are sorted and short enough is now a named assumption.
`NotLiftedEarly` was true only of a job less late than the grace, which an hourly job
does not keep; it now holds of every job, and excepts the requests that come too late.

Fault names are strings and the sets of processes, keys, properties and
comments are arbitrary; the assumptions on them (`NoOwner` is no process, and
the like) are `ASSUME`s of the modules, which TLC evaluates in every run.

## 5. What the code does not keep

### 5.1 Refuted by a run

Each of these runs checks one statement that a comment or document of the
repository makes, and ends with a counterexample.

| run | statement | what happens |
|---|---|---|
| `vote_repeated` | `VotesAreListed` (`voting.py:149-150`) | voting twice in one direction deletes and inserts one column in a batch with one timestamp (119-124): the deletion wins and the thing leaves the listing |
| `query_pruned` | `PruneKeepsTheBest` (`query_cache.py:142-143`) | a fast pruning hands a timestamp to a batch that has no use for it (254, `cassandra_compat.py:679`): the whole row is deleted, not the excess items |

### 5.2 Known gaps

These are behaviours the models have when a fault or a constant allows it, that
the properties except on purpose, or that the survey found next to the models.

* *Lock*: with `MayOutlast`, an entry can expire between the `get` and the
  `delete` of `release` (`lock.py:131`), and the delete frees another's lock;
  and two owners of one key coexist.  When memcached fails in `release()` (136) the
  key stays in the thread-local set, so later blocks of the thread are entered as
  nested ones, without memcached, while another thread may own the key (47-49
  promise that it cannot).
* *Thing store*: after an eviction a slow lookup caches an older copy
  (`thing.py:260`; 296 says only that one "must read from postgres"); a lookup between the creator's
  COMMIT and its cache write is in the same position (`thing.py:330`, 235).  A
  commit that compares with so old a copy drops a change that equals the stale
  value as not dirty (274) and returns (336) with the other value in the database
  (292-293 promise otherwise); two processes can both find no row of a data
  counter and one increment is lost (`thing.py:652-655`).  These are what `amiss`
  stands for.  Without any of them, an increment that makes the row of a data counter
  and whose COMMIT fails leaves memcached ahead (672 writes it first): later increments
  then UPDATE a row that is not there and are lost too, which is why `DriftIsKnown`
  speaks of `_ups` and the plain properties only.  Where memcached is behind,
  an assignment of the value that the copy in hand has already is not dirty (98-114),
  and the database keeps the other one until an eviction.
* *Voting*: a consumer that dies after a counter and before the acknowledgement
  counts the vote again (`DriftIsBounded` says how often); with several
  consumers an account's votes may be processed out of order; the comment
  consumer takes no lock at all (`voting.py:379`), so with several of those two
  votes of an account read the same previous vote.  A vote on a removed or deleted
  thing counts, but the listings are left alone (`voting.py:176`, 397); approving it
  again puts it back into the vault's listings and not into the author's
  (`queries.py:1588`), which has the old order until the next vote.  With several
  consumers of one query queue, or a shard of the vault's beside the main queue, one
  that has read older counters may write last.
* *Payments*: a request that dies between the status change and the delivery
  loses the delivery for good (`payments/__init__.py:464-468`): later syncs find the
  row paid.  A refund noticed between the UPDATE to "paid" and the record of the
  gold finds nothing to take back (`gold.py:111`) and the delivery goes on, where
  `payments/__init__.py:39-40` says refunded means taken back.  `sync()` swallows an
  API error (448), so the webhook is answered with ok
  (`controllers/payments.py:131-134`) and not repeated.  Two payments started from
  one payment blob both deliver (`gold.py:95`).
* *Comment tree*: with two consumers one overwrites the other's comments, since
  the tree is read under the lock from the process's own cache
  (`comment_tree.py:119`, `cache.py:993`), which it filled before
  (`lib/comment_tree.py:64-67`); `docs/PRODUCTION_DEPLOYMENT.md:1700` advises five.
  A page whose fill of memcached outlasts a consumer's whole
  write leaves the old tree there ("late"), which the next write builds on; and
  if a consumer dies between the row and memcached, a second one adds to the
  older tree and dies too, and memcached then drops that tree ("stranded"), an
  acknowledged comment is missing from the row.  `rebuild()` reads the comments
  before it takes the lock (194).
* *Ads*: once `on_paid` has loaded the campaign nothing is looked at again, so two
  payments that overlap are both kept (`ads.py:155`; `docs/gold-payments.md:86` says
  that what is paid twice is refunded in full).  A payment that arrives after a
  rejection is kept, where `ads.py:21` says that an ad that is not approved is refunded.  A bid whose unspent part was all of it still
  counts as charged (`bids.py:55`).  Two partial refunds that read the same
  `refunded_pennies` carry the same key, and the provider makes one of them
  (`payments/__init__.py:508`).  With a third one that the first two overlap, one
  may note its part after the others have sent and noted more: `refunded_pennies`,
  which is "how much of a paid payment has been refunded in part so far" (487), is
  then too little.  The handler of the refund page does not look at what was refunded
  before (`promotecontroller.py:876-898`): the same request sent twice refunds the
  unspent part twice, up to the price.
* *Bans*: a request that overlaps the job or another request, or dies between its
  writes, can lift a restriction early or leave it for ever; `Hastens` and
  `Prevents` in `TempBans` list which.  A hook that raises on one item has all
  ready items removed, so the restrictions of those it has not reached never end
  (`trylater.py:114`).  The column by subject outlives its item by ten minutes, in
  case the job runs late (`trylater.py:226`), and the job runs every hour
  (`tippr-job-trylater.timer`): a ban that is made longer or permanent while the job
  is more than ten minutes late with the old end does not find it, and that end then
  lifts it (the mark "late" of `Hastens`; `NotLiftedEarly` without it fails).
* *Listings*: a reader that misses one of several keys sets all of them to the
  rows it read (`cache.py:977`), whatever a writer has done since; a writer that
  dies between the row and memcached leaves the old list; `mr_top` writes listings
  with a time filter without the lock (`mr_top.py:144-145`), where
  `queries.py:1575-1578` mutates, so an item deleted since its dump is listed again.
  A full list refuses an item that would have its last place
  (`queries.py:233` counts the new item), so the last place can stay unfilled.
* *Cached queries*: `remove_if_unchanged` removes what has changed as well
  (`query_cache.py:274`); `edit()` (`queries.py:1496-1504`) deletes and inserts one
  column in one batch, with the effect of `vote_repeated`.
* *Publishing*: an item that is added again after a broken connection loses its
  exchange, headers and delivery mode (`amqp.py:222`), so a broadcast to the
  websockets goes to the main exchange; a publication that raises never calls
  `task_done`, and the join of the consumer waits for ever (92); a consumer that is
  killed loses what its callbacks have added and it has acknowledged.

## 6. What is not modelled

Inside the modelled parts: the statistics and log texts of the lock; relations,
queries and column types of the thing store; vote validators of plugins, the
memcached copy of a vote still in the queue, and the events and notes of
votes; the queues of the vault's and the domain's listings (as the author's, and
independent of it); the comment tree's `rebuild`, the stored orders and scores; gift codes and
the payment blob in the hardcache; targeting, inventory, several campaigns of a
link, fraud review, auctions and traffic of promotions; the moderators' messages,
notes and log; `update()` of a listing by hand, the timeout of a mutation's lock,
and which listings an event changes; precomputed, merged and expiring cached
queries, and `replace`; the match within two milliseconds by which cancelling a
delayed job takes along another one of the same hook and moment, another account's
too (`trylater.py:166-184`; in `TempBans` the times of two accounts never match);
heartbeats, the declaration of queues and the threads of
one web worker in the queue client.

Whole parts, each with its reason in `PROJECT.json`.  Message trees, the rate
limits, the hardcache, gold balances, the wiki and sign-in are small or repeat what
a modelled part shows.  Updates, backups, settings, search, media, feeds, mail,
pages, validators and templates (the bulk of the source by lines) are files,
processes, services outside, or sequential code that reads what the modelled
parts store and puts it into words and markup: no step of theirs is left to order.

External to the repository and modelled from how it is used: memcached (`add`,
`get`, `delete`, TTLs, lost entries, answers that get lost), PostgreSQL
(statements, COMMIT, conditional UPDATEs that take effect one at a time), Cassandra
(a batch has one timestamp, of which the deletion wins; columns end with their
TTL), RabbitMQ (delivery in order up to the prefetch, redelivery at the head), the
payment providers (they move forward, repeat webhooks, honour an idempotency key
once, and may refuse a refund), and the timers that start jobs.

## 7. Plan

Done so far: the modules of section 2 with their runs, and the proofs of section
4.  What could follow, in order of weight:

1. Several campaigns of a link in `AdPayments`, and its `Pay` and `Unpay` refined
   by `Payments`.
2. `CommentTree` as an implementation of an abstract set of comments, and
   `CommentTree.rebuild` with the message trees.
3. `Voting` with `QueryCache` for its two listings.
