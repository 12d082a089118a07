# Support Request Management System: specification and proofs

TLA+ modules of the support desk in `src/`: what the code does to tickets,
customers, accounts, the throttles' cache, tokens, request ids and, at boot, the
database, checked with TLC on small instances; and theorems about all of them, for every
staff and every set of tickets, workers, requests and containers, proved with
TLAPS.

## 1. The system

A Django REST service on PostgreSQL, served by several gunicorn workers that
share the database and a cache. Customers submit tickets through a public form;
agents and supervisors work on them through an authenticated API. All writes to
tickets go through `apps/tickets/services.py`.

| Component | State it keeps | Operations | What makes it correct |
|---|---|---|---|
| Domain (`enums.py`) | none | transition table, statuses that need an owner | used by the services |
| Permissions (`permissions.py`) | none | the access matrix | a request is decided on the ticket it will change |
| Services (`services.py`, `models.py`) | rows of tickets, their events and comments | `change_status`, `assign` (and release), `change_priority`, `update_details`, `add_comment` | one writer per ticket, history and row agree, constraints, closed is final, versions identify |
| Views (`views.py`, `serializers.py`) | none between requests | one endpoint per service; `If-Match` in, `ETag` out | conditional writes land on the version they name, answers are not stale |
| Creation (`services.create_ticket`) | tickets, customers, `dedupe_hash` | public form, agent intake | repeats collapse, a customer exists with its ticket, names are not rewritten by the public |
| Per-email throttle (`throttling.py`) | per-address history in the shared cache | spend one ticket of the hourly budget or refuse | the budget is held, and counts tickets |
| Per-IP throttles (`throttling.py`, settings) | per-address history in the shared cache | let in, or 429 with a wait | who waits as long as told is let in |
| Accounts (`accounts/`) | users, active flag, role | admin: deactivate, delete, change the role | references resolve, history survives |
| Authentication (`accounts/serializers.py`, `SIMPLE_JWT`) | none on the server; tokens at the clients | login, refresh, authenticate | a sign-in ends, rights are those of the account |
| Timeline and comments (`core/pagination.py`, `views.py`) | none; reads events and comments | cursor pages, oldest first | nothing skipped, nothing twice, two feeds that agree |
| Error envelope (`core/exceptions.py`, `core/views.py`) | none | every failure to a status and a code | one condition, one answer |
| Request id, health, body limit (`core/middleware.py`, `core/views.py`) | a context variable per thread | enter, leave | one id per request |
| Boot (`checks.py`, `entrypoint.sh`) | the database | wait, migrate, check, seed, serve | somebody serves; a cache that cannot hold the limits is refused |
| Demo data (`seed_demo.py`) | the database | accounts, reset, tickets and what happens to them | once, whole, and nothing refused |
| Ticket listing, filters, search; admin of tickets | none | reads | |

**Interaction.** A write request touches the database at four
different moments: the view reads the ticket without a lock and checks the
permission on that copy; the service opens a transaction, takes the row lock
(`SELECT ... FOR UPDATE`), reads the ticket again and decides on this second
copy; it commits the row and the events; the view reads the ticket a third time
for the answer. Creation checks for a duplicate, reads and writes the cache, and
opens its transaction, in that order, with no lock around. The admin site
changes users, and through `SET_NULL` foreign keys tickets and events, past the
services. Around every request the middleware sets and resets the request id,
and whatever fails on the way becomes an envelope, by Django's handlers before
the view is reached and by REST framework's after it. At boot, containers that
share a database migrate it and seed it through the same services.

**Hard behaviours.** What another worker does between any two of these moments;
a worker that dies between them; a client that repeats what was answered or not;
the read and write of the cache as two commands; a race for the unique row of a
customer; accounts that vanish, or change their role, while requests name them;
events that commit while a client is between two pages; two containers that boot
at once, and one that is killed in the middle of its seed. `PROJECT.json`
("hazards") lists them by line.

## 2. The modules

| Module | Models | Notes |
|---|---|---|
| `TicketDomain` | `enums.py` | constant tables |
| `TicketPermissions` | the access matrix | pure predicate `IsAllowed` |
| `TicketServices` | what each service does to one ticket | pure operators: a *transaction* is the ticket in memory, the columns saved and the events inserted |
| `TicketApi` | requests, locks, transactions, crashes, deactivation | composes the three above |
| `TicketLedger` | what the API promises: each step changes a ticket and adds the events that tell of it, or only adds a remark | abstract; `TicketApi!ImplementsLedger` |
| `PublicIntake` | `create_ticket`, `_resolve_customer`, `_fingerprint`, the per-email throttle | on its own: only the first row and first events are shared with the API |
| `StaffTurnover` | the API while an administrator deletes accounts | extends `TicketApi` |
| `TimelineFeed` | writers that append to a ticket, and clients that page through its two feeds | what an entry says is left to `TicketServices` |
| `Sessions` | logins, refreshes, served requests, an administrator | decides with `TicketPermissions` |
| `DemoScript` | the script `seed_demo` plays on a ticket, call by call | on the mutations of `TicketServices` |
| `Boot` | containers that start on one database, and `seed_demo` as a transaction | extends `DemoScript` |
| `ErrorEnvelope` | every exception, on both paths, to its status and code | constant tables |
| `FrontDoor` | request ids, the per-IP limit, the view, the envelope | extends `ErrorEnvelope` |
| `MC...` | instances for TLC | the sets of calls, the permutations |
| `TicketApi_proofs`, `TicketLedger_proofs`, `StaffTurnover_proofs`, `PublicIntake_proofs`, `TimelineFeed_proofs`, `Sessions_proofs`, `FrontDoor_proofs`, `Boot_proofs` | theorems | one per module they are named after; the lemmas on the services come first in `TicketApi_proofs`, which `TicketLedger_proofs` and `StaffTurnover_proofs` extend |

### State and actions of `TicketApi`

`row[t]`, `history[t]` are the committed row and events of a ticket; `lock[t]`
is PostgreSQL's row lock; `active` the active accounts; `pc`, `request`, `txn`,
`reply` belong to a worker. A request goes

    idle -Admit-> admitted -Acquire-> locked -a service-> staged -Commit-> committed -Answer-> idle

* `Admit` / `Refuse`: authentication, the unlocked `get_object()`, the
  permission, the serializer. `request[w].seen` is the unlocked copy.
* `Acquire`: `_lock`. `txn[w]` is the copy read under the lock.
* `RejectClosed`, `RejectVersion`, `RejectTransition`: the exceptions of the
  service, in the order of the code; each rolls back.
* `ChangeStatus`, `AssignNothing`, `Assign`, `Release`, `ChangePriority`,
  `UpdateDetails`, `AddComment`: the body of a service, no-ops included.
* `Commit`: only the saved columns (`update_fields`) are written, with the
  events, at once. `Answer`: the third read. `Crash`: at any position.
* `Deactivate`: the admin unticks `is_active`.

A timestamp is abstracted to whether it is set. `updated_at`,
`last_activity_at` and notes are left out: nothing decides on them.

### State and actions of `PublicIntake`

`tickets` (in commit order), `customers`, the `cache` of the throttle, a
`clock`, and per worker its position, its submission and `scratch`, what it has
read or not yet committed. `Receive`, `Replay` (the duplicate is answered
again), `FindNoDuplicate`, `ReadBudget` / `Throttle` (`cache.get` and the
decision), `SpendBudget` (`cache.set`), `FindCustomer`, `InsertCustomer` /
`LoseInsert` (the two ends of `get_or_create` behind the unique index),
`WriteTicket` (an agent's correction of the name, and the insert, stamped
before the commit), `Commit`, `Crash`, `Tick`. `seen` and `spent_at` of a
ticket are noted for the properties only; nothing reads them.

### State and actions of `StaffTurnover`

`accounts` is added. `DeleteUser` is one step: it is refused by `PROTECT` for
an author of comments and by the check constraint for an owner of work in
progress, waits for the row locks of the user's tickets, and otherwise clears
`assignee` and `actor`. A request that references a deleted account fails at
its commit (`CommitFails`), where the deferred foreign keys are checked. `Next`
of the API appears here with `Commit` replaced by these two.

### State and actions of `TimelineFeed`

`events` and `comments` are the committed rows of one ticket, with their id, the
timestamp of their insertion and, for the event of a comment, its link;
`nextId`, `lock` and `open[w]` belong to the writers, `walk[r]` to a reader: the
feed, the page size, the cursor of the next link and what was read so far.
`Begin`, `Record`, `InsertComment`, `RecordComment`, `Commit` and `Rollback` are
the services seen from the feed; a rolled back id is gone. `OpenFeed` and
`FollowNext` are one query each. `NextCursor` is the algorithm of
`CursorPagination`: a cursor is a timestamp and a number of rows to skip after
it. `Answers` is what the database may return for `ORDER BY`: any order among
rows that tie, of which there are none under `Ordering`.

### State and actions of `Sessions`

`tokens` are those handed out and not expired, with their claims; nothing of
them is kept on the server, and the model needs the set only to let clients
present them. `Login` and `Refresh` issue, `Authenticate` checks the token and
reads the account, `ChangeAccount` is the admin site. A token is never revoked:
one from before a deactivation works again after a reactivation, until it
expires, which is what `SessionEnds` bounds. `signed_in`, `since` and `had` are
noted for the properties.

### State and actions of `Boot` and `DemoScript`

`environment` holds the switches (`RUN_MIGRATIONS`, `SEED_DEMO`, the command,
`REQUIRE_SHARED_CACHE` and whether the cache is shared); `applied` the recorded
migrations; `accounts`, `customers` and `batches` what seeds committed; `phase`,
`plan` and `work` belong to a container. `prepare` of the entrypoint is
`WaitForDb`, `PlanMigrations` / `Migrate` or `SkipMigrate`, then the seed or not,
then `Serve`; `RefuseToBoot` is the system check, which runs in the commands of
`manage.py` only. A seed is one transaction: `BeginSeed` (with what `--reset`
deletes), `EnsureStaff` per account, `SkipSeed` or `CheckTickets`, and per ticket
`Create`, then in phase `playing` one `Play` per call of a service, and `Played`;
`CommitSeed`. An insertion
waits while another open transaction holds the same unique row. `Kill` stops a
container anywhere. `DemoScript!Script` is the list of calls that index and
random draw give a ticket, and `Raises` whether the service refuses one.

### State and actions of `FrontDoor` and `ErrorEnvelope`

`current[w]` is the context variable of a thread, `history[a]` the throttle's
list in the cache, `answer[w]` the last answer with its status, code, the ids in
body, header and log lines. `Enter` resolves and sets the id, `AnswerByDjango`,
`Throttle`, `Succeed`, `Degraded` and `Raise` answer, `Leave` resets the variable,
sets the header and logs. `DjangoHandler` and `ApiExceptionHandler` are the two
tables of exceptions. The log lines are those of the application's own loggers;
the line that Django's own logger adds for a 5xx is written after the id was
reset and bears "-". A clock of `Second` ticks to a second lets a wait be a
fraction of one.

## 3. What is checked

Every run finishes in less than five minutes. Deadlock is not checked: the
number of requests and the clock are bounded, and a system whose clients have
stopped does stop.

| Run | Question | Bounds |
|---|---|---|
| `workflow` | does any interleaving of status changes, assignments and releases break the row, the history or the finality of closing? | 1 ticket, 2 workers, 3 users, 4 requests, every status |
| `mixed` | every operation, with and without `If-Match`, an account deactivated on the way: types, row lock, inductive invariant, what `If-Match` and `ETag` promise; does the API implement `TicketLedger`? | 1 ticket, 2 workers, 3 requests |
| `liveness` | does every admitted request end? | 2 tickets, 3 workers, fairness below |
| `colleague` | *violated*: an agent moves a colleague's ticket | |
| `intake` | repeats, customers, names, the budget, and does every submission end? | 2 workers, 3 submissions to one address, both doors, clock 0..2, hour 2, budget 2 |
| `overspend` | *violated*: the budget with two workers | budget 1 |
| `turnover` | deletions against requests: references, comments, owners, the story told | 2 workers, 3 requests, one account deleted |
| `traceless` | *violated*: a deletion against "no change without a trace" | 1 worker |
| `feed` | can a page be wrong while two workers append? | 7 ids, 2 workers, 1 reader, pages of 1 and 2, clock 0..2 |
| `seed` | boots that race, are killed, and are reset meanwhile | 2 containers and an operator, 2 migrations, 25 tickets, every combination of switches |
| `frontdoor` | ids, answers and waits of concurrent requests | 2 threads, 3 requests, clock 0..5 with 2 ticks to a second, a limit of 1 in 4 ticks |
| `sessions` | how long is a sign-in good for, and for what? | 1 user, 1 worker, lifetimes 2 and 3, clock 0..6, 2 changes of the account |

**Why the bounds are enough.** Tickets do not interact, so one ticket shows
every race on a row; two workers give every pair of requests, and three requests
let two of them race over what a third has prepared. Two workers suffice for a
race on the cache or on a customer's row, a third submission for a repeat after
the race, and for one more than the budget. In `intake` the windows of the
duplicate check are 0 and 1 ticks and the clock runs to 2, so a repeat falls
before, at and after the end of each, and the hour of two ticks ends within the
run, so that room comes back. Addresses do not interact either: the cache, the
customer and the fingerprint are all keyed by the address. `feed` has pages
shorter and longer than a run of ties, and enough entries for three pages of
either feed with a rolled back id among them. `seed` runs the 25 tickets of the
default, which is more than the period of the script's two remainders; two
containers give each race and the operator's `--reset` joins both. The limit of
`frontdoor` has room for one, so that the second request waits and a third comes
when it is told to; the times it can come at include fractions of a second.
In `sessions` refreshes reach the last moment of the refresh token and the
access token they give outlives it. Workers are interchangeable (symmetry),
except in the runs with liveness, which use none.

**Fairness.** In `TicketApi!FairSpec` a worker that can take its next step does
(gunicorn runs what it accepted), and a worker that waits for a row lock gets it
if the lock is free again and again (PostgreSQL queues waiters): weak fairness
of the service, commit and answer steps, strong fairness of `Acquire`. In
`PublicIntake!FairSpec` weak fairness of `Serve`. Nobody is obliged to submit,
to crash or to wait, and the clock may stand still. `Boot!Spec` has weak fairness
of `Advance` per container: a script that was started keeps running; nothing
makes the database come up, nor a container start.

**Findings.** Three statements of the documents do not hold of the code; each has
a run that TLC must find violated, and an entry under "findings" with the lines:

1. the permission is decided on an unlocked read, so an agent who does not send
   `If-Match` can change the status of a ticket a colleague has just taken
   (`colleague`); a client that does send it is protected, which is a theorem;
2. the hourly budget can be exceeded by concurrent submissions (`overspend`);
   while submissions of an address do not overlap it holds (`BudgetHeldOneByOne`);
3. deleting an account releases tickets without a trace (`traceless`). It also
   leaves tickets that wait for the customer without anybody for the reply to
   land on, against the comment at `enums.py:63`; `OnlyDeletionOrphans` states
   that nothing else does.

Behaviours that are in the models without a run of their own:

* a submission that dies after `SpendBudget` is charged for a ticket that does
  not exist, and `DeleteUser` clears the actor of events that `AppendOnlyModel`
  calls immutable;
* gunicorn with migrations and the demo both off runs no system check, so the
  refusal of `README.md:538` does not happen there: `PerProcessCacheIsRefused`
  names the exception;
* of two containers that plan the same migration the loser exits;
* a `--reset` that races a first seed leaves two batches: `OneBatch` counts those
  of the boots;
* a `SuspiciousOperation` is a 400 before a view and a 500 in one, which
  `SameAnswerOnEveryPath` excepts; and the code of a 401 for an expired token,
  `token_not_valid`, comes from the library and is in no table of the project.

That two *simultaneous* identical submissions open two tickets is documented
(ADR-15); `RepeatsCollapse` states exactly what remains true.

## 4. What is proved

Every theorem is about the specification of its module with arbitrary constants:
any number of users, tickets, workers, readers and requests, any lifetimes,
windows and limits. Nothing is assumed but the named assumptions of the modules:
`NamesAssumption`, `StaffAssumption`, `ClientAssumption` (`None` is not a user, a
text or a worker; calls and intakes are well formed), `IntakeAssumption`
(the windows, the hour and the budget are numbers, the workers are finitely
many), `FeedAssumption`, `SessionAssumption`, `DoorAssumption` (the ids a client can
send are not those the middleware makes: a UUID of the server's is never guessed)
and `BootAssumption` (one operator resets, at most).

| Theorem | Property | Module |
|---|---|---|
| `Invariance` | `IInv` | `TicketApi_proofs` |
| `TypeCorrect` | `TypeOK` | |
| `OneWriterPerTicket` | `LockMatchesTransaction` | |
| `Consistency` | `RowsConsistent` | |
| `NoStaleCopy` | `LockedCopyIsCurrent` | |
| `VersionsIdentify` | `SameVersionSameTicket` | |
| `CarefulClientsAuthorised` | `CarefulWritesAuthorised` | |
| `ClosedTicketsFrozen` | `ClosedIsFrozen` | |
| `ConditionalWritesExact` | `ConditionalWritesLand` | |
| `AnswersUpToDate` | `AnswersShowOwnWrite` | |
| `AuditedLedger` | `ImplementsLedger` | `TicketLedger_proofs` |
| `HistoryTold` | `HistoryTellsTicket` | |
| `HistoryUnbroken` | `HistoryIsChained` | |
| `NobodyIsMissing` | `ReferencesResolve` | `StaffTurnover_proofs` |
| `WorkIsNeverOrphaned` | `WorkKeepsItsOwner` | |
| `StoriesOnlyGrow` | `StoryOnlyGrows` | |
| `OnlyDeletionsOrphan` | `OnlyDeletionOrphans` | |
| `RepeatsAnsweredOnce` | `RepeatsCollapse` | `PublicIntake_proofs` |
| `CustomersComeWithTickets` | `NoOrphanCustomer` | |
| `PublicCannotRename` | `NameIsTrusted` | |
| `IntakeTypes` | `TypeOK` | |
| `BudgetKept` | `BudgetHeldOneByOne` | |
| `WritersInOrder` | `WriteInv`, the discipline of the writers | `TimelineFeed_proofs` |
| `AppendOnlyFeeds` | `AppendsLandAtTheEnd` | |
| `FeedsTellOneStory` | `FeedsAgree` | |
| `FeedInvariance` | `FeedInv` | |
| `NothingSkippedOrRepeated` | `PagesAreThePrefix` | |
| `TheEndIsTheEnd` | `LastPageIsTheEnd` | |
| `SignInsExpire` | `SessionEnds` | `Sessions_proofs` |
| `RightsFollowAccount` | `NoRightsFromBefore` | |
| `IdsNeverMix` | `OneIdPerRequest` | `FrontDoor_proofs` |
| `OneAnswerPerCondition` | `SameAnswerOnEveryPath` | |
| `WaitAsTold` | `RetryIsExact` | |
| `NobodyServesUnchecked` | `PerProcessCacheIsRefused` | `Boot_proofs` |
| `TheDemoIsSeededOnce` | `OneBatch` | |
| `WaitsEnd` | `NobodyWaitsInACircle` | |
| `TheDemoIsAllowed` | `NothingRefused` | |
| `TheDemoIsWhole` | `DemoIsWhole` | |

**The API.** None of the properties is inductive alone: that a careful
client is still authorised when its change is written needs that the version it
named is the version of the row, that this version identifies the copy its
permission was checked on, that the row has not moved since the lock was taken,
and hence that one worker at a time is in a transaction on a row. `IInv` is the
conjunction that is inductive: types, the lock discipline, the consistency of
committed rows, what a request knows (`RequestsInv`: it was permitted on what it
saw, which is the row unless the version moved on) and what an open transaction
will do (`TransactionsInv`: the staged mutation is `Sound` for the row as it
is). `TicketApi_proofs` first proves one lemma per service: applied to a
consistent, open ticket it gives a `Sound` transaction, that is, one whose saved
columns cover every change, that leaves the ticket consistent and moves the
version by one if it changes anything. It then shows that
`Init` implies `IInv` and that each action preserves it, and derives the
properties. The run `mixed` checks `IInv` on a small instance.

**The ledger and the history.** What a service did to the ticket it read is one
step of `TicketLedger` (`Ledgered`, a lemma per service): nothing, a remark, or a
set of fields that move, each told by one entry. `StepsInv` keeps that true from
the moment it is staged to its commit, since by `IInv` the row stays as it was
locked. So `Commit` is a step of the ledger and every other action a stutter,
which is `AuditedLedger`. The entries of such a step start where the ticket was
and end where it is (`Tells`); appended to a history whose last entries say what
the row says (`Story`) and whose entries follow on each other (`Chained`), they
leave both true. `StoryInv` is that induction, along `Next` and not along the
history, which is why no theorem about recursion is needed.

**Deletions.** `IInv` does not survive `DeleteUser`, which changes a row and
leaves its version. `TurnoverInv` is what does. A transaction still runs on the
row it locked, because a deletion waits for the row locks of the tickets it
changes; each service leaves work in progress with an owner, and the check
constraint refuses to delete that owner; and whether whoever the new row and the
new events name still has an account is checked at the commit, where the
database checks its deferred foreign keys. `Anonymised` clears actors and
nothing else of an event, so the story goes on where it was.

That only a deletion orphans a ticket is `OrphanInv`: whoever the last entry
about the assignee names holds the ticket, or has no account any more and nobody
does (`Heard`), and what a worker has staged moves the row and tells of it alike
(`Moves`, a lemma per service). A change of status makes a ticket wait for its
customer only out of work in progress, which has an owner, and the services that
let go of a waiting ticket return it to the queue.

**The intake.** The properties are about committed tickets and customers, and
they are kept because of what a worker on its way to a commit knows: whether the
customer exists, that nobody else is inserting it (`OneInserter`, the unique
index), and that among the tickets it saw before it went on there is no repeat
of its own. `IntakeInv` adds those to the properties.

The types need one thing more: a worker that has read the history and found room
writes back at most what the budget allows (`RoomLeft`), whoever wrote meanwhile.

For the budget of one address, `BudgetInv` counts what it was *spent* on: its
public tickets, and the submissions that are past the throttle and have no ticket
yet (`Spends`). The history in the cache remembers as many entries from any
moment of the last hour on as were spent since (`Remembers`); and so does the list
a submission holds between its read and its write, as nothing is spent meanwhile
(`Reckons`), which is where it matters that submissions go one by one. A list with
room for one more therefore leaves room in every hour that ends with it. A commit
turns a submission into its ticket, an injection, and a crash only takes one
away. Cardinalities are compared through such injections.

**Feeds, sign-ins, ids.** `WriteInv` says that whoever inserts holds the row
lock and inserts behind everything committed; a timestamp and an id taken under
the lock are therefore larger than all that is visible. `SessionInv` knows of a
token that it is no later than what its sign-in can buy, and of a request that
its role is one the account has had since it came. `DoorInv` knows that a thread
is entered with no id left over, and that ids the middleware makes are new.

A page is found by counting: the place of a row is the number of rows before it
(`Rank`), and whatever becomes visible comes behind what is, so no rank changes.
`ReadInv` says that a client has read the rows of ranks 1 to k, in order, and that
its bookmark, the rows before a timestamp and those it skips, stands for exactly
k rows. Both feeds and every order the database may choose are covered, since
under `Ordering` no two rows tie.

`SameAnswerOnEveryPath` follows from the two tables, row by row, and from the
condition and the status each row has. `WaitInv`, for the waits: as long as an
address has been told to wait and nobody else from there was let in, its list is
full and ends with the request the wait was reckoned from; rounding up to whole
seconds is then less than a second too long.

**Boot.** Three invariants. `CheckInv`: a container past `prepare` has run the
checks, or runs gunicorn with migrations and the demo off. `SeedInv`: while no
account is committed, what an open seed has ensured it has inserted, so the first
account lets one seed on and the others wait for it; once there are accounts there
are tickets, and only a seed that resets goes on. So nobody waits for a seed that
waits (`WaitsForOneAhead`): accounts are inserted in one order and before any
customer, and whoever got the first, or resets, has nobody ahead. `PlayInv`: a ticket and the calls left to make of
it are at one of the points of its script, and at each the service allows the next
call, for every index and draw; so the tickets end in the status of their index.

**Only model-checked.** Liveness (`EveryRequestEnds`, `EverySubmissionEnds`,
`SomebodyServes`): it rests on fairness, which is out of
the prover's reach. Every other property of a passing run is a theorem. Where one
speaks of a list it is read by its last entry (`SaidToHold`) or by which entries
are kept (`Pruned`), not by `SelectSeq`, about which the library says nothing; and
where an argument goes along a list or a page it is one about cardinalities or
about a least element (`WellFoundedInduction`), since the induction theorems of
the library cannot be instantiated.

## 5. Plan

Done: the API with its ledger; the intake and its throttle; deletions of accounts;
the feeds; sign-ins; boot and seed; the envelope, the per-IP limits and the
request ids; and the proofs above.

Left, in this order:

1. Model: `parse_if_match` as a pure algorithm against the grammar of
   `If-Match`; an abstract sliding window that the per-email throttle implements
   when submissions do not overlap and the per-IP one when requests do not; the
   `test` command of the entrypoint.
2. Prove: that the throttles implement the sliding window of 1., from `BudgetInv`
   and `WaitInv`.

## 6. Not modelled

* **Listing, filtering and search**: queries without state. With page numbers
  and an order by `created_at` alone they promise nothing across pages.
* **The admin of tickets**: read-only.
* **The content of migrations**: generated from the models; that they are
  applied, and by whom, is `Boot`.
* **Of authentication**: signatures, passwords and `UPDATE_LAST_LOGIN`; of
  accounts: creating and renaming them. An event keeps a name as text, so a
  renaming touches no history.
* **Production's own settings** and the `test` command of the entrypoint;
  `frontdoor` runs with `DEBUG` off.
* **Of a ticket**: `last_activity_at`, `updated_at`, notes and texts, on which
  nothing decides.
* **`parse_if_match`** as a parser: it gives a version the client was given, or
  the request is refused.
* **A change of role** is an action of `Sessions` only. In `TicketApi` it would
  move the moment at which a permission was decided, which the unlocked read
  does already.
* **Serialization failures and lock timeouts**: they do not occur under READ
  COMMITTED with no timeout set, which is what the settings give.
* Rendering, log formats, the index of the API and its schema.
