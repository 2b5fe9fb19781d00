# rss2go in TLA+

This directory specifies the core of rss2go, a daemon that polls web feeds and
mails their new items to subscribers. Modules translate the Go code under
`src/`; TLC checks them on small instances, and TLAPS proves every safety
property of the passing runs for every value of the constants.

`PROJECT.json` lists every run, what it checks, the lines of code behind each
definition, and the hazards the properties are aimed at.

## The system

| Component | State | Operations | What is hard | What makes it correct |
|---|---|---|---|---|
| Scheduler (`internal/scheduler/scheduler.go`) | in-flight map, WaitGroup, shutdown channel | `Start`, `pollFeeds`, `TriggerCrawl`, `Stop` | goroutines per feed, flags taken and dropped under separate lock acquisitions, a semaphore per poll, shutdown against scans | one crawl per feed, no flag outlives its crawl, shutdown waits and ends, no due feed starves |
| Feed crawl (`processFeed`, same file) | the in-memory feed, subscribers and items of one crawl | fetch, save cache markers, per-item check, queue or mark | each statement is a transaction of its own while operators edit the same rows; ETag stored before the items | no item mailed twice, none lost, edits kept, deleted feeds silent |
| Outbox worker (`internal/outbox/outbox.go`) | rows of `outbox`, the batch in memory, WaitGroup, once, shutdown channel | `Start`, `processPending`, `deliverItem`, `Stop` | crashes between sending and recording, ambiguous sends, `Start` calling its own `Stop` | at most one delivery per confirmed send, bounded retries with backoff, shutdown waits and ends |
| Mail senders (`internal/notifier/notifier.go`) | one cached SMTP connection under a mutex | `Send`, `getClient`, `connect`, `closeCached` | any command may fail or time out, an acceptance may go unheard, callers share the session | sessions never mix, broken connections are never used, all recipients or none |
| Log broadcaster (`internal/server/server.go`, `handleGetLogs`) | ring of 100 lines, channel per browser | `Broadcast`, `RegisterWithReplay`, `Unregister`, the stream handler | registration between two lines, slow browsers, wrap-around | replay and live lines join without gap or repetition |
| Repository (`internal/database`) | the SQLite tables | one statement or `WithTx` at a time: the pool has one connection | cascades, partial transactions, ids and rowids given and freed in any order | no row refers to a deleted one, no id and no item twice |
| HTTP handlers (`internal/server/handlers.go`) | none of their own | create, edit, delete, subscribe, catch-up, rewind, scan, preferences page, statistics, logs | run at any time between two statements of a crawl, or of a page | an answered request has the effect it says, all of it or none |
| Legacy import (`cmd/import_legacy/main.go`) | none; reads one database, writes the other | users, feeds, subscriptions, seen items, a statement per row | killed half way, run again, run beside the daemon, with ids of its own | what is there is kept, the rest is completed |
| Configuration (`internal/config/config.go`) | none after `Load` | defaults, file, environment, flags, `Validate` | garbage in any source, three ways to name the file | the strongest source decides; the daemon never starts on an unusable value |
| Process (`cmd/rss2go/main.go`), HTTP server (`internal/server/server.go`) | configuration, database handle, listener, the context of all workers | open, migrate, launch, listen, signal, exit | two processes on one database, signals and kills at any point, `main` waits for the HTTP server only | no work on a half migrated database, a signal ends the process, one daemon per address and database |
| Crawler, extractor, sanitizer | none | fetch and parse, extract, sanitise | failures in the middle | a failure skips, it does not lose |
| Logger (`internal/logger/logger.go`) | the global level and the levels of components | `Setup`, `Handle` | components inside components, a minimum shared by all sinks | the most specific level decides |
| Dashboard (`internal/server/ui`) | browser state | | | not modelled, see below |

Interaction: the scheduler writes `outbox` rows that the outbox worker reads;
the handlers change the feeds, users, subscriptions and seen items that crawls
read and write; the import and a second process work on the same tables; the
worker calls `Sender.Send`; every component logs through
the broadcaster. All of them share the one database connection, so a statement
or a transaction is one step of the models, and anything may happen between two.

## Modules

| Module | Models | Read it for |
|---|---|---|
| `MailLifecycle` | abstract | what the outbox promises of each mail |
| `Outbox` | `Queue` and the `outbox` table | delivery under crashes and shutdown |
| `OutboxProofs` | theorems about `Outbox` and `RetryDelay` | |
| `RetryDelay` | `calculateBackoff` in integers of bounded width | the delay between attempts |
| `Induction` | | lemmas the proofs share: least counterexamples, recursive searches |
| `MailTransport` | abstract | what a call of `Sender.Send` promises |
| `SMTPSender` | `SMTPSender` and a mail server | the shared connection |
| `SMTPSenderProofs` | theorems about `SMTPSender` | |
| `FeedLedger` | abstract | what a feed promises of its items |
| `FeedCrawl` | `processFeed`, handlers and tables, for one feed | what is queued and marked |
| `FeedCrawlProofs` | theorems about `FeedCrawl` | |
| `Scheduler` | `Scheduler` without the inside of `processFeed` | which crawls run, shutdown |
| `SchedulerProofs` | theorems about `Scheduler` | |
| `LogBroadcaster` | ring, channels, `handleGetLogs` | replay and live lines |
| `LogFilter` | the level filters of the logger | which records become lines |
| `LogStream` | a broadcaster fed by the logger | what browsers see of the records |
| `LogBroadcasterProofs` | theorems about `LogBroadcaster`, `LogFilter` and `LogStream` | |
| `Tables` | `repository.go`: feeds, users, subscriptions, seen items, as functions of the tables | what one statement does, cascades and ids |
| `Administration` | handlers, preferences page and legacy import over `Tables` | who changes the tables besides crawls |
| `AdministrationProofs` | theorems about `Administration` and `Tables` | |
| `Configuration` | `config.Load` and `Validate` | what a command line, environment and files amount to |
| `Loading` | one call of `config.Load` | which file is read |
| `Daemon` | `main`, `database.Open`, `Server.Start` and `Stop`, for several processes | start, migration, listening, shutdown |
| `DaemonProofs` | theorems about `Daemon` and `Configuration` | |
| `MC…` | | constants of the runs |

### Outbox

`status`, `retries`, `wait` are the columns `status`, `retry_count` and
`next_attempt_at` (relative to now). `pc` is where the goroutine of `Start`
stands; `batch`, `copy`, `cur` are the slice `processPending` iterates, the
in-memory retry counts and the row in `deliverItem`. `stop[c]` follows a call of
`Stop` through `sync.Once`, the mutex, the close of the channel and `wg.Wait`.
Each action is the code between two points at which another goroutine, a failed
statement or a crash can show: the claim (`UpdateOutboxItemStatus` to
"delivering"), the server's acceptance, the return of `Send`, the record of the
outcome. `Die` discards everything but the table; `Restart` runs `NewQueue` and
`Start` on it. `accepted`, `ambiguous` and `rest` are history.

`MailLifecycle` states the same from outside: absent, pending, delivering, then
delivered, pending again, or failed. `Outbox` implements it under
`tries <- retries`.

### SMTPSender

`mu` and `cached` are the sender's fields, `client[c]` the local variable of
`Send`. `session` and `envelope` are what the server knows of a connection. A
command succeeds only in the server state it belongs to; any command may fail. A
server that stays silent behaves as one that refuses, because every operation
runs under `opTimeout`. `MailTransport` is the promise that `Outbox` builds its
actions `ServerAccepts`, `SendSucceeds` and `SendFails` on.

### FeedCrawl

One feed. `row` is its row in `feeds` (an ETag and everything else an operator
sets), `snap` the `*types.Feed` that `processFeed` changes and writes back. The
site publishes versions of the document; an item is its identity (GUID, else
link, else title). `read` is a row read by `ListFeedsDue` or `GetFeed` and not
yet crawled, which may be stale when its crawl starts. `mails` counts outbox
rows queued per item and subscriber. `Abort` ends a crawl between any two
statements: shutdown in the item loop, cancelled context, or crash.

`FeedLedger` states the same from outside: a feed that is unused, live or
deleted, the items that are seen, and the mails. An item is mailed while the feed
is live and the item unseen, in the step that makes it seen. A ledger may mail
an item to any set of subscribers; the code mails it to one at most
(`crawl_subscribers`). `FeedCrawl` implements it with the variables as they are.

### Scheduler

`due` is the order `ListFeedsDue` returns. `task[k][f]` is a crawl of feed `f`
that a poll or a scan started; its phases are the places where it shows to the
others: crawling, `UpdateFeed`, the items, the slot, the flag. `fresh` tells the
goroutines on the semaphore of the current poll from those of earlier polls.
`requested` is the time between the flag that `TriggerCrawl` sets and `wg.Go`.

### LogBroadcaster

A line is its number. `ring`, `ringHead`, `ringLen` are the fields; `History` is
`historyLocked`. `replay` and `sent` belong to the handler; `lines`, `from` and
`lost` are history.

### RetryDelay and LogFilter

These are algorithms without state. `CalculateBackoff` is translated with the
width of its integers as a constant, so that every configuration of a small
width can be tried; `Outbox` has the two durations of the configuration as
constants and waits as it says (`Backoff`). `Effective` follows the loops of
`filterHandler.Handle`, backwards over the components and up each path, and
`Writes` adds the minimum that every sink applies; `LogStream` makes the lines of
`LogBroadcaster` of the records that pass it. Of a line's text it keeps the levels
whose marker stands anywhere in it (`markers`): `LineLevel` takes the most severe
of them for the level of the line, as `lineLevel` does, whatever the record's own
level is.

### Tables and Administration

`Tables` holds the tables as one record and each statement as an operator that
yields the tables after it and whether it succeeded; `WithTx` keeps what a body
did only if all of it succeeded. A feed is its URL, a user the address.
`lastFeed` and `lastUser` are the rows of `sqlite_sequence`.

In `Administration` a request of an operator is one step, because each is one
statement or one transaction. The preferences page is not: `handleSubscriberManage`
reads the user, the feeds and the subscriptions in three statements (`PageUser`,
`PageFeeds`, `PageSubs`), the subscriber sends the page back whenever they like,
and `handleSubscriberUnsubscribe` looks the user up again (`Submit`) before its
transaction (`SaveTx`). `todo` holds the rows of the import's current stage that
are still to be inserted; each is a statement of its own. `Mark` stands for the crawls and
catch-ups of `FeedCrawl`. `SavesExactly` names one exception: the import may
give the id of a deleted account to the legacy address that had it.

### Configuration and Daemon

An option is a field that `Validate` looks at. Of its values only the usable
ones, one that is refused, and, for a number, garbage are told apart. A command
line may name a file by `-config`, by `RSS2GO_CONFIG`, or both (`named`), and
`-config` may stand behind another flag (`late`). `Place` is the file that
`Load` settles on, `Over` lays one source over another. A file or a command line with
garbage stops the daemon; garbage in an environment variable is passed over.

What is promised does not ask what `Load` settled on. `Intended` is the file by
the order of `config.go:59`, flag, environment, default; `Told` says that this file
was read and each option has the value of its strongest source, or that loading
was refused for a reason. `Load` keeps this promise where the command line is
`Clear`: one file at most is named, and `-config` comes first. Elsewhere it does not
(`loading_file`); `RunsAsTold` then asks only that some file named, or the
default one, explains every option.

`Daemon` follows each process through `main`: `open` and `migrate` are the loop
of goose, which reads the version in one statement and applies the next
migration in another; `launched` is the time after the workers were started;
`binding` and `serving` are `ListenAndServe`; `shut` is the goroutine that waits
for the context and calls `Stop`. Goose and `net/http` are external: modelled by
what `db.go` and `server.go` see of them. `Repeatable` is read off the migration
files: of the four only the third, an `UPDATE`, can be applied twice.

## Runs

| Run | Checks | Instance |
|---|---|---|
| `outbox_faults` | types, no double delivery, at most one stranded row per interrupt or failed statement, backoff, shutdown waits, no `wg.Add` during `wg.Wait`, `MailLifecycle`; `calculateBackoff` doubles up to its maximum without overflow; a cancelled worker ends and every call of `Stop` returns, undisturbed rows are settled | two rows, two attempts, one other caller of `Stop`, one interrupt, one failed statement; all delays and maxima of six bits |
| `outbox_durable` | violated: every row is settled | one row, one interrupt |
| `crawl_faults` | types, no item queued twice, `FeedLedger` (an item is mailed only while it is unseen, in the step that makes it seen; a deleted feed mails nothing) | two subscribers, one item, an edit, a rewind, a failure, an aborted crawl |
| `crawl_quiet` | a stored ETag hides no unseen item, every item is seen to | one subscriber, two versions with two items, an edit, nothing fails |
| `crawl_subscribers` | violated: every subscriber is queued | two subscribers |
| `crawl_edit` | violated: an edit is kept | one edit |
| `scheduler` | types, one crawl per feed, flags owned and WaitGroup exact, shutdown waits for polls' crawls and ends, no due feed starves | two feeds, one always due again, one worker, a scan, one other caller of `Stop`, a cancellation, a failed statement |
| `smtp_sender` | types, sessions serialised, broken connections unused, no leak, `MailTransport` (which has all or no recipients), every call returns | two callers, two addresses, three calls, two connections |
| `log_follow` | types, ring holds the latest lines, no gap and no repetition, lines arrive; the most specific level decides what is written, and no text hides a record from a browser that asks for its level | two connections with two levels, ring of two, channels of one, five lines; all configurations of up to two overrides over paths of two parts |
| `administration` | types and references, uniqueness and ids intact, a save is exact, refused or without effect on others, an import completes | two addresses, two URLs, two guids, two ids of each; two requests of operators, one failed statement and one killed import beside one page |
| `daemon` | types, each process runs with what a clear command line told it, no work before the last migration, of two daemons on one address one leaves, a signal ends a process | two processes on a new database, two addresses, four migrations, two options in all their sources |
| `loading_file` | violated: the file is the one the command line tells of | every command line of the two options |

Why the bounds are enough. Two attempts are the least at which a retry and a
giving up both occur; two rows the least at which one is stranded while another
is delivered. A second subscriber, a second feed and a second caller are the
least that can interfere; a third of either adds no new pair. One interrupt of
the outbox worker is a cancellation or a kill at any point, with a restart on what
it left and a failed statement before or after it; what several of them do, one
after another, is covered by the theorems, which hold for any number. A ring of two with five lines
is partly filled, full, and wraps twice. The bounds are constants in the guards:
`MaxInterrupts`, `MaxDBErrors`, `MaxEdits`, `MaxRewinds`, `MaxFailures`,
`MaxAborts`, `MaxScans`, `MaxDials`, `MaxCalls`, `MaxLines`, `MaxId`,
`MaxRequests`, `MaxKills`. Two requests of operators are the least that can
delete the account of an open page and create another; one killed import leaves
any set of rows behind. `Daemon` needs no bound: kills, restarts and signals
come without limit. Subscribers are
interchangeable in `crawl_faults`, which uses symmetry; it checks no liveness.

Deadlock is checked except where the system may really stop: the scheduler once
`Start` has returned, the sender once its calls are used up, the log once
its lines are and the browsers have gone, and the administration once the
requests are used up and the import is refused a row.

Each property of a passing run has a variant of the code (commented "Variant" in
the modules) under which TLC finds it violated.

### What the violated runs show

1. `outbox_durable`: a row set to "delivering" whose process is interrupted is
   selected by no later listing; it is neither delivered nor given up.
2. `crawl_subscribers`: the first subscriber's transaction marks the item seen,
   so the transactions of the others find it seen and queue nothing.
3. `crawl_edit`: `processFeed` writes back the whole row it read before the
   crawl; an edit made in between is undone.
4. `loading_file`: the first pass over the flags stops at a flag it does not know
   (`config.go:61`), so a `-config` behind one is not read, and where its file is
   missing, that is no error; and `RSS2GO_CONFIG` replaces the file of a `-config`
   that is read (`config.go:69`).

### Met while modelling

These have no run of their own. Some are consequences of what is above, others
concern a promise no line of the repository makes.

Crawls.

- The ETag is stored before the items are processed (`scheduler.go:229`); after a crawl
  that was cut short the site answers 304 and the rest is never queued.
  `EveryItemSeen` therefore holds only where nothing fails.
- A catch-up crawls with the stored ETag and marks nothing on a 304.
- Each poll has a semaphore of its own, so crawls that outlast a poll interval
  come on top of `MaxWorkers`.
- `Scheduler.Stop` lacks the mutex the outbox worker has: where a goroutine
  other than `Start`'s calls it, a poll or a scan may start a crawl after it has
  returned. `PollCrawlsWaited` excludes that caller; `main` is none.
- A poll interval of zero, which a PUT may set, makes a feed due at every poll.
- `crawler.go:72` rewrites feeds whose URL holds
  `mutate_url_to_invalid_after_crawl=1`, a hook of the tests.

Preferences and import.

- The page sends a whole set of feeds back, so what operators changed after it
  was shown is undone; if one of its feeds has been deleted, a foreign key fails
  and the whole save with it.
- The secret of the page's links is drawn at each start of the process, so links
  in mails sent before it are refused.
- Where accounts or feeds exist before the import, it passes over legacy rows
  whose address or URL is there and attaches their subscriptions to whatever has
  the legacy id, or ends at a foreign key. `ImportCompletes` speaks of undisturbed tables.
- It writes the strategy "css", which the third migration renames to "selector".

Process and logs.

- `lineLevel` looks for its markers in the whole line (`handlers.go:715`), the most
  severe first. A record whose message or attributes hold " ERR " or the like
  is therefore also shown to browsers that asked to be spared its level; none is
  hidden by it, which is what `FilterObeyed` says.
- The workers run before the server listens (`main.go:152`): a second daemon on
  the same database and address may crawl and deliver until it finds the address
  taken, and leaves by `os.Exit` past every `defer`. With another address it stays.
- `main` returns when the listener is closed. It waits neither for requests
  that are being answered nor for the workers.
- Goose takes no lock. A process that read an old version may apply the third
  migration again after the fourth; the version is then back at three, and every
  later start fails at the fourth.

## Fairness

Weak fairness of a goroutine's next step is the Go scheduler's, together with
timeouts: HTTP requests, SMTP operations and SQLite's busy handler all end.
Strong fairness is assumed in three places. A `select` picks among ready cases at
random, so a way out that is ready again and again is taken (`SelectExit`). A Go
mutex hands itself over to a goroutine that has waited long (`Lock` of
`SMTPSender`). A feed that is polled again and again has its crawl started
(`StartCrawl` of `FeedCrawl`), which `DueCrawled` of `Scheduler` supports. No
fairness is assumed of operators, browsers, servers' answers, faults, or the end
of a scan's context, except that time passes, that a dead process is restarted in
`Outbox`, and that somebody runs the import until it is through.

## Proofs

Each `…Proofs` module has the same shape: an inductive invariant, put together
from named parts; a lemma that `Init` implies it; one lemma for each action or
group of actions that keeps it; and theorems that draw the properties of the runs
from it. The theorems hold for any sets of rows, feeds, callers, browsers and so
on, and for any values of the bounds: any number of crashes, failures, edits.

Outbox (`OutboxProofs`).

- `TypeCorrect`: `TypeOK`, inductive only together with where `cur` and `copy`
  stand at each `pc`.
- `DeliveredOnce`: `NoDoubleDelivery`. It needs that the acceptances of a row are
  covered by its ambiguous sends at every `pc`, that a row which a listing holds
  was pending or failed and not delivered, and that only the claimed row is
  "delivering" with an open attempt (`Tally`).
- `StopHasWaited`, `AddBeforeWait`: `StopWaits` and `NoAddDuringWait`, from the
  fact that `wg` is one exactly while a cycle is registered and that `stopped`
  is set before any caller waits (`StopInv`).
- `BackoffPasses`: `BackoffHonoured`. A claim looks at a copy of the row, so the
  invariant speaks of the time in between: what has passed of a waiting row's
  backoff and what is to come are together the whole of it, and the rows of the
  batch are due (`Rested`).
- `DelaysKept`: `DelayDoubles`, from `Rested` and from what is proved of the delay
  itself, in integers of any width. `ScaleExact`: dividing the maximum by the
  initial delay before multiplying gives the exact product or the maximum.
  `DelaysDouble`: the delay doubles with every attempt until it reaches the maximum
  and stays there; the shift never overflows, because the guard on it leaves two
  bits. Induction over the attempts is done by a least counterexample in a set
  (`UpTo` of `Induction`).
- `FewStranded`: `StrandedBounded`. The bound is on a count, so each step is shown
  to add one row to `Stranded` at most; a cancelled worker with a row in hand has
  that row put down to the cancellation in advance (`Owing`).
- `WorkerImplementsLifecycle`: every step of `Outbox` is a step of
  `MailLifecycle` or leaves its variables alone.

Scheduler (`SchedulerProofs`).

- `CrawlsExclusive`, `FlagsAreOwned`: `OneCrawlPerFeed` and `FlagsOwned`. Neither is
  inductive alone: exclusion rests on the flag, and that the flag says enough on a
  feed having at most one owner among crawls, scans about to start and the loop
  that waits for a slot (`OneOwner`). The WaitGroup is counted along by lemmas
  about what one step does to the set of running crawls.
- `StartWaits`: `PollCrawlsWaited`, from the order of the calls of `Stop`: a caller
  that finds `once` taken is not the first (`StopOrder`). Where nobody else calls,
  the loop's own call therefore runs the body and waits for a count that includes
  every crawl of its polls.
- `TypeCorrect`: `TypeOK`.

Mail senders (`SMTPSenderProofs`).

- `SessionsTakeTurns`, `BrokenIsGone`, `NoLeak`: `SessionsSerialised`,
  `BrokenNeverUsed` and `NoConnectionLeak`. Together: whoever is past `Lock` holds the
  mutex; the cached connection is open and sound; the holder's connection is the
  cached one or the one being set up; nobody else has one; and a connection that
  is dialled is new (`Mutex`, `Connections`).
- `SenderImplementsTransport`: `SMTPSender` implements `MailTransport`. This needs
  what the server has been told: at each `pc` the envelope of the holder's
  connection holds exactly the recipients that are no longer to do (`Envelopes`).
- `TypeCorrect`: `TypeOK`.

Feed crawl (`FeedCrawlProofs`).

- `NeverQueuedTwice`: `QueuedOnce`, inductive over the types: it balances the
  mails of an item against its mark and its rewinds.
- `CrawlImplementsLedger`: every step of `FeedCrawl` is a step of `FeedLedger` or
  leaves its variables alone. It needs only that a feed that is not there has no
  seen items (`Emptied`), or a rewind could touch one.
- `EtagHidesNothing`: `ConditionalGetSafe`, with the bounds of `crawl_quiet`: no
  failed statement, no rewind, no abort. With any of them it is false (see "Met
  while modelling"). The ETag is stored before its items are looked at, so the
  invariant says of every copy of an ETag, in the row, in a row that was read and
  in the crawl, that its items have been seen to or are pending in the crawl under
  way (`EtagsHonest`). `MaxVersion`, the documents, the subscribers and the number
  of edits are free.
- `TypeCorrect`: `TypeOK`.

Log (`LogBroadcasterProofs`).

- `RingIsLatest`: `HistoryIsLatest`, for a ring of any size: the slot that was
  written `a` lines before the last one holds that line (`RingHolds`).
- `StreamIsSeamless`: `NoGapNoRepeat`. What was sent, what is left of the replay and
  what waits in the channel are three rising sequences, each ending before the
  next begins (`InOrder`), and between them they hold every line since the oldest
  one replayed that passes the level and was not lost (`Complete`). The property
  itself says this of the stream: it rises, and its values are those lines.
- `TypeCorrect`: `TypeOK`, which needs both: `History` is made of lines only
  because of where these are in the ring.
- `FilterExact`: the first half of `FilterObeyed`, for paths and records of any
  length. The loops of `Handle` are recursive functions, of which the
  provers know neither that they exist nor what they yield. Both loops are searches
  from the end of a sequence, so one lemma of `Induction` finds the function as the
  one with the value at the last hit (`SearchExists`), and another reads off
  it what was searched for (`SearchFindsLatest`).
- `NothingHidden`: `FilterObeyed`, from that and `StreamIsSeamless`: the level read off
  a line is at least that of any marker in it, so a record whose own marker stands
  in its line passes for each browser that asks for its level, whatever else the
  text holds. The converse is false of the code.

Tables and administration (`AdministrationProofs`).

- `TablesIntact`: `Intact`. Each statement of `Tables` has a lemma that it keeps the
  tables sound (`Sound`), and a transaction of such statements keeps them so. That
  any set of rows has a newest one is part of the invariant (`Topped`), without
  which "one more than the largest rowid" would not be known to be a number.
- `SavesAreExact`: `SavesExactly`. It needs what the page remembers: the id it
  looked up still belongs to the address, to nobody, or to the legacy account the
  import restored, because no id is given twice (`LooksUp`); and while nobody else
  changes the tables, what was read is what they hold (`StillTrue`).

Process and configuration (`DaemonProofs`).

- `TypeCorrect`: `TypeOK`. Inductive with two facts (`Typed`): the
  goroutine that stops the server finds it made, and a process migrates only
  where a next migration exists.
- `SchemaBeforeWork`: `SchemaComplete`. A process becomes ready because of the
  recorded version, so one needs that this version, and each version that another
  process has read and means to go on from, stands for all migrations up to it
  (`Migrated`). No migration is taken back, so what was complete stays so under a
  rival that applies an old one again.
- `LoadsAsTold`, `RunsWhatWasTold`: what `Load` does is explained by one of the
  files named or the default one (`LoadObeysPlace`), through a closed form of what
  the layers leave of an option (`LoadTakesStrongest`); and where the command line
  is `Clear`, that is the file it tells of, so `Told` holds, and `RunsAsTold` holds of
  every process. `FileAsTold`, without `Clear`, is what `loading_file` refutes.

The assumptions are the named ones of the modules, which TLC evaluates in their
runs. They say what kind of value a constant is; `PowersOfTwo` of
`RetryDelay` is arithmetic, of which the provers know nothing: a power of two
doubles with its exponent.

Left to TLC is liveness, which is out of this prover's reach: `ShutdownEnds`,
`SettledUnlessDisturbed`, `EveryItemSeen`, `CancelEnds`, `DueCrawled`,
`SendReturns`, `LinesArrive`, `ImportCompletes`, `RivalLeaves`, `SignalEnds`.

## Plan

Done: all modules above, with every safety property of the passing runs proved.

Next: the delay of a feed's next poll, which is the factor of its backoff and
`parseRetryAfter`, in integers of bounded width.

## Not modelled

The extractor and the sanitizer transform HTML and keep no state; their failures
are branches of `FeedCrawl`. Rendering in the dashboard, static files and
routing are I/O around the handlers. Handlers and listings that only read (the
dry run, the item preview, statistics) change nothing another part could see.
`SendmailSender` runs one command. SQLite, goose, `net/http`, the web sites, the mail server and the
clock are external: modelled by what the code can observe of them.
