# TLA+ models of the energystore

The energystore receives the quarter-hour energy values of energy communities
over MQTT, keeps them in one Badger database per tenant and community, and
answers reports from them. This directory holds TLA+ models of its concurrent
and failure-prone parts, their TLC configurations, and TLAPS proofs.
`PROJECT.json` relates every definition to the source lines it models and lists
the runs, hazards, findings and theorems.

## The system and its parts

1. The **MQTT client** (`mqttclient/mqttClient.go`) delivers the messages
   (CR_MSG) of all tenants; a message is acked by the application, and an unacked
   one is delivered again when the session reconnects.
2. The **dispatcher** (`mqttclient/dispatcher.go`, `executors.go`) queues the
   messages per tenant and runs batches in a fixed number of lanes; it opens and
   closes the executors of the tenants under a hard cap.
3. The **batch import** (`importBatch.go`, `importRuns.go`, `energyExecutor.go`)
   decodes a batch, stores it by part, community, run and day, replies
   `cr_msg_history` for what is stored and tells the dispatcher what to ack.
4. The **store writers** (`store/importFunctions.go`, `store/importBatch.go`,
   `store/deleteRawData.go`, `excel/`) change the record `cpmeta/0` (metering point
   -> SourceIdx and period) and the rows (one per quarter hour, values packed by
   SourceIdx), serialised per database by `LockWrites`.
5. The **connection pool** (`store/ebow/pool.go`) shares an open database among
   its users and closes it with the last handle.
6. The **value log GC** (`store/ebow/vloggc.go`) rewrites value log files of the
   databases once a night, through a handle of the pool, and the **readiness
   probe** (`store/ebow/ready.go`) writes a file to see whether the volume works.
7. **`main`** (`server.go`) starts all of this and ends it in a fixed order.
8. The **bow layer** (`store/ebow/db.go`, `bucket.go`, `iter.go`, `range.go`) puts
   buckets, batches and iterators on top of Badger.
9. The **read requests** (`rest/`) look up the metering points a member may see
   (`ownmeters/`, cached), read rows and `cpmeta/0`, and compute reports: the query
   engine (`store/`), the billing check, the Excel export (`excel/`) and the energy
   report (`calculation/`).

## Modules

| Module | Models | Main state | Runs |
|---|---|---|---|
| `Dispatcher` | `TopicDispatcher`, executor lifecycle | queues, `ready`, `busy`, `open`, the lanes' places, the two condition variables | `dispatcher` |
| `DispatcherProofs`, `DispatcherLaneProofs` | theorems about `Dispatcher` | | |
| `Import` | `executeBatch`, `ExecuteBatch`, `ImportBatch`, `Import` | the lane's call stack (`lane`), the stored cells, acks, replies | `import`, `import_rerun`, `import_reorder` |
| `Handles` | abstract: what the pool promises | who holds a handle, which database is open | (in `pool`) |
| `Pool` | `Pool`, `DbPoolObject` | `inUse`, `db`, `closed`, the clients' handles | `pool` |
| `Store` | import, registration, Excel upload, delete on one store | `meta` (cpmeta/0), `rows`, the lock, each job's copy and buffer | `store`, `store_torn`, `store_unread` |
| `VlogGC` | `StartVlogGC`, `runVlogGC`, `collectDatabase`, `dryRunDatabase` | the clock, `vlog` (files and discards per database), the run and its budget | (in `service`) |
| `Ready` | `Ready`, `checkReady`, `probeDir` | the running check, the probes, the callers | (in `service`) |
| `Service` | `main`, with `Pool`, `VlogGC` and `Ready` | `main` | `service` |
| `Bow` | `DB`, `Bucket`, `Iter`, `Range` | `badger` (on disk), `bow` (in memory), the users' calls | (in `reads`) |
| `Query` | `Engine.Query`, the cache of time buckets, report functions | none: operators | (in `reads`) |
| `Billing` | billing check, Excel export | none | (in `reads`) |
| `Energy` | energy report, time windows | none | (in `reads`) |
| `Members` | windows of a member's metering points | none | (in `reads`) |
| `Requests` | the handlers, `Resolver.Meters`, a writer beside them | `req`, `db`, `cache`, `flight`, the backend | (in `reads`) |
| `Reads` | reference definitions and properties of the answers | | `reads`, `reads_last_day`, `reads_member_window` |
| `StoreProofs`, `BowProofs` | theorems about these modules | | |
| `ImportProofs`, `ImportStoreProofs` | theorems about `Import`: acks and replies; what is in the store | | |
| `ServiceProofs`, `VlogGCProofs` | theorems about `Pool`, and about `Service` with its parts | | |
| `MC*` | model values and inputs of the runs | | |

The modules meet at their boundaries: an `Executor.ExecuteBatch` call is one
span (`pc = "running"`) in `Dispatcher` and the whole of `Import`; a store call is one
step in `Import` and one job in `Store`; an open storage is one handle in `Pool`;
`Service` runs `Pool`, `VlogGC` and `Ready` together under `main`; `Requests` reads
what `Store` writes and calls `Query`, `Billing`, `Energy` and `Members`.

### Dispatcher

A critical section of `d.mu` is one action. What a goroutine does without the
mutex lies between two actions: a batch (`Take` .. `FinishBatch`), the close of a
victim at the cap (`AtCap` .. `VictimClosed`), the close by the janitor (`closeIdle`
.. `closeExecutor`), a Broadcast after Unlock (`Notify`, `StopBroadcast`). A
`sync.Cond` is the set of lanes that wait; Signal removes any one of them. The
clock is abstracted to the order of `lastUsed` (`older`), and `closeIdle` chooses how
many idle executors are old enough; ties of timestamps are not modelled. The ack
of a batch is part of `FinishBatch`: no other goroutine sees the moment in
between. The messages are numbers; after the context ended a batch may leave any
of them unfinished.

### Import

One tenant and one lane (the dispatcher runs a tenant in one lane at a time,
`TenantHeldOnce`). Every store call is a step with three outcomes: stored, failed
with any subset of its rows written, failed at the record before or after the
rows. A panic happens in a store call before it writes. A crash happens anywhere,
also inside a store call. The context may end between any two steps. A restart or a crash
puts every unacked message back into the queue, in order (`inOrder`) or in any
order (`Redelivered`). A stored cell names the message and the entry whose value it holds, which
is all that the properties compare. The slices that `ImportBatch` cuts a part into
(communities, runs, day blocks, messages to import one by one) are sets: their
order is always that of the part (`Earlier`, `First`) or of days and entries
(`BlockBefore`, `FirstBlock`). A reply is the attempted publish:
`SendMessage` only logs a failure. A store that `importEcId` opened stays open for
`Import`.

### Pool

A critical section of `dpo.mu` is one action, and `Pool.Close` keeps `Pool.mu`
over its shutdowns. Clients close their storage once or twice. Opening fails
nondeterministically. `Handles` promises: at most `size` handles, the database is
open while one is out, closes with the last, and never opens after the shutdown.

### Store

Every read and write of the database is an action of a job that holds
`LockWrites`. One direction is modelled, as SourceIdx are counted per direction.
A value is the metering point and the call that wrote it. The ghost variables
`truth` (what was last written for a metering point), `torn`, `unread` and
`unsettled` record what happened and are read by properties only. `SetMeta` is one
Badger transaction; `SetLines` may fail or die with any of its rows written. The
rows of an Excel sheet are assumed to lie within the period of its header. A read
error of the delete after a flush is a `SetLines` that fails without writing.
Queries take no lock; `IndexStable` is what makes this safe.

### VlogGC, Ready and Service

Time is a number of ticks, a day has `DayMin` of them, and the window of a night may
cross midnight. The goroutine of `StartVlogGC` is a program counter: it checks at the
start and at ticks, lists the databases and takes a handle with the actions of `Pool` (a
`Get` may wait there). In `collectDatabase` the look at the context, the deadline and
the budget, the call of `RunValueLogGC` and the probe are three steps
(`collectDatabase`, `RunValueLogGC`, `probeOnce`): the clock, the signal and the writers
go on between them. The size that is charged to the budget is the one of the candidate
seen with the checks (`col.cand`). `late` is a ghost: the files rewritten after the end
of the window or of the service. The ticker is made after the first check and its run
(`NewTicker`), so that run cannot leave an old tick behind; its channel holds one tick,
and a tick that comes while one is there is dropped. A value log file is its size and
its discard; which file Badger picks (`pickLog`), that opening a database adds a current
file and that writes fill it (`FilesFollow`, `Overwrites`) are external. A panic or an
error of a rewrite ends in `GCClose`, the deferred close.

In `Ready` callers share the running check. The check starts a probe unless one
still hangs, and its timer may fire before the probe is done; a probe may hang
for ever.

`Service` composes them: handlers and executors are clients of the pool, a signal
comes at any time, and `main` takes the steps Shutdown (waits for handlers), cancel,
`waitVlogGC`, `dispatcher.Close` (waits for executors), `ClosePool`. `Shutdown` gets a
context without a deadline, so it does wait. The lanes alone never use up a pool
object (`ServiceConfig`): an executor holds one storage per community, and the
code has 20 handles per database.

### Bow

The id of a bucket prefixes its keys, ids come from a Badger sequence taken by
leases, and the names are kept in one record. Every transaction and every flush of
`PutBatch` is a step that may fail, and the process may die between any two. `may` is a
ghost: for each key the values a read may return, one if the last write was
acknowledged. `writeMeta` overwrites an error of `Set` by the result of `Commit`, so a
bucket may exist in memory and not in the record (`unsaved`); what is written to
such a bucket is lost with the process, and `AckedSurvive` says that this is the
only loss. An iterator is its snapshot and the keys it has returned (`got`): `Item` is
the first key from the one it seeks that is not returned yet, in the order of
`bytes.Compare` (`Before`), and `AtEnd` are the conditions under which `Next` of
`Iter` and `Range` stops. Badger's transactions, sequence, directory lock and
the order of its iterator are external.

### Query, Billing, Energy, Members

Time is counted in quarter hours. A scaled year has 12 days of four quarter hours,
weeks of two and months of three days, and one hour is skipped like the one at the
start of summer time; lengths are constants. A row is a sequence of value blocks
and a sequence of their qualities by SourceIdx, and either may end early. The
operators follow the code line by line over these rows: gap filling, the cache
that closes a time bucket when a line passes its end, the flush of a day by the next
one, the clamping of ranges. `Reads` has direct definitions of the same answers
(sums over sets of quarter hours) that the properties compare with.

### Requests

A handler is a program counter through the steps of `rest/`: check the body, look
up the member's metering points (cache, a shared call, the backend tenant by
tenant), clamp, read rows (one snapshot), read `cpmeta/0` (another one), compute,
answer. `Route` gives for each handler whether the body is accepted, what a member
may ask for and the code of a failed query. A writer (an import or an Excel upload)
writes rows and `cpmeta/0` in between, the backend changes, the clock expires cache
entries. `hist`, `asked`, `at` and `torn` are ghosts.

The reference definitions in `Reads` say what the reports should hold, not what the
code computes. Where the code is known to answer otherwise, the property names the
exception, and nothing else is excepted:

- a load curve lacks its last bucket if that holds one line only and is not the
  first one (`LoneLast`; `store/loadCurve_function.go:65`, although
  `CHANGELOG.md` says of #26 that "totals stay the same");
- a report panics or misses a value if a row is wider than the record: while an
  Excel upload has written its rows and not yet `cpmeta/0`, and for a record whose
  indices have a gap (`Gapped`, known-errors #43, a skipped test in
  `scenario/s07_s12_test.go`);
- the weeks of half-year and quarter reports: the reference accepts both numberings,
  with and without the first two weeks in one slot (`PartIs`, known-errors #23, a
  comment in `EEGCalculationV2_test.go`);
- the energy report leaves out the last day of a metering point if that day has no
  row at 00:00 (`LateLast`; the run `reads_last_day`);
- a member's Excel report goes on into the day after its window (`Overrun`; the run
  `reads_member_window`).

Some answers are surprising and not contradicted by the repository; the reference
definitions have them:

- in the Excel export a metering point without `InactiveSince` has no values at all;
  the summary does not count an L0 where the qualities end before the metering
  point, though the cell shows it; headers are placed by the direction in the
  record and lines by the requested one;
- `lastRecordDate` answers the present for a metering point without a period.

## Runs

Passing runs (TLC explores the whole state space):

- `dispatcher` (3 tenants, 2 lanes, cap 2, batches of 1, at most 2 messages per
  tenant and 4 in all; tenants are named in the order of their first messages, as
  no definition tells them apart; about 627,000 states). More tenants than the cap
  and more tenants than lanes are needed for waits at the cap and victims; a second
  message of two tenants for the return to `ready` beside a third tenant.
  It shows that a tenant is never in two hands (`TenantHeldOnce`), that executors
  are counted and capped (`ExecutorsAccounted`, `OpenWithinCap`), that neither
  work nor a wakeup gets lost (`NoLostWork`, `NoLostWakeup`, `NoLostCapWakeup`),
  that messages are run once and in order (`DeliveryOrder`), that the documented
  fairness rules hold (`ReadyKeepsStore`, `RoundRobin`), and `CloseIsFinal`. Under
  the fairness below every message is acked or the dispatcher is stopped
  (`EventuallyAcked`), and `Close` returns (`CloseReturns`).
- `pool` (5 clients, 2 handles, one database; databases do not share state):
  `NoUseAfterClose`, `InUseCounts`, `NoIdleHandle`, the refinement
  `ImplementsHandles`, and `GetReturns` under `FairSpec`. The pool does not queue
  its waiters, so a Get is only sure to return because clients make finitely many
  calls (`MaxGets`).
- `import` (every pair of six message shapes, and triples for one metering point;
  two days of two quarter hours; up to 2 store errors, 1 panic, 1 crash and 1
  shutdown, any three of these together; about 1.4 million states): `AckedAccounted`,
  `OneReply`, `RepliedForgotten`, `ReplyMeansStored`, and, as long as no panic reran a
  batch, `LaterWinsUnlessRerun` and `AckOrder`. In-order redelivery is assumed here.
  Every message is acked in the end (`EventuallyAcked`). Three disturbances are
  enough for a store error, a panic with its rerun and a crash in one behaviour.
- `store` (3 metering points, two days of two quarter hours, five calls of the
  four kinds, 1 error, 1 crash, delete flushing every row): `ReadsMatchWrites`
  apart from the two gaps below, `IndexStable`, `PeriodCoversData`.
- `service` (two databases, one handler, one executor, the GC, two callers of Ready, two
  handles per database, days of four ticks of which almost one whole day passes, a check
  at every tick; two disks and four configurations: real run, dry run, a budget that
  ends after a file, off; about 259,000 states). The window is up to three ticks long
  and goes over midnight or ends there, so that several checks fall into it and all but
  one must be turned away. Two handles with three clients make the GC wait for a handle,
  also at the signal. `ClosedLast`: when the pool closes nobody holds a handle or waits
  for one. `CallsReturn`: a signal always ends the process and every call of Ready
  returns. `WindowServedOnce`: every window in which a check happened has its run, and
  none has two, however many checks there are. `RewriteAllowed`: at most one file is
  rewritten after the end of the window or of the service, as the clock and the context
  may go on between the checks and the rewrite, and that one is reached; and a rewrite
  has budget left and is in the database the run has a handle of. `DryRunPredicts`: an
  undisturbed run rewrites the files that a dry run on the same disk predicts
  (`vloggc.go:534`), with two exceptions: where the dry run predicts nothing the probe
  may rewrite a file, as the dry run does not know the probe; and if the current file
  has the most discarded data Badger finds nothing, while the dry run leaves that file
  out and goes on. `OneProbe`: a hanging volume never collects more than one probe.
  `ServiceTypeOK` also ties the handle of the GC to the places where it has one.
  Readiness is only asked for in behaviours with the GC off: it shares nothing with the
  rest but the flag of the closed pool.
- `reads` (34 requests of an admin and 12 of members, six of them beside another one;
  every subset of six rows, a writer that adds a metering point, undecodable rows, two
  states of the backend; and, in behaviours of their own because they share no state,
  two users of the bow layer with three calls of eight kinds, one failing write, two
  closes or crashes; a record with a gap in its indices; about 457,000 states).
  `ReportExact`, `EnergyExact`: an answer is the direct definition over one snapshot of
  the rows, or an error, apart from the exceptions listed under Requests.
  `MemberSeesOwn`: a member's answer depends only on quarter hours of its own metering
  points, within the windows the backend reported while the lookup ran or while the
  cached entry was valid, apart from the overrun of the Excel report. The requests
  include an Excel report whose end is not midnight. `BucketsApart`: an id belongs to
  one bucket for ever. `AckedSurvive`: an acknowledged record is read back after
  crashes. `IterationExact`: an iteration returns the records of its range, as they were
  when it began, in order, or fails. The subset of six rows has gaps within an hour,
  over the skipped hour, over days and over a month, and leaves out first and last rows
  of a bucket. Deadlock is not checked: requests end.

Runs that TLC shows violated, each one a disagreement between the code and what
the repository says (see "findings" in `PROJECT.json`):

- `import_rerun`: the rerun after a panic imports an older message over a newer
  one, which it skips because it was already replied.
- `import_reorder`: with `SetOrderMatters(false)` redelivered messages may be
  submitted in another order, and the older one wins.
- `store_torn`: the Excel upload writes rows before `cpmeta/0`; interrupted in
  between, another metering point gets the SourceIdx and inherits the values.
- `store_unread`: the Excel upload takes an unreadable row for an empty one and
  writes it back without the other metering points.
- `reads_last_day`: the energy report compares the time of the first row of a day with
  an end cut to midnight, so a last day that has no row at 00:00 does not count.
- `reads_member_window`: `ClampDays` leaves an end inside the last day of a member's
  window as the request gives it, and the Excel report adds 23:59 hours to it.

Every property of a passing run has a mutant in `PROJECT.json`: a plausible bug
in a modelled function under which TLC reports the property violated.

### Fairness

`Dispatcher.Fairness`: weak fairness of each lane, each closing goroutine, the janitor's
exit, the stopper and `Close`. It says that goroutines are scheduled, that a batch ends
and that `Executor.Close` returns. Nobody is forced to submit or to stop, and the
janitor's ticker is not needed. The bounds of the runs only stop what has no fairness:
submissions in `dispatcher`, errors, panics, crashes and stops in `import`.
`Pool.FairSpec`: Gets run and storages are closed after use (callers defer Close).
`Import.Fairness`: the lane runs, store calls return, and the service is started again
after a shutdown. `ServiceFairness`: goroutines run, handlers return and close their
storage, the timer of a check fires, executors give their storage back once the
dispatcher closes. The end of a probe, a signal and the passing of time are not assumed.
`reads` has safety properties only.

## Proofs

TLAPS proves the safety properties of seven components for every value of the
constants that the named assumptions allow. All proofs follow one pattern: an
inductive invariant that holds initially and is kept by every action (one lemma per
action), and implies the property. Each inductive invariant was first checked by
TLC on the run of its module.

| Component | Theorems | Inductive invariant | Assumption |
|---|---|---|---|
| Dispatcher | `DispatcherTypes`, `DispatcherMutualExclusion`, `DispatcherExecutorsAccounted`, `DispatcherCap`, `DispatcherNoLostWork` | `IInv` | `DispatcherConfig` |
| | `DispatcherNoLostWakeup`, `DispatcherNoLostCapWakeup`, `DispatcherDeliveryOrder`, `DispatcherCloseIsFinal`, `DispatcherRoundRobin`, `DispatcherReadyKeepsStore` | `JInv`, on top of `IInv` | |
| Pool | `PoolTypes`, `PoolCounts`, `PoolNoUseAfterClose`, `PoolNoIdleHandle`, `PoolImplementsHandles` | `PInv` | `PoolConfig` |
| Service | `ServiceClosedLast`, `ServiceImplementsHandles` | `SInv` | `ServiceConfig`, `VlogGCConfig` |
| Ready (in Service) | `ServiceOneProbe` | `RInv` | `ReadyConfig` |
| VlogGC (in Service) | `ServiceTypes`, `ServiceWindowServedOnce`, `ServiceRewriteAllowed` | `WInv`, `GInv`, `LInv`, on top of `SInv` | the same |
| Bow | `BowBucketsApart`, `BowAckedSurvive` | `BInv` | `BowConfig` |
| | `BowIterationExact` | `IInv`, on top of `BInv` | |
| Store | `StoreReadsMatchWrites`, `StorePeriodCoversData`, `StoreIndexStable` | `StInv` | `StoreConfig` |
| Import | `ImportAckedAccounted`, `ImportOneReply`, `ImportRepliedForgotten` | `ImInv` | `ImportConfig` |
| | `ImportLaterWins`, `ImportAckOrder`, `ImportReplyMeansStored` | `WinInv`, on top of `ImInv` | also `inOrder` |

### Assumptions

`DispatcherConfig`: finitely many lanes, a batch size, and a cap not below the
number of lanes, which is what `readMaxOpen` enforces. `PoolConfig`: some database,
finitely many clients, a size above zero. `ServiceConfig`: finitely many databases,
the GC, the handlers and the executors are different clients of the pool, and the
executors alone do not use up a pool object. `VlogGCConfig`: a day and a period of the
ticker have a length, and the clock is bounded. The theorems of `VlogGCProofs` also
take the configurations from `Configs` (what `VlogGCConfig` can hold) and disks of
files with a size and a discard. `BowConfig`: leases and flushes have a length,
calls have keys and rows, and no row of a bucket has a key shorter than the `until` of
a Range over the bucket (`Range.Next` stops at a shorter key; the keys of "rawdata" all
have one length). `StoreConfig`: finitely many metering points and
quarter hours, and calls of the four kinds. `ImportConfig`: the entries of a message are
ranges of known quarter hours that are not empty. The theorems about the store also
assume `inOrder`, that unacked messages are handed over again in their order: without
it the first of them is false (`import_reorder`). The bounds on errors, panics,
crashes, stops and calls are constants, so the theorems hold for any number of them.

### Dispatcher

`IInv` has `TypeOK`, `TenantHeldOnce`, `ExecutorsAccounted`, `OpenWithinCap`,
`NoLostWork` and `Bookkeeping`, which ties the place of a lane to what it holds. A
lane has a tenant exactly while it reserves, closes or runs, and a victim exactly
while it closes; a tenant for which a lane reserves has no executor; tenants in a
lane's hands or in `ready` are keys of `d.tenants`; `closed` is only set after the
context ended; the set of executors is finite. The parts need each other:
`OpenWithinCap` needs that whoever closes an executor still finds it
(`ExecutorsAccounted`), that needs that nobody else has the tenant
(`TenantHeldOnce`), and that needs the lanes' places (`Bookkeeping`).

`JInv` adds where lanes sleep (`Places`), that a tenant in a lane's hands is not in
`ready`, that `older` is a strict order on the executors (`Ages`), that nothing is left
after the collection of `Close` (`Collected`), and the place of every message: `1 .. a`
are acked, then come those of the running batch, then the queue (`Ordered`). The
wakeup properties are inductive with `Places`: the lemmas `WakeupSame`, `WakeupMore` and
`WakeupTaken` say what a step may do to the number of tenants to take and of lanes
about to look, and each action is one of the three. `ReadyKeepsStore` needs that
`capVictim` finds the executor used longest ago: a finite strict order has a minimal
element (`Minimal`).

### Pool and Service

`PInv` joins `InUseCounts` and `NoIdleHandle` with `Handling`: a client at work has a
handle, an open handle has an open database, a stale one a closed pool object, and
nobody waits at a closed object. A step of the pool then maps to a step of
`Handles` (acquire, release, shutdown) or to none, which is
`PoolImplementsHandles`; the mapping reads who holds a handle and which database is
open.

`SInv` lifts this to the process: the steps of the GC, the handlers and the executors
are steps of the pool (`PoolEffect`), so `PInv` holds there too and the refinement
with it. `GCHolds` says where the GC goroutine has a handle and of which database;
`Stages` says what `main` has already waited for. `ClosedLast` follows from the
stages: when `Pool.Close` begins, handlers, GC and executors have ended.

`RInv` says that a check has one caller that runs it, and that a running probe belongs
either to that caller or to the check that timed out (`probeHanging`), which stops
the next check from starting one.

### VlogGC

`WInv` orders the served windows, keeps them at or below `lastDay`, and says that
neither the clock nor a tick in the channel is before the window of the last run. The
last part is what makes "once per window" true, and the attempt to prove it showed a
mistake of an earlier version of the model: it had the ticker run from the start,
and then a tick from before the first run could make a check see an earlier window. The
code makes the ticker after the first check, and so does the model now.

`GInv` ties a run to its window: the deadline is the end of the window `lastDay`, a
run that opens databases is not a dry run, and rewriting leaves files with sizes, so
that the budget stays a number. The handle itself is in `GCHolds`.

`LInv` is about the time between the checks and a rewrite: where `RunValueLogGC` or the
probe is due no file was late yet and there is budget, and after a late file the end
that it came after is still over, so the next check, of this database or of the
next one, stops the run. `RewriteAllowed` follows with `GCHolds`. A run that begins
after the end of the service (a tick and the end of the context may both be there)
keeps the count.

### Bow

`BInv` says that every id given away lies below the next one of the sequence, which on
disk is the end of the lease, so ids are lost in a crash and never given twice
(`Sequence`); that the buckets in memory are those on disk and the `unsaved` ones
(`Known`); that a call has the id of its bucket (`CallOK`); and that every row on disk
holds what its key may hold (`Data`). `BucketsApart` and `AckedSurvive` follow. That two
buckets do not overwrite each other rests on `KeysApart`: an internal key determines
its bucket and its key.

`IInv` is about readers (`CallInv`): the snapshot of a call is finite and has keys of known
buckets (`SnapOK`, from `Stocked` for the rows on disk), what an iteration has returned
is an ordered, readable beginning of its range (`GotOK`), and a call that has ended is
exact. The keys are strictly and totally ordered (`BeforeTotal`, `BeforeTransitive`,
`BeforeIrreflexive`), a finite set of them has a first one (`FirstKey`), keys with a
prefix lie together (`PrefixTogether`), and where a Range stops nothing of it is left
(`RangeEnd`, `EndPasses`): this is where the length of `until` is needed.

### Store

`StInv` says that the record numbers its metering points without gaps or repetition
(`IsMeta`); that only the holder of the lock is under way (`Turns`); that its copy of the
record has what the record has, and which of its changes are due at which step
(`Copy`); that a row it is about to write is the row as it is but for its own slots
(`Fresh`); and that rows and written values agree, by the record or, between the
write of the rows and of the record, by the copy (`Values`). The recursion over the
blocks of a call (`registerBlocks`, `widenMetaPeriods`) is handled by induction on the
number of blocks (`Induction`, from `Extremes`: finite sets of numbers have least
elements).

### Import

`ImInv` says for each place of the lane what the parts of the call are: the messages to
do, those of the current part, those replied, finished and left for the rerun are
disjoint or contained in each other as the code needs (`Calling`, `Back`, `Acking`,
`Idle`). A message replied since the last crash is acked, remembered in
`replied`, or finished where no panic can forget it (`Safe`): hence `OneReply`. What is
acked was finished, and what is finished was replied or logged: hence
`AckedAccounted`.

`WinInv` adds the store. The queue, the batch, the call, the part and what is still to
decode are in order, each before the next (`Ordered`). Within `ImportBatch` the messages
of a part are open or settled: those of other communities wait, and of the current
community the run, or the messages imported one by one, come before the rest
(`Groups`). A run has no overlapping messages, so its blocks may be written by day
across messages (`Running`); `Import` writes the blocks of one message in their order
(`OneByOne`). A settled message never comes after an open one that it overlaps, it is
stored if it has no error, and when it was stopped so were the later ones that
overlap it (`Outcome`): hence `ReplyMeansStored`, with or without panics. `Unbroken`
says what only holds while no panic has rerun a batch: unacked messages are in
the queue or the batch, overlapping messages are finished and acked in order, and what
was finished with a reply is still stored. `LaterWinsUnlessRerun` and `AckOrder` follow.
`import_rerun` shows that the condition is needed.

### Only model-checked

- Liveness (`GetReturns`, `CallsReturn`, `EventuallyAcked`, `CloseReturns`): fairness and
  ENABLED are out of the prover's reach.
- `ReportExact`, `EnergyExact`, `MemberSeesOwn`: about recursive operators over rows,
  which the prover does not support.
- `DryRunPredicts` of `VlogGC`: `dryRunFiles` is a recursive function over sets of files,
  and what it computes would need an induction over data. Where two files have
  the same discard it is also open which one comes first, in the code and in Badger;
  the disks of the run have no such files.

`TypeOK` of `Dispatcher` and of `Pool` is proved and not a property of a run.

## What is not modelled

- Rounding and floating point: values are whole numbers. The quality of an
  aggregated value (`calcQoV`) and the member counts of a load curve.
- Time zones beyond the skipped hour, and the formatting of row keys. The doubled
  hour at the end of summer time has one set of row keys in the code and in the model.
- Decoding (Base64, gzip, JSON, msgpack, CSV): a message, a body or a row is decodable
  or not.
- Styles, notes and texts of workbooks, and sending them by mail.
- A broker that does not answer a publish (`SendMessage` waits without a timeout)
  and redelivery into a running dispatcher after a lost connection.
- An endless supply of messages: submissions are bounded, so starvation by a
  tenant that never stops is only covered by the step property `RoundRobin`.
- Token checks (`middleware/`): library calls without shared state.
- GraphQL: generated code and two resolvers, which are the Excel upload of `Store` and
  `lastRecordDate` of `Requests`.
- The command line tools (`cmd/`), which an operator runs alone (Badger locks the directory);
  logging; test support; generated code (`graph/generated`, `protoc`). Together these
  are about two fifths of the Go lines.

## Plan

1. The composition of `Dispatcher` and `Import` over an abstract batch, with
   redelivery into a running dispatcher and a blocking reply.
2. `Requests` over the jobs of `Store` instead of a writer of its own.
3. The command line tools that rewrite rows (`move`, `reset`).

Next theorem: `DryRunPredicts` for `VlogGC`, which needs a lemma on what the recursion of
`dryRunFiles` returns.
