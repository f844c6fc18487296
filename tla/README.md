# Verification of the NATS monitoring scraper

This directory specifies and verifies the scraper in `src/`: a Go package that
asks every server of a NATS system for its monitoring data, and a runner that
does so on a schedule or on demand and publishes what it gathered to a sink.
The specifications are TLA+ modules translated from the source. TLC checks small
instances of them, and TLAPS proves theorems for all instances.

## The system

| Part | Source | State | Operations | Meets others through |
|---|---|---|---|---|
| Runner | `runner/runner.go`, `runner/config.go` | `scraping` under `scrapingMu`, `paused` under `pausedMu`, `epochCount`, the timer, the service | `Start`, `doScrape`, `pruneEpochs`, `handleOnDemandRequest`, `Pause`, `Resume` | two goroutines (Start's loop, the trigger subscription), the sink, the stream |
| Epoch stream | `sink/jetstream/jetstream.go` | the stream `<prefix>.>`: markers and batches by epoch | `LastEpoch`, `Prune` | read at start and before each scrape of the timer, while a trigger may be writing |
| JetStream sink | `sink/jetstream/jetstream.go` | futures and pending acknowledgements of one batch | `Publish`, `Prepare`, `publishBatch`, `waitPublish` | the client's asynchronous publisher |
| Core NATS, noop sinks | `sink/nats`, `sink/noop` | none | `Publish`, `Prepare` | fire and forget |
| Sink codec | `sink/sink.go` | a compressor | `PrepareBatch`, `PreparePublish`, `Parse` | subject's last token, epoch header |
| Service | `runner.go`: `setupOnDemandService` | subjects | trigger, pause, resume, status | the stream, if their subjects lie below its prefix |
| Request | `request.go` | mutex, received count, gathered replies, subscription, timer, context | `doReq`, `doReqAsync` | caller, callback goroutine, watcher goroutine, servers |
| Requestor | `request.go`, `options.go`, `runner.go` | the included server ids, whether requests are targeted | discovery, the server filter, `Request`, `RequestOne`, `RequestAdaptive` | chooses a mode of `doReq` |
| Broadcast collectors | `collectors.go` | an offset, the gathered answers | `Connz`, `Subsz`, `Jsz` and seven that ask once | a Requestor |
| Account collectors | `collectors.go` | jobs channel, workers, `failedServers`, shared slice | `Accountz`, `Raftz` | a Requestor, a pool of goroutines |
| scrape-once | `cmd/scrape-once` | the overrides, the manifest, a context with a deadline | flags, a runner, sink functions that stop it | runs a Runner and is called by its scrape |
| sink-inspect | `cmd/sink-inspect` | the captured epoch and messages | `observe` | reads the live subject or the stream |
| request-inspect | `cmd/request-inspect` | the candidate ping, the captured requests | its loop | reads the scraper's requests |
| Other tools, fixtures, SQL checks | `cmd/*`, `docs/checks` | | | use the library, or its data |

What is hard here: two goroutines that want to scrape, with a pause flag and a
scraping flag under two mutexes; a schedule that survives restarts through
epochs cut to whole seconds; pruning a stream that is being appended to; requests
whose callback, timer, deadline and caller race; a worker pool that shares its
knowledge of dead servers; calls that wait without a context; servers that join and leave after the filter has
been applied; and tools that recognise one scrape in a flow of messages that says
little about scrapes. `PROJECT.json`
lists these hazards with their lines and the properties that answer them.

What makes each part correct, in a sentence: the runner scrapes one at a time,
never overlooks a pause, keeps its interval and frames each scrape with its
markers; pruning keeps the newest epochs and spares the scrape being published;
a request returns, and when it returns early it is complete; paging gathers
nothing twice and ends; the pool asks for every account once and loses no
answer; a batch that reports its count is settled; an excluded server's answer goes
nowhere; the one-shot command's exit status is true; an inspector prints one scrape,
whole.

## Modules

**`EpochStream`** has no state: it is the stream as data (an immutable log, whose
positions are sequence numbers, and the first retained position) with the two
readers as operators. `LastEpoch` is the function of that name. `ScanMarker` is
one turn of `Prune`'s loop over its locals `endSequences`, `previousEpoch` and
`pruned`, `PurgePoint` the sequence number it purges to.

**`Runner`** is `runner.go` with these readers. `pc` places two goroutines,
"interval" (Start) and "ondemand" (the trigger subscription), and the other
variables are the Runner's fields, the locals that live across steps (`job`,
`delay`, `scan`), the timer and the world (clock, triggers, context, process
life). One action is what a goroutine does between two points where another can
be seen to act:

| Code | Actions |
|---|---|
| `Start` up to its loop | `StartFails`, `Boot`, `Resuming`, `ArmFirst` |
| the loop's select and rescheduling | `TimerFires`, `StartReturns`, `Reschedule` |
| `pruneEpochs`, `Prune` | `PruneOpen`, `PruneNext`, `PrunePurge`, `PruneFails` |
| `doScrape` | `Lock`, `CheckPaused`, `CheckBusy`, `Begin`, `Discover`, `PublishStart`, `Collect`, `PublishEnd`, `Leave` |
| `handleOnDemandRequest` and its subscription | `SendTrigger`, `TakeTrigger`, `Respond` |
| `Pause`, `Resume`; the world | `Pause`, `Resume`; `Cancel`, `Tick`, `Crash` |

A crash loses everything but the stream. `Collect` is any of the thirteen
collectors: it is seen through whether it publishes a batch.

**`ScrapeContract`** is the abstract specification: who owns the running scrape,
whether the runner is paused, and the order of the messages; no mutex, timer,
prune or service. **`RunnerContract`** gives the refinement mapping. A scrape is
admitted where `doScrape` finds the runner not paused and, holding `scrapingMu`,
is about to find no scrape running: this is the point a pause can be ordered
against, not the later setting of the flag.

**`Request`** is `doReqAsync` inside `doReq`: the caller, the subscription's
goroutine, the watcher of adaptive requests, servers, deadline and outer context.
The unbuffered `errCh` is a rendezvous (`TakeError`), the mutex is held while
waiting for it, and `Read` takes `responses` without the mutex, as the code does:
a read that meets a running append yields a torn element.

**`Requestor`** is what a scrape asks: `doScrape`'s discovery and filter, and the
requestor's methods, which turn a call into one request to everyone, one to each
included server, or one to everyone whose answers are filtered. A request is
reduced to whom it asked, who answered, how many replies there were and how it ended;
`Request` is what happens inside. The code counts replies and does not ask who sent
them, and so does `Gather`: a server may reply more than once, and the number alone ends
the request. `Kept` says what is left of a failed one: a broadcast returns what it had
gathered beside the error, a request to one server or one to be filtered returns nothing. `inventory` is what
`Accountz` and `Raftz` found first and choose servers from. Servers that are up are
chosen anew for every request: between two requests any may leave and any may join.

**`Paging`** is the collectors' loops: `Connz`, `Subsz` (offset += limit + 1), `Jsz`,
and the collectors without a loop ("once"). A page is asked for (`Ask`), answered by any
servers in any order (`Reply`) and over (`PageEnds`); listings may grow and shrink at any
point between (`Change`), and every answer tells the total anew. `RequestLimit` is what they make of the
configured limit: zero, and for `Subsz` a negative one too, becomes the server's
default. **`FanOut`** is the worker pool of `Accountz` and `Raftz`. **`BatchPublish`** is
the JetStream sink's `Prepare` against the client's publisher. Each stands alone: the
runner sees a collector or a sink only through its outcome, and these modules say
what outcomes there are and when they come.

**`ScrapeOnce`** composes a command with the runner. It reads overrides
(`ReadDisabled`, `ReadFrequency`), starts the runner without its service, stops it from
inside the sink (`OnceEnd`) or by its run time (`Expire`), and exits. Where neither the
sink functions nor the overrides come in, its actions are the runner's own.

**`SinkInspect`** adds a reader to `Runner`. It keeps no variable: `Inspection(from)` folds
`observe` over the log from where the reader comes in, so that every state is checked
for readers of every age. **`RequestInspect`** adds to `Requestor` the observer that tells
a scrape by two pings in a row.

**`Service`** has no state. It compares the subjects of the service with those the
stream stores; `RunnerProofs` has the theorem about them.

`MC*` modules give constants their values. Definitions marked *Deviation* are
plausible mistakes at the definition that follows them; replacing the definition
by one must violate the property named in `PROJECT.json`, which shows that the
property depends on what the code does there.

## Runs

| Run | Question | Bounds |
|---|---|---|
| `control` | do scrapes exclude each other, are pauses honoured, is the sink's view the contract's, does a reader get one scrape? | 2 instants, 1 trigger, 1 crash, lost messages, no endpoint but servers |
| `restart` | is the interval kept, within a life and over a crash, and do epochs stay in order? | interval 3 ticks, 2 ticks to a second, 7 instants, one crash, one trigger |
| `prune` | what may pruning remove? | 2 epochs kept, 4 seconds, a trigger, a crash, failing prunes |
| `live` | is every trigger answered, every due scrape tried? | 3 instants, 1 trigger, prune to 1 epoch, a cancellation |
| `prune_wedge` | does Start return once cancelled, also after a crash? violated | 3 instants, 1 crash |
| `replies` | what do exact, adaptive and discovery requests return, and what can keep them from it? | 2 servers, 2 replies each, any corrupt, or a 503; timeout 3, quiet window 2 |
| `request_wedge` | does every request return? violated | the same with 1 reply each |
| `requestor` | whose answers are returned, what is a complete call, what does an inspector capture? | 2 scrapes of 5 calls of every kind, 3 replies to a request, 2 servers to include and 1 to exclude |
| `paging` | what is gathered and missed, does paging end? | 2 servers of up to 5 entries, one change of a listing, limits -1, 0, 1, default 2 |
| `fan_out` | accounts, workers and failures | 2 workers, 3 accounts, 2 servers |
| `batch_publish` | acknowledgements | up to 5 messages by 2 |
| `scrape_once` | is the exit status true, do overrides hold, does the command end? | two runs of one command, an endpoint with frequency 1 or 2 or disabled, bad overrides, interval 2, run time 1, clock to 3, lost messages and acknowledgements |

The bounds are where the interesting cases begin. Both goroutines can be inside
`doScrape` with one trigger, and one crash can fall into any step of a scrape;
admission keeps no memory of earlier scrapes, and for it the theorems below need
no bound. Three ticks and two to a second make intervals and seconds go out of
step, and seven instants hold three scrapes of the timer. To prune to two epochs a
third and a fourth must end, and a trigger repeats one. Five
entries take three pages by the step of two that a limit of one gives `Connz` and a limit of two gives `Jsz`, and
one listing may shrink or grow between any two of them. With two workers and three accounts a
server that fails can be chosen once more by a worker that could not know, and not
again after that. Two included servers are the least of which one can fail while
another answers, and one late joiner can take a place; three replies let one server answer twice and the
other still answer; two scrapes are what an
inspector could confuse. In `scrape_once` the interval is longer than the run time,
so that the second run may find nothing due; the expiry may also be late, and then one
run scrapes twice and an endpoint with a frequency of two is due once.

Runs that say `CHECK_DEADLOCK FALSE` can really stop: the explored time ends, a
Start has returned, or a request or a batch is stuck in the way its property
describes.

## Fairness

`FairSpec` asks each goroutine that can run to run (weak fairness): Go's
scheduler does, `sync.Mutex` hands itself to a waiter that starves, and the
runtime fires due timers. In `Request`, `FanOut` and `BatchPublish` time passes and
contexts expire. In `Paging` the collector's goroutine runs and each page's request returns (which is `Request`'s
question); no server has to answer, and no listing has to keep still. `OnceSpec` adds that the command's own goroutine runs, its
`context.WithTimeout` expires and time passes. Nothing is asked of the world: no
trigger, tick, resume or cancellation must come in `Runner`. Fairness of `Begin` to `Leave` in `Runner`
assumes that collectors and sinks return. `Request`, `FanOut` and `BatchPublish`
examine that assumption: it fails where `request_wedge` shows, and where an
acknowledgement is lost (`PrepareReturns`).

## Findings

*A request may never return* (`request_wedge`). A reply that cannot be decoded, or
the no-responders reply, is handed to the unbuffered `errCh` by a callback that
holds `mu` (`request.go:182,189,198`). If the caller's select has meanwhile seen
the context end, it waits for `mu` (237) and no longer reads `errCh`. `replies`
shows that there is no other way to get stuck.

*Start may hang after a crash* (`prune_wedge`). `Prune` waits in `messages.Next()`
(`jetstream.go:193`) without the context. A process that died in its first scrape
left messages but no end marker; the next Start with `SinkMaxEpochs` set waits
for an end marker that only it could write. Without a crash it takes a cancellation
during a trigger's very first scrape to get there; `live` shows that scrapes and triggers of
a process that was never killed, and whose publications arrive, are not held up.

What holds, and is narrower than one might expect:

* A Pause that returns while a goroutine is between its look at the flag and its
  scrape does not stop that scrape (`PauseHonoured` says exactly what it stops).
* A trigger in the same second as a scrape reuses its epoch after its end marker
  (`EndedEpochsStayClosed` is about the timer's scrapes). A reader gets one scrape all the
  same (`InspectionIsOneScrape`), because it begins at a start marker.
* The filter is applied once in a scrape. Servers that join later are kept out only if
  discovery met an excluded one (`runner.go:208`); `FilterHonoured` has this condition.
* A call that returns early has the answers of all included servers only when it was targeted. A
  broadcast counts replies (`request.go:202-206`), so that of a joiner, or a second one of a server that has replied,
  may stand in for an included server's (`EarlyMeansEveryIncluded`).
* A broadcast that fails still returns what it gathered, and the runner publishes the `Servers` it
  has of it (`request.go:129-134`, `runner.go:426-430`).
* Which page is the last is decided by the answer that came last. `DeciderIsReadThrough` says what of that
  server's listing is gathered, provided it answered every page and its listing was as long at each;
  of a listing that changed, or of another server, more may be missing.
* Paging has no bound of its own. `PagingEnds` rests on `MaxRows`: against a listing that grows
  faster than it is read the loop would go on.
* `request-inspect` prints one request of each of two scrapes when the first scrape's
  discovery was its only request (`CaptureIsOneScrape`).
* `scrape-once` run again within the interval of its last scrape finds the stream's epoch,
  waits, and may run out of time without a scrape; it then says so (`ExitTellsTheTruth`).

## Proofs

TLAPS checks these for every value of the constants. Every invariant of every passing run is
stated by a theorem, and so are the two action properties and the safety part of the refinement.
What is assumed of the constants is in named assumptions, which the runs evaluate too: types, positive
intervals, frequencies and limits, finite sets of servers, no endpoint named like a marker. The
bounds of exploration (`MaxClock`, `MaxTriggers`, `MaxLives`, `MaxScrapes`, `MaxReplies`, `MaxChanges`) are any
natural numbers.
Where a theorem needs more, the hypothesis stands in its `ASSUME` and is named below.

* `RunnerProofs`:
  * `TypeCorrect`: `TypeOK` alone is not inductive. `TypeInv` adds that no scrape began in the
    future (its duration is then a number of ticks), that the endpoint visited next exists, and
    that a scan about to purge remembers an end marker.
  * `MutualExclusion`: `OneScrapeAtATime` is its own inductive invariant because it ties
    `scraping` and `mu` to the program counters: while a goroutine is in its section the flag is
    set, and a goroutine that reads the flag holds the mutex under which it is set and cleared.
  * `NoPauseIsOverlooked`: `PauseInv` says of a call that must skip and stands before
    its look at the flag that the runner is still paused, because only `Resume` clears the flag,
    and it clears the obligation too.
  * `EpochsAreOrdered` and `Contiguity`, from `StreamInv`. Scrapes are numbered as they begin; as
    one runs at a time, `OpenInv` can say that the one that publishes is the newest, that its
    epoch is no older than any in the stream, that it has nothing there before its start marker,
    and its end marker only once it is over. A crash leaves the stream as it is: the next
    process begins a new scrape.
  * `RunnerImplementsContract`: `OneAdmitted` says that `Owner` chooses among one (a goroutine
    that has read the flag as clear still holds the mutex), so that the state mapped to is known
    from the goroutine that is admitted (`Seen`). `CheckPaused` maps to `Admit`, the publications
    to `SendStart`, `SendData` and `SendEnd`, `Leave` to `Finish`, `Crash` to `Restart`, `Pause` and
    `Resume` to `Switch`; `QuietSteps` shows that the loop, the timer, the prune, the service and
    the clock do nothing the contract can tell from a stutter.
  * `ControlsOutsideStream`, about `Service`: the guard compares the trigger subject only
    (`runner.go:93`), and keeps pause, resume and status out of the stream as well, for all
    prefixes and subjects except a trigger subject of one token that equals the prefix.
* `StreamProofs`, what the stream tells:
  * `NewestSurvive`, `OpenScrapeSpared`, `MaxEpochsLeft`: while `Prune` reads, scrapes go on ending.
    `ScanSound` is what its locals are worth all the same: the end markers it remembers are the
    first it has met of the newest epochs it has met, `MaxEpochs` of them once it has dropped one.
    Epochs never decrease (`StreamInv`), so every message below its purge point has at
    least `MaxEpochs` newer ended epochs (`RisingCount` counts them). `Kept` adds that no purge takes
    the newest end marker, on which the theorems about restarts rest.
  * `IntervalsKept`: `Spacing` says, for each place the interval goroutine can stand, how far it
    is from the scrapes of its life: an interval before its deadline, an interval ago once the timer
    has fired. `Finished` is what `NextDelay` relies on: a job that ended well is the timer's newest.
  * `IntervalsOutlive` (hypotheses: the JetStream sink, reading the last epoch does not fail, and
    Start is not cancelled: without the epoch the code starts at once), from `RestartInv`:
    the same between lives, where `LastEpochIsNewest` and `Kept` say that the epoch resumed from is no
    older than any that was ended. `EndedEpochsClosed` needs moreover `TicksPerSecond <= Interval`, an
    interval of at least the second epochs are counted in.
  * `ReadersGetOneScrape` (hypothesis `EndpointsParse`: the endpoints the runner visits are among the
    tokens `Parse` accepts, as those of `options.go` are): the observer is followed from message
    to message (`Captures`), over any log with the shape `StreamInv` gives it. `Inspection` is a
    recursive function; `ReadingExists` proves that the recursion is well founded, so that it
    defines what it says.
* `ScrapeOnceProofs`: `ExitIsTruthful` and `OverridesHold`, from `OnceInv`. Each action of the command is
  a runner's action or leaves the runner alone, so the proof reuses `TypeInv` and adds what the command
  knows: the flags (`FlagsInv`: endpoints of one name share their overrides), that `epochCount` is the
  number of scrapes of this life (`RecordInv`), that what is in the log was due (`LogOK`), and why the
  context can be done (`VerdictInv`).
* `RequestProofs`: `RequestTypes`, `LimitHolds`, `EarlyIsComplete`, `QuietWindowHolds`, from `RequestInv`. It counts
  replies where they are (handed over, appended, read: `Counting`), so that the read without the mutex can
  be shown to meet no running append when the context ended as complete, says who can have ended the
  context (`Ended`), and that the watcher's timer is a whole quiet window after every reply
  it has seen (`Quietness`).
* `RequestorProofs`:
  * `TypeCorrect`, `FilterIsHonoured`, `EarlyIsComplete`, from `RequestorInv`. It adds that a request that
    names a server reaches no other, that a full request has as many replies as were expected, and
    no fewer than the servers it has them of (`LegOK`), that the requests under way are those the
    call asks for, and that a returned call has what they gathered (`CallOK`, `ReturnOK`).
    `InventoryOK` covers calls that choose a server from an earlier call's answers: of a targeted scrape those
    are of included servers already.
  * `InspectorGetsOneScrape` (hypothesis `OnePing`: of a scrape's calls only the one that collects servers,
    `collectors.go:28`, is a ping). `WireInv` says that the pings in the wire are the first two requests
    of each scrape, `SentInv` ties this to where the scrape stands, and `InspectorInv` that what is captured is a
    stretch of the wire that begins with two pings and has no third.
* `PagingProofs`: `TypeCorrect`, from `LimitType` (whatever limit is configured, a positive one is asked for);
  `NoEntryTwice` and `LastWordIsReadThrough`, from `PagesInStep` (every page begins at a
  multiple of the step, which is no less than the limit) and the arithmetic of quotients and remainders (`PagesCover`).
  `PagingAdvances` is the half of termination that is a safety property: a further page is asked for only while
  the offset is below `MaxRows`, and always at a greater one, so that `MaxRows - offset` is a variant. The other half, that a page
  asked for is over some time, is `PagingEnds`'s fairness.
* `FanOutProofs`: `FanOutTypes`, `AnswersKept`, `AccountsAsked`, `FailuresKnown`, from `FanOutInv`: no two workers have
  one account (`Apart`), an answer is in the responses or in the hands of one worker (`Answers`), and a
  request is wasted on a server only by workers that had chosen it before it failed (`Wasted`).
* `BatchPublishProofs`: `TypeCorrect`, `FlightIsBounded`, `CountIsSettled`, from `PublishInv`, for any `SinkBatchSize`
  and batches of any size. What is in flight is of the batch not yet waited for (`FlightOK`),
  which is short of full while more is published (`BatchOK`); a message that is not in
  flight has arrived, and messages arrive in order (`ArrivalOK`).

The proofs corrected the project in two places. `PruneSparesOpenScrape` had spoken of a scrape up to its
`Leave`; that is false for `MaxEpochs = 1`, where a purge may come between the end marker and `Leave` and keep
only that marker (`prune` keeps two epochs, and could not show it). And `OverridesHonoured` needs that no
endpoint is called "servers", the one name with a published batch and no override
(`ScrapeOnceAssumption`; `setEndpointDisabled` in `scrape-once/main.go` knows no such name).

Only model-checked: the liveness properties (`TriggersAreAnswered`, `DueScrapeIsTried`,
`StuckOnlyBehindAnError`, `FanOutReturns`, `PrepareReturns`, `OnceEnds`, `PagingEnds`), because fairness is stated
with `ENABLED`, which the prover does not reason about; and the two properties that are violated. The
module assumptions are assumptions: that collectors and sinks return is part of `FairSpec`
only, and no theorem above uses it.

## Not modelled

* Payloads, compression and JSON, and the checks of `sink-inspect` that concern them (digests,
  re-encoding); the printing of manifests and requests.
* The defaults of options other than the limits of paged requests; the status reply; the
  choice of a sink and the check of the stream's configuration (one outcome, `StartFails`);
  user-supplied sinks. The batches of core NATS are one message here.
* What lies at a place of a listing: a server whose entries move while it is paged may show one twice or
  never. `Paging` names entries by their places.
* Negative limits of `Connz` and `Jsz`, which are passed on: what follows depends on the server.
* In `RequestInspect`, requests of other clients; in `SinkInspect`, a stored reader that a purge
  overtakes.
* `jetstream-probe` and `control-inspect` call the sink's and the service's operations once each,
  in order, and print the results: they add no state. Fixtures and seeds are data. The SQL
  checks run downstream of this program.

Integer widths do not matter: counters count scrapes, epochs and bytes far below their
limits.

## Plan

1. Proofs: that `Request` implements the request of `Requestor` (whom it asked, who answered, how it
   ended), and that a batch in `BatchPublish` is the one publication of `Runner`, as refinements, so
   that the composition is proved and not only described.
2. A stored reader that is overtaken by a purge, as an actor beside `PrunePurge`.
3. A run of a runner without its timer (`IntervalDisabled`): `scrape_once` is one without its
   triggers, and the theorems cover both.
