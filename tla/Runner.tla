------------------------------- MODULE Runner -------------------------------
(***************************************************************************)
(* The scrape runner (src/runner/runner.go) with the JetStream sink's      *)
(* LastEpoch and Prune (src/sink/jetstream/jetstream.go).                  *)
(*                                                                         *)
(* Two goroutines ask for scrapes. "interval" runs Start: it reads the     *)
(* last epoch, prunes, and then scrapes every time its timer fires.        *)
(* "ondemand" is the service's trigger subscription, which hands queued    *)
(* triggers to handleOnDemandRequest one after the other. Both call        *)
(* doScrape, where scrapingMu, the paused flag and the scraping flag       *)
(* decide who may scrape. Pause and Resume arrive at any time.             *)
(*                                                                         *)
(* An action is what one goroutine does between two points where another   *)
(* may be seen to act. Discovery and the collectors are only seen through  *)
(* their outcome: whether a server answered, whether there was anything    *)
(* to publish.                                                             *)
(***************************************************************************)
EXTENDS EpochStream

CONSTANTS
    JetStream,          \* SinkType is "jetstream"
    MaxEpochs,          \* SinkMaxEpochs, 0 for no pruning
    Interval,           \* ScrapeInterval, in ticks of the clock
    TicksPerSecond,     \* the clock is finer than the epochs are
    Endpoints,          \* varz ... ipqueuesz, in the order doScrape visits them
    Frequency,          \* for each endpoint, of how many scrapes it is in one
    IntervalDisabled, OnDemandDisabled,
    Events,             \* what may fail or happen, a subset of EventKinds
    Nobody              \* scrapingMu is free

CONSTANTS MaxClock, MaxTriggers, MaxLives    \* bounds of the exploration

EventKinds ==
    {"start", "lastEpoch", "discovery", "publish", "prune",  \* these may fail
     "pause", "cancel", "crash"}                             \* these may happen

ASSUME RunnerAssumption ==
    /\ JetStream \in BOOLEAN /\ IntervalDisabled \in BOOLEAN /\ OnDemandDisabled \in BOOLEAN
    /\ MaxEpochs \in Nat
    /\ Interval \in Nat \ {0} /\ TicksPerSecond \in Nat \ {0}
    /\ Endpoints \in Seq(STRING)
    /\ \A i \in 1..Len(Endpoints) : Endpoints[i] \notin {"start", "end"}
    /\ Frequency \in [1..Len(Endpoints) -> Nat \ {0}]
    /\ Events \subseteq EventKinds
    /\ MaxClock \in Nat /\ MaxTriggers \in Nat /\ MaxLives \in Nat
    /\ Nobody \notin {"interval", "ondemand"}

Scrapers == {"interval", "ondemand"}

VARIABLES
    pc,           \* where each goroutine is
    mu,           \* the holder of scrapingMu
    paused,       \* guarded by pausedMu
    scraping,     \* guarded by scrapingMu
    epochCount,   \* doScrape calls admitted since the process started
    job,          \* doScrape's locals: its epoch, start, progress and result
    delay,        \* Start's local of that name
    deadline,     \* when the timer fires
    scan,         \* Prune's locals
    after,        \* where the goroutine goes after pruneEpochs
    log, first,   \* the stream: see EpochStream
    clock,        \* time.Now, in ticks
    service,      \* the on-demand service is registered
    inbox,        \* triggers waiting in its subscription
    cancelled,    \* the context given to Start is done
    life,         \* how often the process has been started before
    triggers,     \* triggers sent so far
    scrapes,      \* ghost: who began each scrape, when, in which life
    mustSkip      \* ghost: paused when the goroutine locked scrapingMu and not resumed since

admission == <<mu, paused, scraping, epochCount>>
timer     == <<delay, deadline>>
stream    == <<log, first>>
host      == <<clock, service, inbox, cancelled, life, triggers>>
ghosts    == <<scrapes, mustSkip>>
pruning   == <<scan, after>>
vars      == <<pc, admission, job, timer, pruning, stream, host, ghosts>>

IntervalPC == {"boot", "resume", "arm", "parked", "wait", "returned",
               "open", "next", "purge", "schedule"}
OnDemandPC == {"idle", "reply"}
\* Inside doScrape: before admission, with scrapingMu held, and admitted.
LockedPC   == {"pauseCheck", "busyCheck"}
SectionPC  == {"begin", "discover", "start", "collect", "end", "leave"}

\* Unix time stays above 0, the value that stands for no epoch.
Unix(t) == 1 + t \div TicksPerSecond

NoJob == [scrape |-> 0, epoch |-> 0, at |-> 0, next |-> 0, duration |-> 0,
          result |-> "skipped"]

Goto(g, label) == pc' = [pc EXCEPT ![g] = label]

\* Where doScrape returns to.
Caller(g) == IF g = "interval" THEN "schedule" ELSE "reply"

-----------------------------------------------------------------------------
(* Start *)

\* Where a new process's goroutines are, and its other compound variables.
FreshPC   == [g \in Scrapers |-> IF g = "interval" THEN "boot" ELSE "idle"]
FreshJobs == [g \in Scrapers |-> NoJob]
Unpaused  == [g \in Scrapers |-> FALSE]

Init ==
    /\ pc = FreshPC
    /\ mu = Nobody /\ paused = FALSE /\ scraping = FALSE /\ epochCount = 0
    /\ job = FreshJobs
    /\ delay = 0 /\ deadline = 0
    /\ scan = EmptyScan /\ after = "arm"
    /\ log = <<>> /\ first = 1
    /\ clock = 0 /\ service = FALSE /\ inbox = 0 /\ cancelled = FALSE
    /\ life = 0 /\ triggers = 0
    /\ scrapes = <<>> /\ mustSkip = Unpaused

\* The process dies anywhere and is started again: every variable of the
\* Runner is new, the stream is what it was.
Crash ==
    /\ "crash" \in Events
    /\ life < MaxLives
    /\ life' = life + 1
    /\ pc' = FreshPC
    /\ mu' = Nobody /\ paused' = FALSE /\ scraping' = FALSE /\ epochCount' = 0
    /\ job' = FreshJobs
    /\ delay' = 0 /\ deadline' = 0
    /\ scan' = EmptyScan /\ after' = "arm"
    /\ service' = FALSE /\ inbox' = 0 /\ cancelled' = FALSE
    /\ mustSkip' = Unpaused
    /\ UNCHANGED <<stream, clock, triggers, scrapes>>

\* An unusable sink, a trigger subject inside the stream's subjects, a
\* service that cannot be registered, or nothing enabled: Start reports it.
StartFails ==
    /\ pc["interval"] = "boot"
    /\ "start" \in Events \/ (IntervalDisabled /\ OnDemandDisabled)
    /\ Goto("interval", "returned")
    /\ UNCHANGED <<admission, job, timer, pruning, stream, host, ghosts>>

\* The service is registered before the stream is looked at.
Boot ==
    /\ pc["interval"] = "boot"
    /\ ~(IntervalDisabled /\ OnDemandDisabled)
    /\ service' = ~OnDemandDisabled
    /\ Goto("interval", IF IntervalDisabled THEN "parked" ELSE "resume")
    /\ UNCHANGED <<admission, job, timer, pruning, stream, clock, inbox, cancelled,
                   life, triggers, ghosts>>

\* Deviation: the epoch's seconds are taken for ticks.
ResumeDelayInSeconds(epoch) ==
    LET elapsed == clock - (epoch - 1)
    IN  IF epoch > 0 /\ elapsed < Interval THEN Interval - elapsed ELSE 0

\* What is left of the interval since the last epoch, 0 when none is left.
ResumeDelay(epoch) ==
    LET elapsed == clock - (epoch - 1) * TicksPerSecond
    IN  IF epoch > 0 /\ elapsed < Interval THEN Interval - elapsed ELSE 0

\* LastEpoch answers, or it fails, as it must with a done context.
Resuming ==
    /\ pc["interval"] = "resume"
    /\ \/ delay' = IF JetStream /\ ~cancelled THEN ResumeDelay(LastEpoch(log, first)) ELSE 0
       \/ "lastEpoch" \in Events /\ delay' = 0
    /\ Goto("interval", "open")
    /\ after' = "arm"
    /\ UNCHANGED <<admission, job, deadline, scan, stream, host, ghosts>>

\* time.NewTimer(delay), once the first prune is over.
ArmFirst ==
    /\ pc["interval"] = "arm"
    /\ deadline' = clock + delay
    /\ Goto("interval", "wait")
    /\ UNCHANGED <<admission, job, delay, pruning, stream, host, ghosts>>

TimerFires ==
    /\ pc["interval"] = "wait"
    /\ clock >= deadline
    /\ deadline' = 0
    /\ Goto("interval", "open")
    /\ after' = "call"
    /\ UNCHANGED <<admission, job, delay, scan, stream, host, ghosts>>

\* Start returns, and its deferred call stops the service. Triggers the
\* subscription already holds are still handed out.
StartReturns ==
    /\ pc["interval"] \in {"wait", "parked"}
    /\ cancelled
    /\ Goto("interval", "returned")
    /\ service' = FALSE
    /\ UNCHANGED <<admission, job, timer, pruning, stream, clock, inbox, cancelled,
                   life, triggers, ghosts>>

\* Deviations: the subtraction is the wrong way round; scrapes are due at the
\* multiples of the interval, however late the last one was.
NextDelaySwapped(j) ==
    IF j.result = "ok" /\ j.duration <= Interval THEN j.duration - Interval ELSE Interval

NextDelayAligned(j) == Interval - (clock % Interval)

\* The time to the next scrape: the interval, less the duration of a scrape
\* that was executed without an error and within it.
NextDelay(j) ==
    IF j.result = "ok" /\ j.duration <= Interval THEN Interval - j.duration ELSE Interval

Reschedule ==
    /\ pc["interval"] = "schedule"
    /\ deadline' = clock + NextDelay(job["interval"])
    /\ job' = [job EXCEPT !["interval"] = NoJob]
    /\ Goto("interval", "wait")
    /\ UNCHANGED <<admission, delay, pruning, stream, host, ghosts>>

-----------------------------------------------------------------------------
(* pruneEpochs and Prune *)

PruneOff == ~JetStream \/ MaxEpochs = 0 \/ log = <<>>

\* Deviation: every prune is followed by time.NewTimer(delay).
PruneOpenRearming ==
    /\ pc["interval"] = "open"
    /\ scan' = EmptyScan
    /\ \/ PruneOff /\ Goto("interval", "arm")
       \/ ~PruneOff /\ ~cancelled /\ Goto("interval", "next")
    /\ UNCHANGED <<admission, job, timer, after, stream, host, ghosts>>

\* The stream is looked up and a consumer of its end markers created.
PruneOpen ==
    /\ pc["interval"] = "open"
    /\ scan' = EmptyScan
    /\ \/ PruneOff /\ Goto("interval", after)
       \/ ~PruneOff /\ ~cancelled /\ Goto("interval", "next")
    /\ UNCHANGED <<admission, job, timer, after, stream, host, ghosts>>

\* messages.Next() waits for an end marker, for ever if there is none: it is
\* not given the context. The marker that leaves none pending is the last.
PruneNext ==
    /\ pc["interval"] = "next"
    /\ \E i \in EndMarkers(log, first) :
          /\ IsLeast(i, {k \in EndMarkers(log, first) : k > scan.at})
          /\ scan' = ScanMarker(scan, i, log[i].epoch, MaxEpochs)
          /\ Goto("interval",
                  IF ~IsLast(i, EndMarkers(log, first)) THEN "next"
                  ELSE IF scan'.pruned > 0 THEN "purge" ELSE after)
    /\ UNCHANGED <<admission, job, timer, after, stream, host, ghosts>>

\* Deviation: the purge is not given a sequence number.
PrunePurgeAll ==
    /\ pc["interval"] = "purge"
    /\ ~cancelled
    /\ first' = Len(log) + 1
    /\ Goto("interval", after)
    /\ UNCHANGED <<admission, job, timer, pruning, log, host, ghosts>>

PrunePurge ==
    /\ pc["interval"] = "purge"
    /\ ~cancelled
    /\ first' = PurgePoint(scan, first)
    /\ Goto("interval", after)
    /\ UNCHANGED <<admission, job, timer, pruning, log, host, ghosts>>

\* The error is logged and the goroutine goes on. A done context is an error
\* to every call but messages.Next().
PruneFails ==
    /\ \/ pc["interval"] \in {"open", "next", "purge"} /\ "prune" \in Events
       \/ pc["interval"] \in {"open", "purge"} /\ cancelled
    /\ ~PruneOff
    /\ Goto("interval", after)
    /\ UNCHANGED <<admission, job, timer, pruning, stream, host, ghosts>>

-----------------------------------------------------------------------------
(* doScrape *)

Lock(g) ==
    /\ pc[g] = "call"
    /\ mu = Nobody
    /\ mu' = g
    /\ mustSkip' = [mustSkip EXCEPT ![g] = paused]
    /\ Goto(g, "pauseCheck")
    /\ UNCHANGED <<paused, scraping, epochCount, job, timer, pruning, stream, host, scrapes>>

\* Deviations: the timer's scrapes do not look at the flag; the early return
\* leaves the mutex locked.
CheckPausedOnDemandOnly(g) ==
    /\ pc[g] = "pauseCheck"
    /\ \/ paused /\ g = "ondemand" /\ mu' = Nobody /\ Goto(g, Caller(g))
       \/ ~(paused /\ g = "ondemand") /\ Goto(g, "busyCheck") /\ UNCHANGED mu
    /\ UNCHANGED <<paused, scraping, epochCount, job, timer, pruning, stream, host, ghosts>>

CheckPausedKeepsMutex(g) ==
    /\ pc[g] = "pauseCheck"
    /\ \/ paused /\ Goto(g, Caller(g))
       \/ ~paused /\ Goto(g, "busyCheck")
    /\ UNCHANGED <<mu, paused, scraping, epochCount, job, timer, pruning, stream, host, ghosts>>

\* IsPaused locks pausedMu only while it reads.
CheckPaused(g) ==
    /\ pc[g] = "pauseCheck"
    /\ \/ paused /\ mu' = Nobody /\ Goto(g, Caller(g))
       \/ ~paused /\ Goto(g, "busyCheck") /\ UNCHANGED mu
    /\ UNCHANGED <<paused, scraping, epochCount, job, timer, pruning, stream, host, ghosts>>

\* Deviations: the flag is set but not looked at; looked at but not set.
CheckBusyBlind(g) ==
    /\ pc[g] = "busyCheck"
    /\ mu' = Nobody
    /\ scraping' = TRUE
    /\ Goto(g, "begin")
    /\ UNCHANGED <<paused, epochCount, job, timer, pruning, stream, host, ghosts>>

CheckBusyUnset(g) ==
    /\ pc[g] = "busyCheck"
    /\ mu' = Nobody
    /\ Goto(g, IF scraping THEN Caller(g) ELSE "begin")
    /\ UNCHANGED <<paused, scraping, epochCount, job, timer, pruning, stream, host, ghosts>>

CheckBusy(g) ==
    /\ pc[g] = "busyCheck"
    /\ mu' = Nobody
    /\ \/ scraping /\ Goto(g, Caller(g)) /\ UNCHANGED scraping
       \/ ~scraping /\ scraping' = TRUE /\ Goto(g, "begin")
    /\ UNCHANGED <<paused, epochCount, job, timer, pruning, stream, host, ghosts>>

\* started := time.Now(); the epoch is its whole seconds.
Begin(g) ==
    /\ pc[g] = "begin"
    /\ epochCount' = epochCount + 1
    /\ scrapes' = Append(scrapes, [by |-> g, at |-> clock, life |-> life])
    /\ job' = [job EXCEPT ![g] = [NoJob EXCEPT !.scrape = Len(scrapes) + 1,
                                              !.epoch = Unix(clock), !.at = clock]]
    /\ Goto(g, "discover")
    /\ UNCHANGED <<mu, paused, scraping, timer, pruning, stream, host, mustSkip>>

\* Servers are found; or discovery fails, none answers, or all are excluded.
Discover(g) ==
    /\ pc[g] = "discover"
    /\ \/ Goto(g, "start") /\ UNCHANGED job
       \/ /\ "discovery" \in Events \/ cancelled
          /\ job' = [job EXCEPT ![g].result = "error"]
          /\ Goto(g, "leave")
    /\ UNCHANGED <<admission, timer, pruning, stream, host, ghosts>>

Publish(g, token) == log' = Append(log, Message(token, job[g].epoch, job[g].scrape))

\* The JetStream sink's Publish sends nothing once its context is done; the
\* core NATS sink's ignores it.
Refused == JetStream /\ cancelled

\* A marker whose publication fails is logged, and the scrape goes on.
PublishMarker(g, token) ==
    \/ ~Refused /\ Publish(g, token)
    \/ (Refused \/ "publish" \in Events) /\ UNCHANGED log

PublishStart(g) ==
    /\ pc[g] = "start"
    /\ PublishMarker(g, "start")
    /\ Goto(g, "collect")
    /\ UNCHANGED <<admission, job, timer, pruning, first, host, ghosts>>

\* Endpoint 0 is servers, in every scrape; the others take turns.
Due(i) == i > 0 => epochCount % Frequency[i] = 0
Token(i) == IF i = 0 THEN "servers" ELSE Endpoints[i]

\* Deviation: a scrape that gathered nothing last leaves without its end marker.
CollectThenLeave(g) ==
    LET i == job[g].next
    IN  /\ pc[g] = "collect"
        /\ job' = [job EXCEPT ![g].next = i + 1]
        /\ \/ Due(i) /\ Publish(g, Token(i)) /\ Goto(g, IF i = Len(Endpoints) THEN "end" ELSE "collect")
           \/ UNCHANGED log /\ Goto(g, IF i = Len(Endpoints) THEN "leave" ELSE "collect")
        /\ UNCHANGED <<admission, timer, pruning, first, host, ghosts>>

\* A collector that is due publishes its batch, if it has gathered any. No
\* sink gives a batch the context.
CollectIf(g, due) ==
    LET i == job[g].next
    IN  /\ pc[g] = "collect"
        /\ job' = [job EXCEPT ![g].next = i + 1]
        /\ \/ due /\ Publish(g, Token(i))
           \/ UNCHANGED log
        /\ Goto(g, IF i = Len(Endpoints) THEN "end" ELSE "collect")
        /\ UNCHANGED <<admission, timer, pruning, first, host, ghosts>>

Collect(g) == CollectIf(g, Due(job[g].next))

\* What ending a scrape changes besides the sink.
EndScrape(g) ==
    /\ pc[g] = "end"
    /\ job' = [job EXCEPT ![g].result = "ok", ![g].duration = clock - job[g].at]
    /\ Goto(g, "leave")
    /\ UNCHANGED <<admission, timer, pruning, first, ghosts>>

PublishEnd(g) == EndScrape(g) /\ PublishMarker(g, "end") /\ UNCHANGED host

\* The deferred function: it waits for scrapingMu and clears the flag.
Leave(g) ==
    /\ pc[g] = "leave"
    /\ mu = Nobody
    /\ scraping' = FALSE
    /\ Goto(g, Caller(g))
    /\ UNCHANGED <<mu, paused, epochCount, job, timer, pruning, stream, host, ghosts>>

-----------------------------------------------------------------------------
(* The on-demand service and the world around the runner *)

SendTrigger ==
    /\ service
    /\ triggers < MaxTriggers
    /\ triggers' = triggers + 1
    /\ inbox' = inbox + 1
    /\ UNCHANGED <<pc, admission, job, timer, pruning, stream, clock, service, cancelled,
                   life, ghosts>>

\* The subscription hands out the next trigger once the last one is answered.
TakeTrigger ==
    /\ pc["ondemand"] = "idle"
    /\ inbox > 0
    /\ inbox' = inbox - 1
    /\ Goto("ondemand", "call")
    /\ UNCHANGED <<admission, job, timer, pruning, stream, clock, service, cancelled,
                   life, triggers, ghosts>>

Respond ==
    /\ pc["ondemand"] = "reply"
    /\ Goto("ondemand", "idle")
    /\ job' = [job EXCEPT !["ondemand"] = NoJob]
    /\ UNCHANGED <<admission, timer, pruning, stream, host, ghosts>>

Pause ==
    /\ "pause" \in Events
    /\ ~paused
    /\ paused' = TRUE
    /\ UNCHANGED <<pc, mu, scraping, epochCount, job, timer, pruning, stream, host, ghosts>>

Resume ==
    /\ paused
    /\ paused' = FALSE
    /\ mustSkip' = Unpaused
    /\ UNCHANGED <<pc, mu, scraping, epochCount, job, timer, pruning, stream, host, scrapes>>

Cancel ==
    /\ "cancel" \in Events
    /\ ~cancelled
    /\ cancelled' = TRUE
    /\ UNCHANGED <<pc, admission, job, timer, pruning, stream, clock, service, inbox, life,
                   triggers, ghosts>>

Tick ==
    /\ clock < MaxClock
    /\ clock' = clock + 1
    /\ UNCHANGED <<pc, admission, job, timer, pruning, stream, service, inbox, cancelled,
                   life, triggers, ghosts>>

-----------------------------------------------------------------------------

StartLoop == \/ StartFails \/ Boot \/ Resuming \/ ArmFirst \/ TimerFires
             \/ StartReturns \/ Reschedule
             \/ PruneOpen \/ PruneNext \/ PrunePurge \/ PruneFails

DoScrape(g) == \/ Lock(g) \/ CheckPaused(g) \/ CheckBusy(g) \/ Begin(g) \/ Discover(g)
               \/ PublishStart(g) \/ Collect(g) \/ PublishEnd(g) \/ Leave(g)

OnDemand == TakeTrigger \/ Respond

World == SendTrigger \/ Pause \/ Resume \/ Cancel \/ Tick \/ Crash

Next == StartLoop \/ (\E g \in Scrapers : DoScrape(g)) \/ OnDemand \/ World

Spec == Init /\ [][Next]_vars

-----------------------------------------------------------------------------
(* Properties *)

JobType == [scrape : Nat, epoch : Nat, at : Nat, next : Nat, duration : Nat,
            result : {"skipped", "error", "ok"}]

Tokens == {"start", "servers", "end"} \cup {Endpoints[i] : i \in 1..Len(Endpoints)}

\* Each goroutine is at a point of its own or in doScrape.
PCOK ==
    /\ pc \in [Scrapers -> IntervalPC \cup OnDemandPC \cup {"call"} \cup LockedPC \cup SectionPC]
    /\ pc["interval"] \notin OnDemandPC /\ pc["ondemand"] \notin IntervalPC

\* Type correctness of every variable.
TypeOK ==
    /\ PCOK
    /\ mu \in Scrapers \cup {Nobody}
    /\ paused \in BOOLEAN /\ scraping \in BOOLEAN
    /\ epochCount \in Nat
    /\ job \in [Scrapers -> JobType]
    /\ delay \in Nat /\ deadline \in Nat
    /\ scan \in ScanType
    /\ after \in {"arm", "call"}
    /\ log \in Seq(Messages(Tokens)) /\ first \in Nat \ {0}
    /\ clock \in Nat /\ service \in BOOLEAN /\ inbox \in Nat /\ cancelled \in BOOLEAN
    /\ life \in Nat /\ triggers \in Nat
    /\ scrapes \in Seq([by : Scrapers, at : Nat, life : Nat])
    /\ mustSkip \in [Scrapers -> BOOLEAN]

\* A goroutine is scraping: between setting the flag and clearing it.
InSection(g) == pc[g] \in SectionPC

\* However triggers, the timer, pauses and crashes interleave, the two
\* goroutines never scrape at once, and the flag and the mutex say exactly
\* what they are doing (doScrape's admission, runner.go:154-171).
OneScrapeAtATime ==
    /\ \A g, h \in Scrapers : InSection(g) /\ InSection(h) => g = h
    /\ scraping <=> \E g \in Scrapers : InSection(g)
    /\ \A g \in Scrapers : mu = g <=> pc[g] \in LockedPC

\* A call of doScrape that found the runner paused when it got scrapingMu
\* scrapes only if a Resume came before its look at the flag: no pause is
\* overlooked, whoever calls (runner.go:155).
PauseHonoured ==
    \A g \in Scrapers : InSection(g) => ~mustSkip[g]

\* Each scrape's messages are one uninterrupted stretch of the stream,
\* opened by its start marker and closed by its end marker, where these were
\* not lost: no message of another scrape, of either goroutine or of a
\* process that died, comes in between (runner.go:216-286).
ScrapesAreContiguous ==
    \A i, j \in 1..Len(log) :
        i < j =>
            /\ log[i].scrape = log[j].scrape =>
                  /\ \A k \in i..j : log[k].scrape = log[i].scrape
                  /\ log[i].token # "end" /\ log[j].token # "start"
            /\ log[i].scrape <= log[j].scrape

\* Epochs never decrease along the stream, which is what makes the last end
\* marker the latest epoch (LastEpoch) and lets Prune count epochs by
\* comparing neighbours.
EpochsNeverDecrease ==
    \A i, j \in 1..Len(log) : i < j => log[i].epoch <= log[j].epoch

\* Two scrapes of the timer in one life of the process begin at least an
\* interval apart, whatever they took and however they ended, for all that
\* each rearms the timer itself (runner.go:392-407).
IntervalsAreKept ==
    \A i, j \in 1..Len(scrapes) :
        /\ i < j
        /\ scrapes[i].by = "interval" /\ scrapes[j].by = "interval"
        /\ scrapes[i].life = scrapes[j].life
        => scrapes[j].at - scrapes[i].at >= Interval

\* A scrape's end marker is in the stream.
Ended(s) == \E i \in 1..Len(log) : log[i].scrape = s /\ log[i].token = "end"

\* A scrape of the timer in a later life begins an interval after every
\* earlier scrape that was ended, less the second its epoch was cut to
\* (LastEpoch and runner.go:371-384). The last epoch must be readable.
IntervalsOutliveRestarts ==
    \A i, j \in 1..Len(scrapes) :
        /\ i < j
        /\ scrapes[i].life < scrapes[j].life /\ scrapes[j].by = "interval"
        /\ Ended(i)
        => scrapes[j].at - scrapes[i].at > Interval - TicksPerSecond

\* An epoch that a scrape of the timer has ended is never used by the timer
\* again, in this life or a later one, so its readers may stop at the end
\* marker. (A trigger within the same second does reuse it.) That takes an
\* interval of a second at least: TicksPerSecond <= Interval.
EndedEpochsStayClosed ==
    \A i, j \in 1..Len(scrapes) :
        /\ i < j
        /\ scrapes[i].by = "interval" /\ scrapes[j].by = "interval"
        /\ Ended(i)
        => Unix(scrapes[i].at) < Unix(scrapes[j].at)

\* The epochs a stream has end markers of, up to sequence number `last'.
EndedEpochs(l, f, last) == {l[i].epoch : i \in {k \in EndMarkers(l, f) : k <= last}}

\* The end markers of the newest MaxEpochs epochs are kept, and of all but
\* the oldest of these epochs every message: what Prune removes is never
\* newer, though scrapes may end while it is at it (jetstream.go:158-218).
NewestEpochsSurvive ==
    \A i \in 1..Len(log) :
        LET newer == {log[k].epoch : k \in {e \in EndMarkers(log, 1) : log[e].epoch > log[i].epoch}}
        IN  /\ MaxEpochs > 0 /\ log[i].token = "end"
               /\ (\A k \in 1..(i - 1) : log[k].token = "end" => log[k].epoch # log[i].epoch)
               /\ Cardinality(newer) < MaxEpochs
               => i >= first
            /\ MaxEpochs > 0 /\ Cardinality(newer) + 1 < MaxEpochs => i >= first

\* Nor does a purge ever reach into the scrape that is being published. (Of
\* one that has sent its end marker and not yet left, it may keep no more than
\* that marker, where MaxEpochs is 1.)
PruneSparesOpenScrape ==
    [][\A i \in first..(first' - 1), g \in Scrapers :
          pc[g] \in {"start", "collect", "end"} => log[i].scrape # job[g].scrape]_vars

\* When Prune has gone through without an error, the end markers it read and
\* left are of at most MaxEpochs epochs.
PruneLeavesMaxEpochs ==
    [][/\ pc["interval"] \in {"next", "purge"} /\ pc'["interval"] \notin {"next", "purge"}
       /\ ~(PruneFails \/ Crash)
       => Cardinality(EndedEpochs(log', first', scan'.at)) <= MaxEpochs]_vars

-----------------------------------------------------------------------------
(* Progress. Each goroutine that can go on does: collectors and sinks return *)
(* (their requests have deadlines), Go's mutex does not starve a waiter, and *)
(* the select of Start takes a branch that is ready. Nothing is asked of the *)
(* world: neither time, nor triggers, nor a fault, nor a Resume must come.   *)

StartStep == \/ Boot \/ Resuming \/ ArmFirst \/ TimerFires \/ StartReturns \/ Reschedule
             \/ PruneOpen \/ PruneNext \/ PrunePurge \/ (cancelled /\ PruneFails)

FairSpec ==
    /\ Spec
    /\ WF_vars(StartStep)
    /\ \A g \in Scrapers : WF_vars(DoScrape(g))
    /\ WF_vars(OnDemand)

\* Every trigger the service has accepted is answered in the end, be it with
\* a refusal (runner.go:292-305): neither the mutex nor the flag is ever left
\* set behind a scrape.
TriggersAreAnswered ==
    inbox > 0 \/ pc["ondemand"] # "idle" ~> inbox = 0 /\ pc["ondemand"] = "idle"

\* Once the timer is due, the interval goroutine gets past pruning and calls
\* doScrape, unless the runner is being stopped (runner.go:392-394).
DueScrapeIsTried ==
    pc["interval"] = "wait" /\ clock >= deadline ~> pc["interval"] = "call" \/ cancelled

\* After the context is done, Start returns (runner.go:367, 390).
StartReturnsOnceCancelled ==
    cancelled ~> pc["interval"] = "returned"
=============================================================================
