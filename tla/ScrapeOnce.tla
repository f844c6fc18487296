----------------------------- MODULE ScrapeOnce -----------------------------
(***************************************************************************)
(* The command src/cmd/scrape-once: it reads overrides from its flags,     *)
(* starts a runner that serves no triggers, and stops it from inside the   *)
(* sink, when an end marker has been published. Its exit status says       *)
(* whether that happened before the run time was up.                       *)
(*                                                                         *)
(* The runner is module Runner, with the interval goroutine alone. What    *)
(* the command changes of it are the two places where its sink functions   *)
(* and its overrides come in.                                              *)
(***************************************************************************)
EXTENDS Runner

CONSTANTS
    DisabledFlags,   \* values of -disabled-endpoints: sets of names
    FrequencyFlags,  \* values of -endpoint-frequencies: sequences of overrides
    MaxRuntime       \* -max-runtime, in ticks

ASSUME ScrapeOnceAssumption ==
    /\ OnDemandDisabled /\ ~IntervalDisabled
    /\ \A names \in DisabledFlags : names \subseteq STRING
    /\ \A items \in FrequencyFlags : items \in Seq([name : STRING, value : Int])
    /\ \A i \in 1..Len(Endpoints) : Endpoints[i] # "servers"   \* it has no override
    /\ MaxRuntime \in Nat

VARIABLES
    stage,      \* what the command is doing, or how it has ended
    items,      \* the overrides of frequencies not yet looked at
    disabled,   \* endpoints with Disabled set
    setting,    \* the frequency of every endpoint
    completed,  \* the manifest's flag of that name
    cause,      \* why the context is done
    startedAt   \* when the context was made

flags    == <<items, disabled, setting>>
verdict  == <<completed, cause>>
command  == <<stage, flags, verdict, startedAt>>
onceVars == <<vars, command>>

Exits  == {"rejected", "ok", "timedOut", "unexplained"}
Index  == 1..Len(Endpoints)
Default == [i \in Index |-> 1]   \* DefaultConfig: in every scrape

OnceInit ==
    /\ Init
    /\ stage = "flags"
    /\ items = <<>> /\ disabled = {} /\ setting = Default
    /\ completed = FALSE /\ cause = "none" /\ startedAt = 0

-----------------------------------------------------------------------------
(* applyEndpointOverrides *)

Known(name) == \E i \in Index : Endpoints[i] = name

ReadDisabled ==
    /\ stage = "flags"
    /\ \E names \in DisabledFlags, list \in FrequencyFlags :
          \/ /\ \A name \in names : Known(name)
             /\ disabled' = {i \in Index : Endpoints[i] \in names}
             /\ items' = list
             /\ stage' = "frequencies"
          \/ /\ \E name \in names : ~Known(name)
             /\ stage' = "rejected"
             /\ UNCHANGED <<disabled, items>>
    /\ UNCHANGED <<vars, setting, verdict, startedAt>>

\* endpoint=positive-integer, of an endpoint that exists.
Acceptable(item) == item.value > 0 /\ Known(item.name)

ReadFrequency ==
    /\ stage = "frequencies" /\ items # <<>>
    /\ LET item == Head(items)
       IN \/ /\ Acceptable(item)
             /\ setting' = [i \in Index |-> IF Endpoints[i] = item.name THEN item.value
                                            ELSE setting[i]]
             /\ items' = Tail(items)
             /\ UNCHANGED stage
          \/ /\ ~Acceptable(item)
             /\ stage' = "rejected"
             /\ UNCHANGED <<setting, items>>
    /\ UNCHANGED <<vars, disabled, verdict, startedAt>>

\* runner.New(...).Start(ctx), once the flags are read. It does not fail: the
\* command sets both sink functions and disables the service.
OnceBoot ==
    /\ stage = "frequencies" /\ items = <<>>
    /\ Boot
    /\ stage' = "running"
    /\ UNCHANGED <<flags, verdict, startedAt>>

-----------------------------------------------------------------------------
(* The runner under the command *)

Running == stage = "running"
Once    == "interval"     \* the only goroutine that scrapes

\* Deviation: frequencies are compared with the number of the process's life.
DueFirst(i) == i > 0 => i \notin disabled

DueHere(i) == i > 0 => epochCount % setting[i] = 0 /\ i \notin disabled

OnceCollect ==
    /\ Running
    /\ CollectIf(Once, DueHere(job[Once].next))
    /\ UNCHANGED command

\* Deviation: the context is cancelled whatever came of the publication.
OnceEndCancelling ==
    /\ Running
    /\ EndScrape(Once)
    /\ cancelled' = TRUE
    /\ cause' = IF cause = "none" THEN "canceled" ELSE cause
    /\ \/ /\ ~Refused /\ Publish(Once, "end")
          /\ completed' = TRUE
       \/ /\ Refused \/ "publish" \in Events
          /\ UNCHANGED <<log, completed>>
    /\ UNCHANGED <<clock, service, inbox, life, triggers, stage, flags, startedAt>>

\* The end marker, through the command's sink function: when it is published,
\* the function notes so and cancels the context. A publication that fails,
\* be it only for want of an acknowledgement, is none.
OnceEnd ==
    /\ Running
    /\ EndScrape(Once)
    /\ \/ /\ ~Refused /\ Publish(Once, "end")
          /\ completed' = TRUE
          /\ cancelled' = TRUE
          /\ cause' = IF cause = "none" THEN "canceled" ELSE cause
       \/ /\ Refused \/ "publish" \in Events
          /\ UNCHANGED log \/ (JetStream /\ ~Refused /\ Publish(Once, "end"))
          /\ UNCHANGED <<completed, cancelled, cause>>
    /\ UNCHANGED <<clock, service, inbox, life, triggers, stage, flags, startedAt>>

\* Everything else the interval goroutine does.
OnceStep ==
    /\ Running
    /\ \/ Resuming \/ ArmFirst \/ TimerFires \/ StartReturns \/ Reschedule
       \/ PruneOpen
       \/ Lock(Once) \/ CheckPaused(Once) \/ CheckBusy(Once) \/ Begin(Once)
       \/ Discover(Once) \/ PublishStart(Once) \/ Leave(Once)
    /\ UNCHANGED command

\* Deviation: Start is given a context that has no deadline.
ExpireUnseen ==
    /\ Running
    /\ cause = "none"
    /\ clock >= startedAt + MaxRuntime
    /\ cause' = "deadline"
    /\ UNCHANGED <<vars, stage, flags, completed, startedAt>>

\* context.WithTimeout(..., maxRuntime)
Expire ==
    /\ Running
    /\ clock >= startedAt + MaxRuntime
    /\ Cancel
    /\ cause' = "deadline"
    /\ UNCHANGED <<stage, flags, completed, startedAt>>

\* Start has returned: the command exits.
Exit ==
    /\ Running
    /\ pc[Once] = "returned"
    /\ stage' = CASE completed -> "ok"
                  [] ~completed /\ cause = "deadline" -> "timedOut"
                  [] ~completed /\ cause # "deadline" -> "unexplained"
    /\ UNCHANGED <<vars, flags, verdict, startedAt>>

\* Reading the flags takes no time to speak of.
OnceTick ==
    /\ stage \notin {"flags", "frequencies"}
    /\ Tick
    /\ UNCHANGED command

\* The command is run again, with other flags.
RunAgain ==
    /\ stage \in Exits
    /\ clock + MaxRuntime <= MaxClock
    /\ Crash
    /\ stage' = "flags"
    /\ items' = <<>> /\ disabled' = {} /\ setting' = Default
    /\ completed' = FALSE /\ cause' = "none" /\ startedAt' = clock

OnceProgress == ReadDisabled \/ ReadFrequency \/ OnceBoot \/ OnceStep \/ OnceCollect
                \/ OnceEnd \/ Expire \/ Exit

OnceNext == OnceProgress \/ OnceTick \/ RunAgain

\* The command's own goroutine runs, its context expires, and time passes.
OnceSpec ==
    /\ OnceInit /\ [][OnceNext]_onceVars
    /\ WF_onceVars(ReadDisabled \/ ReadFrequency \/ OnceBoot \/ OnceStep \/ OnceCollect
                   \/ OnceEnd \/ Exit)
    /\ WF_onceVars(Expire)
    /\ WF_onceVars(OnceTick)

-----------------------------------------------------------------------------
(* Properties *)

\* A command that exits with success has published an end marker in this run,
\* also when its run time was up meanwhile or the marker took several scrapes;
\* and "scrape ended without an end marker" is never the reason of a failure:
\* without an end marker it is the run time that ends the command
\* (main.go:116-123, 134-141, 155-164).
ExitTellsTheTruth ==
    /\ stage = "ok" =>
          \E i \in 1..Len(log) : log[i].token = "end" /\ scrapes[log[i].scrape].life = life
    /\ stage # "unexplained"

\* The how manieth scrape of its process a scrape is.
NthOfLife(s) == Cardinality({k \in 1..s : scrapes[k].life = scrapes[s].life})

\* Bad overrides are found before anything is scraped, so no scrape divides by
\* a frequency of zero; and good ones hold for everything that is published:
\* no batch of a disabled endpoint, nor of one whose frequency the scrape's
\* number is not a multiple of, counted from the start of the command
\* (main.go:167-191, runner.go:174, 223-280).
OverridesHonoured ==
    /\ stage \in {"flags", "frequencies", "rejected"} =>
          \A s \in 1..Len(scrapes) : scrapes[s].life # life
    /\ stage = "running" => \A i \in Index : setting[i] > 0
    /\ \A i \in 1..Len(log), k \in Index :
          /\ log[i].token = Endpoints[k]
          /\ scrapes[log[i].scrape].life = life
          => k \notin disabled /\ NthOfLife(log[i].scrape) % setting[k] = 0

\* However publications and discoveries fail, every run of the command ends, at
\* the latest some time after its run time is up, provided that what the scrape
\* under way waits for returns (main.go:93, 134-141).
OnceEnds ==
    stage \in {"flags", "frequencies", "running"} ~> stage \in Exits
=============================================================================
