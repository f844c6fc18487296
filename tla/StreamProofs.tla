---------------------------- MODULE StreamProofs ----------------------------
(***************************************************************************)
(* What the stream tells, for every configuration and whatever fails:      *)
(* which messages a prune takes; when the timer scrapes, in one life of    *)
(* the process and after a restart that reads the stream; and what readers *)
(* that come in at any time make of the messages.                          *)
(***************************************************************************)
EXTENDS RunnerProofs, SinkInspect

USE RunnerAssumption DEF Scrapers, admission, timer, pruning, stream, host, ghosts

-----------------------------------------------------------------------------
(* How the record and the log grow, step by step.                           *)

\* A step of an open scrape: it may publish one message of its own.
Works(g) ==
    /\ UNCHANGED <<scrapes, clock, life>>
    /\ InSection(g) /\ pc[g] # "begin"
    /\ job'[g].scrape = job[g].scrape /\ job'[g].epoch = job[g].epoch /\ job'[g].at = job[g].at
    /\ \A h \in Scrapers : h # g => pc'[h] = pc[h] /\ job'[h] = job[h]
    /\ \E token \in Tokens : Grows(g, token)

LEMMA ScrapeWorks ==
    ASSUME TypeInv, NEW g \in Scrapers,
           Discover(g) \/ PublishStart(g) \/ Collect(g) \/ PublishEnd(g)
    PROVE  Works(g)
<1>0. /\ pc \in [Scrapers -> IntervalPC \cup OnDemandPC \cup {"call"} \cup LockedPC \cup SectionPC]
      /\ job \in [Scrapers -> JobType]
  BY DEF TypeInv, TypeOK, PCOK
<1>1. {"start", "end"} \subseteq Tokens
  BY DEF Tokens
<1> USE DEF Goto, InSection, SectionPC, Works
<1>2. CASE Discover(g)
  <2>1. /\ UNCHANGED <<scrapes, clock, life, log>> /\ pc[g] = "discover"
        /\ \A h \in Scrapers : h # g => pc'[h] = pc[h] /\ job'[h] = job[h]
    BY <1>0, <1>2 DEF Discover
  <2>2. job'[g].scrape = job[g].scrape /\ job'[g].epoch = job[g].epoch /\ job'[g].at = job[g].at
    BY <1>0, <1>2, DiscoverJob
  <2> QED
    BY <1>1, <2>1, <2>2 DEF Grows
<1>3. CASE PublishStart(g)
  <2>1. /\ UNCHANGED <<scrapes, clock, life, job>> /\ pc[g] = "start"
        /\ \A h \in Scrapers : h # g => pc'[h] = pc[h]
    BY <1>0, <1>3 DEF PublishStart
  <2>2. Grows(g, "start")
    BY <1>3 DEF PublishStart, PublishMarker, Grows
  <2> QED
    BY <1>1, <2>1, <2>2
<1>4. CASE Collect(g)
  <2>1. /\ UNCHANGED <<scrapes, clock, life>> /\ pc[g] = "collect"
        /\ \A h \in Scrapers : h # g => pc'[h] = pc[h] /\ job'[h] = job[h]
    BY <1>0, <1>4 DEF Collect, CollectIf
  <2>2. job'[g].scrape = job[g].scrape /\ job'[g].epoch = job[g].epoch /\ job'[g].at = job[g].at
    BY <1>0, <1>4 DEF Collect, CollectIf, JobType
  <2>3. Token(job[g].next) \in Tokens
    <3>1. job[g] \in JobType /\ job[g].next <= Len(Endpoints)
      BY <1>0, <2>1 DEF TypeInv, JobsInv
    <3>2. job[g].next = 0 \/ job[g].next \in 1..Len(Endpoints)
      BY <3>1 DEF JobType
    <3> QED
      BY <3>2 DEF Token, Tokens
  <2>4. Grows(g, Token(job[g].next))
    BY <1>4 DEF Collect, CollectIf, Grows
  <2> QED
    BY <2>1, <2>2, <2>3, <2>4
<1>5. CASE PublishEnd(g)
  <2>1. /\ UNCHANGED <<scrapes, clock, life>> /\ pc[g] = "end"
        /\ \A h \in Scrapers : h # g => pc'[h] = pc[h] /\ job'[h] = job[h]
    BY <1>0, <1>5 DEF PublishEnd, EndScrape
  <2>2. job'[g].scrape = job[g].scrape /\ job'[g].epoch = job[g].epoch /\ job'[g].at = job[g].at
    BY <1>0, <1>5 DEF PublishEnd, EndScrape, JobType
  <2>3. Grows(g, "end")
    BY <1>5 DEF PublishEnd, EndScrape, PublishMarker, Grows
  <2> QED
    BY <1>1, <2>1, <2>2, <2>3
<1> QED
  BY <1>2, <1>3, <1>4, <1>5

\* A scrape that begins is appended to the record.
Begins(g) ==
    /\ pc[g] = "begin" /\ pc' = [pc EXCEPT ![g] = "discover"]
    /\ Len(scrapes') = Len(scrapes) + 1
    /\ scrapes'[Len(scrapes) + 1] = [by |-> g, at |-> clock, life |-> life]
    /\ \A i \in 1..Len(scrapes) : scrapes'[i] = scrapes[i]
    /\ job'[g].scrape = Len(scrapes) + 1
    /\ job'[g].epoch = Unix(clock) /\ job'[g].at = clock /\ job'[g].result = "skipped"
    /\ \A h \in Scrapers : h # g => job'[h] = job[h]
    /\ UNCHANGED <<log, first, clock, life, delay, deadline, scan, after, cancelled>>

LEMMA ScrapeBegins ==
    ASSUME TypeInv, NEW g \in Scrapers, Begin(g)
    PROVE  Begins(g)
<1>0. /\ job \in [Scrapers -> JobType] /\ scrapes \in Seq([by : Scrapers, at : Nat, life : Nat])
  BY DEF TypeInv, TypeOK
<1> DEFINE entry == [by |-> g, at |-> clock, life |-> life]
           new == [NoJob EXCEPT !.scrape = Len(scrapes) + 1, !.epoch = Unix(clock), !.at = clock]
<1>1. /\ new.scrape = Len(scrapes) + 1
      /\ new.epoch = Unix(clock) /\ new.at = clock /\ new.result = "skipped"
  BY DEF NoJob
<1>2. scrapes' = Append(scrapes, entry) /\ job' = [job EXCEPT ![g] = new]
  BY DEF Begin
<1>3. /\ Len(scrapes') = Len(scrapes) + 1 /\ scrapes'[Len(scrapes) + 1] = entry
      /\ \A i \in 1..Len(scrapes) : scrapes'[i] = scrapes[i]
  <2> HIDE DEF entry
  <2> QED BY <1>0, <1>2, AppendProperties
<1>4. /\ job'[g] = new /\ \A h \in Scrapers : h # g => job'[h] = job[h]
  <2> HIDE DEF new
  <2> QED BY <1>0, <1>2
<1>5. /\ pc[g] = "begin" /\ pc' = [pc EXCEPT ![g] = "discover"]
      /\ UNCHANGED <<log, first, clock, life, delay, deadline, scan, after, cancelled>>
  BY DEF Begin, Goto
<1> QED
  BY <1>1, <1>3, <1>4, <1>5 DEF Begins

\* A step of none of these kinds.
Rests == Crash \/ (KeepsStream /\ UNCHANGED life)

LEMMA OthersRest ==
    ASSUME TypeInv,
           StartLoop \/ OnDemand \/ World \/ UNCHANGED vars
           \/ \E g \in Scrapers : Lock(g) \/ CheckPaused(g) \/ CheckBusy(g) \/ Leave(g)
    PROVE  KeepsStream /\ Rests
<1>1. KeepsStream
  BY OthersKeepStream
<1>2. Crash \/ UNCHANGED life
  BY DEF StartLoop, OnDemand, World, StartFails, Boot, Resuming, ArmFirst, TimerFires, StartReturns,
         Reschedule, PruneOpen, PruneNext, PrunePurge, PruneFails, TakeTrigger, Respond, SendTrigger,
         Pause, Resume, Cancel, Tick, Lock, CheckPaused, CheckBusy, Leave, vars
<1> QED
  BY <1>1, <1>2 DEF Rests

-----------------------------------------------------------------------------
(* What the stream keeps. A purge never takes the newest end marker, so the *)
(* epoch LastEpoch reads is no older than any that was ended.               *)

Kept ==
    /\ first <= Len(log) + 1
    /\ \A k \in 1..Len(scan.ends) : scan.ends[k] \in EndMarkers(log, 1)
    /\ \A i \in EndMarkers(log, 1) : \E k \in EndMarkers(log, first) : i <= k

LEMMA KeptInit == Init => Kept
<1> SUFFICES ASSUME Init PROVE Kept
  OBVIOUS
<1>1. Len(log) = 0 /\ first = 1 /\ scan.ends = <<>>
  BY DEF Init, EmptyScan
<1>2. EndMarkers(log, 1) = {} /\ Len(scan.ends) = 0
  BY <1>1 DEF EndMarkers
<1> QED
  BY <1>1, <1>2 DEF Kept

\* The log grows by at most one message of its newest scrape, at the end.
LEMMA GrownLog ==
    ASSUME TypeInv, NEW g \in Scrapers, NEW token, Grows(g, token)
    PROVE  /\ Len(log) \in Nat /\ Len(log') \in Nat
           /\ Len(log') \in {Len(log), Len(log) + 1}
           /\ \A i \in 1..Len(log) : log'[i] = log[i]
           /\ \A i \in 1..Len(log') : i \notin 1..Len(log) => log'[i].scrape = job[g].scrape
<1>1. PICK n \in Nat : n = Len(log)
  BY StreamTypes
<1>2. PICK m : m = Message(token, job[g].epoch, job[g].scrape)
  OBVIOUS
<1>3. m.scrape = job[g].scrape
  BY <1>2 DEF Message
<1>4. CASE UNCHANGED log
  BY <1>1, <1>4
<1>5. CASE log' = Append(log, m)
  <2>1. /\ Len(log') = n + 1 /\ log'[n + 1] = m
        /\ \A i \in 1..n : log'[i] = log[i]
    BY <1>1, <1>5 DEF TypeInv, TypeOK
  <2>2. 1..(n + 1) = 1..n \cup {n + 1}
    OBVIOUS
  <2> QED
    BY <1>1, <1>3, <2>1, <2>2
<1> QED
  BY <1>2, <1>4, <1>5 DEF Grows, Publish

LEMMA GrowthKeeps ==
    ASSUME TypeInv, Kept, Len(log) \in Nat, Len(log') \in {Len(log), Len(log) + 1},
           \A i \in 1..Len(log) : log'[i] = log[i],
           UNCHANGED first, scan' = scan \/ scan' = EmptyScan
    PROVE  Kept'
<1>1. first \in Nat \ {0}
  BY DEF TypeInv, TypeOK
<1>2. first' <= Len(log') + 1
  BY <1>1 DEF Kept
<1>3. /\ EndMarkers(log, 1) \subseteq EndMarkers(log', 1)
      /\ EndMarkers(log, first) \subseteq EndMarkers(log', first)
  BY <1>1 DEF EndMarkers
<1>4. \A k \in 1..Len(scan'.ends) : scan'.ends[k] \in EndMarkers(log', 1)
  <2>1. CASE scan' = scan
    BY <1>3, <2>1 DEF Kept
  <2>2. CASE scan' = EmptyScan
    BY <2>2 DEF EmptyScan
  <2> QED
    BY <2>1, <2>2
<1>5. ASSUME NEW i \in EndMarkers(log', 1)
      PROVE  \E k \in EndMarkers(log', first) : i <= k
  <2>1. CASE i \in 1..Len(log)
    <3>1. i \in EndMarkers(log, 1)
      BY <1>5, <2>1 DEF EndMarkers
    <3> QED
      BY <1>3, <3>1 DEF Kept
  <2>2. CASE i \notin 1..Len(log)
    <3>1. i = Len(log) + 1 /\ i \in 1..Len(log') /\ i \in Int
      BY <1>5, <2>2 DEF EndMarkers
    <3>2. first <= i
      BY <1>1, <3>1 DEF Kept
    <3>3. i \in EndMarkers(log', first)
      BY <1>1, <1>5, <3>1, <3>2 DEF EndMarkers
    <3> QED
      BY <3>1, <3>3
  <2> QED
    BY <2>1, <2>2
<1> QED
  BY <1>2, <1>4, <1>5 DEF Kept

LEMMA PruneNextKeeps ==
    ASSUME TypeInv, Kept, PruneNext
    PROVE  Kept'
<1>1. PICK i \in EndMarkers(log, first) :
            scan' = ScanMarker(scan, i, log[i].epoch, MaxEpochs)
  BY DEF PruneNext
<1>2. UNCHANGED <<log, first>>
  BY DEF PruneNext
<1>3. i \in EndMarkers(log, 1) /\ i \in Nat
  BY <1>1 DEF EndMarkers, TypeInv, TypeOK
<1> DEFINE ends == scan.ends
           kept == IF Len(ends) = MaxEpochs THEN Tail(ends) ELSE ends
<1>4. ends \in Seq(Nat) /\ \A k \in 1..Len(ends) : ends[k] \in EndMarkers(log, 1)
  BY DEF TypeInv, TypeOK, ScanType, Kept
<1>5. scan'.ends = ends \/ scan'.ends = Append(kept, i)
  BY <1>1 DEF ScanMarker
<1>6. MaxEpochs \in Nat \ {0}
  BY DEF PruneNext, TypeInv, PruneInv
<1>7. kept \in Seq(Nat) /\ \A k \in 1..Len(kept) : kept[k] \in EndMarkers(log, 1)
  <2>1. CASE Len(ends) = MaxEpochs
    <3>1. ends # <<>>
      BY <1>6, <2>1
    <3>2. /\ Tail(ends) \in Seq(Nat) /\ Len(Tail(ends)) = Len(ends) - 1
          /\ \A k \in 1..Len(Tail(ends)) : Tail(ends)[k] = ends[k + 1]
      <4> HIDE DEF ends
      <4> QED BY <1>4, <3>1, HeadTailProperties
    <3>3. \A k \in 1..Len(Tail(ends)) : k + 1 \in 1..Len(ends)
      <4> HIDE DEF ends
      <4> QED BY <1>4, <3>2
    <3> QED
      BY <1>4, <2>1, <3>2, <3>3
  <2>2. CASE Len(ends) # MaxEpochs
    BY <1>4, <2>2
  <2> QED
    BY <2>1, <2>2
<1>8. \A k \in 1..Len(Append(kept, i)) : Append(kept, i)[k] \in EndMarkers(log, 1)
  <2>1. /\ Len(Append(kept, i)) = Len(kept) + 1 /\ Append(kept, i)[Len(kept) + 1] = i
        /\ \A k \in 1..Len(kept) : Append(kept, i)[k] = kept[k]
    <3> HIDE DEF kept
    <3> QED BY <1>3, <1>7, AppendProperties
  <2>2. 1..(Len(kept) + 1) = 1..Len(kept) \cup {Len(kept) + 1}
    <3> HIDE DEF kept
    <3> QED BY <1>7
  <2> QED
    BY <1>3, <1>7, <2>1, <2>2
<1> QED
  BY <1>2, <1>4, <1>5, <1>8 DEF Kept

LEMMA PrunePurgeKeeps ==
    ASSUME TypeInv, Kept, PrunePurge
    PROVE  Kept'
<1>1. UNCHANGED <<log, scan>> /\ first' = PurgePoint(scan, first)
  BY DEF PrunePurge, pruning
<1>2. first \in Nat \ {0} /\ Len(log) \in Nat
  BY StreamTypes DEF TypeInv, TypeOK
<1>3. CASE first' = first
  BY <1>1, <1>3 DEF Kept
<1>4. CASE first' # first
  <2>1. first' = scan.ends[1] /\ scan.pruned > 0
    BY <1>1, <1>4 DEF PurgePoint
  <2>2. 1 \in 1..Len(scan.ends)
    BY <2>1, LenProperties DEF TypeInv, PruneInv, ScanOK, ScanType
  <2>3. first' \in EndMarkers(log, 1)
    BY <2>1, <2>2 DEF Kept
  <2>4. first' \in 1..Len(log) /\ first' \in EndMarkers(log, first')
    BY <2>3 DEF EndMarkers
  <2>5. ASSUME NEW i \in EndMarkers(log, 1)
        PROVE  \E k \in EndMarkers(log, first') : i <= k
    <3>1. PICK k \in EndMarkers(log, first) : i <= k
      BY DEF Kept
    <3>2. k \in 1..Len(log) /\ log[k].token = "end" /\ i \in 1..Len(log)
      BY <1>2 DEF EndMarkers
    <3>3. CASE k >= first'
      BY <2>4, <3>1, <3>2, <3>3 DEF EndMarkers
    <3>4. CASE k < first'
      BY <2>4, <3>1, <3>2, <3>4
    <3> QED
      BY <2>4, <3>2, <3>3, <3>4
  <2>6. first' <= Len(log) + 1
    BY <1>2, <2>4
  <2> QED
    BY <1>1, <2>5, <2>6 DEF Kept
<1> QED
  BY <1>3, <1>4

\* Only Prune touches what the stream has kept.
LEMMA OthersSpare ==
    ASSUME TypeInv, [Next]_vars, ~PruneNext, ~PrunePurge
    PROVE  UNCHANGED first /\ (scan' = scan \/ scan' = EmptyScan)
BY DEF Next, StartLoop, OnDemand, World, DoScrape, StartFails, Boot, Resuming, ArmFirst, TimerFires,
       StartReturns, Reschedule, PruneOpen, PruneFails, TakeTrigger, Respond, SendTrigger,
       Pause, Resume, Cancel, Tick, Crash, Lock, CheckPaused, CheckBusy, Begin, Discover,
       PublishStart, Collect, CollectIf, PublishEnd, EndScrape, Leave, vars

LEMMA LogGrows ==
    ASSUME TypeInv, [Next]_vars
    PROVE  UNCHANGED log \/ \E g \in Scrapers, token \in Tokens : Works(g) /\ Grows(g, token)
<1>1. CASE KeepsStream
  BY <1>1 DEF KeepsStream
<1>2. ASSUME NEW g \in Scrapers, Works(g)
      PROVE  \E token \in Tokens : Works(g) /\ Grows(g, token)
  BY <1>2 DEF Works
<1>3. ASSUME NEW g \in Scrapers, Begin(g) PROVE UNCHANGED log
  BY <1>3 DEF Begin
<1> QED
  BY <1>1, <1>2, <1>3, OthersRest, ScrapeWorks DEF Next, DoScrape

LEMMA KeptStep ==
    ASSUME TypeInv, Kept, [Next]_vars
    PROVE  Kept'
<1>1. CASE PruneNext
  BY <1>1, PruneNextKeeps
<1>2. CASE PrunePurge
  BY <1>2, PrunePurgeKeeps
<1>3. CASE ~PruneNext /\ ~PrunePurge
  <2>1. /\ Len(log) \in Nat /\ Len(log') \in {Len(log), Len(log) + 1}
        /\ \A i \in 1..Len(log) : log'[i] = log[i]
    BY LogGrows, GrownLog, StreamTypes
  <2> QED
    BY <1>3, <2>1, OthersSpare, GrowthKeeps
<1> QED
  BY <1>1, <1>2, <1>3

\* What a restarted runner resumes from: no scrape that was ended is newer.
LEMMA LastEpochIsNewest ==
    ASSUME TypeInv, StreamInv, Kept, NEW i \in EndMarkers(log, 1)
    PROVE  LastEpoch(log, first) \in Nat /\ log[i].epoch <= LastEpoch(log, first)
<1> DEFINE ends == EndMarkers(log, first)
           last == CHOOSE k \in ends : IsLast(k, ends)
<1>1. first \in Nat \ {0} /\ log \in Seq(Messages(Tokens)) /\ Len(log) \in Nat
  BY StreamTypes DEF TypeInv, TypeOK
<1>2. PICK k \in ends : i <= k
  BY DEF Kept
<1>3. \E l \in ends : IsLast(l, ends)
  <2>1. ends \in SUBSET (0..Len(log)) /\ ends # {}
    BY <1>1, <1>2 DEF EndMarkers
  <2> HIDE DEF ends
  <2> QED
    BY <1>1, <2>1, LastExists
<1>4. IsLast(last, ends) /\ last \in ends
  BY <1>3 DEF IsLast
<1>5. LastEpoch(log, first) = log[last].epoch
  BY <1>2 DEF LastEpoch
<1> HIDE DEF last
<1>6. last \in 1..Len(log) /\ i \in 1..Len(log) /\ i <= last
  <2>1. last \in 1..Len(log) /\ k \in 1..Len(log) /\ i \in 1..Len(log)
    BY <1>1, <1>2, <1>4 DEF EndMarkers
  <2>2. k <= last
    BY <1>2, <1>4 DEF IsLast
  <2> QED
    BY <1>2, <2>1, <2>2
<1>7. log[i].epoch <= log[last].epoch
  <2>1. CASE i = last
    BY <1>6, <2>1, StreamTypes
  <2>2. CASE i < last
    BY <1>6, <2>2 DEF StreamInv, Ordered
  <2> QED
    BY <1>6, <2>1, <2>2
<1> QED
  BY <1>1, <1>5, <1>7, LastEpochType

-----------------------------------------------------------------------------
(* Pruning. While Prune reads, its end markers are the first it has met of  *)
(* the newest epochs it has met, MaxEpochs of them once it has dropped one. *)

Scanning == pc["interval"] \in {"next", "purge"}

\* Later markers are of later epochs, and of its epoch each is the first.
EndsInOrder(s) ==
    /\ \A k \in 1..Len(s.ends) : s.ends[k] \in EndMarkers(log, first) /\ s.ends[k] <= s.at
    /\ \A k, l \in 1..Len(s.ends) : k < l => log[s.ends[k]].epoch < log[s.ends[l]].epoch
    /\ \A k \in 1..Len(s.ends) : \A e \in EndMarkers(log, first) :
          e < s.ends[k] => log[e].epoch < log[s.ends[k]].epoch

EndsCounted(s) ==
    /\ Len(s.ends) <= MaxEpochs
    /\ s.pruned > 0 => Len(s.ends) = MaxEpochs

\* A marker that was read is of one of their epochs, or it was dropped.
Covered(s, e) ==
    \/ e < s.ends[1] /\ s.pruned > 0
    \/ \E k \in 1..Len(s.ends) : log[e].epoch = log[s.ends[k]].epoch

EndsCover(s) ==
    IF Len(s.ends) = 0 THEN s = EmptyScan
    ELSE /\ s.at \in EndMarkers(log, first)
         /\ s.previous = log[s.at].epoch
         /\ s.previous = log[s.ends[Len(s.ends)]].epoch
         /\ \A e \in EndMarkers(log, first) : e <= s.at => Covered(s, e)

ScanSound(s) == EndsInOrder(s) /\ EndsCounted(s) /\ EndsCover(s)

ScanInv == Scanning => ScanSound(scan)

LEMMA EmptyScanSound == ScanSound(EmptyScan)
<1>1. Len(EmptyScan.ends) = 0 /\ EmptyScan.pruned = 0
  BY DEF EmptyScan
<1> QED
  BY <1>1, RunnerAssumption DEF ScanSound, EndsInOrder, EndsCounted, EndsCover

\* Markers and their epochs are in the same order.
LEMMA MarkersInOrder ==
    ASSUME TypeInv, StreamInv
    PROVE  /\ \A e \in EndMarkers(log, first) : e \in 1..Len(log) /\ e \in Nat /\ log[e].epoch \in Nat
           /\ \A d, e \in EndMarkers(log, first) :
                 /\ d <= e => log[d].epoch <= log[e].epoch
                 /\ log[d].epoch < log[e].epoch => d < e
<1>1. \A e \in EndMarkers(log, first) : e \in 1..Len(log) /\ e \in Nat /\ log[e].epoch \in Nat
  BY StreamTypes DEF EndMarkers, TypeInv, TypeOK
<1>2. ASSUME NEW d \in EndMarkers(log, first), NEW e \in EndMarkers(log, first), d <= e
      PROVE  log[d].epoch <= log[e].epoch
  <2>1. CASE d = e
    BY <1>1, <2>1
  <2>2. CASE d < e
    BY <1>1, <2>2 DEF StreamInv, Ordered
  <2> QED
    BY <1>1, <1>2, <2>1, <2>2
<1>3. ASSUME NEW d \in EndMarkers(log, first), NEW e \in EndMarkers(log, first),
             log[d].epoch < log[e].epoch
      PROVE  d < e
  <2>1. ~(e <= d)
    BY <1>1, <1>2, <1>3
  <2> QED
    BY <1>1, <2>1
<1> QED
  BY <1>1, <1>2, <1>3

\* One more marker, of the same epoch as the last.
LEMMA SameEpochSound ==
    ASSUME TypeInv, StreamInv, NEW s \in ScanType, ScanSound(s),
           NEW i \in EndMarkers(log, first), s.at < i,
           \A k \in EndMarkers(log, first) : k > s.at => i <= k,
           log[i].epoch = s.previous
    PROVE  ScanSound([s EXCEPT !.at = i])
<1>1. PICK t : t = [s EXCEPT !.at = i]
  OBVIOUS
<1>2. t.ends = s.ends /\ t.pruned = s.pruned /\ t.previous = s.previous /\ t.at = i
  BY <1>1 DEF ScanType
<1>3. PICK n \in Nat : n = Len(s.ends)
  BY DEF ScanType
<1>4. n # 0
  <2>1. log[i].epoch # NoEpoch
    BY MarkersInOrder DEF NoEpoch
  <2>2. EmptyScan.previous = NoEpoch
    BY DEF EmptyScan
  <2> QED
    BY <1>3, <2>1, <2>2 DEF ScanSound, EndsCover
<1>5. /\ s.at \in EndMarkers(log, first) /\ s.previous = log[s.ends[n]].epoch
      /\ \A e \in EndMarkers(log, first) : e <= s.at => Covered(s, e)
  BY <1>3, <1>4 DEF ScanSound, EndsCover
<1>6. EndsInOrder(t)
  <2>1. \A k \in 1..n : s.ends[k] <= i
    BY <1>3, <1>5, MarkersInOrder DEF ScanSound, EndsInOrder
  <2> QED
    BY <1>2, <1>3, <2>1 DEF ScanSound, EndsInOrder
<1>7. EndsCounted(t)
  BY <1>2 DEF ScanSound, EndsCounted
<1>8. ASSUME NEW e \in EndMarkers(log, first), e <= i PROVE Covered(t, e)
  <2>1. CASE e <= s.at
    BY <1>2, <1>5, <2>1 DEF Covered
  <2>2. CASE e > s.at
    <3>1. e = i
      BY <1>8, <2>2, MarkersInOrder
    <3> QED
      BY <1>2, <1>3, <1>4, <1>5, <3>1 DEF Covered
  <2> QED
    BY <1>5, <2>1, <2>2, MarkersInOrder
<1>9. EndsCover(t)
  BY <1>2, <1>3, <1>4, <1>5, <1>8 DEF EndsCover
<1> QED
  BY <1>1, <1>6, <1>7, <1>9 DEF ScanSound

\* One more marker, of a later epoch: it is remembered, and the oldest of
\* MaxEpochs remembered ones is dropped.
LEMMA NewEpochSound ==
    ASSUME TypeInv, StreamInv, NEW s \in ScanType, ScanOK(s), ScanSound(s), MaxEpochs > 0,
           NEW i \in EndMarkers(log, first), s.at < i,
           \A k \in EndMarkers(log, first) : k > s.at => i <= k,
           log[i].epoch # s.previous
    PROVE  ScanSound(ScanMarker(s, i, log[i].epoch, MaxEpochs))
<1>0. /\ \A e \in EndMarkers(log, first) : e \in 1..Len(log) /\ e \in Nat /\ log[e].epoch \in Nat
      /\ s.ends \in Seq(Nat) /\ s.pruned \in Nat /\ MaxEpochs \in Nat \ {0}
  BY MarkersInOrder DEF ScanType
<1>1. PICK full \in BOOLEAN : full <=> Len(s.ends) = MaxEpochs
  OBVIOUS
<1>2. PICK kept : kept = IF full THEN Tail(s.ends) ELSE s.ends
  OBVIOUS
<1>3. PICK t : t = ScanMarker(s, i, log[i].epoch, MaxEpochs)
  OBVIOUS
<1>4. /\ t.ends = Append(kept, i) /\ t.previous = log[i].epoch /\ t.at = i
      /\ t.pruned = s.pruned + (IF full THEN 1 ELSE 0)
  BY <1>1, <1>2, <1>3 DEF ScanMarker
<1>5. PICK n \in Nat, off \in {0, 1} : n = Len(s.ends) /\ off = IF full THEN 1 ELSE 0
  BY <1>0
\* What is kept, by position.
<1>6. PICK m \in Nat : /\ kept \in Seq(Nat) /\ Len(kept) = m /\ m + off = n
                       /\ \A k \in 1..m : k + off \in 1..n /\ kept[k] = s.ends[k + off]
  <2>1. CASE full
    <3>1. s.ends # <<>> /\ n = MaxEpochs
      BY <1>0, <1>1, <1>5, <2>1
    <3>2. /\ Tail(s.ends) \in Seq(Nat) /\ Len(Tail(s.ends)) = n - 1
          /\ \A k \in 1..Len(Tail(s.ends)) : Tail(s.ends)[k] = s.ends[k + 1]
      <4>1. /\ Tail(s.ends) \in Seq(Nat) /\ Len(Tail(s.ends)) = Len(s.ends) - 1
            /\ \A k \in 1..Len(Tail(s.ends)) : Tail(s.ends)[k] = s.ends[k + 1]
        BY <1>0, <3>1, HeadTailProperties
      <4> QED
        BY <1>5, <4>1
    <3>3. n - 1 \in Nat /\ (n - 1) + 1 = n /\ \A k \in 1..(n - 1) : k + 1 \in 1..n
      BY <1>0, <3>1
    <3> QED
      BY <1>2, <1>5, <2>1, <3>2, <3>3
  <2>2. CASE ~full
    BY <1>0, <1>2, <1>5, <2>2
  <2> QED
    BY <2>1, <2>2
<1>7. /\ Len(t.ends) = m + 1 /\ t.ends[m + 1] = i
      /\ \A k \in 1..m : t.ends[k] = s.ends[k + off]
  <2>1. i \in Nat
    BY <1>0
  <2>2. /\ Len(Append(kept, i)) = m + 1 /\ Append(kept, i)[m + 1] = i
        /\ \A k \in 1..m : Append(kept, i)[k] = kept[k]
    BY <1>6, <2>1, AppendProperties
  <2> QED
    BY <1>4, <1>6, <2>2
<1>8. 1..(m + 1) = 1..m \cup {m + 1} /\ m + 1 \in 1..(m + 1) /\ 1 \in 1..(m + 1)
  OBVIOUS
\* The markers before this one are of earlier epochs.
<1>9. ASSUME NEW e \in EndMarkers(log, first), e < i
      PROVE  log[e].epoch < log[i].epoch /\ n # 0 /\ e <= s.at
  <2>1. e <= s.at
    <3>1. s.at \in Nat
      BY DEF ScanType
    <3> QED
      BY <1>0, <1>9, <3>1
  <2>2. n # 0
    <3>1. EmptyScan.at = 0
      BY DEF EmptyScan
    <3> QED
      BY <1>0, <1>5, <2>1, <3>1 DEF ScanSound, EndsCover
  <2>3. s.at \in EndMarkers(log, first) /\ s.previous = log[s.at].epoch
    BY <1>5, <2>2 DEF ScanSound, EndsCover
  <2>4. log[e].epoch <= log[s.at].epoch /\ log[s.at].epoch <= log[i].epoch
    <3>1. \A c, d \in EndMarkers(log, first) : c <= d => log[c].epoch <= log[d].epoch
      BY MarkersInOrder
    <3>2. s.at <= i
      BY <1>0, <2>3
    <3> QED
      BY <2>1, <2>3, <3>1, <3>2
  <2> QED
    BY <1>0, <2>1, <2>2, <2>3, <2>4
<1>10. \A k \in 1..n : s.ends[k] \in EndMarkers(log, first) /\ s.ends[k] < i
  <2>1. \A k \in 1..n : s.ends[k] \in EndMarkers(log, first) /\ s.ends[k] <= s.at
    BY <1>5 DEF ScanSound, EndsInOrder
  <2>2. s.at \in Nat /\ i \in Nat /\ s.at < i
    BY <1>0 DEF ScanType
  <2>3. ASSUME NEW k \in 1..n PROVE s.ends[k] < i
    <3>1. s.ends[k] \in Nat /\ s.ends[k] <= s.at
      BY <1>0, <2>1
    <3> QED
      BY <2>2, <3>1
  <2> QED
    BY <2>1, <2>3
<1>11. EndsInOrder(t)
  <2>1. \A k \in 1..(m + 1) : t.ends[k] \in EndMarkers(log, first) /\ t.ends[k] <= t.at
    <3>1. \A k \in 1..m : t.ends[k] \in EndMarkers(log, first) /\ t.ends[k] <= i
      <4> TAKE k \in 1..m
      <4>1. k + off \in 1..n /\ t.ends[k] = s.ends[k + off]
        BY <1>6, <1>7
      <4>2. s.ends[k + off] \in EndMarkers(log, first) /\ s.ends[k + off] < i
        BY <1>10, <4>1
      <4>3. s.ends[k + off] \in Nat /\ i \in Nat
        BY <1>0, <4>2
      <4> QED
        BY <4>1, <4>2, <4>3
    <3> QED
      BY <1>0, <1>4, <1>7, <1>8, <3>1
  <2>2. ASSUME NEW k \in 1..(m + 1), NEW l \in 1..(m + 1), k < l
        PROVE  log[t.ends[k]].epoch < log[t.ends[l]].epoch
    <3>1. k \in 1..m /\ k + off \in 1..n /\ t.ends[k] = s.ends[k + off]
      BY <1>6, <1>7, <2>2
    <3>2. CASE l \in 1..m
      <4>1. l + off \in 1..n /\ t.ends[l] = s.ends[l + off] /\ k + off < l + off
        BY <1>5, <1>6, <1>7, <2>2, <3>2
      <4> QED
        BY <1>5, <3>1, <4>1 DEF ScanSound, EndsInOrder
    <3>3. CASE l = m + 1
      BY <1>7, <1>9, <1>10, <3>1, <3>3
    <3> QED
      BY <1>8, <3>2, <3>3
  <2>3. ASSUME NEW k \in 1..(m + 1), NEW e \in EndMarkers(log, first), e < t.ends[k]
        PROVE  log[e].epoch < log[t.ends[k]].epoch
    <3>1. CASE k \in 1..m
      <4>1. k + off \in 1..n /\ t.ends[k] = s.ends[k + off]
        BY <1>6, <1>7, <3>1
      <4> QED
        BY <1>5, <2>3, <4>1 DEF ScanSound, EndsInOrder
    <3>2. CASE k = m + 1
      BY <1>7, <1>9, <2>3, <3>2
    <3> QED
      BY <1>8, <3>1, <3>2
  <2> QED
    BY <1>7, <2>1, <2>2, <2>3 DEF EndsInOrder
<1>12. EndsCounted(t)
  <2>1. n <= MaxEpochs /\ (s.pruned > 0 => n = MaxEpochs)
    BY <1>5 DEF ScanSound, EndsCounted
  <2>2. CASE full
    <3>1. m + 1 = MaxEpochs
      BY <1>0, <1>1, <1>5, <1>6, <2>2
    <3> QED
      BY <1>0, <1>7, <3>1 DEF EndsCounted
  <2>3. CASE ~full
    <3>1. n # MaxEpochs /\ m = n /\ t.pruned = s.pruned
      BY <1>0, <1>1, <1>4, <1>5, <1>6, <2>3
    <3>2. m + 1 <= MaxEpochs /\ ~(t.pruned > 0)
      BY <1>0, <2>1, <3>1
    <3> QED
      BY <1>7, <3>2 DEF EndsCounted
  <2> QED
    BY <2>2, <2>3
<1>13. ASSUME NEW e \in EndMarkers(log, first), e <= i PROVE Covered(t, e)
  <2>1. CASE e = i
    BY <1>7, <1>8, <2>1 DEF Covered
  <2>2. CASE e < i
    <3>1. n # 0 /\ e <= s.at
      BY <1>9, <2>2
    <3>2. Covered(s, e)
      BY <1>5, <3>1 DEF ScanSound, EndsCover
    \* What is no later than the dropped marker is before those that are kept.
    <3>3. ASSUME full, log[e].epoch <= log[s.ends[1]].epoch PROVE Covered(t, e)
      <4>1. log[s.ends[1]].epoch < log[t.ends[1]].epoch /\ t.ends[1] \in EndMarkers(log, first)
        <5>1. 1 \in 1..n /\ off = 1
          BY <1>5, <3>1, <3>3
        <5>2. CASE m = 0
          <6>1. t.ends[1] = i
            BY <1>7, <5>2
          <6> QED
            BY <1>9, <1>10, <5>1, <6>1
        <5>3. CASE m # 0
          <6>1. 1 \in 1..m /\ 1 + 1 \in 1..n /\ t.ends[1] = s.ends[1 + 1] /\ 1 < 1 + 1
            BY <1>6, <1>7, <5>1, <5>3
          <6> QED
            BY <1>5, <1>10, <5>1, <6>1 DEF ScanSound, EndsInOrder
        <5> QED
          BY <5>2, <5>3
      <4>2. s.ends[1] \in EndMarkers(log, first)
        BY <1>10, <3>1, <1>5
      <4>3. log[e].epoch < log[t.ends[1]].epoch
        <5>1. /\ log[e].epoch \in Nat /\ log[s.ends[1]].epoch \in Nat
              /\ log[t.ends[1]].epoch \in Nat
          BY <4>1, <4>2, MarkersInOrder
        <5> QED
          BY <3>3, <4>1, <5>1
      <4>4. e < t.ends[1]
        BY <4>1, <4>3, MarkersInOrder
      <4>5. t.pruned > 0
        BY <1>0, <1>4, <3>3
      <4> QED
        BY <4>4, <4>5 DEF Covered
    <3>4. CASE e < s.ends[1] /\ s.pruned > 0
      <4>1. n = MaxEpochs /\ 1 \in 1..n
        BY <1>5, <3>1, <3>4 DEF ScanSound, EndsCounted
      <4>2. full
        BY <1>1, <1>5, <4>1
      <4>3. log[e].epoch < log[s.ends[1]].epoch
        BY <1>5, <3>4, <4>1 DEF ScanSound, EndsInOrder
      <4> QED
        BY <1>0, <1>10, <3>3, <4>1, <4>2, <4>3
    <3>5. ASSUME NEW k \in 1..n, log[e].epoch = log[s.ends[k]].epoch PROVE Covered(t, e)
      <4>1. CASE full /\ k = 1
        BY <1>0, <3>3, <3>5, <4>1
      <4>2. CASE ~(full /\ k = 1)
        <5>1. k - off \in 1..m /\ (k - off) + off = k
          BY <1>5, <1>6, <3>5, <4>2
        <5>2. t.ends[k - off] = s.ends[k] /\ k - off \in 1..(m + 1)
          BY <1>7, <1>8, <5>1
        <5> QED
          BY <1>7, <3>5, <5>2 DEF Covered
      <4> QED
        BY <4>1, <4>2
    <3> QED
      BY <1>5, <3>2, <3>4, <3>5 DEF Covered
  <2> QED
    BY <1>0, <1>13, <2>1, <2>2
<1>14. EndsCover(t)
  <2>1. m + 1 # 0
    OBVIOUS
  <2> QED
    BY <1>4, <1>7, <1>13, <2>1 DEF EndsCover
<1> QED
  BY <1>3, <1>11, <1>12, <1>14 DEF ScanSound

\* All that Prune does between its steps, and the others at any time.
LEMMA ScanStays ==
    ASSUME TypeInv, [Next]_vars, ~PruneOpen, ~PruneNext, ~PrunePurge, ~PruneFails, ~Crash
    PROVE  UNCHANGED <<first, scan>> /\ (Scanning' <=> Scanning)
<1> USE DEF TypeInv, TypeOK, PCOK, IntervalPC, OnDemandPC, LockedPC, SectionPC, Goto, Scanning
<1>1. CASE StartFails
  BY <1>1 DEF StartFails
<1>2. CASE Boot
  BY <1>2 DEF Boot
<1>3. CASE Resuming
  BY <1>3 DEF Resuming
<1>4. CASE ArmFirst
  BY <1>4 DEF ArmFirst
<1>5. CASE TimerFires
  BY <1>5 DEF TimerFires
<1>6. CASE StartReturns
  BY <1>6 DEF StartReturns
<1>7. CASE Reschedule
  BY <1>7 DEF Reschedule
<1>8. ASSUME NEW g \in Scrapers, Lock(g) PROVE UNCHANGED <<first, scan>> /\ (Scanning' <=> Scanning)
  BY <1>8 DEF Lock
<1>9. ASSUME NEW g \in Scrapers, CheckPaused(g)
      PROVE  UNCHANGED <<first, scan>> /\ (Scanning' <=> Scanning)
  BY <1>9 DEF CheckPaused, Caller
<1>10. ASSUME NEW g \in Scrapers, CheckBusy(g)
       PROVE  UNCHANGED <<first, scan>> /\ (Scanning' <=> Scanning)
  BY <1>10 DEF CheckBusy, Caller
<1>11. ASSUME NEW g \in Scrapers, Begin(g) PROVE UNCHANGED <<first, scan>> /\ (Scanning' <=> Scanning)
  BY <1>11 DEF Begin
<1>12. ASSUME NEW g \in Scrapers, Discover(g)
       PROVE  UNCHANGED <<first, scan>> /\ (Scanning' <=> Scanning)
  BY <1>12 DEF Discover
<1>13. ASSUME NEW g \in Scrapers, PublishStart(g)
       PROVE  UNCHANGED <<first, scan>> /\ (Scanning' <=> Scanning)
  BY <1>13 DEF PublishStart
<1>14. ASSUME NEW g \in Scrapers, Collect(g)
       PROVE  UNCHANGED <<first, scan>> /\ (Scanning' <=> Scanning)
  BY <1>14 DEF Collect, CollectIf
<1>15. ASSUME NEW g \in Scrapers, PublishEnd(g)
       PROVE  UNCHANGED <<first, scan>> /\ (Scanning' <=> Scanning)
  BY <1>15 DEF PublishEnd, EndScrape
<1>16. ASSUME NEW g \in Scrapers, Leave(g) PROVE UNCHANGED <<first, scan>> /\ (Scanning' <=> Scanning)
  BY <1>16 DEF Leave, Caller
<1>17. CASE TakeTrigger
  BY <1>17 DEF TakeTrigger
<1>18. CASE Respond
  BY <1>18 DEF Respond
<1>19. CASE SendTrigger
  BY <1>19 DEF SendTrigger
<1>20. CASE Pause
  BY <1>20 DEF Pause
<1>21. CASE Resume
  BY <1>21 DEF Resume
<1>22. CASE Cancel
  BY <1>22 DEF Cancel
<1>23. CASE Tick
  BY <1>23 DEF Tick
<1>24. CASE UNCHANGED vars
  BY <1>24 DEF vars
<1> QED
  BY <1>1, <1>2, <1>3, <1>4, <1>5, <1>6, <1>7, <1>8, <1>9, <1>10, <1>11, <1>12, <1>13, <1>14, <1>15, <1>16, <1>17, <1>18, <1>19, <1>20, <1>21, <1>22, <1>23, <1>24 DEF Next, StartLoop, DoScrape, OnDemand, World

\* Messages that arrive in the meantime come after the markers that were read.
LEMMA GrowthKeepsScan ==
    ASSUME TypeInv, Kept, ScanSound(scan), Len(log) \in Nat, Len(log') \in {Len(log), Len(log) + 1},
           \A i \in 1..Len(log) : log'[i] = log[i], UNCHANGED <<first, scan>>
    PROVE  ScanSound(scan)'
<1>0. first \in Nat \ {0} /\ scan.at \in Nat
  BY DEF TypeInv, TypeOK, ScanType
<1>1. /\ EndMarkers(log, first) \subseteq EndMarkers(log', first)
      /\ \A e \in EndMarkers(log, first) : e \in 1..Len(log) /\ log'[e] = log[e]
      /\ \A e \in EndMarkers(log', first) : e \in EndMarkers(log, first) \/ e = Len(log) + 1
  BY <1>0 DEF EndMarkers
<1>2. /\ \A k \in 1..Len(scan.ends) : scan.ends[k] \in EndMarkers(log, first)
      /\ \A k \in 1..Len(scan.ends) : log'[scan.ends[k]] = log[scan.ends[k]]
  BY <1>1 DEF ScanSound, EndsInOrder
<1>3. EndsInOrder(scan)'
  <2>1. \A k \in 1..Len(scan.ends) : scan.ends[k] \in EndMarkers(log', first) /\ scan.ends[k] <= scan.at
    BY <1>1 DEF ScanSound, EndsInOrder
  <2>2. \A k, l \in 1..Len(scan.ends) : k < l => log'[scan.ends[k]].epoch < log'[scan.ends[l]].epoch
    BY <1>2 DEF ScanSound, EndsInOrder
  <2>3. ASSUME NEW k \in 1..Len(scan.ends), NEW e \in EndMarkers(log', first), e < scan.ends[k]
        PROVE  log'[e].epoch < log'[scan.ends[k]].epoch
    <3>1. e # Len(log) + 1
      BY <1>1, <1>2, <2>3
    <3>2. e \in EndMarkers(log, first) /\ log'[e] = log[e]
      BY <1>1, <3>1
    <3> QED
      BY <1>2, <2>3, <3>2 DEF ScanSound, EndsInOrder
  <2> QED
    BY <2>1, <2>2, <2>3 DEF EndsInOrder
<1>4. EndsCounted(scan)'
  BY DEF ScanSound, EndsCounted
<1>5. EndsCover(scan)'
  <2>1. CASE Len(scan.ends) = 0
    BY <2>1 DEF ScanSound, EndsCover
  <2>2. CASE Len(scan.ends) # 0
    <3>1. /\ scan.at \in EndMarkers(log, first) /\ scan.previous = log[scan.at].epoch
          /\ scan.previous = log[scan.ends[Len(scan.ends)]].epoch
          /\ \A e \in EndMarkers(log, first) : e <= scan.at => Covered(scan, e)
      BY <2>2 DEF ScanSound, EndsCover
    <3>2. Len(scan.ends) \in 1..Len(scan.ends)
      BY <2>2 DEF TypeInv, TypeOK, ScanType
    <3>3. ASSUME NEW e \in EndMarkers(log', first), e <= scan.at PROVE Covered(scan, e)'
      <4>1. scan.at \in 1..Len(log)
        BY <1>1, <3>1
      <4>2. e # Len(log) + 1
        BY <3>3, <4>1
      <4>3. e \in EndMarkers(log, first) /\ log'[e] = log[e]
        BY <1>1, <4>2
      <4>4. Covered(scan, e)
        BY <3>1, <3>3, <4>3
      <4> QED
        BY <1>2, <4>3, <4>4 DEF Covered
    <3>4. scan.at \in EndMarkers(log', first) /\ log'[scan.at] = log[scan.at]
      BY <1>1, <3>1
    <3> QED
      BY <1>2, <2>2, <3>1, <3>2, <3>3, <3>4 DEF EndsCover
  <2> QED
    BY <2>1, <2>2
<1> QED
  BY <1>3, <1>4, <1>5 DEF ScanSound

\* A marker that was read leaves the scan as sound as it was.
LEMMA PruneNextSound ==
    ASSUME TypeInv, StreamInv, ScanInv, PruneNext
    PROVE  ScanSound(scan')
<1>1. PICK i \in EndMarkers(log, first) :
            /\ IsLeast(i, {k \in EndMarkers(log, first) : k > scan.at})
            /\ scan' = ScanMarker(scan, i, log[i].epoch, MaxEpochs)
  BY DEF PruneNext
<1>2. scan.at < i /\ \A k \in EndMarkers(log, first) : k > scan.at => i <= k
  <2>1. i > scan.at /\ \A k \in EndMarkers(log, first) : k > scan.at => i <= k
    BY <1>1 DEF IsLeast
  <2>2. i \in Nat /\ scan.at \in Nat
    BY MarkersInOrder DEF TypeInv, TypeOK, ScanType
  <2> QED
    BY <2>1, <2>2
<1>3. /\ scan \in ScanType /\ ScanOK(scan) /\ MaxEpochs > 0 /\ ScanSound(scan)
  BY DEF PruneNext, TypeInv, PruneInv, ScanOK, ScanInv, Scanning
<1>4. CASE log[i].epoch = scan.previous
  <2>1. scan' = [scan EXCEPT !.at = i]
    BY <1>1, <1>4 DEF ScanMarker
  <2> QED
    BY <1>2, <1>3, <1>4, <2>1, SameEpochSound
<1>5. CASE log[i].epoch # scan.previous
  BY <1>1, <1>2, <1>3, <1>5, NewEpochSound
<1> QED
  BY <1>4, <1>5

LEMMA ScanInit == Init => ScanInv
BY FreshTypes DEF Init, ScanInv, Scanning

LEMMA ScanStep ==
    ASSUME TypeInv, StreamInv, Kept, ScanInv, [Next]_vars
    PROVE  ScanInv'
<1>1. CASE PruneOpen
  <2>1. scan' = EmptyScan
    BY <1>1 DEF PruneOpen
  <2>2. UNCHANGED <<log, first>>
    BY <1>1 DEF PruneOpen
  <2>3. ScanSound(EmptyScan)
    BY EmptyScanSound
  <2> QED
    BY <2>1, <2>2, <2>3 DEF ScanInv, ScanSound, EndsInOrder, EndsCounted, EndsCover, Covered
<1>2. CASE PruneNext
  <2>1. ScanSound(scan')
    BY <1>2, PruneNextSound
  <2>2. UNCHANGED <<log, first>>
    BY <1>2 DEF PruneNext
  <2> QED
    BY <2>1, <2>2 DEF ScanInv, ScanSound, EndsInOrder, EndsCounted, EndsCover, Covered
<1>3. CASE PrunePurge \/ PruneFails \/ Crash
  <2>1. ~Scanning'
    <3>1. /\ pc \in [Scrapers -> IntervalPC \cup OnDemandPC \cup {"call"} \cup LockedPC \cup SectionPC]
          /\ after \in {"arm", "call"}
      BY DEF TypeInv, TypeOK, PCOK
    <3>2. CASE PrunePurge
      BY <3>1, <3>2 DEF PrunePurge, Goto, Scanning
    <3>3. CASE PruneFails
      BY <3>1, <3>3 DEF PruneFails, Goto, Scanning
    <3>4. CASE Crash
      BY <3>4, FreshTypes DEF Crash, Scanning
    <3> QED
      BY <1>3, <3>2, <3>3, <3>4
  <2> QED
    BY <2>1 DEF ScanInv
<1>4. CASE ~PruneOpen /\ ~PruneNext /\ ~PrunePurge /\ ~PruneFails /\ ~Crash
  <2>1. /\ Len(log) \in Nat /\ Len(log') \in {Len(log), Len(log) + 1}
        /\ \A i \in 1..Len(log) : log'[i] = log[i]
    BY LogGrows, GrownLog, StreamTypes
  <2>2. UNCHANGED <<first, scan>> /\ (Scanning' <=> Scanning)
    BY <1>4, ScanStays
  <2> QED
    BY <2>1, <2>2, GrowthKeepsScan DEF ScanInv
<1> QED
  BY <1>1, <1>2, <1>3, <1>4

\* Rising numbers are as many as their positions.
LEMMA RisingCount ==
    ASSUME NEW n \in Nat, NEW f \in [1..n -> Nat],
           \A k, l \in 1..n : k < l => f[k] < f[l]
    PROVE  LET S == {f[k] : k \in 1..n} IN IsFiniteSet(S) /\ Cardinality(S) = n
<1> DEFINE S == {f[k] : k \in 1..n}
<1>1. f \in Surjection(1..n, S)
  BY DEF Surjection
<1>2. ASSUME NEW k \in 1..n, NEW l \in 1..n, f[k] = f[l] PROVE k = l
  <2>1. f[k] \in Nat /\ f[l] \in Nat
    OBVIOUS
  <2>2. ~(k < l) /\ ~(l < k)
    BY <1>2, <2>1
  <2> QED
    BY <2>2
<1>3. f \in Injection(1..n, S)
  <2>1. f \in [1..n -> S]
    BY <1>1 DEF Surjection
  <2>2. DOMAIN f = 1..n
    OBVIOUS
  <2>3. IsInjective(f)
    BY <1>2, <2>2 DEF IsInjective
  <2> QED
    BY <2>1, <2>3 DEF Injection
<1>4. IsFiniteSet(1..n) /\ Cardinality(1..n) = n
  <2>1. IsFiniteSet(1..n) /\ Cardinality(1..n) = IF 1 > n THEN 0 ELSE n - 1 + 1
    BY FS_Interval
  <2> QED
    BY <2>1
<1> HIDE DEF S
<1>5. IsFiniteSet(S) /\ (Cardinality(S) = Cardinality(1..n) <=> f \in Injection(1..n, S))
  BY <1>1, <1>4, FS_Surjection
<1> QED
  BY <1>3, <1>4, <1>5 DEF S

\* The epochs of a list of end markers, from the one at position `from'.
EpochsFrom(ends, from) == {log[ends[k]].epoch : k \in from..Len(ends)}

\* A sound scan's end markers are of as many epochs as there are markers.
LEMMA ScanCount ==
    ASSUME TypeInv, StreamInv, NEW s \in ScanType, ScanSound(s),
           NEW from \in 1..(Len(s.ends) + 1)
    PROVE  /\ IsFiniteSet(EpochsFrom(s.ends, from))
           /\ Cardinality(EpochsFrom(s.ends, from)) = Len(s.ends) + 1 - from
<1>1. PICK n \in Nat, m \in Nat : n = Len(s.ends) /\ m = n + 1 - from
  BY DEF ScanType
<1>2. \A k \in 1..n : log[s.ends[k]].epoch \in Nat
  BY <1>1, MarkersInOrder DEF ScanSound, EndsInOrder
<1>3. \A k \in 1..m : (k - 1) + from \in 1..n
  BY <1>1
<1> DEFINE f == [k \in 1..m |-> log[s.ends[(k - 1) + from]].epoch]
<1>4. f \in [1..m -> Nat]
  BY <1>2, <1>3
<1>5. \A k, l \in 1..m : k < l => f[k] < f[l]
  <2>1. \A k, l \in 1..m : k < l => (k - 1) + from < (l - 1) + from
    BY <1>1
  <2> QED
    BY <1>1, <1>3, <2>1 DEF ScanSound, EndsInOrder
<1>6. {f[k] : k \in 1..m} = EpochsFrom(s.ends, from)
  <2>1. \A k \in from..n : k - from + 1 \in 1..m /\ ((k - from + 1) - 1) + from = k
    BY <1>1
  <2>2. \A k \in from..n : f[k - from + 1] = log[s.ends[k]].epoch
    BY <2>1
  <2>3. \A k \in 1..m : (k - 1) + from \in from..n /\ f[k] = log[s.ends[(k - 1) + from]].epoch
    BY <1>1
  <2> HIDE DEF f
  <2>4. {f[k] : k \in 1..m} \subseteq EpochsFrom(s.ends, from)
    <3>1. ASSUME NEW k \in 1..m PROVE f[k] \in EpochsFrom(s.ends, from)
      <4>1. PICK l \in from..n : l = (k - 1) + from
        BY <2>3
      <4>2. f[k] = log[s.ends[l]].epoch
        BY <2>3, <4>1
      <4> QED
        BY <1>1, <4>2 DEF EpochsFrom
    <3> QED
      BY <3>1
  <2>5. EpochsFrom(s.ends, from) \subseteq {f[k] : k \in 1..m}
    <3>1. ASSUME NEW k \in from..n PROVE log[s.ends[k]].epoch \in {f[l] : l \in 1..m}
      BY <2>1, <2>2
    <3> QED
      BY <1>1, <3>1 DEF EpochsFrom
  <2> QED
    BY <2>4, <2>5
<1> HIDE DEF f
<1>7. IsFiniteSet({f[k] : k \in 1..m}) /\ Cardinality({f[k] : k \in 1..m}) = m
  BY <1>4, <1>5, RisingCount
<1> QED
  BY <1>1, <1>6, <1>7

-----------------------------------------------------------------------------

\* The epochs with an end marker that are newer than the message's.
Newer(i) == {log[k].epoch : k \in {e \in EndMarkers(log, 1) : log[e].epoch > log[i].epoch}}

NewerCounted ==
    \A i \in Nat : IsFiniteSet(Newer(i)) /\ Cardinality(Newer(i)) \in Nat

LEMMA NewerFinite == TypeInv /\ StreamInv => NewerCounted
<1> SUFFICES ASSUME TypeInv, StreamInv, NEW i \in Nat
             PROVE  IsFiniteSet(Newer(i)) /\ Cardinality(Newer(i)) \in Nat
  BY DEF NewerCounted
<1>1. \A k \in EndMarkers(log, 1) : log[k].epoch \in Nat /\ log[k].epoch <= Unix(clock)
  BY StreamTypes DEF EndMarkers, StreamInv, LogInv
<1>2. Newer(i) \in SUBSET Nat /\ \A e \in Newer(i) : e <= Unix(clock)
  BY <1>1 DEF Newer
<1>3. Unix(clock) \in Nat
  BY StreamTypes
<1>4. IsFiniteSet(Newer(i))
  BY <1>2, <1>3, FS_BoundedSetOfNaturals
<1> QED
  BY <1>4, FS_CardinalityType

LEMMA NewerFiniteNext == TypeInv' /\ StreamInv' => NewerCounted'
BY NewerFinite, PTL

\* A purge leaves MaxEpochs - 1 newer epochs, and one more to an end marker
\* that is the first of its epoch.
LEMMA PurgeSparesNewest ==
    ASSUME TypeInv, StreamInv, ScanInv, NewestEpochsSurvive, PrunePurge
    PROVE  NewestEpochsSurvive'
<1>1. PICK n \in Nat : n = Len(scan.ends)
  BY DEF TypeInv, TypeOK, ScanType
<1>2. /\ ScanSound(scan) /\ scan \in ScanType /\ scan.pruned > 0
      /\ UNCHANGED log /\ first' = PurgePoint(scan, first) /\ MaxEpochs \in Nat
  BY DEF PrunePurge, ScanInv, Scanning, TypeInv, TypeOK, PruneInv
<1>3. n = MaxEpochs /\ n # 0
  BY <1>1, <1>2 DEF ScanSound, EndsCounted, PrunePurge, TypeInv, PruneInv
<1>6. NewerCounted
  BY NewerFinite
<1>4. CASE first' = first
  BY <1>2, <1>4 DEF NewestEpochsSurvive, EndMarkers
<1>5. CASE first' = scan.ends[1]
  <2>1. PICK p : p = scan.ends[1]
    OBVIOUS
  <2>2. 1 \in 1..n /\ p \in EndMarkers(log, first) /\ p \in 1..Len(log) /\ first' = p
    <3>1. 1 \in 1..n
      BY <1>3
    <3>2. p \in EndMarkers(log, first)
      BY <1>1, <1>2, <2>1, <3>1 DEF ScanSound, EndsInOrder
    <3> QED
      BY <1>5, <2>1, <3>1, <3>2, MarkersInOrder
  <2>3. \A k \in 1..n : /\ scan.ends[k] \in EndMarkers(log, 1)
                        /\ log[scan.ends[k]].epoch \in Nat
                        /\ k # 1 => log[p].epoch < log[scan.ends[k]].epoch
    <3>1. \A k \in 1..n : scan.ends[k] \in EndMarkers(log, first)
      BY <1>1, <1>2 DEF ScanSound, EndsInOrder
    <3>2. \A k \in 1..n : k # 1 => 1 < k
      OBVIOUS
    <3>3. EndMarkers(log, first) \subseteq EndMarkers(log, 1)
      BY DEF EndMarkers, TypeInv, TypeOK
    <3> QED
      BY <1>1, <1>2, <2>1, <2>2, <3>1, <3>2, <3>3, MarkersInOrder DEF ScanSound, EndsInOrder
  <2>4. ASSUME NEW i \in 1..Len(log), i < p
        PROVE  log[i].epoch \in Nat /\ log[i].epoch <= log[p].epoch /\ log[p].epoch \in Nat
    <3>1. log[i].epoch <= log[p].epoch
      BY <2>2, <2>4 DEF StreamInv, Ordered
    <3> QED
      BY <2>2, <2>4, <3>1, StreamTypes
  <2>5. ASSUME NEW i \in 1..Len(log), i < p PROVE n <= Cardinality(Newer(i)) + 1
    <3> DEFINE S == EpochsFrom(scan.ends, 2)
    <3>1. S \subseteq Newer(i)
      <4>1. ASSUME NEW k \in 2..n
            PROVE  k \in 1..n /\ log[i].epoch < log[scan.ends[k]].epoch
        <5>1. k \in 1..n /\ k # 1
          OBVIOUS
        <5>2. log[p].epoch < log[scan.ends[k]].epoch /\ log[scan.ends[k]].epoch \in Nat
          BY <2>3, <5>1
        <5>3. log[i].epoch \in Nat /\ log[i].epoch <= log[p].epoch /\ log[p].epoch \in Nat
          BY <2>4, <2>5
        <5> QED
          BY <5>1, <5>2, <5>3
      <4> QED
        BY <1>1, <2>3, <4>1 DEF Newer, EpochsFrom
    <3>2. Cardinality(S) = n + 1 - 2
      <4>1. 2 \in 1..(Len(scan.ends) + 1)
        BY <1>1, <1>3
      <4> QED
        BY <1>1, <1>2, <4>1, ScanCount
    <3> HIDE DEF S
    <3>3. Cardinality(S) <= Cardinality(Newer(i))
      BY <1>6, <3>1, FS_Subset DEF NewerCounted
    <3> QED
      BY <1>6, <3>2, <3>3 DEF NewerCounted
  <2>6. ASSUME NEW i \in 1..Len(log), i < p, log[i].epoch # log[p].epoch
        PROVE  n <= Cardinality(Newer(i))
    <3> DEFINE S == EpochsFrom(scan.ends, 1)
    <3>1. S \subseteq Newer(i)
      <4>1. \A k \in 1..n : log[i].epoch < log[scan.ends[k]].epoch
        <5>1. log[i].epoch < log[p].epoch
          BY <2>4, <2>6
        <5> QED
          BY <2>1, <2>3, <2>4, <2>6, <5>1
      <4> QED
        BY <1>1, <2>3, <4>1 DEF Newer, EpochsFrom
    <3>2. Cardinality(S) = n + 1 - 1
      <4>1. 1 \in 1..(Len(scan.ends) + 1)
        BY <1>1
      <4> QED
        BY <1>1, <1>2, <4>1, ScanCount
    <3> HIDE DEF S
    <3>3. Cardinality(S) <= Cardinality(Newer(i))
      BY <1>6, <3>1, FS_Subset DEF NewerCounted
    <3> QED
      BY <1>6, <3>2, <3>3 DEF NewerCounted
  <2>7. ASSUME NEW i \in 1..Len(log), MaxEpochs > 0, log[i].token = "end",
               \A k \in 1..(i - 1) : log[k].token = "end" => log[k].epoch # log[i].epoch,
               Cardinality(Newer(i)) < MaxEpochs
        PROVE  i >= p
    <3> SUFFICES ASSUME i < p PROVE FALSE
      BY <2>2
    <3>1. i >= first
      BY <2>7 DEF NewestEpochsSurvive, Newer
    <3>2. i \in EndMarkers(log, first)
      BY <2>7, <3>1 DEF EndMarkers, TypeInv, TypeOK
    <3>3. log[i].epoch < log[p].epoch
      BY <1>1, <1>2, <2>1, <2>2, <3>2 DEF ScanSound, EndsInOrder
    <3>4. n <= Cardinality(Newer(i))
      BY <2>4, <2>6, <3>3
    <3> QED
      BY <1>3, <1>6, <2>7, <3>4 DEF NewerCounted
  <2>8. ASSUME NEW i \in 1..Len(log), MaxEpochs > 0, Cardinality(Newer(i)) + 1 < MaxEpochs
        PROVE  i >= p
    <3> SUFFICES ASSUME i < p PROVE FALSE
      BY <2>2
    <3>1. n <= Cardinality(Newer(i)) + 1
      BY <2>5
    <3> QED
      BY <1>3, <1>6, <2>8, <3>1 DEF NewerCounted
  <2>9. \A i \in 1..Len(log) :
           /\ MaxEpochs > 0 /\ log[i].token = "end"
              /\ (\A k \in 1..(i - 1) : log[k].token = "end" => log[k].epoch # log[i].epoch)
              /\ Cardinality(Newer(i)) < MaxEpochs
              => i >= p
           /\ MaxEpochs > 0 /\ Cardinality(Newer(i)) + 1 < MaxEpochs => i >= p
    BY <2>7, <2>8
  <2>10. log' = log /\ first' = p
    BY <1>2, <2>2
  <2> QED
    BY <2>9, <2>10 DEF NewestEpochsSurvive, Newer
<1> QED
  BY <1>2, <1>4, <1>5 DEF PurgePoint

LEMMA GrowthSparesNewest ==
    ASSUME TypeInv, StreamInv, TypeInv', StreamInv', Kept, NewestEpochsSurvive,
           Len(log) \in Nat, Len(log') \in {Len(log), Len(log) + 1},
           \A i \in 1..Len(log) : log'[i] = log[i], UNCHANGED first
    PROVE  NewestEpochsSurvive'
<1>0. first \in Nat \ {0} /\ first <= Len(log) + 1
  BY DEF TypeInv, TypeOK, Kept
<1>1. \A i \in 1..Len(log') : i \notin 1..Len(log) => i >= first
  BY <1>0
<1>2. EndMarkers(log, 1) \subseteq EndMarkers(log', 1)
      /\ \A k \in EndMarkers(log, 1) : log'[k] = log[k]
  BY DEF EndMarkers
<1>3. ASSUME NEW i \in 1..Len(log)
      PROVE  /\ Cardinality(Newer(i)) \in Nat /\ Cardinality(Newer(i)') \in Nat
             /\ Cardinality(Newer(i)) <= Cardinality(Newer(i)')
  <2>1. Newer(i) \subseteq Newer(i)'
    BY <1>2 DEF Newer
  <2>2. i \in Nat /\ NewerCounted /\ NewerCounted'
    BY NewerFinite, NewerFiniteNext
  <2>3. IsFiniteSet(Newer(i)') /\ Cardinality(Newer(i)') \in Nat /\ Cardinality(Newer(i)) \in Nat
    BY <2>2 DEF NewerCounted
  <2> QED
    BY <2>1, <2>3, FS_Subset
<1>4. ASSUME NEW i \in 1..Len(log'), MaxEpochs > 0, log'[i].token = "end",
             \A k \in 1..(i - 1) : log'[k].token = "end" => log'[k].epoch # log'[i].epoch,
             Cardinality(Newer(i)') < MaxEpochs
      PROVE  i >= first
  <2>1. CASE i \in 1..Len(log)
    <3>1. Cardinality(Newer(i)) < MaxEpochs
      BY <1>3, <1>4, <2>1, RunnerAssumption
    <3>2. \A k \in 1..(i - 1) : k \in 1..Len(log)
      BY <2>1
    <3>3. log[i].token = "end" /\ \A k \in 1..(i - 1) : log[k].token = "end" => log[k].epoch # log[i].epoch
      BY <1>4, <2>1, <3>2
    <3> QED
      BY <1>4, <2>1, <3>1, <3>3 DEF NewestEpochsSurvive, Newer
  <2> QED
    BY <1>1, <2>1
<1>5. ASSUME NEW i \in 1..Len(log'), MaxEpochs > 0, Cardinality(Newer(i)') + 1 < MaxEpochs
      PROVE  i >= first
  <2>1. CASE i \in 1..Len(log)
    <3>1. Cardinality(Newer(i)) + 1 < MaxEpochs
      BY <1>3, <1>5, <2>1, RunnerAssumption
    <3> QED
      BY <1>5, <2>1, <3>1 DEF NewestEpochsSurvive, Newer
  <2> QED
    BY <1>1, <2>1
<1> QED
  BY <1>4, <1>5 DEF NewestEpochsSurvive, Newer

LEMMA NewestInit == Init => NewestEpochsSurvive
BY DEF Init, NewestEpochsSurvive

LEMMA NewestStep ==
    ASSUME TypeInv, StreamInv, TypeInv', StreamInv', Kept, ScanInv, NewestEpochsSurvive, [Next]_vars
    PROVE  NewestEpochsSurvive'
<1>1. CASE PrunePurge
  BY <1>1, PurgeSparesNewest
<1>2. CASE ~PrunePurge
  <2>1. UNCHANGED first
    <3>1. CASE PruneNext
      BY <3>1 DEF PruneNext
    <3>2. CASE ~PruneNext
      BY <1>2, <3>2, OthersSpare
    <3> QED
      BY <3>1, <3>2
  <2>2. /\ Len(log) \in Nat /\ Len(log') \in {Len(log), Len(log) + 1}
        /\ \A i \in 1..Len(log) : log'[i] = log[i]
    BY LogGrows, GrownLog, StreamTypes
  <2> QED
    BY <2>1, <2>2, GrowthSparesNewest
<1> QED
  BY <1>1, <1>2

LEMMA PruneInvariant == Spec => [](Kept /\ ScanInv /\ NewestEpochsSurvive)
<1>1. Init => Kept /\ ScanInv /\ NewestEpochsSurvive
  BY KeptInit, ScanInit, NewestInit
<1>2. TypeInv /\ StreamInv /\ TypeInv' /\ StreamInv' /\ Kept /\ ScanInv /\ NewestEpochsSurvive
        /\ [Next]_vars => Kept' /\ ScanInv' /\ NewestEpochsSurvive'
  BY KeptStep, ScanStep, NewestStep
<1> QED
  BY <1>1, <1>2, TypeInvariant, StreamInvariant, PTL DEF Spec

\* However many scrapes end while Prune reads, and wherever it fails, what it
\* removes is never of the newest MaxEpochs epochs, but for the messages of
\* the oldest of these before its end marker (Runner!NewestEpochsSurvive).
THEOREM NewestSurvive == Spec => []NewestEpochsSurvive
  BY PruneInvariant, PTL

\* A purge stops before the scrape that is being published, whoever scrapes
\* (Runner!PruneSparesOpenScrape).
THEOREM OpenScrapeSpared == Spec => PruneSparesOpenScrape
<1>1. ASSUME TypeInv, StreamInv, ScanInv, [Next]_vars,
             NEW i \in first..(first' - 1), NEW g \in Scrapers,
             pc[g] \in {"start", "collect", "end"}
      PROVE  log[i].scrape # job[g].scrape
  <2>0. first \in Nat \ {0}
    BY <1>1 DEF TypeInv, TypeOK
  <2>1. first' # first
    BY <2>0
  <2>2. PrunePurge
    <3>1. CASE PruneNext
      BY <2>1, <3>1 DEF PruneNext
    <3> QED
      BY <1>1, <2>1, <3>1, OthersSpare
  <2>3. first' = scan.ends[1] /\ ScanSound(scan) /\ 1 \in 1..Len(scan.ends)
    <3>1. first' = scan.ends[1]
      BY <2>1, <2>2 DEF PrunePurge, PurgePoint
    <3>2. ScanSound(scan)
      BY <1>1, <2>2 DEF PrunePurge, ScanInv, Scanning
    <3>3. Len(scan.ends) > 0 /\ Len(scan.ends) \in Nat
      BY <1>1, <2>2 DEF PrunePurge, TypeInv, TypeOK, PruneInv, ScanOK, ScanType
    <3> QED
      BY <3>1, <3>2, <3>3
  <2>4. PICK p : p = scan.ends[1]
    OBVIOUS
  <2>5. p \in 1..Len(log) /\ log[p].token = "end" /\ i \in 1..Len(log) /\ i < p
    <3>1. p \in EndMarkers(log, first)
      BY <2>3, <2>4 DEF ScanSound, EndsInOrder
    <3>2. p \in 1..Len(log) /\ log[p].token = "end"
      BY <1>1, <3>1, MarkersInOrder DEF EndMarkers
    <3> QED
      BY <2>0, <2>3, <2>4, <3>2
  <2>6. log[p].scrape # job[g].scrape /\ job[g].scrape = Len(scrapes)
    BY <1>1, <2>5 DEF StreamInv, OpenInv, InSection, SectionPC
  <2>7. log[p].scrape <= Len(scrapes) /\ log[i].scrape <= log[p].scrape
    BY <1>1, <2>5 DEF StreamInv, LogInv, Ordered
  <2>8. log[p].scrape \in Nat /\ log[i].scrape \in Nat /\ Len(scrapes) \in Nat
    BY <1>1, <2>5, StreamTypes
  <2> QED
    BY <2>6, <2>7, <2>8
<1>2. TypeInv /\ StreamInv /\ ScanInv /\ [Next]_vars
        => [\A i \in first..(first' - 1), g \in Scrapers :
               pc[g] \in {"start", "collect", "end"} => log[i].scrape # job[g].scrape]_vars
  BY <1>1
<1> QED
  BY <1>2, TypeInvariant, StreamInvariant, PruneInvariant, PTL DEF Spec, PruneSparesOpenScrape

LEMMA PruneNextType ==
    ASSUME TypeInv, PruneNext
    PROVE  scan' \in ScanType
BY TypeInvStep DEF TypeInv, TypeOK, Next, StartLoop

\* What a sound scan covers is of at most MaxEpochs epochs.
LEMMA CoveredCount ==
    ASSUME TypeInv, StreamInv, NEW s \in ScanType, ScanSound(s), NEW f,
           \A e \in EndMarkers(log, f) : e <= s.at =>
              \E k \in 1..Len(s.ends) : log[e].epoch = log[s.ends[k]].epoch
    PROVE  Cardinality(EndedEpochs(log, f, s.at)) <= MaxEpochs
<1> DEFINE S == EpochsFrom(s.ends, 1)
<1>1. EndedEpochs(log, f, s.at) \subseteq S
  BY DEF EndedEpochs, EpochsFrom
<1>2. PICK n \in Nat : n = Len(s.ends)
  BY DEF ScanType
<1>3. IsFiniteSet(S) /\ Cardinality(S) = n + 1 - 1
  <2>1. 1 \in 1..(Len(s.ends) + 1)
    BY <1>2
  <2> QED
    BY <1>2, <2>1, ScanCount
<1>4. n <= MaxEpochs /\ MaxEpochs \in Nat
  BY <1>2 DEF ScanSound, EndsCounted
<1> HIDE DEF S
<1>5. /\ IsFiniteSet(EndedEpochs(log, f, s.at))
      /\ Cardinality(EndedEpochs(log, f, s.at)) <= Cardinality(S)
  BY <1>1, <1>3, FS_Subset
<1>6. Cardinality(EndedEpochs(log, f, s.at)) \in Nat
  BY <1>5, FS_CardinalityType
<1> QED
  BY <1>3, <1>4, <1>5, <1>6

\* A prune that went through has left at most MaxEpochs epochs of those it has
\* read (Runner!PruneLeavesMaxEpochs).
THEOREM MaxEpochsLeft == Spec => PruneLeavesMaxEpochs
<1>1. ASSUME TypeInv, StreamInv, ScanInv, [Next]_vars,
             Scanning, ~Scanning', ~(PruneFails \/ Crash)
      PROVE  Cardinality(EndedEpochs(log', first', scan'.at)) <= MaxEpochs
  <2>0. /\ \A e \in EndMarkers(log, first) : e \in Nat
        /\ pc \in [Scrapers -> IntervalPC \cup OnDemandPC \cup {"call"} \cup LockedPC \cup SectionPC]
    BY <1>1, MarkersInOrder DEF TypeInv, TypeOK, PCOK
  <2>1. CASE PruneNext
    <3>1. ScanSound(scan') /\ scan' \in ScanType /\ UNCHANGED <<log, first>>
      BY <1>1, <2>1, PruneNextSound, PruneNextType DEF PruneNext
    <3>2. ~(scan'.pruned > 0)
      BY <1>1, <2>0, <2>1 DEF PruneNext, Goto, Scanning
    <3>3. ASSUME NEW e \in EndMarkers(log, first), e <= scan'.at
          PROVE  \E k \in 1..Len(scan'.ends) : log[e].epoch = log[scan'.ends[k]].epoch
      <4>1. CASE Len(scan'.ends) = 0
        <5>1. scan'.at = 0
          BY <3>1, <4>1 DEF ScanSound, EndsCover, EmptyScan
        <5>2. e >= 1
          BY <1>1, <2>0, <3>3 DEF EndMarkers, TypeInv, TypeOK
        <5> QED
          BY <2>0, <3>3, <5>1, <5>2
      <4>2. CASE Len(scan'.ends) # 0
        <5>1. Covered(scan', e)
          BY <3>1, <3>3, <4>2 DEF ScanSound, EndsCover
        <5> QED
          BY <3>2, <5>1 DEF Covered
      <4> QED
        BY <4>1, <4>2
    <3> QED
      BY <1>1, <3>1, <3>3, CoveredCount
  <2>2. CASE PrunePurge
    <3>1. /\ ScanSound(scan) /\ scan \in ScanType /\ UNCHANGED <<log, scan>>
          /\ first' = PurgePoint(scan, first) /\ scan.pruned > 0 /\ Len(scan.ends) > 0
      BY <1>1, <2>2 DEF PrunePurge, ScanInv, TypeInv, TypeOK, PruneInv, ScanOK
    <3>2. scan.ends[1] \in Nat /\ first \in Nat /\ Len(scan.ends) # 0
      <4>1. scan.ends \in Seq(Nat) /\ 1 \in 1..Len(scan.ends)
        BY <3>1 DEF ScanType
      <4> QED
        BY <1>1, <3>1, <4>1 DEF TypeInv, TypeOK
    <3>3. first' >= first /\ first' >= scan.ends[1] /\ first' \in Nat
      BY <3>1, <3>2 DEF PurgePoint
    <3>4. ASSUME NEW e \in EndMarkers(log, first'), e <= scan.at
          PROVE  \E k \in 1..Len(scan.ends) : log[e].epoch = log[scan.ends[k]].epoch
      <4>1. e \in EndMarkers(log, first) /\ e >= scan.ends[1] /\ e \in Nat
        BY <3>2, <3>3 DEF EndMarkers
      <4>2. Covered(scan, e)
        BY <3>1, <3>2, <3>4, <4>1 DEF ScanSound, EndsCover
      <4> QED
        BY <3>2, <4>1, <4>2 DEF Covered
    <3> QED
      BY <1>1, <3>1, <3>4, CoveredCount
  <2>3. CASE PruneOpen
    BY <1>1, <2>3 DEF PruneOpen, Scanning
  <2> QED
    BY <1>1, <2>1, <2>2, <2>3, ScanStays
<1>2. TypeInv /\ StreamInv /\ ScanInv /\ [Next]_vars
        => [/\ pc["interval"] \in {"next", "purge"} /\ pc'["interval"] \notin {"next", "purge"}
            /\ ~(PruneFails \/ Crash)
            => Cardinality(EndedEpochs(log', first', scan'.at)) <= MaxEpochs]_vars
  BY <1>1 DEF Scanning
<1> QED
  BY <1>2, TypeInvariant, StreamInvariant, PruneInvariant, PTL DEF Spec, PruneLeavesMaxEpochs

-----------------------------------------------------------------------------
(* The record of scrapes: lives and times only go up, the open scrape is    *)
(* the one its job says, and messages bear the epoch of their scrape.       *)

Past ==
    /\ \A i \in 1..Len(scrapes) : scrapes[i].at <= clock /\ scrapes[i].life <= life
    /\ \A i, j \in 1..Len(scrapes) :
          i < j => scrapes[i].at <= scrapes[j].at /\ scrapes[i].life <= scrapes[j].life

Recorded(g) ==
    InSection(g) /\ pc[g] # "begin" =>
        /\ job[g].scrape \in 1..Len(scrapes)
        /\ scrapes[job[g].scrape] = [by |-> g, at |-> job[g].at, life |-> life]
        /\ job[g].epoch = Unix(job[g].at)

Stamped ==
    \A i \in 1..Len(log) :
        /\ log[i].scrape \in 1..Len(scrapes)
        /\ log[i].epoch = Unix(scrapes[log[i].scrape].at)

RecordInv == Past /\ (\A g \in Scrapers : Recorded(g)) /\ Stamped

-----------------------------------------------------------------------------
(* Within one life. Where the interval goroutine stands says how far away   *)
(* from its scrapes it is: an interval before the deadline of its timer, an *)
(* interval ago once that has fired.                                        *)

Timed(i) == scrapes[i].by = "interval" /\ scrapes[i].life = life

Pruning == pc["interval"] \in {"open", "next", "purge"}

BeforeFirst ==
    \/ pc["interval"] \in {"boot", "resume", "arm", "parked"}
    \/ Pruning /\ after = "arm"

Fired ==
    \/ pc["interval"] \in {"call", "begin"} \cup LockedPC
    \/ Pruning /\ after = "call"

Spacing ==
    /\ BeforeFirst => \A i \in 1..Len(scrapes) : ~Timed(i)
    /\ pc["interval"] = "wait" =>
          \A i \in 1..Len(scrapes) : Timed(i) => scrapes[i].at + Interval <= deadline
    /\ Fired => \A i \in 1..Len(scrapes) : Timed(i) => scrapes[i].at + Interval <= clock

\* What NextDelay relies on: a job that ended well is the newest of the timer.
Finished ==
    job["interval"].result = "ok" =>
        /\ pc["interval"] \in {"leave", "schedule"}
        /\ job["interval"].at + job["interval"].duration <= clock
        /\ \A i \in 1..Len(scrapes) : Timed(i) => scrapes[i].at <= job["interval"].at

TimerInv == Spacing /\ Finished /\ IntervalsAreKept

-----------------------------------------------------------------------------
(* Between lives. The runner resumes from the epoch LastEpoch reads, which  *)
(* is no older than any that was ended.                                     *)

\* An interval after the second a scrape of an earlier life is known by.
Again(i) == (Unix(scrapes[i].at) - 1) * TicksPerSecond + Interval

Old(i) == scrapes[i].life < life /\ Ended(i)

Resumed ==
    /\ ~cancelled
    /\ pc["interval"] = "arm" \/ (Pruning /\ after = "arm") =>
          \A i \in 1..Len(scrapes) : Old(i) => Again(i) <= clock + delay
    /\ pc["interval"] = "wait" =>
          \A i \in 1..Len(scrapes) : Old(i) => Again(i) <= deadline
    /\ Fired \/ pc["interval"] \in SectionPC \cup {"schedule"} =>
          \A i \in 1..Len(scrapes) : Old(i) => Again(i) <= clock

RestartGap ==
    \A i, j \in 1..Len(scrapes) :
        /\ i < j
        /\ scrapes[i].life < scrapes[j].life /\ scrapes[j].by = "interval"
        /\ Ended(i)
        => Again(i) <= scrapes[j].at

RestartInv == Resumed /\ RestartGap

-----------------------------------------------------------------------------
(* Steps *)

\* The types of what these invariants compare.
LEMMA TimingTypes ==
    ASSUME TypeInv
    PROVE  /\ clock \in Nat /\ life \in Nat /\ deadline \in Nat /\ delay \in Nat
           /\ Len(scrapes) \in Nat /\ Len(log) \in Nat
           /\ \A i \in 1..Len(scrapes) :
                 /\ scrapes[i].at \in Nat /\ scrapes[i].life \in Nat /\ scrapes[i].by \in Scrapers
                 /\ Unix(scrapes[i].at) \in Nat
           /\ \A g \in Scrapers : /\ job[g] \in JobType
                                  /\ job[g].at \in Nat /\ job[g].duration \in Nat
                                  /\ job[g].scrape \in Nat
<1> DEFINE Entry == [by : Scrapers, at : Nat, life : Nat]
<1>1. scrapes \in Seq(Entry) /\ job \in [Scrapers -> JobType]
  BY DEF TypeInv, TypeOK
<1>2. \A i \in 1..Len(scrapes) : scrapes[i] \in Entry
  <2> HIDE DEF Entry
  <2> QED BY <1>1, ElementOfSeq
<1>3. \A i \in 1..Len(scrapes) : Unix(scrapes[i].at) \in Nat
  BY <1>2, UnixMonotone
<1>4. \A g \in Scrapers : /\ job[g] \in JobType /\ job[g].at \in Nat /\ job[g].duration \in Nat
                          /\ job[g].scrape \in Nat
  BY <1>1 DEF JobType
<1> QED BY <1>2, <1>3, <1>4, StreamTypes DEF TypeInv, TypeOK

\* What the steps of the interval goroutine that do not set its timer, and
\* all steps of the others, leave alone.
Armed == pc["interval"] = "arm" \/ (Pruning /\ after = "arm")
Busy == pc["interval"] \in SectionPC \cup {"schedule"}

Drifts ==
    /\ life' = life /\ clock' \in Nat /\ clock <= clock'
    /\ BeforeFirst' => BeforeFirst
    /\ Armed' => Armed /\ delay' = delay
    /\ pc'["interval"] = "wait" => pc["interval"] = "wait" /\ deadline' = deadline
    /\ Fired' => Fired
    /\ Busy' => Fired \/ Busy
    /\ cancelled' => cancelled \/ "cancel" \in Events
    /\ job'["interval"].result = "ok" =>
          \/ /\ job'["interval"] = job["interval"]
             /\ pc["interval"] \in {"leave", "schedule"} => pc'["interval"] \in {"leave", "schedule"}
          \/ PublishEnd("interval")

LEMMA OthersDrift ==
    ASSUME TypeInv, Finished,
           \/ StartFails \/ Boot \/ StartReturns \/ PruneOpen \/ PruneNext \/ PrunePurge \/ PruneFails
           \/ OnDemand \/ (World /\ ~Crash) \/ UNCHANGED vars
           \/ \E g \in Scrapers : \/ Lock(g) \/ CheckPaused(g) \/ CheckBusy(g) \/ Discover(g)
                                  \/ PublishStart(g) \/ Collect(g) \/ PublishEnd(g) \/ Leave(g)
    PROVE  Drifts /\ UNCHANGED scrapes
<1> USE DEF TypeInv, TypeOK, PCOK, Drifts, IntervalPC, OnDemandPC, LockedPC, SectionPC, Goto,
            BeforeFirst, Pruning, Armed, Fired, Busy
<1>1. CASE StartFails
  BY <1>1 DEF StartFails
<1>2. CASE Boot
  BY <1>2 DEF Boot
<1>3. CASE StartReturns
  BY <1>3 DEF StartReturns
<1>4. CASE PruneOpen
  BY <1>4 DEF PruneOpen
<1>5. CASE PruneNext
  BY <1>5 DEF PruneNext
<1>6. CASE PrunePurge
  BY <1>6 DEF PrunePurge
<1>7. CASE PruneFails
  BY <1>7 DEF PruneFails
<1>8. ASSUME NEW g \in Scrapers, Lock(g) PROVE Drifts /\ UNCHANGED scrapes
  BY <1>8 DEF Lock
<1>9. ASSUME NEW g \in Scrapers, CheckPaused(g) PROVE Drifts /\ UNCHANGED scrapes
  BY <1>9 DEF CheckPaused, Caller
<1>10. ASSUME NEW g \in Scrapers, CheckBusy(g) PROVE Drifts /\ UNCHANGED scrapes
  BY <1>10 DEF CheckBusy, Caller
<1>11. ASSUME NEW g \in Scrapers, Discover(g) PROVE Drifts /\ UNCHANGED scrapes
  <2>1. job'["interval"] = job["interval"] \/ job'["interval"].result # "ok"
    <3>1. job \in [Scrapers -> JobType]
      OBVIOUS
    <3>2. job' = job \/ job' = [job EXCEPT ![g].result = "error"]
      BY <1>11 DEF Discover
    <3>3. CASE job' = [job EXCEPT ![g].result = "error"] /\ g = "interval"
      <4>1. job'["interval"].result = "error"
        BY <3>1, <3>3 DEF JobType
      <4> QED
        BY <4>1
    <3>4. CASE job' = [job EXCEPT ![g].result = "error"] /\ g # "interval"
      BY <3>1, <3>4
    <3> QED
      BY <3>2, <3>3, <3>4
  <2>2. /\ UNCHANGED <<clock, life, delay, deadline, cancelled, after, scrapes>>
        /\ pc[g] = "discover" /\ pc'[g] \in {"start", "leave"}
        /\ \A h \in Scrapers : h # g => pc'[h] = pc[h]
    BY <1>11 DEF Discover
  <2> QED
    BY <2>1, <2>2 DEF Finished
<1>12. ASSUME NEW g \in Scrapers, PublishStart(g) PROVE Drifts /\ UNCHANGED scrapes
  BY <1>12 DEF PublishStart
<1>13. ASSUME NEW g \in Scrapers, Collect(g) PROVE Drifts /\ UNCHANGED scrapes
  <2>1. job'["interval"] = job["interval"] \/ job'["interval"].result # "ok"
    <3>1. job \in [Scrapers -> JobType] /\ pc[g] = "collect"
      BY <1>13 DEF Collect, CollectIf
    <3>2. job' = [job EXCEPT ![g].next = job[g].next + 1]
      BY <1>13 DEF Collect, CollectIf
    <3>3. CASE g = "interval"
      <4>1. job["interval"].result # "ok"
        BY <3>1, <3>3 DEF Finished
      <4>2. job'["interval"].result = job["interval"].result
        BY <3>1, <3>2, <3>3 DEF JobType
      <4> QED
        BY <4>1, <4>2
    <3>4. CASE g # "interval"
      BY <3>1, <3>2, <3>4
    <3> QED
      BY <3>3, <3>4
  <2>2. /\ UNCHANGED <<clock, life, delay, deadline, cancelled, after, scrapes>>
        /\ pc[g] = "collect" /\ pc'[g] \in {"collect", "end"}
        /\ \A h \in Scrapers : h # g => pc'[h] = pc[h]
    BY <1>13 DEF Collect, CollectIf
  <2> QED
    BY <2>1, <2>2 DEF Finished
<1>14. ASSUME NEW g \in Scrapers, PublishEnd(g) PROVE Drifts /\ UNCHANGED scrapes
  <2>1. job'["interval"] = job["interval"] \/ PublishEnd("interval")
    <3>1. g \in {"interval", "ondemand"} /\ job \in [Scrapers -> JobType]
      OBVIOUS
    <3>2. CASE g = "interval"
      BY <1>14, <3>2
    <3>3. CASE g = "ondemand"
      BY <1>14, <3>1, <3>3 DEF PublishEnd, EndScrape
    <3> QED
      BY <3>1, <3>2, <3>3
  <2>2. /\ UNCHANGED <<clock, life, delay, deadline, cancelled, after, scrapes>>
        /\ pc[g] = "end" /\ pc'[g] = "leave"
        /\ \A h \in Scrapers : h # g => pc'[h] = pc[h]
    BY <1>14 DEF PublishEnd, EndScrape
  <2> QED
    BY <2>1, <2>2
<1>15. ASSUME NEW g \in Scrapers, Leave(g) PROVE Drifts /\ UNCHANGED scrapes
  BY <1>15 DEF Leave, Caller
<1>16. CASE TakeTrigger
  BY <1>16 DEF TakeTrigger
<1>17. CASE Respond
  BY <1>17 DEF Respond
<1>18. CASE SendTrigger
  BY <1>18 DEF SendTrigger
<1>19. CASE Pause
  BY <1>19 DEF Pause
<1>20. CASE Resume
  BY <1>20 DEF Resume
<1>21. CASE Cancel
  BY <1>21 DEF Cancel
<1>22. CASE Tick
  BY <1>22 DEF Tick
<1>23. CASE UNCHANGED vars
  BY <1>23 DEF vars
<1> QED
  BY <1>1, <1>2, <1>3, <1>4, <1>5, <1>6, <1>7, <1>8, <1>9, <1>10, <1>11, <1>12, <1>13, <1>14, <1>15, <1>16, <1>17, <1>18, <1>19, <1>20, <1>21, <1>22, <1>23 DEF OnDemand, World

-----------------------------------------------------------------------------
(* The record *)


LEMMA RecordInit == Init => RecordInv
<1> SUFFICES ASSUME Init PROVE RecordInv
  OBVIOUS
<1>1. Len(log) = 0 /\ Len(scrapes) = 0
  BY DEF Init
<1>2. \A g \in Scrapers : ~InSection(g)
  BY FreshTypes DEF Init, InSection, SectionPC
<1> QED
  BY <1>1, <1>2 DEF RecordInv, Past, Recorded, Stamped

LEMMA RecordStep ==
    ASSUME TypeInv, OneScrapeAtATime, RecordInv, [Next]_vars
    PROVE  RecordInv'
<1>0. pc \in [Scrapers -> IntervalPC \cup OnDemandPC \cup {"call"} \cup LockedPC \cup SectionPC]
  BY DEF TypeInv, TypeOK, PCOK
<1>1. CASE KeepsStream /\ Rests
  <2>1. /\ UNCHANGED <<log, scrapes>> /\ clock \in Nat /\ clock' \in Nat /\ clock <= clock'
        /\ life \in Nat /\ life' \in Nat /\ life <= life'
    BY <1>1, TimingTypes DEF KeepsStream, Rests, Crash
  <2>2. Past'
    <3>1. \A i \in 1..Len(scrapes) : scrapes[i].at <= clock' /\ scrapes[i].life <= life'
      <4>1. \A i \in 1..Len(scrapes) : scrapes[i].at \in Nat /\ scrapes[i].life \in Nat
        BY TimingTypes
      <4>2. \A i \in 1..Len(scrapes) : scrapes[i].at <= clock /\ scrapes[i].life <= life
        BY DEF RecordInv, Past
      <4> QED
        BY <2>1, <4>1, <4>2
    <3> QED
      BY <2>1, <3>1 DEF RecordInv, Past
  <2>3. Stamped'
    BY <2>1 DEF RecordInv, Stamped, Unix
  <2>4. ASSUME NEW g \in Scrapers PROVE Recorded(g)'
    <3>1. CASE Crash
      BY <3>1, FreshTypes DEF Crash, Recorded, InSection, SectionPC
    <3>2. CASE KeepsStream /\ UNCHANGED life
      BY <3>2 DEF KeepsStream, RecordInv, Recorded, InSection, Unix
    <3> QED
      BY <1>1, <3>1, <3>2 DEF Rests
  <2> QED
    BY <2>2, <2>3, <2>4 DEF RecordInv
<1>2. ASSUME NEW g \in Scrapers, Works(g) PROVE RecordInv'
  <2>1. Past'
    BY <1>2 DEF Works, RecordInv, Past
  <2>2. Recorded(g)'
    BY <1>2 DEF Works, RecordInv, Recorded, Unix
  <2>3. \A h \in Scrapers : h # g => Recorded(h)'
    BY <1>2 DEF Works, RecordInv, Recorded, InSection, Unix
  <2>4. Stamped'
    <3>1. CASE UNCHANGED log
      BY <1>2, <3>1 DEF Works, RecordInv, Stamped, Unix
    <3>2. CASE ~UNCHANGED log
      <4>1. PICK token \in Tokens : Publish(g, token)
        BY <1>2, <3>2 DEF Works, Grows
      <4>2. PICK m : m = Message(token, job[g].epoch, job[g].scrape)
        OBVIOUS
      <4>3. log' = Append(log, m) /\ m.epoch = job[g].epoch /\ m.scrape = job[g].scrape
        BY <4>1, <4>2 DEF Publish, Message
      <4>4. PICK n \in Nat : n = Len(log)
        BY TimingTypes
      <4>5. /\ Len(log') = n + 1 /\ log'[n + 1] = m
            /\ \A i \in 1..n : log'[i] = log[i]
        BY <4>3, <4>4 DEF TypeInv, TypeOK
      <4>6. 1..(n + 1) = 1..n \cup {n + 1}
        OBVIOUS
      <4>7. /\ m.scrape \in 1..Len(scrapes)
            /\ m.epoch = Unix(scrapes[m.scrape].at)
        BY <1>2, <4>3 DEF Works, RecordInv, Recorded
      <4>8. scrapes' = scrapes
        BY <1>2 DEF Works
      <4> QED
        BY <4>4, <4>5, <4>6, <4>7, <4>8 DEF RecordInv, Stamped, Unix
    <3> QED
      BY <3>1, <3>2
  <2> QED
    BY <2>1, <2>2, <2>3, <2>4 DEF RecordInv
<1>3. ASSUME NEW g \in Scrapers, Begins(g) PROVE RecordInv'
  <2>0. PICK n \in Nat : n = Len(scrapes)
    BY TimingTypes
  <2>1. /\ Len(scrapes') = n + 1 /\ scrapes'[n + 1] = [by |-> g, at |-> clock, life |-> life]
        /\ \A i \in 1..n : scrapes'[i] = scrapes[i]
        /\ UNCHANGED <<log, clock, life>>
    BY <1>3, <2>0 DEF Begins
  <2>2. 1..(n + 1) = 1..n \cup {n + 1} /\ n + 1 \in 1..(n + 1)
    OBVIOUS
  <2>3. /\ clock \in Nat /\ life \in Nat
        /\ \A i \in 1..n : scrapes[i].at \in Nat /\ scrapes[i].life \in Nat
                           /\ scrapes[i].at <= clock /\ scrapes[i].life <= life
        /\ \A i, j \in 1..n :
              i < j => scrapes[i].at <= scrapes[j].at /\ scrapes[i].life <= scrapes[j].life
    BY <2>0, TimingTypes DEF RecordInv, Past
  <2>4. scrapes'[n + 1].at = clock /\ scrapes'[n + 1].life = life
    BY <2>1
  <2>5. \A i \in 1..(n + 1) : scrapes'[i].at <= clock' /\ scrapes'[i].life <= life'
    BY <2>1, <2>2, <2>3, <2>4
  <2>6. ASSUME NEW i \in 1..(n + 1), NEW j \in 1..(n + 1), i < j
        PROVE  scrapes'[i].at <= scrapes'[j].at /\ scrapes'[i].life <= scrapes'[j].life
    <3>1. i \in 1..n
      BY <2>6
    <3>2. CASE j \in 1..n
      BY <2>1, <2>3, <2>6, <3>1, <3>2
    <3>3. CASE j = n + 1
      BY <2>1, <2>3, <2>4, <3>1, <3>3
    <3> QED
      BY <2>2, <3>2, <3>3
  <2>7. Past'
    BY <2>1, <2>5, <2>6 DEF Past
  <2>8. Recorded(g)'
    <3>1. job'[g].scrape = n + 1 /\ job'[g].at = clock /\ job'[g].epoch = Unix(clock)
      BY <1>3, <2>0 DEF Begins
    <3> QED
      BY <2>1, <2>2, <3>1 DEF Recorded, Unix
  <2>9. \A h \in Scrapers : h # g => Recorded(h)'
    <3>1. pc[g] = "begin" /\ \A h \in Scrapers : h # g => pc'[h] = pc[h]
      BY <1>0, <1>3 DEF Begins
    <3>2. \A h \in Scrapers : h # g => ~InSection(h)'
      BY <3>1, OthersOut DEF InSection, SectionPC
    <3> QED
      BY <3>2 DEF Recorded
  <2>10. Stamped'
    <3>1. \A i \in 1..Len(log) : log[i].scrape \in 1..n /\ log[i].epoch = Unix(scrapes[log[i].scrape].at)
      BY <2>0 DEF RecordInv, Stamped
    <3>2. \A i \in 1..Len(log) : /\ log[i].scrape \in 1..(n + 1)
                                 /\ log[i].epoch = Unix(scrapes'[log[i].scrape].at)
      BY <2>1, <2>2, <3>1
    <3> QED
      BY <2>1, <3>2 DEF Stamped, Unix
  <2> QED
    BY <2>7, <2>8, <2>9, <2>10 DEF RecordInv
<1> QED
  BY <1>1, <1>2, <1>3, OthersRest, ScrapeWorks, ScrapeBegins DEF Next, DoScrape

-----------------------------------------------------------------------------
(* Within one life *)

LEMMA TimerInit == Init => TimerInv
<1> SUFFICES ASSUME Init PROVE TimerInv
  OBVIOUS
<1>1. Len(scrapes) = 0
  BY DEF Init
<1>2. job["interval"].result = "skipped"
  BY FreshTypes DEF Init, NoJob
<1> QED
  BY <1>1, <1>2 DEF TimerInv, Spacing, Finished, IntervalsAreKept

\* A job that ends well lasted until now, and nothing began after it.
LEMMA EndIsNewest ==
    ASSUME TypeInv, StreamInv, RecordInv, PublishEnd("interval")
    PROVE  /\ pc'["interval"] = "leave"
           /\ job'["interval"].at + job'["interval"].duration <= clock
           /\ \A i \in 1..Len(scrapes) : scrapes[i].at <= job'["interval"].at
<1>0. job \in [Scrapers -> JobType] /\ "interval" \in Scrapers
      /\ pc \in [Scrapers -> IntervalPC \cup OnDemandPC \cup {"call"} \cup LockedPC \cup SectionPC]
  BY DEF TypeInv, TypeOK, PCOK
<1>1. pc["interval"] = "end" /\ pc'["interval"] = "leave"
  BY <1>0 DEF PublishEnd, EndScrape, Goto
<1>2. job'["interval"].at = job["interval"].at
      /\ job'["interval"].duration = clock - job["interval"].at
  BY <1>0 DEF PublishEnd, EndScrape, JobType
<1>3. /\ job["interval"].scrape = Len(scrapes) /\ Len(scrapes) \in 1..Len(scrapes)
      /\ scrapes[Len(scrapes)].at = job["interval"].at
  BY <1>1 DEF StreamInv, OpenInv, RecordInv, Recorded, InSection, SectionPC
<1>4. \A i \in 1..Len(scrapes) : scrapes[i].at <= scrapes[Len(scrapes)].at
  <2>1. Len(scrapes) \in Nat /\ \A i \in 1..Len(scrapes) : scrapes[i].at \in Nat
    BY TimingTypes
  <2>2. \A i, j \in 1..Len(scrapes) : i < j => scrapes[i].at <= scrapes[j].at
    BY DEF RecordInv, Past
  <2>3. ASSUME NEW i \in 1..Len(scrapes) PROVE scrapes[i].at <= scrapes[Len(scrapes)].at
    <3>1. CASE i = Len(scrapes)
      BY <2>1, <3>1
    <3>2. CASE i < Len(scrapes)
      BY <1>3, <2>2, <3>2
    <3> QED
      BY <2>1, <3>1, <3>2
  <2> QED
    BY <2>3
<1>5. job["interval"].at \in Nat /\ clock \in Nat
  BY TimingTypes
<1> QED
  BY <1>1, <1>2, <1>3, <1>4, <1>5

LEMMA DriftKeepsTimer ==
    ASSUME TypeInv, StreamInv, RecordInv, TimerInv, Drifts, UNCHANGED scrapes
    PROVE  TimerInv'
<1>0. \A i \in 1..Len(scrapes) : Timed(i)' <=> Timed(i)
  BY DEF Drifts, Timed
<1>1. /\ clock \in Nat /\ clock' \in Nat /\ clock <= clock' /\ deadline \in Nat
      /\ Interval \in Nat /\ \A i \in 1..Len(scrapes) : scrapes[i].at \in Nat
  BY TimingTypes DEF Drifts
<1>2. BeforeFirst' => \A i \in 1..Len(scrapes)' : ~Timed(i)'
  BY <1>0 DEF TimerInv, Spacing, Drifts
<1>3. pc'["interval"] = "wait" =>
          \A i \in 1..Len(scrapes)' : Timed(i)' => scrapes'[i].at + Interval <= deadline'
  BY <1>0 DEF TimerInv, Spacing, Drifts
<1>4. Fired' => \A i \in 1..Len(scrapes)' : Timed(i)' => scrapes'[i].at + Interval <= clock'
  <2>1. Fired' => \A i \in 1..Len(scrapes) : Timed(i) => scrapes[i].at + Interval <= clock
    BY DEF TimerInv, Spacing, Drifts
  <2>2. Fired' => \A i \in 1..Len(scrapes) : Timed(i) => scrapes[i].at + Interval <= clock'
    BY <1>1, <2>1
  <2> QED
    BY <1>0, <2>2
<1>5. Spacing'
  BY <1>2, <1>3, <1>4 DEF Spacing
<1>6. Finished'
  <2> SUFFICES ASSUME job'["interval"].result = "ok" PROVE Finished'
    BY DEF Finished
  <2>1. CASE job'["interval"] = job["interval"]
    <3>1. job["interval"].result = "ok"
      BY <2>1
    <3>2. /\ pc'["interval"] \in {"leave", "schedule"}
          /\ job["interval"].at + job["interval"].duration <= clock
          /\ \A i \in 1..Len(scrapes) : Timed(i) => scrapes[i].at <= job["interval"].at
      <4>1. /\ pc["interval"] \in {"leave", "schedule"}
            /\ job["interval"].at + job["interval"].duration <= clock
            /\ \A i \in 1..Len(scrapes) : Timed(i) => scrapes[i].at <= job["interval"].at
        BY <3>1 DEF TimerInv, Finished
      <4>2. pc'["interval"] \in {"leave", "schedule"} \/ PublishEnd("interval")
        BY <4>1 DEF Drifts
      <4> QED
        BY <4>1, <4>2, EndIsNewest
    <3>3. job["interval"].at \in Nat /\ job["interval"].duration \in Nat
      BY TimingTypes
    <3>4. job["interval"].at + job["interval"].duration <= clock'
      BY <1>1, <3>2, <3>3
    <3> QED
      BY <1>0, <2>1, <3>2, <3>4 DEF Finished
  <2>2. CASE PublishEnd("interval")
    <3>1. clock' = clock
      BY <2>2 DEF PublishEnd
    <3> QED
      BY <2>2, <3>1, EndIsNewest DEF Finished
  <2> QED
    BY <2>1, <2>2 DEF Drifts
<1>7. IntervalsAreKept'
  BY DEF TimerInv, IntervalsAreKept
<1> QED
  BY <1>5, <1>6, <1>7 DEF TimerInv

\* The steps of Start that set the timer or go past it.
LEMMA StartKeepsTimer ==
    ASSUME TypeInv, RecordInv, TimerInv,
           Resuming \/ ArmFirst \/ TimerFires \/ Reschedule
    PROVE  TimerInv'
<1>0. /\ "interval" \in Scrapers /\ job \in [Scrapers -> JobType]
      /\ pc \in [Scrapers -> IntervalPC \cup OnDemandPC \cup {"call"} \cup LockedPC \cup SectionPC]
  BY DEF TypeInv, TypeOK, PCOK
<1>1. UNCHANGED <<scrapes, clock, life>>
  BY DEF Resuming, ArmFirst, TimerFires, Reschedule
<1>2. \A i \in 1..Len(scrapes) : Timed(i)' <=> Timed(i)
  BY <1>1 DEF Timed
<1>3. IntervalsAreKept'
  BY <1>1 DEF TimerInv, IntervalsAreKept
<1>4. /\ clock \in Nat /\ deadline \in Nat /\ Interval \in Nat
      /\ \A i \in 1..Len(scrapes) : scrapes[i].at \in Nat
  BY TimingTypes
<1> USE DEF BeforeFirst, Pruning, Fired, LockedPC, Goto
<1>5. CASE Resuming
  <2>1. /\ pc["interval"] = "resume" /\ pc'["interval"] = "open" /\ after' = "arm"
        /\ job' = job
    BY <1>0, <1>5 DEF Resuming
  <2>2. BeforeFirst /\ ~Fired'
    BY <2>1
  <2>3. Spacing'
    BY <1>1, <1>2, <2>1, <2>2 DEF TimerInv, Spacing
  <2>4. Finished'
    BY <2>1 DEF TimerInv, Finished
  <2> QED
    BY <1>3, <2>3, <2>4 DEF TimerInv
<1>6. CASE ArmFirst
  <2>1. /\ pc["interval"] = "arm" /\ pc'["interval"] = "wait"
        /\ job' = job
    BY <1>0, <1>6 DEF ArmFirst
  <2>2. BeforeFirst /\ ~BeforeFirst' /\ ~Fired'
    BY <2>1
  <2>3. Spacing'
    BY <1>1, <1>2, <2>1, <2>2 DEF TimerInv, Spacing
  <2>4. Finished'
    BY <2>1 DEF TimerInv, Finished
  <2> QED
    BY <1>3, <2>3, <2>4 DEF TimerInv
<1>7. CASE TimerFires
  <2>1. /\ pc["interval"] = "wait" /\ pc'["interval"] = "open" /\ after' = "call"
        /\ job' = job /\ deadline <= clock
    BY <1>0, <1>4, <1>7 DEF TimerFires
  <2>2. ~BeforeFirst'
    BY <2>1
  <2>3. \A i \in 1..Len(scrapes) : Timed(i) => scrapes[i].at + Interval <= clock
    <3>1. \A i \in 1..Len(scrapes) : Timed(i) => scrapes[i].at + Interval <= deadline
      BY <2>1 DEF TimerInv, Spacing
    <3> QED
      BY <1>4, <2>1, <3>1
  <2>4. Spacing'
    BY <1>1, <1>2, <2>1, <2>2, <2>3 DEF Spacing
  <2>5. Finished'
    BY <2>1 DEF TimerInv, Finished
  <2> QED
    BY <1>3, <2>4, <2>5 DEF TimerInv
<1>8. CASE Reschedule
  <2> DEFINE j == job["interval"]
  <2>1. /\ pc["interval"] = "schedule" /\ pc'["interval"] = "wait"
        /\ job'["interval"] = NoJob /\ deadline' = clock + NextDelay(j)
    BY <1>0, <1>8 DEF Reschedule
  <2>2. ~BeforeFirst' /\ ~Fired'
    BY <2>1
  <2>3. j.at \in Nat /\ j.duration \in Nat
    BY TimingTypes
  <2>4. \A i \in 1..Len(scrapes) : Timed(i) => scrapes[i].at + Interval <= deadline'
    <3>1. CASE j.result = "ok" /\ j.duration <= Interval
      <4>1. deadline' = clock + (Interval - j.duration)
        BY <2>1, <3>1 DEF NextDelay
      <4>2. /\ j.at + j.duration <= clock
            /\ \A i \in 1..Len(scrapes) : Timed(i) => scrapes[i].at <= j.at
        BY <3>1 DEF TimerInv, Finished
      <4>3. ASSUME NEW i \in 1..Len(scrapes), Timed(i)
            PROVE  scrapes[i].at + Interval <= clock + (Interval - j.duration)
        <5>1. scrapes[i].at <= j.at /\ scrapes[i].at \in Nat
          BY <1>4, <4>2, <4>3
        <5> HIDE DEF j
        <5> QED
          BY <1>4, <2>3, <4>2, <5>1
      <4> QED
        BY <4>1, <4>3
    <3>2. CASE ~(j.result = "ok" /\ j.duration <= Interval)
      <4>1. deadline' = clock + Interval
        BY <2>1, <3>2 DEF NextDelay
      <4>2. \A i \in 1..Len(scrapes) : scrapes[i].at <= clock
        BY DEF RecordInv, Past
      <4> HIDE DEF j
      <4> QED
        BY <1>4, <4>1, <4>2
    <3> QED
      BY <3>1, <3>2
  <2>5. Spacing'
    BY <1>1, <1>2, <2>1, <2>2, <2>4 DEF Spacing
  <2>6. Finished'
    BY <2>1 DEF Finished, NoJob
  <2> QED
    BY <1>3, <2>5, <2>6 DEF TimerInv
<1> QED
  BY <1>5, <1>6, <1>7, <1>8

LEMMA BeginKeepsTimer ==
    ASSUME TypeInv, RecordInv, TimerInv, NEW g \in Scrapers, Begins(g)
    PROVE  TimerInv'
<1>0. /\ "interval" \in Scrapers
      /\ pc \in [Scrapers -> IntervalPC \cup OnDemandPC \cup {"call"} \cup LockedPC \cup SectionPC]
  BY DEF TypeInv, TypeOK, PCOK
<1>1. PICK n \in Nat : n = Len(scrapes)
  BY TimingTypes
<1>2. /\ Len(scrapes') = n + 1
      /\ scrapes'[n + 1].by = g /\ scrapes'[n + 1].at = clock /\ scrapes'[n + 1].life = life
      /\ \A i \in 1..n : scrapes'[i] = scrapes[i]
      /\ UNCHANGED <<clock, life, deadline, after>>
  <2>1. /\ Len(scrapes') = n + 1 /\ scrapes'[n + 1] = [by |-> g, at |-> clock, life |-> life]
        /\ \A i \in 1..n : scrapes'[i] = scrapes[i]
    BY <1>1 DEF Begins
  <2>2. UNCHANGED <<clock, life, deadline, after>>
    BY DEF Begins
  <2>3. scrapes'[n + 1].by = g /\ scrapes'[n + 1].at = clock /\ scrapes'[n + 1].life = life
    BY <2>1
  <2> QED
    BY <2>1, <2>2, <2>3
<1>3. 1..(n + 1) = 1..n \cup {n + 1}
  OBVIOUS
<1>4. \A i \in 1..n : Timed(i)' <=> Timed(i)
  BY <1>2 DEF Timed
<1>5. /\ clock \in Nat /\ Interval \in Nat
      /\ \A i \in 1..n : scrapes[i].at \in Nat
  BY <1>1, TimingTypes
<1> USE DEF BeforeFirst, Pruning, Fired, LockedPC
<1>6. CASE g = "interval"
  <2>1. pc["interval"] = "begin" /\ pc'["interval"] = "discover" /\ job'["interval"].result = "skipped"
    BY <1>0, <1>6 DEF Begins
  <2>2. Spacing' /\ Finished'
    BY <2>1 DEF Spacing, Finished
  <2>3. \A i \in 1..n : scrapes[i].by = "interval" /\ scrapes[i].life = life
                          => clock - scrapes[i].at >= Interval
    <3>1. \A i \in 1..n : Timed(i) => scrapes[i].at + Interval <= clock
      BY <1>1, <2>1 DEF TimerInv, Spacing
    <3> QED
      BY <1>5, <3>1 DEF Timed
  <2>4. ASSUME NEW i \in 1..(n + 1), NEW j \in 1..(n + 1), i < j,
               scrapes'[i].by = "interval", scrapes'[j].by = "interval",
               scrapes'[i].life = scrapes'[j].life
        PROVE  scrapes'[j].at - scrapes'[i].at >= Interval
    <3>1. i \in 1..n
      BY <2>4
    <3>2. CASE j \in 1..n
      BY <1>1, <1>2, <2>4, <3>1, <3>2 DEF TimerInv, IntervalsAreKept
    <3>3. CASE j = n + 1
      BY <1>2, <2>3, <2>4, <3>1, <3>3
    <3> QED
      BY <1>3, <3>2, <3>3
  <2>5. IntervalsAreKept'
    BY <1>2, <2>4 DEF IntervalsAreKept
  <2> QED
    BY <2>2, <2>5 DEF TimerInv
<1>7. CASE g # "interval"
  <2>1. pc'["interval"] = pc["interval"] /\ job'["interval"] = job["interval"]
    BY <1>0, <1>7 DEF Begins
  <2>2. ~Timed(n + 1)'
    BY <1>2, <1>7 DEF Timed
  <2>3. BeforeFirst' => BeforeFirst
    BY <1>2, <2>1
  <2>4. Fired' => Fired
    BY <1>2, <2>1
  <2> HIDE DEF BeforeFirst, Fired
  <2>5. Spacing'
    <3>1. BeforeFirst' => \A i \in 1..(n + 1) : ~Timed(i)'
      BY <1>1, <1>3, <1>4, <2>2, <2>3 DEF TimerInv, Spacing
    <3>2. pc'["interval"] = "wait" =>
              \A i \in 1..(n + 1) : Timed(i)' => scrapes'[i].at + Interval <= deadline'
      BY <1>1, <1>2, <1>3, <1>4, <2>1, <2>2 DEF TimerInv, Spacing
    <3>3. Fired' => \A i \in 1..(n + 1) : Timed(i)' => scrapes'[i].at + Interval <= clock'
      BY <1>1, <1>2, <1>3, <1>4, <2>2, <2>4 DEF TimerInv, Spacing
    <3> QED
      BY <1>2, <3>1, <3>2, <3>3 DEF Spacing
  <2>6. Finished'
    <3> SUFFICES ASSUME job'["interval"].result = "ok" PROVE Finished'
      BY DEF Finished
    <3>1. /\ pc["interval"] \in {"leave", "schedule"}
          /\ job["interval"].at + job["interval"].duration <= clock
          /\ \A i \in 1..n : Timed(i) => scrapes[i].at <= job["interval"].at
      BY <1>1, <2>1 DEF TimerInv, Finished
    <3>2. \A i \in 1..(n + 1) : Timed(i)' => scrapes'[i].at <= job["interval"].at
      BY <1>2, <1>3, <1>4, <2>2, <3>1
    <3> QED
      BY <1>2, <2>1, <3>1, <3>2 DEF Finished
  <2>7. ASSUME NEW i \in 1..(n + 1), NEW j \in 1..(n + 1), i < j,
               scrapes'[i].by = "interval", scrapes'[j].by = "interval",
               scrapes'[i].life = scrapes'[j].life
        PROVE  scrapes'[j].at - scrapes'[i].at >= Interval
    <3>1. i \in 1..n /\ j \in 1..n
      BY <1>2, <1>3, <1>7, <2>7
    <3> QED
      BY <1>1, <1>2, <2>7, <3>1 DEF TimerInv, IntervalsAreKept
  <2>8. IntervalsAreKept'
    BY <1>2, <2>7 DEF IntervalsAreKept
  <2> QED
    BY <2>5, <2>6, <2>8 DEF TimerInv
<1> QED
  BY <1>6, <1>7

LEMMA CrashKeepsTimer ==
    ASSUME TypeInv, RecordInv, TimerInv, Crash
    PROVE  TimerInv'
<1>1. life' = life + 1 /\ UNCHANGED <<scrapes, clock>> /\ pc'["interval"] = "boot"
  BY FreshTypes DEF Crash
<1>2. \A i \in 1..Len(scrapes) : ~Timed(i)'
  <2>1. \A i \in 1..Len(scrapes) : scrapes[i].life <= life /\ scrapes[i].life \in Nat
    BY TimingTypes DEF RecordInv, Past
  <2>2. life \in Nat
    BY TimingTypes
  <2> QED
    BY <1>1, <2>1, <2>2 DEF Timed
<1>3. Spacing'
  BY <1>1, <1>2 DEF Spacing, Fired, Pruning, LockedPC
<1>4. Finished'
  BY FreshTypes DEF Crash, Finished, NoJob
<1>5. IntervalsAreKept'
  BY <1>1 DEF TimerInv, IntervalsAreKept
<1> QED
  BY <1>3, <1>4, <1>5 DEF TimerInv

LEMMA TimerStep ==
    ASSUME TypeInv, StreamInv, RecordInv, TimerInv, [Next]_vars
    PROVE  TimerInv'
<1>1. Finished
  BY DEF TimerInv
<1>2. CASE Drifts /\ UNCHANGED scrapes
  BY <1>2, DriftKeepsTimer
<1>3. CASE Resuming \/ ArmFirst \/ TimerFires \/ Reschedule
  BY <1>3, StartKeepsTimer
<1>4. ASSUME NEW g \in Scrapers, Begin(g) PROVE TimerInv'
  BY <1>4, ScrapeBegins, BeginKeepsTimer
<1>5. CASE Crash
  BY <1>5, CrashKeepsTimer
<1> QED
  BY <1>1, <1>2, <1>3, <1>4, <1>5, OthersDrift DEF Next, StartLoop, DoScrape

LEMMA TimerInvariant == Spec => [](TypeInv /\ StreamInv /\ RecordInv /\ TimerInv)
<1>1. Init => RecordInv /\ TimerInv
  BY RecordInit, TimerInit
<1>2. TypeInv /\ OneScrapeAtATime /\ StreamInv /\ RecordInv /\ TimerInv /\ [Next]_vars
        => RecordInv' /\ TimerInv'
  BY RecordStep, TimerStep
<1> QED
  BY <1>1, <1>2, TypeInvariant, MutualExclusion, StreamInvariant, PTL DEF Spec

\* Whatever scrapes take and however they end, the timer's are an interval
\* apart in each life (Runner!IntervalsAreKept).
THEOREM IntervalsKept == Spec => []IntervalsAreKept
<1>1. TimerInv => IntervalsAreKept
  BY DEF TimerInv
<1> QED
  BY <1>1, TimerInvariant, PTL

-----------------------------------------------------------------------------
(* Seconds and ticks *)

LEMMA WholeSeconds ==
    ASSUME NEW t \in Nat
    PROVE  /\ (Unix(t) - 1) * TicksPerSecond <= t
           /\ t < Unix(t) * TicksPerSecond
           /\ Unix(t) \in Nat /\ Unix(t) > 0
BY DEF Unix

\* The tick its second starts with.
LEMMA SecondStarts ==
    ASSUME NEW t \in Nat
    PROVE  /\ Unix(t) \in Nat
           /\ (Unix(t) - 1) * TicksPerSecond \in Int
           /\ Unix(t) * TicksPerSecond = (Unix(t) - 1) * TicksPerSecond + TicksPerSecond
           /\ (Unix(t) - 1) * TicksPerSecond <= t
           /\ t < (Unix(t) - 1) * TicksPerSecond + TicksPerSecond
<1>1. PICK u \in Nat : u = Unix(t)
  BY WholeSeconds
<1>2. (u - 1) * TicksPerSecond <= t /\ t < u * TicksPerSecond /\ TicksPerSecond \in Nat
  BY <1>1, WholeSeconds
<1>3. (u - 1) * TicksPerSecond \in Int /\ u * TicksPerSecond = (u - 1) * TicksPerSecond + TicksPerSecond
  BY <1>2
<1> QED
  BY <1>1, <1>2, <1>3

\* Time that has reached the second q ends in it or later.
LEMMA SecondReached ==
    ASSUME NEW t \in Nat, NEW q \in Nat, q * TicksPerSecond <= t
    PROVE  q < Unix(t)
<1>1. t < Unix(t) * TicksPerSecond /\ Unix(t) \in Nat /\ TicksPerSecond \in Nat \ {0}
  BY WholeSeconds
<1>2. SUFFICES ASSUME Unix(t) <= q PROVE FALSE
  BY <1>1
<1>3. Unix(t) * TicksPerSecond <= q * TicksPerSecond
  BY <1>1, <1>2
<1> QED
  BY <1>1, <1>3

LEMMA ScaledEpochs ==
    ASSUME NEW d \in Nat, NEW e \in Nat, d <= e
    PROVE  (d - 1) * TicksPerSecond <= (e - 1) * TicksPerSecond
OBVIOUS

-----------------------------------------------------------------------------
(* Between lives, when the stream is JetStream's and the last epoch can be  *)
(* read: no failure of LastEpoch, and a context that is not done.           *)

Resumable == JetStream /\ Events \cap {"lastEpoch", "cancel"} = {}

LEMMA RestartInit == Init => RestartInv
<1> SUFFICES ASSUME Init PROVE RestartInv
  OBVIOUS
<1>1. Len(scrapes) = 0 /\ ~cancelled
  BY DEF Init
<1> QED
  BY <1>1 DEF RestartInv, Resumed, RestartGap

\* Only scrapes of this life are still to be ended.
LEMMA OldStays ==
    ASSUME TypeInv, RecordInv, [Next]_vars, NEW i \in 1..Len(scrapes),
           scrapes[i].life < life, Ended(i)'
    PROVE  Ended(i)
<1>1. CASE UNCHANGED log
  BY <1>1 DEF Ended
<1>2. ASSUME NEW g \in Scrapers, NEW token \in Tokens, Works(g), Grows(g, token)
      PROVE  Ended(i)
  <2>1. PICK k \in 1..Len(log') : log'[k].scrape = i /\ log'[k].token = "end"
    BY DEF Ended
  <2>2. job[g].scrape # i
    <3>1. scrapes[job[g].scrape].life = life
      BY <1>2 DEF Works, RecordInv, Recorded
    <3>2. scrapes[i].life \in Nat /\ life \in Nat
      BY TimingTypes
    <3>3. scrapes[i].life # life
      BY <3>2
    <3> QED
      BY <3>1, <3>3
  <2>3. k \in 1..Len(log) /\ log'[k] = log[k]
    BY <1>2, <2>1, <2>2, GrownLog
  <2> QED
    BY <2>1, <2>3 DEF Ended
<1> QED
  BY <1>1, <1>2, LogGrows

LEMMA AgainTypes ==
    ASSUME TypeInv, NEW i \in 1..Len(scrapes)
    PROVE  Again(i) \in Int
<1>1. scrapes[i].at \in Nat
  BY TimingTypes
<1>2. (Unix(scrapes[i].at) - 1) * TicksPerSecond \in Int
  BY <1>1, SecondStarts
<1> QED
  BY <1>2 DEF Again

\* The record of pairs, where no scrape begins.
LEMMA GapStays ==
    ASSUME TypeInv, RecordInv, RestartInv, [Next]_vars, UNCHANGED scrapes
    PROVE  RestartGap'
<1>1. \A i \in 1..Len(scrapes) : Again(i)' = Again(i)
  BY DEF Again, Unix
<1>2. ASSUME NEW i \in 1..Len(scrapes), NEW j \in 1..Len(scrapes), i < j,
             scrapes[i].life < scrapes[j].life, scrapes[j].by = "interval", Ended(i)'
      PROVE  Again(i) <= scrapes[j].at
  <2>1. scrapes[i].life < life
    <3>1. scrapes[j].life <= life
      BY DEF RecordInv, Past
    <3>2. life \in Nat /\ scrapes[i].life \in Nat /\ scrapes[j].life \in Nat
      BY TimingTypes
    <3> QED
      BY <1>2, <3>1, <3>2
  <2>2. Ended(i)
    BY <1>2, <2>1, OldStays
  <2> QED
    BY <1>2, <2>2 DEF RestartInv, RestartGap
<1> QED
  BY <1>1, <1>2 DEF RestartGap

LEMMA DriftKeepsResumed ==
    ASSUME TypeInv, RecordInv, RestartInv, Resumable, [Next]_vars, Drifts, UNCHANGED scrapes
    PROVE  Resumed'
<1>1. \A i \in 1..Len(scrapes) : Again(i)' = Again(i) /\ Again(i) \in Int
  BY AgainTypes DEF Again, Unix
<1>2. \A i \in 1..Len(scrapes) : Old(i)' => Old(i)
  BY OldStays DEF Old, Drifts
<1>3. /\ clock \in Nat /\ clock' \in Nat /\ clock <= clock' /\ delay \in Nat
  BY TimingTypes DEF Drifts
<1>4. ~cancelled'
  BY DEF RestartInv, Resumed, Drifts, Resumable
<1>5. Armed' => \A i \in 1..Len(scrapes) : Old(i)' => Again(i)' <= clock' + delay'
  <2>1. Armed' => delay' = delay /\ \A i \in 1..Len(scrapes) : Old(i) => Again(i) <= clock + delay
    BY DEF RestartInv, Resumed, Armed, Drifts
  <2> QED
    BY <1>1, <1>2, <1>3, <2>1
<1>6. pc'["interval"] = "wait" => \A i \in 1..Len(scrapes) : Old(i)' => Again(i)' <= deadline'
  BY <1>1, <1>2 DEF RestartInv, Resumed, Drifts
<1>7. Fired' \/ Busy' => \A i \in 1..Len(scrapes) : Old(i)' => Again(i)' <= clock'
  <2>1. Fired' \/ Busy' => \A i \in 1..Len(scrapes) : Old(i) => Again(i) <= clock
    BY DEF RestartInv, Resumed, Drifts, Busy
  <2> QED
    BY <1>1, <1>2, <1>3, <2>1
<1> QED
  BY <1>4, <1>5, <1>6, <1>7 DEF Resumed, Armed, Busy

\* Resuming waits for what is left of the interval since the newest epoch.
LEMMA ResumingWaits ==
    ASSUME TypeInv, StreamInv, RecordInv, Kept, RestartInv, Resumable, Resuming
    PROVE  \A i \in 1..Len(scrapes) : Old(i) => Again(i) <= clock + delay'
<1> DEFINE E == LastEpoch(log, first)
<1>1. delay' = ResumeDelay(E)
  BY DEF Resuming, Resumable, RestartInv, Resumed
<1>2. ASSUME NEW i \in 1..Len(scrapes), Old(i) PROVE Again(i) <= clock + delay'
  <2>1. PICK k \in 1..Len(log) : log[k].scrape = i /\ log[k].token = "end"
    BY <1>2 DEF Old, Ended
  <2>2. k \in EndMarkers(log, 1)
    BY <2>1 DEF EndMarkers
  <2>3. log[k].epoch = Unix(scrapes[i].at)
    BY <2>1 DEF RecordInv, Stamped
  <2>4. E \in Nat /\ Unix(scrapes[i].at) <= E
    BY <2>2, <2>3, LastEpochIsNewest
  <2>5. Unix(scrapes[i].at) \in Nat /\ Unix(scrapes[i].at) > 0
    BY TimingTypes, WholeSeconds
  <2> DEFINE since == (E - 1) * TicksPerSecond
  <2> HIDE DEF E
  <2>6. since \in Int /\ Again(i) <= since + Interval
    <3>1. (Unix(scrapes[i].at) - 1) * TicksPerSecond <= since
      BY <2>4, <2>5, ScaledEpochs
    <3>2. since \in Int /\ (Unix(scrapes[i].at) - 1) * TicksPerSecond \in Int
      BY <2>4, <2>5
    <3> HIDE DEF since
    <3> QED
      BY <3>1, <3>2 DEF Again
  <2>7. E > 0
    BY <2>4, <2>5
  <2>8. ResumeDelay(E) = IF clock - since < Interval THEN Interval - (clock - since) ELSE 0
    BY <2>7 DEF ResumeDelay
  <2>9. Again(i) \in Int /\ clock \in Nat
    BY AgainTypes, TimingTypes
  <2> HIDE DEF since
  <2> QED
    BY <1>1, <2>6, <2>8, <2>9
<1> QED
  BY <1>2

LEMMA StartKeepsResumed ==
    ASSUME TypeInv, StreamInv, RecordInv, Kept, RestartInv, Resumable, [Next]_vars,
           Resuming \/ ArmFirst \/ TimerFires \/ Reschedule
    PROVE  Resumed'
<1>0. /\ "interval" \in Scrapers /\ job \in [Scrapers -> JobType]
      /\ pc \in [Scrapers -> IntervalPC \cup OnDemandPC \cup {"call"} \cup LockedPC \cup SectionPC]
  BY DEF TypeInv, TypeOK, PCOK
<1>1. UNCHANGED <<scrapes, clock, life, log, cancelled>>
  BY DEF Resuming, ArmFirst, TimerFires, Reschedule
<1>2. \A i \in 1..Len(scrapes) : Old(i)' = Old(i) /\ Again(i)' = Again(i) /\ Again(i) \in Int
  BY <1>1, AgainTypes DEF Old, Again, Ended, Unix
<1>3. ~cancelled'
  BY <1>1 DEF RestartInv, Resumed
<1>4. clock \in Nat /\ deadline \in Nat /\ delay \in Nat
  BY TimingTypes
<1> USE DEF Fired, Pruning, LockedPC, SectionPC, Goto
<1>5. CASE Resuming
  <2>1. pc'["interval"] = "open" /\ after' = "arm"
    BY <1>0, <1>5 DEF Resuming
  <2>2. \A i \in 1..Len(scrapes) : Old(i) => Again(i) <= clock + delay'
    BY <1>5, ResumingWaits
  <2> QED
    BY <1>1, <1>2, <1>3, <2>1, <2>2 DEF Resumed
<1>6. CASE ArmFirst
  <2>1. pc["interval"] = "arm" /\ pc'["interval"] = "wait" /\ deadline' = clock + delay
    BY <1>0, <1>6 DEF ArmFirst
  <2>2. \A i \in 1..Len(scrapes) : Old(i) => Again(i) <= clock + delay
    BY <2>1 DEF RestartInv, Resumed
  <2> QED
    BY <1>1, <1>2, <1>3, <2>1, <2>2 DEF Resumed
<1>7. CASE TimerFires
  <2>1. pc["interval"] = "wait" /\ pc'["interval"] = "open" /\ after' = "call" /\ deadline <= clock
    BY <1>0, <1>4, <1>7 DEF TimerFires
  <2>2. \A i \in 1..Len(scrapes) : Old(i) => Again(i) <= clock
    <3>1. \A i \in 1..Len(scrapes) : Old(i) => Again(i) <= deadline
      BY <2>1 DEF RestartInv, Resumed
    <3> QED
      BY <1>2, <1>4, <2>1, <3>1
  <2> QED
    BY <1>1, <1>2, <1>3, <2>1, <2>2 DEF Resumed
<1>8. CASE Reschedule
  <2>1. /\ pc["interval"] = "schedule" /\ pc'["interval"] = "wait"
        /\ deadline' = clock + NextDelay(job["interval"])
    BY <1>0, <1>8 DEF Reschedule
  <2>2. NextDelay(job["interval"]) \in Nat
    BY <1>0, DelayTypes
  <2>3. \A i \in 1..Len(scrapes) : Old(i) => Again(i) <= clock
    BY <2>1 DEF RestartInv, Resumed
  <2>4. \A i \in 1..Len(scrapes) : Old(i) => Again(i) <= deadline'
    BY <1>2, <1>4, <2>1, <2>2, <2>3
  <2> QED
    BY <1>1, <1>2, <1>3, <2>1, <2>4 DEF Resumed
<1> QED
  BY <1>5, <1>6, <1>7, <1>8

LEMMA BeginKeepsRestart ==
    ASSUME TypeInv, RecordInv, RestartInv, NEW g \in Scrapers, Begins(g)
    PROVE  RestartInv'
<1>0. /\ "interval" \in Scrapers
      /\ pc \in [Scrapers -> IntervalPC \cup OnDemandPC \cup {"call"} \cup LockedPC \cup SectionPC]
  BY DEF TypeInv, TypeOK, PCOK
<1>1. PICK n \in Nat : n = Len(scrapes)
  BY TimingTypes
<1>2. /\ Len(scrapes') = n + 1
      /\ scrapes'[n + 1].by = g /\ scrapes'[n + 1].at = clock /\ scrapes'[n + 1].life = life
      /\ \A i \in 1..n : scrapes'[i] = scrapes[i]
      /\ UNCHANGED <<log, clock, life, delay, deadline, after, cancelled>>
  <2>1. /\ Len(scrapes') = n + 1 /\ scrapes'[n + 1] = [by |-> g, at |-> clock, life |-> life]
        /\ \A i \in 1..n : scrapes'[i] = scrapes[i]
    BY <1>1 DEF Begins
  <2>2. UNCHANGED <<log, clock, life, delay, deadline, after, cancelled>>
    BY DEF Begins
  <2>3. scrapes'[n + 1].by = g /\ scrapes'[n + 1].at = clock /\ scrapes'[n + 1].life = life
    BY <2>1
  <2> QED
    BY <2>1, <2>2, <2>3
<1>3. 1..(n + 1) = 1..n \cup {n + 1}
  OBVIOUS
<1>4. \A i \in 1..n : Old(i)' = Old(i) /\ Again(i)' = Again(i) /\ Ended(i)' = Ended(i)
  BY <1>2 DEF Old, Again, Ended, Unix
<1>5. ~Old(n + 1)'
  BY <1>2, TimingTypes DEF Old
<1>6. \/ pc'["interval"] = pc["interval"]
      \/ pc["interval"] = "begin" /\ pc'["interval"] = "discover"
  BY <1>0 DEF Begins
<1>7. Resumed'
  <2>1. Armed' => Armed
    BY <1>2, <1>6 DEF Armed, Pruning
  <2>2. Fired' \/ Busy' => Fired \/ Busy
    BY <1>2, <1>6 DEF Fired, Pruning, Busy, LockedPC, SectionPC
  <2>3. pc'["interval"] = "wait" => pc["interval"] = "wait"
    BY <1>6
  <2>4. Armed' => \A i \in 1..(n + 1) : Old(i)' => Again(i)' <= clock' + delay'
    BY <1>1, <1>2, <1>3, <1>4, <1>5, <2>1 DEF RestartInv, Resumed, Armed
  <2>5. pc'["interval"] = "wait" => \A i \in 1..(n + 1) : Old(i)' => Again(i)' <= deadline'
    BY <1>1, <1>2, <1>3, <1>4, <1>5, <2>3 DEF RestartInv, Resumed
  <2>6. Fired' \/ Busy' => \A i \in 1..(n + 1) : Old(i)' => Again(i)' <= clock'
    BY <1>1, <1>2, <1>3, <1>4, <1>5, <2>2 DEF RestartInv, Resumed, Busy
  <2>7. ~cancelled'
    BY <1>2 DEF RestartInv, Resumed
  <2> QED
    BY <1>2, <2>4, <2>5, <2>6, <2>7 DEF Resumed, Armed, Busy
<1>8. ASSUME NEW i \in 1..(n + 1), NEW j \in 1..(n + 1), i < j,
             scrapes'[i].life < scrapes'[j].life, scrapes'[j].by = "interval", Ended(i)'
      PROVE  Again(i)' <= scrapes'[j].at
  <2>1. i \in 1..n
    BY <1>8
  <2>2. CASE j \in 1..n
    BY <1>1, <1>2, <1>4, <1>8, <2>1, <2>2 DEF RestartInv, RestartGap
  <2>3. CASE j = n + 1
    <3>1. g = "interval" /\ scrapes[i].life < life
      BY <1>2, <1>8, <2>1, <2>3
    <3>2. Old(i)
      BY <1>4, <1>8, <2>1, <3>1 DEF Old
    <3>3. pc["interval"] = "begin"
      BY <3>1 DEF Begins
    <3>4. Again(i) <= clock
      BY <1>1, <2>1, <3>2, <3>3 DEF RestartInv, Resumed, Fired
    <3> QED
      BY <1>2, <1>4, <2>1, <2>3, <3>4
  <2> QED
    BY <1>3, <2>2, <2>3
<1>9. RestartGap'
  BY <1>2, <1>8 DEF RestartGap
<1> QED
  BY <1>7, <1>9 DEF RestartInv

LEMMA RestartStep ==
    ASSUME TypeInv, StreamInv, RecordInv, TimerInv, Kept, RestartInv, Resumable, [Next]_vars
    PROVE  RestartInv'
<1>0. Finished
  BY DEF TimerInv
<1>1. CASE Drifts /\ UNCHANGED scrapes
  BY <1>1, DriftKeepsResumed, GapStays DEF RestartInv
<1>2. CASE Resuming \/ ArmFirst \/ TimerFires \/ Reschedule
  <2>1. UNCHANGED scrapes
    BY <1>2 DEF Resuming, ArmFirst, TimerFires, Reschedule
  <2> QED
    BY <1>2, <2>1, StartKeepsResumed, GapStays DEF RestartInv
<1>3. ASSUME NEW g \in Scrapers, Begin(g) PROVE RestartInv'
  BY <1>3, ScrapeBegins, BeginKeepsRestart
<1>4. CASE Crash
  <2>1. UNCHANGED scrapes /\ pc'["interval"] = "boot" /\ ~cancelled'
    BY <1>4, FreshTypes DEF Crash
  <2>2. Resumed'
    BY <2>1 DEF Resumed, Fired, Pruning, LockedPC, SectionPC
  <2> QED
    BY <2>1, <2>2, GapStays DEF RestartInv
<1> QED
  BY <1>0, <1>1, <1>2, <1>3, <1>4, OthersDrift DEF Next, StartLoop, DoScrape

LEMMA RestartInvariant ==
    ASSUME Resumable
    PROVE  Spec => [](TypeInv /\ RecordInv /\ TimerInv /\ RestartInv)
<1>1. Init => Kept /\ RestartInv
  BY KeptInit, RestartInit
<1>2. TypeInv /\ StreamInv /\ RecordInv /\ TimerInv /\ Kept /\ RestartInv /\ [Next]_vars
        => Kept' /\ RestartInv'
  BY KeptStep, RestartStep
<1> QED
  BY <1>1, <1>2, TimerInvariant, PTL DEF Spec

\* A restarted process leaves an interval since every scrape that was ended,
\* less the second its epoch was cut to, if the last epoch can be read
\* (Runner!IntervalsOutliveRestarts).
THEOREM IntervalsOutlive ==
    ASSUME JetStream, Events \cap {"lastEpoch", "cancel"} = {}
    PROVE  Spec => []IntervalsOutliveRestarts
<1>1. TypeInv /\ RestartInv => IntervalsOutliveRestarts
  <2> SUFFICES ASSUME TypeInv, RestartInv,
                      NEW i \in 1..Len(scrapes), NEW j \in 1..Len(scrapes), i < j,
                      scrapes[i].life < scrapes[j].life, scrapes[j].by = "interval", Ended(i)
               PROVE  scrapes[j].at - scrapes[i].at > Interval - TicksPerSecond
    BY DEF IntervalsOutliveRestarts
  <2>1. Again(i) <= scrapes[j].at
    BY DEF RestartInv, RestartGap
  <2>2. scrapes[i].at \in Nat /\ scrapes[j].at \in Nat
    BY TimingTypes
  <2> DEFINE since == (Unix(scrapes[i].at) - 1) * TicksPerSecond
  <2>3. since \in Int /\ scrapes[i].at < since + TicksPerSecond
    BY <2>2, SecondStarts
  <2>4. since + Interval <= scrapes[j].at
    BY <2>1 DEF Again
  <2> HIDE DEF since
  <2> QED
    BY <2>2, <2>3, <2>4
<1> QED
  BY <1>1, RestartInvariant, PTL DEF Resumable

\* An epoch the timer has ended is over, if the last epoch can be read and an
\* interval is a second or more (Runner!EndedEpochsStayClosed).
THEOREM EndedEpochsClosed ==
    ASSUME JetStream, Events \cap {"lastEpoch", "cancel"} = {}, TicksPerSecond <= Interval
    PROVE  Spec => []EndedEpochsStayClosed
<1>1. TypeInv /\ RecordInv /\ TimerInv /\ RestartInv => EndedEpochsStayClosed
  <2> SUFFICES ASSUME TypeInv, RecordInv, TimerInv, RestartInv,
                      NEW i \in 1..Len(scrapes), NEW j \in 1..Len(scrapes), i < j,
                      scrapes[i].by = "interval", scrapes[j].by = "interval", Ended(i)
               PROVE  Unix(scrapes[i].at) < Unix(scrapes[j].at)
    BY DEF EndedEpochsStayClosed
  <2>1. /\ scrapes[i].at \in Nat /\ scrapes[j].at \in Nat
        /\ scrapes[i].life \in Nat /\ scrapes[j].life \in Nat
    BY TimingTypes
  <2>2. scrapes[i].life <= scrapes[j].life
    BY DEF RecordInv, Past
  <2> DEFINE second == Unix(scrapes[i].at)
             since == (second - 1) * TicksPerSecond
             ticks == second * TicksPerSecond
  <2>3. /\ second \in Nat /\ since \in Int /\ since <= scrapes[i].at
        /\ ticks = since + TicksPerSecond
    BY <2>1, SecondStarts
  <2>4. scrapes[i].life = scrapes[j].life => scrapes[j].at - scrapes[i].at >= Interval
    BY DEF TimerInv, IntervalsAreKept
  <2>5. scrapes[i].life < scrapes[j].life => since + Interval <= scrapes[j].at
    <3>1. scrapes[i].life < scrapes[j].life => Again(i) <= scrapes[j].at
      BY DEF RestartInv, RestartGap
    <3> QED
      BY <3>1 DEF Again
  <2> HIDE DEF second, since, ticks
  <2>6. since + Interval <= scrapes[j].at
    <3>1. CASE scrapes[i].life < scrapes[j].life
      BY <2>5, <3>1
    <3>2. CASE scrapes[i].life = scrapes[j].life
      BY <2>1, <2>3, <2>4, <3>2
    <3> QED
      BY <2>1, <2>2, <3>1, <3>2
  <2>7. ticks <= scrapes[j].at
    BY <2>1, <2>3, <2>6
  <2>8. second * TicksPerSecond <= scrapes[j].at
    BY <2>7 DEF ticks
  <2> QED
    BY <2>1, <2>3, <2>8, SecondReached DEF second
<1> QED
  BY <1>1, RestartInvariant, PTL DEF Resumable

-----------------------------------------------------------------------------
(* Readers. An inspector's observer is followed from message to message: it *)
(* has met no start marker, or it has captured the stretch from one to the  *)
(* message it has read last, or to the end marker of that scrape.           *)

\* f is the function `reading' in Inspection, up to the message at n.
Reads(f, from, n) ==
    f = [i \in (from - 1)..n |-> IF i < from THEN NewObserver ELSE Observe(f[i - 1], i)]

ReadingSame(b, e) == log[e].token = "end" /\ log[e].scrape = log[b].scrape

Captures(o, from, i) ==
    \/ o = NewObserver /\ \A k \in from..i : log[k].token # "start"
    \/ \E b \in from..i :
          /\ log[b].token = "start" /\ o.epoch = log[b].epoch
          /\ o.captured # <<>> /\ o.captured[1] = b
          /\ \A e \in 1..Len(log) : ReadingSame(b, e) =>
                /\ o.state = IF i < e THEN "reading" ELSE "done"
                /\ Len(o.captured) = (IF i < e THEN i ELSE e) - b + 1
                /\ \A k \in 1..Len(o.captured) : o.captured[k] = b + k - 1

ObserverType == [epoch : Nat, captured : Seq(Nat), state : {"reading", "done"}]

\* The tokens of the endpoints the runner visits are known to Parse.
EndpointsParse == {Endpoints[i] : i \in 1..Len(Endpoints)} \subseteq ParsedTokens

\* The recursion of Inspection is well founded, so it defines what it says.
LEMMA ReadingExists ==
    ASSUME NEW N \in Nat, NEW from \in 1..N
    PROVE  \E f : Reads(f, from, N)
<1> DEFINE Bad == {n \in (from - 1)..N : ~ \E f : Reads(f, from, n)}
<1>0. SUFFICES ASSUME Bad # {} PROVE FALSE
  <2>1. N \in (from - 1)..N
    OBVIOUS
  <2> QED
    BY <2>1
<1>1. PICK n \in Bad : \A m \in Bad : n <= m
  <2>1. Bad \in SUBSET Nat
    OBVIOUS
  <2> HIDE DEF Bad
  <2> QED
    BY <1>0, <2>1, LeastExists DEF IsLeast
<1>2. n \in (from - 1)..N /\ ~ \E f : Reads(f, from, n)
  OBVIOUS
<1>3. CASE n = from - 1
  <2>1. Reads([i \in (from - 1)..n |-> NewObserver], from, n)
    BY <1>3 DEF Reads
  <2> QED
    BY <1>2, <2>1
<1>4. CASE n # from - 1
  <2>1. n - 1 \in (from - 1)..N /\ n - 1 \notin Bad
    BY <1>1, <1>2, <1>4
  <2>2. PICK f : Reads(f, from, n - 1)
    BY <2>1
  <2> DEFINE g == [i \in (from - 1)..n |-> IF i = n THEN Observe(f[n - 1], n) ELSE f[i]]
  <2>3. \A i \in (from - 1)..(n - 1) : g[i] = f[i]
    BY <1>2
  <2>4. \A i \in (from - 1)..n : g[i] = IF i < from THEN NewObserver ELSE Observe(g[i - 1], i)
    <3> TAKE i \in (from - 1)..n
    <3>1. CASE i = n
      <4>1. ~(i < from) /\ i - 1 \in (from - 1)..(n - 1) /\ i - 1 = n - 1
        BY <1>2, <1>4, <3>1
      <4>2. g[i - 1] = f[n - 1]
        BY <2>3, <4>1
      <4>3. g[i] = Observe(f[n - 1], n)
        BY <3>1
      <4> HIDE DEF g
      <4> QED
        BY <3>1, <4>1, <4>2, <4>3
    <3>2. CASE i # n
      <4>1. i \in (from - 1)..(n - 1) /\ g[i] = f[i]
        BY <1>2, <2>3, <3>2
      <4>2. f[i] = IF i < from THEN NewObserver ELSE Observe(f[i - 1], i)
        BY <2>2, <4>1 DEF Reads
      <4>3. ~(i < from) => i - 1 \in (from - 1)..(n - 1)
        BY <1>2, <4>1
      <4>4. ~(i < from) => g[i - 1] = f[i - 1]
        BY <2>3, <4>3
      <4> HIDE DEF g
      <4> QED
        BY <4>1, <4>2, <4>4
    <3> QED
      BY <3>1, <3>2
  <2>5. g = [i \in (from - 1)..n |-> g[i]]
    OBVIOUS
  <2> HIDE DEF g
  <2>6. Reads(g, from, n)
    BY <2>4, <2>5 DEF Reads
  <2> QED
    BY <1>2, <2>6
<1> QED
  BY <1>3, <1>4

LEMMA InspectionReads ==
    ASSUME NEW from \in 1..Len(log), Len(log) \in Nat
    PROVE  \E f : Reads(f, from, Len(log)) /\ Inspection(from) = f[Len(log)]
<1>1. Reads(CHOOSE f : Reads(f, from, Len(log)), from, Len(log))
  BY ReadingExists
<1>2. Inspection(from) = (CHOOSE f : Reads(f, from, Len(log)))[Len(log)]
  BY DEF Inspection, Reads
<1> QED
  BY <1>1, <1>2

\* What an observer meets: messages it can parse, of epochs above 0, and one
\* epoch to a scrape.
Legible ==
    /\ Len(log) \in Nat
    /\ \A i \in 1..Len(log) :
          /\ Parses(log[i])
          /\ log[i].epoch \in Nat \ {0} /\ log[i].scrape \in Nat
    /\ \A i, j \in 1..Len(log) : log[i].scrape = log[j].scrape => log[i].epoch = log[j].epoch

LEMMA LogIsLegible ==
    ASSUME TypeInv, RecordInv, EndpointsParse
    PROVE  Legible
<1>1. Len(log) \in Nat /\ \A i \in 1..Len(log) : log[i] \in Messages(Tokens)
  <2>1. log \in Seq(Messages(Tokens))
    BY DEF TypeInv, TypeOK
  <2> QED
    BY <2>1, ElementOfSeq, LenProperties
<1>2. \A i \in 1..Len(log) : Parses(log[i])
  <2>1. \A token \in Tokens : token \in {"start", "end"} \cup ParsedTokens
    BY DEF Tokens, EndpointsParse, ParsedTokens
  <2> QED
    BY <1>1, <2>1 DEF Messages, Parses
<1>3. \A i \in 1..Len(log) : log[i].epoch \in Nat /\ log[i].scrape \in Nat
  BY <1>1 DEF Messages
<1>4. ASSUME NEW i \in 1..Len(log) PROVE log[i].epoch # 0
  <2>1. PICK t : t = scrapes[log[i].scrape].at
    OBVIOUS
  <2>2. t \in Nat /\ log[i].epoch = Unix(t)
    <3>1. log[i].scrape \in 1..Len(scrapes) /\ log[i].epoch = Unix(t)
      BY <2>1 DEF RecordInv, Stamped
    <3> QED
      BY <2>1, <3>1, TimingTypes
  <2>3. 0 < Unix(t)
    BY <2>2, SecondReached
  <2> QED
    BY <2>2, <2>3
<1>5. \A i, j \in 1..Len(log) : log[i].scrape = log[j].scrape => log[i].epoch = log[j].epoch
  BY DEF RecordInv, Stamped
<1> QED
  BY <1>1, <1>2, <1>3, <1>4, <1>5 DEF Legible

\* Between its markers, the stream holds a scrape's messages and no other's.
LEMMA Stretch ==
    ASSUME StreamInv, Legible, NEW b \in 1..Len(log), NEW e \in 1..Len(log),
           log[b].token = "start", ReadingSame(b, e)
    PROVE  /\ b < e
           /\ \A i \in 1..Len(log) : log[i].scrape = log[b].scrape <=> i \in b..e
           /\ \A i \in b..(e - 1) : log[i].token # "end"
<1>1. log[e].token = "end" /\ log[e].scrape = log[b].scrape
  BY DEF ReadingSame
<1>2. b < e
  <2>1. b # e
    BY <1>1
  <2>2. ~(e < b)
    BY <1>1 DEF StreamInv, Ordered
  <2> QED
    BY <2>1, <2>2
<1>3. ASSUME NEW i \in 1..Len(log), log[i].scrape = log[b].scrape PROVE i \in b..e
  <2>1. ~(i < b) /\ ~(e < i)
    BY <1>1, <1>3 DEF StreamInv, Ordered
  <2> QED
    BY <2>1
<1>4. ASSUME NEW i \in 1..Len(log), i \in b..e PROVE log[i].scrape = log[b].scrape
  <2>1. CASE i = b \/ i = e
    BY <1>1, <2>1
  <2>2. CASE b < i /\ i < e
    <3>1. log[b].scrape <= log[i].scrape /\ log[i].scrape <= log[e].scrape
      BY <2>2 DEF StreamInv, Ordered
    <3> QED
      BY <1>1, <3>1 DEF Legible
  <2> QED
    BY <1>4, <2>1, <2>2
<1>5. ASSUME NEW i \in b..(e - 1) PROVE log[i].token # "end"
  <2>1. i \in 1..Len(log) /\ i \in b..e /\ i < e
    OBVIOUS
  <2>2. log[i].scrape = log[e].scrape
    BY <1>1, <1>4, <2>1
  <2> QED
    BY <2>1, <2>2 DEF StreamInv, Ordered
<1> QED
  BY <1>2, <1>3, <1>4, <1>5

LEMMA ObserveCaptures ==
    ASSUME StreamInv, Legible, NEW from \in 1..Len(log), NEW i \in from..Len(log),
           NEW o \in ObserverType, Captures(o, from, i - 1)
    PROVE  Observe(o, i) \in ObserverType /\ Captures(Observe(o, i), from, i)
<1>1. /\ i \in 1..Len(log) /\ Len(log) \in Nat /\ Parses(log[i])
      /\ log[i].epoch \in Nat /\ log[i].epoch # 0
  BY DEF Legible
<1>2. PICK message : message = log[i]
  OBVIOUS
<1>3. PICK epoch : epoch = IF o.epoch = 0 /\ message.token = "start" THEN message.epoch ELSE o.epoch
  OBVIOUS
<1>4. PICK next : next = [epoch |-> epoch, captured |-> Append(o.captured, i),
                          state |-> IF message.token = "end" THEN "done" ELSE "reading"]
  OBVIOUS
<1>5. Observe(o, i) = IF o.state # "reading" \/ message.epoch # epoch THEN o ELSE next
  BY <1>1, <1>2, <1>3, <1>4 DEF Observe, ObserverType
<1>6. /\ o.epoch \in Nat /\ o.captured \in Seq(Nat) /\ o.state \in {"reading", "done"}
      /\ epoch \in Nat /\ i \in Nat
  BY <1>1, <1>2, <1>3 DEF ObserverType
<1>7. PICK n \in Nat : n = Len(o.captured)
  BY <1>6, LenProperties
<1>8. /\ Append(o.captured, i) \in Seq(Nat) /\ Len(Append(o.captured, i)) = n + 1
      /\ Append(o.captured, i)[n + 1] = i
      /\ \A k \in 1..n : Append(o.captured, i)[k] = o.captured[k]
  BY <1>6, <1>7, AppendProperties
<1>9. /\ next.epoch = epoch /\ next.captured = Append(o.captured, i)
      /\ next.state = IF message.token = "end" THEN "done" ELSE "reading"
  BY <1>4
<1>10. next \in ObserverType
  BY <1>4, <1>6, <1>8 DEF ObserverType
<1>11. Observe(o, i) \in ObserverType
  BY <1>5, <1>10
\* It has met no start marker yet.
<1>12. CASE o = NewObserver /\ \A k \in from..(i - 1) : log[k].token # "start"
  <2>1. o.epoch = 0 /\ o.captured = <<>> /\ o.state = "reading" /\ n = 0
    BY <1>7, <1>12 DEF NewObserver
  <2>2. CASE message.token # "start"
    <3>1. Observe(o, i) = o
      BY <1>1, <1>2, <1>3, <1>5, <2>1, <2>2
    <3>2. \A k \in from..i : log[k].token # "start"
      BY <1>1, <1>2, <1>12, <2>2
    <3> QED
      BY <1>11, <1>12, <3>1, <3>2 DEF Captures
  <2>3. CASE message.token = "start"
    <3>1. Observe(o, i) = next /\ epoch = log[i].epoch
      BY <1>2, <1>3, <1>5, <2>1, <2>3
    <3>2. next.state = "reading" /\ next.epoch = log[i].epoch
      BY <1>9, <2>3, <3>1
    <3>3. next.captured # <<>> /\ next.captured[1] = i /\ Len(next.captured) = 1
      BY <1>8, <1>9, <2>1
    <3>4. ASSUME NEW e \in 1..Len(log), ReadingSame(i, e)
          PROVE  /\ next.state = IF i < e THEN "reading" ELSE "done"
                 /\ Len(next.captured) = (IF i < e THEN i ELSE e) - i + 1
                 /\ \A k \in 1..Len(next.captured) : next.captured[k] = i + k - 1
      <4>1. i < e
        BY <1>1, <1>2, <2>3, <3>4, Stretch
      <4> QED
        BY <1>1, <3>2, <3>3, <4>1
    <3>5. i \in from..i /\ log[i].token = "start"
      BY <1>1, <1>2, <2>3
    <3> QED
      BY <1>11, <3>1, <3>2, <3>3, <3>4, <3>5 DEF Captures
  <2> QED
    BY <2>2, <2>3
\* It has met b, and is reading its scrape or has read it.
<1>13. ASSUME NEW b \in from..(i - 1),
              log[b].token = "start", o.epoch = log[b].epoch,
              o.captured # <<>>, o.captured[1] = b,
              \A e \in 1..Len(log) : ReadingSame(b, e) =>
                /\ o.state = IF i - 1 < e THEN "reading" ELSE "done"
                /\ Len(o.captured) = (IF i - 1 < e THEN i - 1 ELSE e) - b + 1
                /\ \A k \in 1..Len(o.captured) : o.captured[k] = b + k - 1
       PROVE  Captures(Observe(o, i), from, i)
  <2>0. b \in 1..Len(log) /\ b \in Nat /\ b < i /\ b \in from..i
    BY <1>1
  <2>1. epoch = o.epoch /\ o.epoch # 0
    BY <1>3, <1>13, <2>0 DEF Legible
  <2>2. n # 0
    BY <1>6, <1>7, <1>13
  <2>3. CASE o.state # "reading"
    <3>1. Observe(o, i) = o
      BY <1>5, <2>3
    <3>2. ASSUME NEW e \in 1..Len(log), ReadingSame(b, e)
          PROVE  /\ o.state = IF i < e THEN "reading" ELSE "done"
                 /\ Len(o.captured) = (IF i < e THEN i ELSE e) - b + 1
                 /\ \A k \in 1..Len(o.captured) : o.captured[k] = b + k - 1
      <4>1. ~(i - 1 < e)
        BY <1>13, <2>3, <3>2
      <4>2. ~(i < e)
        BY <1>1, <4>1
      <4> QED
        BY <1>13, <3>2, <4>1, <4>2
    <3> QED
      BY <1>13, <2>0, <3>1, <3>2 DEF Captures
  <2>4. CASE o.state = "reading" /\ message.epoch # epoch
    <3>1. Observe(o, i) = o
      BY <1>5, <2>4
    <3>2. ASSUME NEW e \in 1..Len(log), ReadingSame(b, e)
          PROVE  FALSE
      <4>1. i - 1 < e
        BY <1>13, <2>4, <3>2
      <4>2. i \in b..e
        BY <1>1, <2>0, <4>1
      <4>3. log[i].scrape = log[b].scrape
        BY <1>1, <1>13, <2>0, <3>2, <4>2, Stretch
      <4> QED
        BY <1>1, <1>2, <1>13, <2>0, <2>1, <2>4, <4>3 DEF Legible
    <3> QED
      BY <1>13, <2>0, <3>1, <3>2 DEF Captures
  <2>5. CASE o.state = "reading" /\ message.epoch = epoch
    <3>1. Observe(o, i) = next
      BY <1>5, <2>5
    <3>2. next.epoch = log[b].epoch
      BY <1>9, <1>13, <2>1
    <3>3. next.captured # <<>> /\ next.captured[1] = b
      <4>1. 1 \in 1..n
        BY <2>2
      <4>2. next.captured[1] = b /\ Len(next.captured) # 0
        BY <1>8, <1>9, <1>13, <4>1
      <4> QED
        BY <4>2
    <3>4. ASSUME NEW e \in 1..Len(log), ReadingSame(b, e)
          PROVE  /\ next.state = IF i < e THEN "reading" ELSE "done"
                 /\ Len(next.captured) = (IF i < e THEN i ELSE e) - b + 1
                 /\ \A k \in 1..Len(next.captured) : next.captured[k] = b + k - 1
      <4>1. i - 1 < e
        BY <1>13, <2>5, <3>4
      <4>2. i <= e
        BY <1>1, <4>1
      <4>3. n = i - b /\ \A k \in 1..n : o.captured[k] = b + k - 1
        <5>1. Len(o.captured) = (i - 1) - b + 1
          BY <1>13, <3>4, <4>1
        <5>2. n = i - b
          BY <1>1, <1>7, <2>0, <5>1
        <5> QED
          BY <1>7, <1>13, <3>4, <5>2
      <4>4. Len(next.captured) = i - b + 1
        BY <1>8, <1>9, <4>3
      <4>5. \A k \in 1..(n + 1) : next.captured[k] = b + k - 1
        <5>1. \A k \in 1..(n + 1) : k \in 1..n \/ k = n + 1
          OBVIOUS
        <5>2. i = b + (n + 1) - 1
          BY <1>1, <2>0, <4>3
        <5> QED
          BY <1>8, <1>9, <4>3, <5>1, <5>2
      <4>6. next.state = IF i < e THEN "reading" ELSE "done"
        <5>1. CASE i = e
          BY <1>2, <1>9, <3>4, <5>1 DEF ReadingSame
        <5>2. CASE i # e
          <6>1. i < e /\ i \in b..(e - 1)
            BY <1>1, <2>0, <4>2, <5>2
          <6>2. log[i].token # "end"
            BY <1>13, <2>0, <3>4, <6>1, Stretch
          <6> QED
            BY <1>2, <1>9, <6>1, <6>2
        <5> QED
          BY <5>1, <5>2
      <4>7. (IF i < e THEN i ELSE e) = i
        BY <1>1, <4>2
      <4>8. Len(next.captured) = n + 1
        BY <1>8, <1>9
      <4> QED
        BY <4>4, <4>5, <4>6, <4>7, <4>8
    <3> QED
      BY <1>13, <2>0, <3>1, <3>2, <3>3, <3>4 DEF Captures
  <2> QED
    BY <1>6, <2>3, <2>4, <2>5
<1> QED
  BY <1>11, <1>12, <1>13 DEF Captures

LEMMA ReadingCaptures ==
    ASSUME StreamInv, Legible, NEW from \in 1..Len(log), NEW f, Reads(f, from, Len(log)),
           NEW n \in (from - 1)..Len(log)
    PROVE  f[n] \in ObserverType /\ Captures(f[n], from, n)
<1> DEFINE Bad == {i \in (from - 1)..Len(log) :
                      ~(f[i] \in ObserverType /\ Captures(f[i], from, i))}
<1>1. SUFFICES ASSUME Bad # {} PROVE FALSE
  OBVIOUS
<1>2. Len(log) \in Nat
  BY DEF Legible
<1>3. PICK i \in Bad : \A m \in Bad : i <= m
  <2>1. Bad \in SUBSET Nat
    BY <1>2
  <2> HIDE DEF Bad
  <2> QED
    BY <1>1, <2>1, LeastExists DEF IsLeast
<1>4. i \in (from - 1)..Len(log) /\ ~(f[i] \in ObserverType /\ Captures(f[i], from, i))
  OBVIOUS
<1>5. f[i] = IF i < from THEN NewObserver ELSE Observe(f[i - 1], i)
  BY <1>4 DEF Reads
<1>6. CASE i < from
  <2>1. f[i] = NewObserver /\ \A k \in from..i : log[k].token # "start"
    BY <1>2, <1>4, <1>5, <1>6
  <2>2. NewObserver \in ObserverType
    BY DEF NewObserver, ObserverType
  <2> QED
    BY <1>4, <2>1, <2>2 DEF Captures
<1>7. CASE ~(i < from)
  <2>1. i \in from..Len(log) /\ i - 1 \in (from - 1)..Len(log) /\ i - 1 \notin Bad
    BY <1>2, <1>3, <1>4, <1>7
  <2>2. f[i - 1] \in ObserverType /\ Captures(f[i - 1], from, i - 1)
    BY <2>1
  <2>3. f[i] = Observe(f[i - 1], i)
    BY <1>5, <1>7
  <2> HIDE DEF Bad
  <2> QED
    BY <1>4, <2>1, <2>2, <2>3, ObserveCaptures
<1> QED
  BY <1>6, <1>7

\* From wherever a reader comes in, the first start marker it meets makes it
\* print that scrape, whole and nothing else, once its end marker was
\* published (SinkInspect!InspectionIsOneScrape); the endpoints the runner
\* visits are among those Parse knows.
THEOREM ReadersGetOneScrape ==
    ASSUME EndpointsParse
    PROVE  Spec => []InspectionIsOneScrape
<1>1. ASSUME TypeInv, StreamInv, RecordInv
      PROVE  InspectionIsOneScrape
  <2>0. Legible /\ Len(log) \in Nat
    BY <1>1, LogIsLegible DEF Legible
  <2> SUFFICES ASSUME NEW from \in 1..Len(log)
               PROVE  LET o == Inspection(from)
                          s == log[o.captured[1]].scrape
                      IN  /\ o.state # "failed"
                          /\ o.captured # <<>> /\ Ended(s) =>
                                /\ o.state = "done"
                                /\ {o.captured[k] : k \in 1..Len(o.captured)}
                                     = {i \in 1..Len(log) : log[i].scrape = s}
    BY DEF InspectionIsOneScrape
  <2>1. PICK o \in ObserverType : o = Inspection(from) /\ Captures(o, from, Len(log))
    <3>1. PICK f : Reads(f, from, Len(log)) /\ Inspection(from) = f[Len(log)]
      BY <2>0, InspectionReads
    <3>2. Len(log) \in (from - 1)..Len(log)
      BY <2>0
    <3> QED
      BY <1>1, <2>0, <3>1, <3>2, ReadingCaptures
  <2>2. o.state # "failed"
    BY DEF ObserverType
  <2>3. ASSUME o.captured # <<>>, Ended(log[o.captured[1]].scrape)
        PROVE  /\ o.state = "done"
               /\ {o.captured[k] : k \in 1..Len(o.captured)}
                    = {i \in 1..Len(log) : log[i].scrape = log[o.captured[1]].scrape}
    <3>1. PICK b \in from..Len(log) :
            /\ log[b].token = "start" /\ o.captured[1] = b
            /\ \A e \in 1..Len(log) : ReadingSame(b, e) =>
                  /\ o.state = IF Len(log) < e THEN "reading" ELSE "done"
                  /\ Len(o.captured) = (IF Len(log) < e THEN Len(log) ELSE e) - b + 1
                  /\ \A k \in 1..Len(o.captured) : o.captured[k] = b + k - 1
      BY <2>1, <2>3 DEF Captures, NewObserver
    <3>2. b \in 1..Len(log)
      BY <2>0
    <3>3. PICK e \in 1..Len(log) : ReadingSame(b, e)
      BY <2>3, <3>1 DEF Ended, ReadingSame
    <3>4. ~(Len(log) < e)
      BY <2>0
    <3>5. /\ o.state = "done" /\ Len(o.captured) = e - b + 1
          /\ \A k \in 1..(e - b + 1) : o.captured[k] = b + k - 1
      BY <3>1, <3>3, <3>4
    <3>6. \A i \in 1..Len(log) : log[i].scrape = log[b].scrape <=> i \in b..e
      BY <1>1, <2>0, <3>1, <3>2, <3>3, Stretch
    <3>7. {i \in 1..Len(log) : log[i].scrape = log[b].scrape} = b..e
      BY <2>0, <3>2, <3>6
    <3>8. {o.captured[k] : k \in 1..(e - b + 1)} = b..e
      <4>1. ASSUME NEW k \in 1..(e - b + 1) PROVE o.captured[k] \in b..e
        <5>1. o.captured[k] = b + k - 1
          BY <3>5
        <5>2. b + k - 1 \in b..e
          BY <3>2
        <5> QED
          BY <5>1, <5>2
      <4>2. \A i \in b..e : i - b + 1 \in 1..(e - b + 1) /\ o.captured[i - b + 1] = i
        <5>1. \A i \in b..e : i - b + 1 \in 1..(e - b + 1) /\ b + (i - b + 1) - 1 = i
          BY <3>2
        <5> QED
          BY <3>5, <5>1
      <4>3. ASSUME NEW i \in b..e PROVE i \in {o.captured[k] : k \in 1..(e - b + 1)}
        BY <4>2
      <4>4. {o.captured[k] : k \in 1..(e - b + 1)} \subseteq b..e
        BY <4>1
      <4>5. b..e \subseteq {o.captured[k] : k \in 1..(e - b + 1)}
        BY <4>3
      <4> QED
        BY <4>4, <4>5
    <3> QED
      BY <3>1, <3>5, <3>7, <3>8
  <2> QED
    BY <2>1, <2>2, <2>3
<1> QED
  BY <1>1, TimerInvariant, PTL
=============================================================================
