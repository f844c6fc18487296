-------------------------- MODULE ScrapeOnceProofs --------------------------
(***************************************************************************)
(* For any flags, run time and choice of what fails: the exit status of    *)
(* the command tells the truth, and its overrides hold for all it has      *)
(* published.                                                              *)
(***************************************************************************)
EXTENDS ScrapeOnce, RunnerProofs

USE RunnerAssumption DEF Scrapers, admission, timer, pruning, stream, host, ghosts

-----------------------------------------------------------------------------
(* The inductive invariant *)

OfThisLife(n) == {k \in 1..n : scrapes[k].life = life}

\* Endpoints of one name share their overrides.
FlagsInv ==
    /\ items \in Seq([name : STRING, value : Int])
    /\ setting \in [Index -> Nat \ {0}]
    /\ \A i, k \in Index : Endpoints[i] = Endpoints[k] =>
          setting[i] = setting[k] /\ (i \in disabled <=> k \in disabled)

\* Scrapes are of this life or of earlier ones, the scrapes of this life are
\* counted, and none is begun unless the flags are good.
RecordInv ==
    /\ \A s \in 1..Len(scrapes) : scrapes[s].life <= life
    /\ stage \in {"flags", "frequencies", "rejected"} =>
          \A s \in 1..Len(scrapes) : scrapes[s].life # life
    /\ epochCount = Cardinality(OfThisLife(Len(scrapes)))

\* The scrape that is open is the last one recorded.
OpenScrape ==
    pc[Once] \in {"discover", "start", "collect", "end"} =>
        /\ job[Once].scrape = Len(scrapes)
        /\ Len(scrapes) > 0 /\ scrapes[Len(scrapes)].life = life

\* A batch in the log is of an endpoint that was due, by the overrides.
Overridden(i) ==
    \A k \in Index :
        log[i].token = Endpoints[k] /\ scrapes[log[i].scrape].life = life =>
            k \notin disabled /\ NthOfLife(log[i].scrape) % setting[k] = 0

LogOK ==
    \A i \in 1..Len(log) : log[i].scrape \in 1..Len(scrapes) /\ Overridden(i)

EndPublished ==
    \E i \in 1..Len(log) : log[i].token = "end" /\ scrapes[log[i].scrape].life = life

\* Why the command ends: an end marker or its run time.
VerdictInv ==
    /\ completed => EndPublished
    /\ stage = "ok" => completed
    /\ stage # "unexplained"
    /\ cancelled => completed \/ cause = "deadline"
    /\ stage = "running" /\ pc[Once] = "returned" => cancelled

OnceInv ==
    /\ TypeInv
    /\ FlagsInv /\ RecordInv /\ OpenScrape /\ LogOK /\ VerdictInv

-----------------------------------------------------------------------------

LEMMA OnceTypes ==
    ASSUME TypeInv
    PROVE  /\ Len(log) \in Nat /\ Len(scrapes) \in Nat /\ Len(Endpoints) \in Nat
           /\ life \in Nat /\ epochCount \in Nat
           /\ \A s \in 1..Len(scrapes) : scrapes[s].life \in Nat
           /\ job[Once].scrape \in Nat /\ Once \in Scrapers
<1>1. /\ scrapes \in Seq([by : Scrapers, at : Nat, life : Nat])
      /\ log \in Seq(Messages(Tokens)) /\ Endpoints \in Seq(STRING)
  BY DEF TypeInv, TypeOK
<1>2. \A s \in 1..Len(scrapes) : scrapes[s] \in [by : Scrapers, at : Nat, life : Nat]
  BY <1>1, ElementOfSeq
<1>3. Len(log) \in Nat /\ Len(scrapes) \in Nat /\ Len(Endpoints) \in Nat
  BY <1>1, LenProperties
<1>4. life \in Nat /\ epochCount \in Nat /\ job \in [Scrapers -> JobType] /\ Once \in Scrapers
  BY DEF TypeInv, TypeOK, Once
<1> QED
  BY <1>2, <1>3, <1>4 DEF JobType

\* The runner's own steps that publish nothing and begin no scrape.
Quiet ==
    /\ UNCHANGED <<log, scrapes, life, epochCount>>
    /\ pc'[Once] \in {"discover", "start", "collect", "end"} =>
          pc[Once] \in {"discover", "start", "collect", "end"} /\ job'[Once].scrape = job[Once].scrape
    /\ pc'[Once] = "returned" => pc[Once] = "returned" \/ cancelled

QuietStep ==
    \/ Boot \/ Resuming \/ ArmFirst \/ TimerFires \/ StartReturns \/ Reschedule \/ PruneOpen
    \/ Lock(Once) \/ CheckPaused(Once) \/ CheckBusy(Once) \/ Discover(Once) \/ Leave(Once)
    \/ Cancel \/ Tick \/ UNCHANGED vars

LEMMA QuietIsQuiet ==
    ASSUME TypeInv, QuietStep
    PROVE  Quiet
<1>1. CASE Boot
  BY <1>1, ScrapeOnceAssumption DEF TypeInv, TypeOK, PCOK, Quiet, Once, Goto, Boot
<1>2. CASE Resuming
  BY <1>2 DEF TypeInv, TypeOK, PCOK, Quiet, Once, Goto, Resuming
<1>3. CASE ArmFirst
  BY <1>3 DEF TypeInv, TypeOK, PCOK, Quiet, Once, Goto, ArmFirst
<1>4. CASE TimerFires
  BY <1>4 DEF TypeInv, TypeOK, PCOK, Quiet, Once, Goto, TimerFires
<1>5. CASE StartReturns
  BY <1>5 DEF TypeInv, TypeOK, PCOK, Quiet, Once, Goto, StartReturns
<1>6. CASE Reschedule
  BY <1>6 DEF TypeInv, TypeOK, PCOK, Quiet, Once, Goto, Reschedule
<1>7. CASE PruneOpen
  BY <1>7 DEF TypeInv, TypeOK, PCOK, Quiet, Once, Goto, PruneOpen
<1>8. CASE Lock(Once)
  BY <1>8 DEF TypeInv, TypeOK, PCOK, Quiet, Once, Goto, Lock
<1>9. CASE CheckPaused(Once)
  BY <1>9 DEF TypeInv, TypeOK, PCOK, Quiet, Once, Goto, CheckPaused, Caller
<1>10. CASE CheckBusy(Once)
  BY <1>10 DEF TypeInv, TypeOK, PCOK, Quiet, Once, Goto, CheckBusy, Caller
<1>11. CASE Discover(Once)
  BY <1>11 DEF TypeInv, TypeOK, PCOK, Quiet, Once, Goto, Discover, JobType
<1>12. CASE Leave(Once)
  BY <1>12 DEF TypeInv, TypeOK, PCOK, Quiet, Once, Goto, Leave, Caller
<1>13. CASE Cancel
  BY <1>13 DEF TypeInv, TypeOK, PCOK, Quiet, Once, Goto, Cancel
<1>14. CASE Tick
  BY <1>14 DEF TypeInv, TypeOK, PCOK, Quiet, Once, Goto, Tick
<1>15. CASE UNCHANGED vars
  BY <1>15 DEF TypeInv, TypeOK, PCOK, Quiet, Once, Goto, vars
<1> QED
  BY <1>1, <1>2, <1>3, <1>4, <1>5, <1>6, <1>7, <1>8, <1>9, <1>10, <1>11, <1>12, <1>13, <1>14, <1>15 DEF QuietStep

\* What a quiet step leaves to be said is the verdict.
LEMMA QuietKeeps ==
    ASSUME OnceInv, Quiet, TypeInv', UNCHANGED flags, UNCHANGED completed,
           stage' \in {"flags", "frequencies", "rejected"} =>
              stage \in {"flags", "frequencies", "rejected"}
    PROVE  FlagsInv' /\ RecordInv' /\ OpenScrape' /\ LogOK' /\ (EndPublished' <=> EndPublished)
<1>1. FlagsInv'
  BY DEF OnceInv, FlagsInv, flags, Index
<1>2. RecordInv'
  BY DEF OnceInv, RecordInv, OfThisLife, Quiet
<1>3. OpenScrape'
  BY DEF OnceInv, OpenScrape, Quiet
<1>4. LogOK'
  <2>1. /\ log' = log /\ scrapes' = scrapes /\ life' = life
        /\ disabled' = disabled /\ setting' = setting
    BY DEF Quiet, flags
  <2>2. ASSUME NEW i \in 1..Len(log)
        PROVE  Overridden(i)' <=> Overridden(i)
    BY <2>1 DEF Overridden, NthOfLife, Index
  <2>3. \A i \in 1..Len(log) : log[i].scrape \in 1..Len(scrapes) /\ Overridden(i)
    BY DEF OnceInv, LogOK
  <2> QED
    BY <2>1, <2>2, <2>3 DEF LogOK
<1>5. EndPublished' <=> EndPublished
  BY DEF EndPublished, Quiet
<1> QED
  BY <1>1, <1>2, <1>3, <1>4, <1>5

-----------------------------------------------------------------------------
(* The steps that change the record or the log                              *)

LEMMA BeginKeeps ==
    ASSUME OnceInv, Begin(Once), stage = "running", UNCHANGED command
    PROVE  FlagsInv' /\ RecordInv' /\ OpenScrape' /\ LogOK' /\ (EndPublished' <=> EndPublished)
<1>1. PICK n \in Nat : n = Len(scrapes)
  BY OnceTypes DEF OnceInv
<1>2. PICK r : r = [by |-> Once, at |-> clock, life |-> life]
  OBVIOUS
<1>3. /\ r.life = life /\ Len(scrapes') = n + 1 /\ scrapes'[n + 1] = r
      /\ \A k \in 1..n : scrapes'[k] = scrapes[k]
  <2>1. scrapes \in Seq([by : Scrapers, at : Nat, life : Nat]) /\ scrapes' = Append(scrapes, r)
    BY <1>2 DEF OnceInv, TypeInv, TypeOK, Begin
  <2>2. r \in [by : Scrapers, at : Nat, life : Nat] /\ r.life = life
    BY <1>2 DEF OnceInv, TypeInv, TypeOK, Once
  <2> QED
    BY <1>1, <2>1, <2>2, AppendProperties
<1>4. /\ UNCHANGED <<log, life, items, disabled, setting>> /\ stage' = "running"
      /\ epochCount' = epochCount + 1
      /\ pc'[Once] = "discover" /\ job'[Once].scrape = n + 1
  BY <1>1 DEF Begin, NoJob, Goto, command, flags, OnceInv, TypeInv, TypeOK, PCOK, Once
<1>5. \A k \in 1..(n + 1) : k \in 1..n \/ k = n + 1
  OBVIOUS
<1>6. FlagsInv'
  BY <1>4 DEF OnceInv, FlagsInv, Index
<1>7. RecordInv'
  <2>1. \A s \in 1..(n + 1) : scrapes'[s].life <= life'
    BY <1>1, <1>3, <1>4, <1>5, OnceTypes DEF OnceInv, RecordInv
  <2>2. OfThisLife(n + 1)' = OfThisLife(n) \cup {n + 1}
    BY <1>3, <1>4, <1>5 DEF OfThisLife
  <2>3. n + 1 \notin OfThisLife(n) /\ IsFiniteSet(OfThisLife(n))
    <3>1. OfThisLife(n) \subseteq 1..n /\ n + 1 \notin 1..n
      BY DEF OfThisLife
    <3>2. IsFiniteSet(1..n)
      BY FS_Interval
    <3> QED
      BY <3>1, <3>2, FS_Subset
  <2>4. Cardinality(OfThisLife(n + 1)') = Cardinality(OfThisLife(n)) + 1
    BY <2>2, <2>3, FS_AddElement
  <2> QED
    BY <1>1, <1>3, <1>4, <2>1, <2>4 DEF OnceInv, RecordInv, OfThisLife
<1>8. OpenScrape'
  BY <1>3, <1>4 DEF OpenScrape
<1>9. \A i \in 1..Len(log) :
         /\ log'[i] = log[i] /\ log[i].scrape \in 1..n
         /\ scrapes'[log[i].scrape] = scrapes[log[i].scrape]
         /\ \A k \in 1..log[i].scrape : scrapes'[k] = scrapes[k]
  BY <1>1, <1>3, <1>4 DEF OnceInv, LogOK
<1>10. \A i \in 1..Len(log) : NthOfLife(log[i].scrape)' = NthOfLife(log[i].scrape)
  <2> TAKE i \in 1..Len(log)
  <2>1. PICK s \in 1..n : s = log[i].scrape
    BY <1>9
  <2>2. s \in 1..s /\ log'[i].scrape = s /\ \A k \in 1..s : scrapes'[k] = scrapes[k]
    BY <1>9, <2>1
  <2>3. NthOfLife(s)' = NthOfLife(s)
    BY <2>2 DEF NthOfLife
  <2> QED
    BY <2>1, <2>2, <2>3 DEF NthOfLife
<1>11. LogOK'
  <2>1. \A i \in 1..Len(log) : log[i].scrape \in 1..(n + 1)
    BY <1>9
  <2>2. ASSUME NEW i \in 1..Len(log) PROVE Overridden(i)'
    <3>1. Overridden(i)
      BY DEF OnceInv, LogOK
    <3> QED
      BY <1>4, <1>9, <1>10, <3>1 DEF Overridden, Index
  <2> QED
    BY <1>3, <1>4, <2>1, <2>2 DEF LogOK
<1>12. EndPublished' <=> EndPublished
  BY <1>4, <1>9 DEF EndPublished
<1> QED
  BY <1>6, <1>7, <1>8, <1>11, <1>12

\* The open scrape publishes a marker, or a batch that is due.
LEMMA PublishKeeps ==
    ASSUME OnceInv, pc[Once] \in {"start", "collect", "end"},
           NEW token, Publish(Once, token),
           \A k \in Index : token = Endpoints[k] => k \notin disabled /\ epochCount % setting[k] = 0,
           UNCHANGED <<scrapes, life, disabled, setting>>
    PROVE  LogOK' /\ (EndPublished \/ token = "end" => EndPublished')
<1>1. PICK n \in Nat, s \in Nat : n = Len(log) /\ s = Len(scrapes)
  BY OnceTypes DEF OnceInv
<1>2. PICK m : m = Message(token, job[Once].epoch, job[Once].scrape)
  OBVIOUS
<1>3. m.token = token /\ m.scrape = job[Once].scrape
  BY <1>2 DEF Message
<1>4. Len(log') = n + 1 /\ log'[n + 1] = m /\ \A i \in 1..n : log'[i] = log[i]
  BY <1>1, <1>2 DEF Publish, OnceInv, TypeInv, TypeOK
<1>5. job[Once].scrape = s /\ s \in 1..s /\ scrapes[s].life = life
  BY <1>1 DEF OnceInv, OpenScrape
<1>6. NthOfLife(s) = epochCount
  BY <1>1, <1>5 DEF NthOfLife, OnceInv, RecordInv, OfThisLife
<1>7. \A i \in 1..(n + 1) : i \in 1..n \/ i = n + 1
  OBVIOUS
<1>8. \A k \in Nat : NthOfLife(k)' = NthOfLife(k)
  BY DEF NthOfLife
<1>9. ASSUME NEW i \in 1..(n + 1)
      PROVE  log'[i].scrape \in 1..s /\ Overridden(i)'
  <2>1. CASE i \in 1..n
    <3>1. log[i].scrape \in 1..s /\ Overridden(i) /\ log'[i] = log[i]
      BY <1>1, <1>4, <2>1 DEF OnceInv, LogOK
    <3> QED
      BY <1>8, <3>1 DEF Overridden, Index
  <2>2. CASE i = n + 1
    BY <1>3, <1>4, <1>5, <1>6, <1>8, <2>2 DEF Overridden, Index
  <2> QED
    BY <1>7, <2>1, <2>2
<1>10. LogOK'
  BY <1>1, <1>4, <1>9 DEF LogOK
<1>11. EndPublished => EndPublished'
  <2> SUFFICES ASSUME NEW i \in 1..n, log[i].token = "end", scrapes[log[i].scrape].life = life
               PROVE  EndPublished'
    BY <1>1 DEF EndPublished
  <2> QED
    BY <1>4 DEF EndPublished
<1>12. token = "end" => EndPublished'
  <2>1. n + 1 \in 1..(n + 1)
    OBVIOUS
  <2> QED
    BY <1>3, <1>4, <1>5, <2>1 DEF EndPublished
<1> QED
  BY <1>10, <1>11, <1>12

\* A step of the open scrape that may publish a message.
LEMMA WorkKeeps ==
    ASSUME OnceInv, pc[Once] \in {"start", "collect", "end"},
           NEW token,
           UNCHANGED log \/ Publish(Once, token),
           token # "end" =>
              \A k \in Index : token = Endpoints[k] =>
                 k \notin disabled /\ epochCount % setting[k] = 0,
           job'[Once].scrape = job[Once].scrape,
           UNCHANGED <<scrapes, life, epochCount, flags, stage>>
    PROVE  /\ FlagsInv' /\ RecordInv' /\ OpenScrape' /\ LogOK'
           /\ EndPublished => EndPublished'
           /\ token = "end" /\ Publish(Once, token) => EndPublished'
<1>1. UNCHANGED <<items, disabled, setting>>
  BY DEF flags
<1>2. FlagsInv' /\ RecordInv'
  BY <1>1 DEF OnceInv, FlagsInv, RecordInv, OfThisLife, Index
<1>3. OpenScrape'
  BY DEF OnceInv, OpenScrape
<1>4. CASE UNCHANGED log
  <2>1. LogOK' /\ (EndPublished' <=> EndPublished)
    <3>1. \A k \in Nat : NthOfLife(k)' = NthOfLife(k)
      BY DEF NthOfLife
    <3>2. EndPublished' <=> EndPublished
      BY <1>4 DEF EndPublished
    <3>3. \A i \in 1..Len(log) : Overridden(i)'
      <4> TAKE i \in 1..Len(log)
      <4>1. PICK s \in Nat : s = log[i].scrape
        BY OnceTypes DEF OnceInv, LogOK
      <4>2. Overridden(i) /\ log'[i] = log[i]
        BY <1>4 DEF OnceInv, LogOK
      <4> QED
        BY <1>1, <3>1, <4>1, <4>2 DEF Overridden, Index
    <3> QED
      BY <1>4, <3>2, <3>3 DEF OnceInv, LogOK
  <2>2. ~Publish(Once, token)
    <3>1. Len(log) \in Nat /\ Len(log') = Len(log)
      BY <1>4, OnceTypes DEF OnceInv
    <3>2. Publish(Once, token) => Len(log') = Len(log) + 1
      BY DEF Publish, OnceInv, TypeInv, TypeOK
    <3> QED
      BY <3>1, <3>2
  <2> QED
    BY <1>2, <1>3, <2>1, <2>2
<1>5. CASE Publish(Once, token)
  <2>1. \A k \in Index : token = Endpoints[k] => k \notin disabled /\ epochCount % setting[k] = 0
    BY DEF Index
  <2> QED
    BY <1>1, <1>2, <1>3, <1>5, <2>1, PublishKeeps
<1> QED
  BY <1>4, <1>5

-----------------------------------------------------------------------------
(* The command                                                              *)

LEMMA OnceInvInit == OnceInit => OnceInv
<1> SUFFICES ASSUME OnceInit PROVE OnceInv
  OBVIOUS
<1>1. TypeInv
  BY TypeInvInit DEF OnceInit
<1>2. /\ Len(log) = 0 /\ Len(scrapes) = 0 /\ epochCount = 0 /\ ~cancelled
      /\ pc[Once] = "boot" /\ stage = "flags" /\ ~completed
      /\ items = <<>> /\ setting = Default /\ disabled = {}
  BY FreshTypes DEF OnceInit, Init, Once
<1>3. FlagsInv
  <2>1. items \in Seq([name : STRING, value : Int])
    BY <1>2, EmptySeq
  <2> QED
    BY <1>2, <2>1 DEF FlagsInv, Default
<1>4. RecordInv
  <2>1. OfThisLife(Len(scrapes)) = {}
    BY <1>2 DEF OfThisLife
  <2>2. Cardinality(OfThisLife(Len(scrapes))) = 0
    BY <2>1, FS_EmptySet
  <2>3. \A s \in 1..Len(scrapes) : FALSE
    BY <1>2
  <2> QED
    BY <1>2, <2>2, <2>3 DEF RecordInv
<1>5. OpenScrape /\ LogOK /\ VerdictInv
  BY <1>2 DEF OpenScrape, LogOK, VerdictInv
<1> QED
  BY <1>1, <1>3, <1>4, <1>5 DEF OnceInv

\* As long as nothing has been begun, overrides may change.
LEMMA FlagsChange ==
    ASSUME OnceInv, UNCHANGED vars, UNCHANGED verdict,
           stage \in {"flags", "frequencies"},
           stage' \in {"frequencies", "rejected"},
           FlagsInv'
    PROVE  OnceInv'
<1>1. UNCHANGED <<log, scrapes, life, epochCount, pc, job, cancelled, completed, cause>>
  BY DEF vars, verdict
<1>2. TypeInv'
  BY TypeInvStep DEF OnceInv
<1>3. \A s \in 1..Len(scrapes) : scrapes[s].life # life
  BY DEF OnceInv, RecordInv
<1>4. RecordInv'
  BY <1>1, <1>3 DEF OnceInv, RecordInv, OfThisLife
<1>5. OpenScrape'
  BY <1>1 DEF OnceInv, OpenScrape
<1>6. LogOK'
  BY <1>1, <1>3 DEF OnceInv, LogOK, Overridden
<1>7. VerdictInv'
  BY <1>1 DEF OnceInv, VerdictInv, EndPublished
<1> QED
  BY <1>2, <1>4, <1>5, <1>6, <1>7 DEF OnceInv

LEMMA ReadDisabledKeeps == OnceInv /\ ReadDisabled => OnceInv'
<1> SUFFICES ASSUME OnceInv, ReadDisabled PROVE OnceInv'
  OBVIOUS
<1>1. PICK names \in DisabledFlags, list \in FrequencyFlags :
          \/ /\ disabled' = {i \in Index : Endpoints[i] \in names}
             /\ items' = list
          \/ UNCHANGED <<disabled, items>>
  BY DEF ReadDisabled
<1>2. UNCHANGED <<vars, setting, verdict>> /\ stage = "flags" /\ stage' \in {"frequencies", "rejected"}
  BY DEF ReadDisabled
<1>3. list \in Seq([name : STRING, value : Int])
  BY ScrapeOnceAssumption
<1>4. FlagsInv'
  BY <1>1, <1>2, <1>3 DEF OnceInv, FlagsInv, Index
<1> QED
  BY <1>2, <1>4, FlagsChange

LEMMA ReadFrequencyKeeps == OnceInv /\ ReadFrequency => OnceInv'
<1> SUFFICES ASSUME OnceInv, ReadFrequency PROVE OnceInv'
  OBVIOUS
<1>1. UNCHANGED <<vars, disabled, verdict>> /\ stage = "frequencies"
      /\ stage' \in {"frequencies", "rejected"}
  BY DEF ReadFrequency
<1>2. CASE UNCHANGED <<setting, items>>
  BY <1>1, <1>2, FlagsChange DEF OnceInv, FlagsInv, Index
<1>3. CASE ~UNCHANGED <<setting, items>>
  <2>1. PICK item : item = Head(items)
    OBVIOUS
  <2>2. /\ items # <<>> /\ item.value > 0 /\ items' = Tail(items)
        /\ setting' = [i \in Index |-> IF Endpoints[i] = item.name THEN item.value ELSE setting[i]]
    BY <1>3, <2>1 DEF ReadFrequency, Acceptable
  <2>3. items \in Seq([name : STRING, value : Int])
    BY DEF OnceInv, FlagsInv
  <2>4. item \in [name : STRING, value : Int] /\ items' \in Seq([name : STRING, value : Int])
    BY <2>1, <2>2, <2>3, HeadTailProperties
  <2>5. item.value \in Nat \ {0}
    BY <2>2, <2>4
  <2>6. setting' \in [Index -> Nat \ {0}]
    BY <2>2, <2>5 DEF OnceInv, FlagsInv
  <2>7. \A i, k \in Index : Endpoints[i] = Endpoints[k] =>
           setting'[i] = setting'[k] /\ (i \in disabled <=> k \in disabled)
    BY <2>2 DEF OnceInv, FlagsInv
  <2>8. FlagsInv'
    BY <1>1, <2>4, <2>6, <2>7 DEF FlagsInv, Index
  <2> QED
    BY <1>1, <2>8, FlagsChange
<1> QED
  BY <1>2, <1>3

\* While the command runs, its reasons to end only add up.
LEMMA VerdictKeeps ==
    ASSUME OnceInv, EndPublished => EndPublished',
           UNCHANGED <<stage, completed, cause, cancelled>>,
           pc'[Once] = "returned" => pc[Once] = "returned" \/ cancelled
    PROVE  VerdictInv'
BY DEF OnceInv, VerdictInv

LEMMA OnceStepKeeps == OnceInv /\ OnceStep => OnceInv'
<1> SUFFICES ASSUME OnceInv, OnceStep PROVE OnceInv'
  OBVIOUS
<1>1. stage = "running" /\ UNCHANGED <<stage, flags, completed, cause>>
  BY DEF OnceStep, Running, command, verdict
<1>2. TypeInv'
  <2>1. [Next]_vars
    BY DEF OnceStep, Next, StartLoop, DoScrape, Once
  <2> QED
    BY <2>1, TypeInvStep DEF OnceInv
<1>3. CASE Begin(Once)
  <2>1. UNCHANGED cancelled /\ pc'[Once] = "discover" /\ UNCHANGED command
    BY <1>3 DEF OnceStep, Begin, Goto, OnceInv, TypeInv, TypeOK, PCOK, Once
  <2>2. FlagsInv' /\ RecordInv' /\ OpenScrape' /\ LogOK' /\ (EndPublished' <=> EndPublished)
    BY <1>1, <1>3, <2>1, BeginKeeps
  <2> QED
    BY <1>1, <1>2, <2>1, <2>2, VerdictKeeps DEF OnceInv
<1>4. CASE PublishStart(Once)
  <2>1. /\ pc[Once] = "start" /\ pc'[Once] = "collect"
        /\ UNCHANGED log \/ Publish(Once, "start")
        /\ UNCHANGED <<scrapes, life, epochCount, job, cancelled>>
    BY <1>4 DEF PublishStart, PublishMarker, Goto, OnceInv, TypeInv, TypeOK, PCOK, Once
  <2>2. \A k \in Index : Endpoints[k] # "start"
    BY DEF Index
  <2>3. /\ FlagsInv' /\ RecordInv' /\ OpenScrape' /\ LogOK'
        /\ EndPublished => EndPublished'
    BY <1>1, <2>1, <2>2, WorkKeeps
  <2> QED
    BY <1>1, <1>2, <2>1, <2>3, VerdictKeeps DEF OnceInv
<1>5. CASE ~Begin(Once) /\ ~PublishStart(Once)
  <2>1. QuietStep /\ UNCHANGED cancelled
    BY <1>5 DEF OnceStep, QuietStep, Resuming, ArmFirst, TimerFires, StartReturns, Reschedule,
                PruneOpen, Lock, CheckPaused, CheckBusy, Discover, Leave
  <2>2. Quiet
    BY <2>1, QuietIsQuiet DEF OnceInv
  <2>3. FlagsInv' /\ RecordInv' /\ OpenScrape' /\ LogOK' /\ (EndPublished' <=> EndPublished)
    BY <1>1, <1>2, <2>2, QuietKeeps
  <2> QED
    BY <1>1, <1>2, <2>1, <2>2, <2>3, VerdictKeeps DEF OnceInv, Quiet
<1> QED
  BY <1>3, <1>4, <1>5

\* Start is called.
LEMMA OnceBootKeeps == OnceInv /\ OnceBoot => OnceInv'
<1> SUFFICES ASSUME OnceInv, OnceBoot PROVE OnceInv'
  OBVIOUS
<1>1. /\ Boot /\ stage = "frequencies" /\ stage' = "running"
      /\ UNCHANGED <<flags, completed, cause>>
  BY DEF OnceBoot, verdict
<1>2. TypeInv'
  BY <1>1, TypeInvStep DEF OnceInv, Next, StartLoop
<1>3. Quiet
  BY <1>1, QuietIsQuiet DEF OnceInv, QuietStep
<1>4. FlagsInv' /\ RecordInv' /\ OpenScrape' /\ LogOK' /\ (EndPublished' <=> EndPublished)
  BY <1>1, <1>2, <1>3, QuietKeeps
<1>5. pc'[Once] # "returned" /\ UNCHANGED cancelled
  BY <1>1, ScrapeOnceAssumption DEF Boot, Goto, OnceInv, TypeInv, TypeOK, PCOK, Once
<1>6. VerdictInv'
  BY <1>1, <1>4, <1>5 DEF OnceInv, VerdictInv
<1> QED
  BY <1>2, <1>4, <1>6 DEF OnceInv

\* A batch is published only if the overrides let it.
LEMMA OnceCollectKeeps == OnceInv /\ OnceCollect => OnceInv'
<1> SUFFICES ASSUME OnceInv, OnceCollect PROVE OnceInv'
  OBVIOUS
<1> DEFINE next == job[Once].next
<1>1. CollectIf(Once, DueHere(next)) /\ stage = "running"
      /\ UNCHANGED <<stage, flags, completed, cause>>
  BY DEF OnceCollect, Running, command, verdict
<1>2. TypeInv'
  BY <1>1, OnceTypes, CollectTypes DEF OnceInv
<1>3. pc[Once] = "collect" /\ pc'[Once] \in {"collect", "end"}
      /\ UNCHANGED <<scrapes, life, epochCount, cancelled>>
      /\ job'[Once].scrape = job[Once].scrape
  BY <1>1 DEF CollectIf, Goto, OnceInv, TypeInv, TypeOK, PCOK, Once, JobType
<1>4. next = 0 \/ next \in Index
  <2>1. next \in Nat /\ next <= Len(Endpoints)
    BY <1>3 DEF OnceInv, TypeInv, TypeOK, JobsInv, JobType, Once
  <2> QED
    BY <2>1, OnceTypes DEF OnceInv, Index
<1>5. CASE UNCHANGED log
  <2>1. /\ FlagsInv' /\ RecordInv' /\ OpenScrape' /\ LogOK'
        /\ EndPublished => EndPublished'
    BY <1>1, <1>3, <1>5, WorkKeeps
  <2> QED
    BY <1>1, <1>2, <1>3, <2>1, VerdictKeeps DEF OnceInv
<1>6. CASE DueHere(next) /\ Publish(Once, Token(next))
  <2>1. \A k \in Index : Token(next) = Endpoints[k] =>
           k \notin disabled /\ epochCount % setting[k] = 0
    <3> SUFFICES ASSUME NEW k \in Index, Token(next) = Endpoints[k]
                 PROVE  k \notin disabled /\ epochCount % setting[k] = 0
      OBVIOUS
    <3>1. next # 0
      BY ScrapeOnceAssumption DEF Token, Index
    <3>2. next \in Index /\ next > 0 /\ Endpoints[next] = Endpoints[k]
      BY <1>4, <3>1 DEF Token, Index
    <3>3. next \notin disabled /\ epochCount % setting[next] = 0
      BY <1>6, <3>2 DEF DueHere
    <3> QED
      BY <3>2, <3>3 DEF OnceInv, FlagsInv
  <2>2. /\ FlagsInv' /\ RecordInv' /\ OpenScrape' /\ LogOK'
        /\ EndPublished => EndPublished'
    BY <1>1, <1>3, <1>6, <2>1, WorkKeeps
  <2> QED
    BY <1>1, <1>2, <1>3, <2>2, VerdictKeeps DEF OnceInv
<1> QED
  BY <1>1, <1>5, <1>6 DEF CollectIf

\* The flag `completed' follows the end marker.
LEMMA OnceEndKeeps == OnceInv /\ OnceEnd => OnceInv'
<1> SUFFICES ASSUME OnceInv, OnceEnd PROVE OnceInv'
  OBVIOUS
<1>1. /\ stage = "running" /\ EndScrape(Once) /\ UNCHANGED <<stage, flags>>
      /\ UNCHANGED <<clock, service, inbox, life, triggers>>
      /\ \/ Publish(Once, "end") /\ completed' /\ cancelled'
         \/ /\ UNCHANGED log \/ Publish(Once, "end")
            /\ UNCHANGED <<completed, cancelled, cause>>
  BY DEF OnceEnd, Running
<1>2. pc[Once] = "end" /\ pc'[Once] = "leave" /\ UNCHANGED <<scrapes, epochCount>>
      /\ job'[Once].scrape = job[Once].scrape
  BY <1>1 DEF EndScrape, Goto, OnceInv, TypeInv, TypeOK, PCOK, Once, JobType
<1>3. TypeInv'
  <2>1. cancelled' \in BOOLEAN
    BY DEF OnceEnd, OnceInv, TypeInv, TypeOK
  <2> QED
    BY <1>1, <2>1, OnceTypes, EndTypes DEF OnceInv
<1>4. UNCHANGED log \/ Publish(Once, "end")
  BY <1>1
<1>5. /\ FlagsInv' /\ RecordInv' /\ OpenScrape' /\ LogOK'
      /\ EndPublished => EndPublished'
      /\ Publish(Once, "end") => EndPublished'
  BY <1>1, <1>2, <1>4, WorkKeeps
<1>6. VerdictInv'
  BY <1>1, <1>2, <1>5 DEF OnceInv, VerdictInv
<1> QED
  BY <1>3, <1>5, <1>6 DEF OnceInv

LEMMA ExpireKeeps == OnceInv /\ Expire => OnceInv'
<1> SUFFICES ASSUME OnceInv, Expire PROVE OnceInv'
  OBVIOUS
<1>1. /\ Cancel /\ stage = "running" /\ cause' = "deadline"
      /\ UNCHANGED <<stage, flags, completed>>
  BY DEF Expire, Running
<1>2. TypeInv' /\ Quiet
  BY <1>1, TypeInvStep, QuietIsQuiet DEF OnceInv, Next, World, QuietStep
<1>3. FlagsInv' /\ RecordInv' /\ OpenScrape' /\ LogOK' /\ (EndPublished' <=> EndPublished)
  BY <1>1, <1>2, QuietKeeps
<1>4. cancelled'
  BY <1>1 DEF Cancel
<1>5. VerdictInv'
  BY <1>1, <1>3, <1>4 DEF OnceInv, VerdictInv
<1> QED
  BY <1>2, <1>3, <1>5 DEF OnceInv

LEMMA ExitKeeps == OnceInv /\ Exit => OnceInv'
<1> SUFFICES ASSUME OnceInv, Exit PROVE OnceInv'
  OBVIOUS
<1>1. /\ stage = "running" /\ pc[Once] = "returned"
      /\ UNCHANGED <<vars, flags, completed, cause>>
      /\ stage' = CASE completed -> "ok"
                    [] ~completed /\ cause = "deadline" -> "timedOut"
                    [] ~completed /\ cause # "deadline" -> "unexplained"
  BY DEF Exit, Running, verdict
<1>2. TypeInv' /\ Quiet
  BY <1>1, TypeInvStep, QuietIsQuiet DEF OnceInv, QuietStep
<1>3. cancelled /\ (completed \/ cause = "deadline") /\ UNCHANGED cancelled
  BY <1>1 DEF OnceInv, VerdictInv, vars
<1>4. stage' \in {"ok", "timedOut"} /\ (stage' = "ok" => completed)
  BY <1>1, <1>3
<1>5. FlagsInv' /\ RecordInv' /\ OpenScrape' /\ LogOK' /\ (EndPublished' <=> EndPublished)
  BY <1>1, <1>2, <1>4, QuietKeeps
<1>6. VerdictInv'
  BY <1>1, <1>3, <1>4, <1>5 DEF OnceInv, VerdictInv
<1> QED
  BY <1>2, <1>5, <1>6 DEF OnceInv

LEMMA OnceTickKeeps == OnceInv /\ OnceTick => OnceInv'
<1> SUFFICES ASSUME OnceInv, OnceTick PROVE OnceInv'
  OBVIOUS
<1>1. Tick /\ UNCHANGED <<stage, flags, completed, cause>>
  BY DEF OnceTick, command, verdict
<1>2. TypeInv' /\ Quiet /\ UNCHANGED <<cancelled, pc>>
  BY <1>1, TypeInvStep, QuietIsQuiet DEF OnceInv, Next, World, QuietStep, Tick
<1>3. FlagsInv' /\ RecordInv' /\ OpenScrape' /\ LogOK' /\ (EndPublished' <=> EndPublished)
  BY <1>1, <1>2, QuietKeeps
<1>4. VerdictInv'
  BY <1>1, <1>2, <1>3, VerdictKeeps
<1> QED
  BY <1>2, <1>3, <1>4 DEF OnceInv

\* A new run of the command finds the stream, and nothing else, of older ones.
LEMMA RunAgainKeeps == OnceInv /\ RunAgain => OnceInv'
<1> SUFFICES ASSUME OnceInv, RunAgain PROVE OnceInv'
  OBVIOUS
<1>1. /\ Crash /\ stage' = "flags" /\ ~completed'
      /\ items' = <<>> /\ disabled' = {} /\ setting' = Default
  BY DEF RunAgain
<1>2. TypeInv'
  BY <1>1, TypeInvStep DEF OnceInv, Next, World
<1>3. /\ life' = life + 1 /\ epochCount' = 0 /\ ~cancelled' /\ UNCHANGED <<log, scrapes>>
      /\ pc'[Once] = "boot"
  BY <1>1, FreshTypes DEF Crash, Once
<1>4. \A s \in 1..Len(scrapes) : scrapes[s].life <= life' /\ scrapes[s].life # life'
  <2>1. \A s \in 1..Len(scrapes) : scrapes[s].life <= life /\ scrapes[s].life \in Nat /\ life \in Nat
    BY OnceTypes DEF OnceInv, RecordInv
  <2> QED
    BY <1>3, <2>1
<1>5. FlagsInv'
  <2>1. items' \in Seq([name : STRING, value : Int])
    BY <1>1, EmptySeq
  <2> QED
    BY <1>1, <2>1 DEF FlagsInv, Default, Index
<1>6. RecordInv'
  <2>1. OfThisLife(Len(scrapes))' = {}
    BY <1>3, <1>4 DEF OfThisLife
  <2>2. Cardinality(OfThisLife(Len(scrapes))') = 0
    BY <2>1, FS_EmptySet
  <2> QED
    BY <1>3, <1>4, <2>2 DEF RecordInv
<1>7. OpenScrape'
  BY <1>3 DEF OpenScrape
<1>8. LogOK'
  BY <1>3, <1>4 DEF OnceInv, LogOK, Overridden
<1>9. VerdictInv'
  BY <1>1, <1>3 DEF VerdictInv
<1> QED
  BY <1>2, <1>5, <1>6, <1>7, <1>8, <1>9 DEF OnceInv

LEMMA OnceInvStep == OnceInv /\ [OnceNext]_onceVars => OnceInv'
<1>1. OnceInv /\ UNCHANGED onceVars => OnceInv'
  <2> SUFFICES ASSUME OnceInv, UNCHANGED onceVars PROVE OnceInv'
    OBVIOUS
  <2>1. UNCHANGED vars /\ UNCHANGED <<stage, flags, completed, cause>>
    BY DEF onceVars, command, verdict
  <2>2. TypeInv' /\ Quiet /\ UNCHANGED <<cancelled, pc>>
    BY <2>1, TypeInvStep, QuietIsQuiet DEF OnceInv, QuietStep, vars
  <2>3. FlagsInv' /\ RecordInv' /\ OpenScrape' /\ LogOK' /\ (EndPublished' <=> EndPublished)
    BY <2>1, <2>2, QuietKeeps
  <2>4. VerdictInv'
    BY <2>1, <2>2, <2>3, VerdictKeeps
  <2> QED
    BY <2>2, <2>3, <2>4 DEF OnceInv
<1> QED
  BY <1>1, ReadDisabledKeeps, ReadFrequencyKeeps, OnceBootKeeps, OnceStepKeeps,
     OnceCollectKeeps, OnceEndKeeps, ExpireKeeps, ExitKeeps, OnceTickKeeps, RunAgainKeeps
     DEF OnceNext, OnceProgress

LEMMA OnceInvariant == OnceSpec => []OnceInv
BY OnceInvInit, OnceInvStep, PTL DEF OnceSpec

\* Success means that an end marker of this run is in the stream, and there is
\* no failure but for the run time (scrape-once/main.go:116-123, 134-141).
THEOREM ExitIsTruthful == OnceSpec => []ExitTellsTheTruth
<1>1. OnceInv => ExitTellsTheTruth
  BY DEF OnceInv, VerdictInv, EndPublished, ExitTellsTheTruth
<1> QED
  BY <1>1, OnceInvariant, PTL

\* Nothing is scraped with bad overrides, and nothing is published against
\* good ones (scrape-once/main.go:167-191, runner.go:174, 223-280).
THEOREM OverridesHold == OnceSpec => []OverridesHonoured
<1>1. OnceInv => OverridesHonoured
  BY DEF OnceInv, RecordInv, FlagsInv, LogOK, Overridden, OverridesHonoured
<1> QED
  BY <1>1, OnceInvariant, PTL
=============================================================================
