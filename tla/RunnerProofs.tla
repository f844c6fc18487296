---------------------------- MODULE RunnerProofs ----------------------------
(***************************************************************************)
(* What holds of the runner for every interval, endpoint list, number of   *)
(* epochs, and choice of what may fail: its types; that one scrape runs at *)
(* a time and no pause is overlooked; that scrapes are in the stream one   *)
(* after the other, each between its markers, under epochs that never      *)
(* decrease; that it implements ScrapeContract; and that its service's     *)
(* subjects stay out of the stream.                                        *)
(***************************************************************************)
EXTENDS RunnerContract, Service, WellFoundedInduction, FiniteSetTheorems, SequenceTheorems, TLAPS

-----------------------------------------------------------------------------
(* The readers of the stream: LastEpoch is the epoch of a message, and      *)
(* Prune's scan keeps its shape.                                            *)

\* A non-empty set of numbers has a least one.
LEMMA LeastExists ==
    ASSUME NEW T \in SUBSET Nat, T # {}
    PROVE  \E x \in T : IsLeast(x, T)
<1> DEFINE Less == {p \in Nat \X Nat : p[1] < p[2]}
<1>1. IsWellFoundedOn(Less, Nat)
  BY NatLessThanWellFounded, Zenon DEF OpToRel
<1>2. PICK x \in T : \A y \in T : ~(<<y, x>> \in Less)
  <2> HIDE DEF Less
  <2> QED BY <1>1, WFMin
<1>3. ASSUME NEW y \in T
      PROVE  x <= y
  <2>1. x \in Nat /\ y \in Nat
    BY <1>2
  <2>2. ~(<<y, x>> \in Less)
    BY <1>2
  <2> QED
    BY <2>1, <2>2
<1> QED
  BY <1>2, <1>3 DEF IsLeast

\* A non-empty set of numbers up to n has a last one.
LEMMA LastExists ==
    ASSUME NEW n \in Nat, NEW S \in SUBSET (0..n), S # {}
    PROVE  \E i \in S : IsLast(i, S)
<1> DEFINE T == {n - i : i \in S}
<1>1. T \subseteq Nat /\ T # {}
  <2>1. \A i \in S : i \in 0..n /\ n - i \in Nat
    OBVIOUS
  <2>2. PICK i \in S : TRUE
    OBVIOUS
  <2>3. n - i \in T
    OBVIOUS
  <2> QED
    BY <2>1, <2>3, Zenon
<1>2. PICK x \in T : \A y \in T : x <= y
  <2> HIDE DEF T
  <2> QED BY <1>1, LeastExists DEF IsLeast
<1>3. PICK i \in S : x = n - i
  OBVIOUS
<1>4. \A j \in S : j <= i
  BY <1>2, <1>3
<1> QED
  BY <1>4 DEF IsLast

\* LastEpoch is the epoch of an end marker, or 0: never a made-up number.
LEMMA LastEpochType ==
    ASSUME NEW Kinds, NEW stored \in Seq(Messages(Kinds)), NEW from \in Nat \ {0}
    PROVE  LastEpoch(stored, from) \in Nat
<1> DEFINE ends == EndMarkers(stored, from)
<1>1. CASE ends = {}
  BY <1>1 DEF LastEpoch
<1>2. CASE ends # {}
  <2>1. ends \in SUBSET (0..Len(stored)) /\ Len(stored) \in Nat
    BY DEF EndMarkers
  <2>2. \E i \in ends : IsLast(i, ends)
    <3> HIDE DEF ends
    <3> QED BY <1>2, <2>1, LastExists
  <2> DEFINE last == CHOOSE i \in ends : IsLast(i, ends)
  <2>3. last \in ends
    BY <2>2
  <2>4. last \in from..Len(stored)
    BY <2>3 DEF EndMarkers
  <2>5. last \in 1..Len(stored)
    BY <2>4
  <2>6. LastEpoch(stored, from) = stored[last].epoch
    BY <1>2 DEF LastEpoch
  <2>7. stored[last] \in Messages(Kinds)
    <3> HIDE DEF last
    <3> QED BY <2>5, ElementOfSeq
  <2> QED
    BY <2>6, <2>7 DEF Messages
<1> QED
  BY <1>1, <1>2

\* A scan that has pushed an epoch out remembers a marker to purge up to.
ScanOK(s) == s \in ScanType /\ (s.pruned > 0 => Len(s.ends) > 0)

\* The scan keeps that shape from marker to marker, so that endSequences[0]
\* is there when Prune purges.
LEMMA ScanKeepsShape ==
    ASSUME NEW s, ScanOK(s), NEW i \in Nat, NEW epoch \in Int,
           NEW maxEpochs \in Nat \ {0}
    PROVE  ScanOK(ScanMarker(s, i, epoch, maxEpochs))
<1> DEFINE full == Len(s.ends) = maxEpochs
           kept == IF full THEN Tail(s.ends) ELSE s.ends
           next == [ends |-> Append(kept, i), previous |-> epoch,
                    pruned |-> s.pruned + (IF full THEN 1 ELSE 0), at |-> i]
<1>1. CASE epoch = s.previous
  BY <1>1 DEF ScanMarker, ScanOK, ScanType
<1>2. CASE epoch # s.previous
  <2>1. ScanMarker(s, i, epoch, maxEpochs) = next
    BY <1>2 DEF ScanMarker
  <2>2. kept \in Seq(Nat)
    BY HeadTailProperties DEF ScanOK, ScanType
  <2>3. Append(kept, i) \in Seq(Nat) /\ Len(Append(kept, i)) > 0
    <3> HIDE DEF kept
    <3> QED BY <2>2, AppendProperties
  <2>4. s.pruned + (IF full THEN 1 ELSE 0) \in Nat
    BY DEF ScanOK, ScanType
  <2>5. next \in ScanType /\ Len(next.ends) > 0
    <3> HIDE DEF kept, full
    <3> QED BY <2>3, <2>4 DEF ScanType
  <2> QED
    BY <2>1, <2>5 DEF ScanOK
<1> QED
  BY <1>1, <1>2

-----------------------------------------------------------------------------
(* The subjects of the service.                                             *)

\* The guard compares the trigger subject only, and yet it keeps the controls
\* out of the stream as well, for every prefix and trigger subject but one
\* pair: a trigger subject of one token that equals the prefix is accepted,
\* and its controls are stored (runner.go:93, 111-114).
THEOREM ControlsOutsideStream ==
    ASSUME NEW Names, NEW prefix \in Seq(Names), NEW trigger \in Seq(Names),
           NEW name \in Names,
           prefix # <<>>, trigger # <<>>, Accepted(prefix, trigger)
    PROVE  Below(prefix, Control(trigger, name)) <=> trigger = prefix /\ Len(trigger) = 1
<1>1. /\ Len(prefix) \in Nat /\ Len(prefix) >= 1
      /\ Len(trigger) \in Nat /\ Len(trigger) >= 1
  OBVIOUS
\* The provers do arithmetic on numbers more readily than on lengths.
<1>2. PICK n \in Nat, k \in Nat : n = Len(trigger) /\ k = Len(prefix)
  BY <1>1
<1>3. CASE Len(trigger) <= 1
  <2>1. n = 1
    BY <1>1, <1>2, <1>3
  <2>2. Control(trigger, name) = Append(trigger, name)
    BY <1>2, <2>1 DEF Control, Base
  <2>3. /\ Len(Append(trigger, name)) = Len(trigger) + 1
        /\ \A i \in 1..Len(trigger) : Append(trigger, name)[i] = trigger[i]
    OBVIOUS
  <2>4. Len(Control(trigger, name)) = 2 /\ Control(trigger, name)[1] = trigger[1]
    BY <1>2, <2>1, <2>2, <2>3
  <2>5. ASSUME Below(prefix, Control(trigger, name)) PROVE trigger = prefix
    <3>1. Len(prefix) <= 1 /\ \A i \in 1..Len(prefix) : trigger[i] = prefix[i]
      BY <1>1, <2>4, <2>5 DEF Below
    <3>2. k = 1
      BY <1>1, <1>2, <3>1
    <3>3. Len(prefix) = Len(trigger)
      BY <1>2, <2>1, <3>2
    <3> QED
      BY <3>1, <3>3
  <2>6. ASSUME trigger = prefix PROVE Below(prefix, Control(trigger, name))
    <3>1. k = n
      BY <1>2, <2>6
    <3>2. k = 1 /\ 1..k = {1}
      BY <2>1, <3>1
    <3>3. Len(Control(trigger, name)) > Len(prefix)
      BY <1>2, <2>4, <3>2
    <3> QED
      BY <1>2, <2>4, <2>6, <3>2, <3>3 DEF Below
  <2> QED
    BY <1>2, <2>1, <2>5, <2>6
\* A control below the prefix shares it with the trigger, which is as long.
<1>4. CASE Len(trigger) >= 2
  <2>1. Control(trigger, name) = Append(SubSeq(trigger, 1, Len(trigger) - 1), name)
    BY <1>1, <1>4 DEF Control, Base
  <2>2. /\ Len(Control(trigger, name)) = Len(trigger)
        /\ \A i \in 1..(Len(trigger) - 1) : Control(trigger, name)[i] = trigger[i]
    BY <1>1, <1>4, <2>1
  <2>3. ASSUME Below(prefix, Control(trigger, name)) PROVE FALSE
    <3>1. /\ Len(trigger) > Len(prefix)
          /\ \A i \in 1..Len(prefix) : Control(trigger, name)[i] = prefix[i]
      BY <2>2, <2>3 DEF Below
    <3>2. \A i \in 1..Len(prefix) : trigger[i] = prefix[i]
      BY <1>1, <2>2, <3>1
    <3> QED
      BY <3>1, <3>2 DEF Accepted, Below
  <2>4. n # 1
    BY <1>2, <1>4
  <2> QED
    BY <1>2, <2>3, <2>4
<1>5. Len(trigger) <= 1 \/ Len(trigger) >= 2
  BY <1>1
<1> QED
  BY <1>3, <1>4, <1>5

-----------------------------------------------------------------------------
(* Types. TypeOK is not inductive: the sums and differences of the timer    *)
(* need a start that is not in the future, the visited endpoint must exist, *)
(* and a purge needs a marker to purge up to.                               *)

JobsInv ==
    \A g \in Scrapers :
        /\ job[g].at <= clock
        /\ pc[g] \in {"discover", "start", "collect"} => job[g].next <= Len(Endpoints)

PruneInv ==
    /\ ScanOK(scan)
    /\ pc["interval"] \in {"next", "purge"} => MaxEpochs > 0
    /\ pc["interval"] = "purge" => scan.pruned > 0

TypeInv == TypeOK /\ JobsInv /\ PruneInv

USE RunnerAssumption DEF Scrapers, admission, timer, pruning, stream, host, ghosts

LEMMA FreshTypes ==
    /\ NoJob \in JobType
    /\ FreshJobs \in [Scrapers -> JobType] /\ \A g \in Scrapers : FreshJobs[g] = NoJob
    /\ FreshPC \in [Scrapers -> {"boot", "idle"}]
    /\ FreshPC["interval"] = "boot" /\ FreshPC["ondemand"] = "idle"
    /\ Unpaused \in [Scrapers -> BOOLEAN]
    /\ ScanOK(EmptyScan)
<1>1. NoJob \in JobType
  BY DEF NoJob, JobType
<1>2. ScanOK(EmptyScan)
  BY EmptySeq DEF EmptyScan, NoEpoch, ScanOK, ScanType
<1> QED
  BY <1>1, <1>2 DEF FreshJobs, FreshPC, Unpaused

\* The delays Start computes are never negative.
LEMMA DelayTypes ==
    /\ \A epoch \in Nat : clock \in Nat => ResumeDelay(epoch) \in Nat
    /\ \A j \in JobType : NextDelay(j) \in Nat
<1>1. ASSUME NEW epoch \in Nat, clock \in Nat PROVE ResumeDelay(epoch) \in Nat
  <2> DEFINE start == (epoch - 1) * TicksPerSecond
  <2>1. start \in Int
    OBVIOUS
  <2>2. clock - start < Interval => Interval - (clock - start) \in Nat
    <3> HIDE DEF start
    <3> QED BY <1>1, <2>1
  <2> QED
    BY <2>2 DEF ResumeDelay
<1>2. ASSUME NEW j \in JobType PROVE NextDelay(j) \in Nat
  BY DEF JobType, NextDelay
<1> QED
  BY <1>1, <1>2

LEMMA TypeInvInit == Init => TypeInv
<1> SUFFICES ASSUME Init PROVE TypeInv
  OBVIOUS
<1>1. NoJob.at = 0 /\ NoJob.next = 0
  BY DEF NoJob
<1>2. PCOK
  BY FreshTypes DEF Init, PCOK, IntervalPC, OnDemandPC, LockedPC, SectionPC
<1>3. log \in Seq(Messages(Tokens)) /\ scrapes \in Seq([by : Scrapers, at : Nat, life : Nat])
  BY EmptySeq DEF Init
<1>4. TypeOK
  <2>1. job \in [Scrapers -> JobType] /\ mustSkip \in [Scrapers -> BOOLEAN] /\ scan \in ScanType
    BY FreshTypes DEF Init, ScanOK
  <2>2. paused \in BOOLEAN /\ scraping \in BOOLEAN /\ service \in BOOLEAN /\ cancelled \in BOOLEAN
    BY DEF Init
  <2>3. delay \in Nat /\ deadline \in Nat /\ first \in Nat \ {0} /\ clock \in Nat /\ inbox \in Nat
    BY DEF Init
  <2>4. life \in Nat /\ triggers \in Nat /\ epochCount \in Nat /\ after \in {"arm", "call"}
    BY DEF Init
  <2>5. mu \in Scrapers \cup {Nobody}
    BY DEF Init
  <2> QED
    BY <1>2, <1>3, <2>1, <2>2, <2>3, <2>4, <2>5 DEF TypeOK
<1>5. JobsInv
  BY FreshTypes, <1>1 DEF Init, JobsInv
<1>6. PruneInv
  BY FreshTypes DEF Init, PruneInv
<1> QED
  BY <1>4, <1>5, <1>6 DEF TypeInv

\* A goroutine that goes to a label of its own, or of doScrape, stays in place.
LEMMA GotoOK ==
    ASSUME PCOK, NEW g \in Scrapers, NEW label, Goto(g, label),
           \/ label \in {"call"} \cup LockedPC \cup SectionPC
           \/ label = Caller(g)
           \/ g = "interval" /\ label \in IntervalPC
           \/ g = "ondemand" /\ label \in OnDemandPC
    PROVE  PCOK'
<1>1. PCOK /\ pc' = [pc EXCEPT ![g] = label]
  BY DEF Goto
<1>2. /\ label \in IntervalPC \cup OnDemandPC \cup {"call"} \cup LockedPC \cup SectionPC
      /\ g = "interval" => label \notin OnDemandPC
      /\ g = "ondemand" => label \notin IntervalPC
  BY DEF Caller, IntervalPC, OnDemandPC, LockedPC, SectionPC
<1> QED
  BY <1>1, <1>2 DEF PCOK

\* A job whose result is set is the same job.
LEMMA FailedJob ==
    ASSUME NEW j \in JobType
    PROVE  LET new == [j EXCEPT !.result = "error"]
           IN  /\ new \in JobType /\ new.result = "error"
               /\ new.scrape = j.scrape /\ new.epoch = j.epoch
               /\ new.at = j.at /\ new.next = j.next
BY DEF JobType

LEMMA EndedJob ==
    ASSUME NEW j \in JobType, NEW d \in Nat
    PROVE  LET new == [j EXCEPT !.result = "ok", !.duration = d]
           IN  new \in JobType /\ new.at = j.at /\ new.next = j.next
BY DEF JobType

LEMMA DiscoverJob ==
    ASSUME job \in [Scrapers -> JobType], NEW g \in Scrapers, Discover(g)
    PROVE  /\ job' \in [Scrapers -> JobType]
           /\ \A h \in Scrapers : h # g => job'[h] = job[h]
           /\ job'[g].scrape = job[g].scrape /\ job'[g].epoch = job[g].epoch
           /\ job'[g].at = job[g].at /\ job'[g].next = job[g].next
           /\ job' = job \/ job'[g].result = "error"
<1>1. PICK new \in JobType :
         /\ new = [job[g] EXCEPT !.result = "error"] /\ new.result = "error"
         /\ new.scrape = job[g].scrape /\ new.epoch = job[g].epoch
         /\ new.at = job[g].at /\ new.next = job[g].next
  BY FailedJob
<1>2. job' = job \/ job' = [job EXCEPT ![g] = new]
  BY <1>1 DEF Discover
<1> QED
  BY <1>1, <1>2

\* Whether a collector is due does not matter.
LEMMA CollectTypes ==
    ASSUME TypeInv, NEW g \in Scrapers, NEW due, CollectIf(g, due)
    PROVE  TypeInv'
<1> USE DEF TypeInv
<1>0. PCOK /\ after \in {"arm", "call"}
  BY DEF TypeOK
<1>5. Token(job[g].next) \in Tokens
  <2>1. job[g] \in JobType /\ job[g].next <= Len(Endpoints)
    BY DEF CollectIf, JobsInv, TypeOK
  <2>2. job[g].next = 0 \/ job[g].next \in 1..Len(Endpoints)
    BY <2>1 DEF JobType
  <2> QED
    BY <2>2 DEF Token, Tokens
<1>6. log' \in Seq(Messages(Tokens))
  <2> DEFINE message == Message(Token(job[g].next), job[g].epoch, job[g].scrape)
  <2>1. message \in Messages(Tokens)
    BY <1>5 DEF Message, Messages, TypeOK, JobType
  <2>2. log' = log \/ log' = Append(log, message)
    BY DEF CollectIf, Publish
  <2> HIDE DEF message
  <2>3. Append(log, message) \in Seq(Messages(Tokens))
    <3> DEFINE S == Messages(Tokens)
    <3>1. log \in Seq(S) /\ message \in S
      BY <2>1 DEF TypeOK
    <3> HIDE DEF S
    <3>2. Append(log, message) \in Seq(S)
      BY <3>1, AppendProperties
    <3> QED
      BY <3>2 DEF S
  <2> QED
    BY <2>2, <2>3 DEF TypeOK
<1> DEFINE new == [job[g] EXCEPT !.next = job[g].next + 1]
<1>7. new \in JobType /\ new.at = job[g].at /\ new.next = job[g].next + 1
  <2>1. job[g] \in JobType
    BY DEF TypeOK
  <2> DEFINE next == job[g].next + 1
  <2>2. next \in Nat
    BY <2>1 DEF JobType
  <2>3. [job[g] EXCEPT !.next = next] \in JobType
    <3> HIDE DEF next
    <3> QED BY <2>1, <2>2 DEF JobType
  <2> QED
    BY <2>1, <2>3 DEF JobType
<1>8. job' = [job EXCEPT ![g] = new]
  BY DEF CollectIf
<1> HIDE DEF new
<1>9. /\ job' \in [Scrapers -> JobType]
      /\ \A h \in Scrapers : job'[h].at = job[h].at
      /\ \A h \in Scrapers \ {g} : job'[h].next = job[h].next
      /\ job'[g].next = job[g].next + 1
  BY <1>7, <1>8 DEF TypeOK
<1>1. PCOK'
  BY <1>0, GotoOK DEF CollectIf, IntervalPC, OnDemandPC, LockedPC, SectionPC
<1>2. TypeOK'
  BY <1>1, <1>6, <1>9 DEF CollectIf, TypeOK
<1>3. JobsInv'
  <2>1. pc'[g] = "collect" => job'[g].next <= Len(Endpoints)
    <3>1. job[g].next \in Nat /\ Len(Endpoints) \in Nat /\ job[g].next <= Len(Endpoints)
      <4>1. job[g] \in JobType /\ Len(Endpoints) \in Nat
        BY LenProperties DEF TypeOK
      <4>2. job[g].next \in Nat
        BY <4>1 DEF JobType
      <4>3. pc[g] = "collect"
        BY DEF CollectIf
      <4> QED
        BY <4>1, <4>2, <4>3 DEF JobsInv
    <3>2. pc'[g] = "collect" => job[g].next # Len(Endpoints)
      BY DEF CollectIf, TypeOK, PCOK, Goto
    <3> QED
      BY <1>9, <3>1, <3>2
  <2>2. pc'[g] \in {"collect", "end"} /\ clock' = clock
    BY DEF CollectIf, TypeOK, PCOK, Goto
  <2>3. \A h \in Scrapers \ {g} : pc'[h] = pc[h]
    BY DEF CollectIf, TypeOK, PCOK, Goto
  <2> QED
    BY <1>9, <2>1, <2>2, <2>3 DEF JobsInv
<1>4. PruneInv'
  BY DEF CollectIf, Caller, PruneInv, TypeOK, PCOK, Goto
<1> QED
  BY <1>2, <1>3, <1>4

\* Nor what else ends with a scrape.
LEMMA EndTypes ==
    ASSUME TypeInv, NEW g \in Scrapers, EndScrape(g),
           UNCHANGED log \/ Publish(g, "end"),
           UNCHANGED <<clock, service, inbox, life, triggers>>, cancelled' \in BOOLEAN
    PROVE  TypeInv'
<1> USE DEF TypeInv
<1>0. PCOK /\ after \in {"arm", "call"}
  BY DEF TypeOK
<1>5. "end" \in Tokens
  BY DEF Tokens
<1>6. log' \in Seq(Messages(Tokens))
  <2> DEFINE message == Message("end", job[g].epoch, job[g].scrape)
  <2>1. message \in Messages(Tokens)
    BY <1>5 DEF Message, Messages, TypeOK, JobType
  <2>2. log' = log \/ log' = Append(log, message)
    BY DEF Publish
  <2> HIDE DEF message
  <2>3. Append(log, message) \in Seq(Messages(Tokens))
    <3> DEFINE S == Messages(Tokens)
    <3>1. log \in Seq(S) /\ message \in S
      BY <2>1 DEF TypeOK
    <3> HIDE DEF S
    <3>2. Append(log, message) \in Seq(S)
      BY <3>1, AppendProperties
    <3> QED
      BY <3>2 DEF S
  <2> QED
    BY <2>2, <2>3 DEF TypeOK
<1> DEFINE new == [job[g] EXCEPT !.result = "ok", !.duration = clock - job[g].at]
<1>7. clock - job[g].at \in Nat
  BY DEF JobsInv, TypeOK, JobType
<1>8. new \in JobType /\ new.at = job[g].at /\ new.next = job[g].next
  <2>1. job[g] \in JobType
    BY DEF TypeOK
  <2> QED
    BY <1>7, <2>1, EndedJob
<1>9. job' = [job EXCEPT ![g] = new]
  BY DEF EndScrape
<1> HIDE DEF new
<1>10. /\ job' \in [Scrapers -> JobType]
       /\ \A h \in Scrapers : job'[h].at = job[h].at /\ job'[h].next = job[h].next
  BY <1>8, <1>9 DEF TypeOK
<1>1. PCOK'
  BY <1>0, GotoOK DEF EndScrape, IntervalPC, OnDemandPC, LockedPC, SectionPC
<1>2. TypeOK'
  BY <1>1, <1>6, <1>10 DEF EndScrape, TypeOK
<1>3. JobsInv'
  BY <1>10 DEF EndScrape, JobsInv, TypeOK, PCOK, Goto
<1>4. PruneInv'
  BY DEF EndScrape, Caller, PruneInv, TypeOK, PCOK, Goto
<1> QED
  BY <1>2, <1>3, <1>4

LEMMA TypeInvStep == TypeInv /\ [Next]_vars => TypeInv'
<1> SUFFICES ASSUME TypeInv, [Next]_vars PROVE TypeInv'
  OBVIOUS
<1> USE DEF TypeInv
<1>0. PCOK /\ after \in {"arm", "call"}
  BY DEF TypeOK
<1>1. CASE StartFails
  <2>1. PCOK'
    BY <1>0, <1>1, GotoOK DEF StartFails, IntervalPC, OnDemandPC, LockedPC, SectionPC
  <2>2. TypeOK'
    BY <1>1, <2>1 DEF StartFails, TypeOK
  <2>3. JobsInv'
    BY <1>1 DEF StartFails, Caller, JobsInv, TypeOK, PCOK, Goto
  <2>4. PruneInv'
    BY <1>1 DEF StartFails, Caller, PruneInv, TypeOK, PCOK, Goto
  <2> QED
    BY <2>2, <2>3, <2>4
<1>2. CASE Boot
  <2>1. PCOK'
    BY <1>0, <1>2, GotoOK DEF Boot, IntervalPC, OnDemandPC, LockedPC, SectionPC
  <2>2. TypeOK'
    BY <1>2, <2>1 DEF Boot, TypeOK
  <2>3. JobsInv'
    BY <1>2 DEF Boot, Caller, JobsInv, TypeOK, PCOK, Goto
  <2>4. PruneInv'
    BY <1>2 DEF Boot, Caller, PruneInv, TypeOK, PCOK, Goto
  <2> QED
    BY <2>2, <2>3, <2>4
<1>3. CASE Resuming
  <2>5. LastEpoch(log, first) \in Nat
    BY LastEpochType DEF TypeOK
  <2>6. ResumeDelay(LastEpoch(log, first)) \in Nat
    BY <2>5, DelayTypes DEF TypeOK
  <2>7. delay' \in Nat
    BY <1>3, <2>6 DEF Resuming
  <2>1. PCOK'
    BY <1>0, <1>3, GotoOK DEF Resuming, IntervalPC, OnDemandPC, LockedPC, SectionPC
  <2>2. TypeOK'
    BY <1>3, <2>1, <2>7 DEF Resuming, TypeOK
  <2>3. JobsInv'
    BY <1>3 DEF Resuming, Caller, JobsInv, TypeOK, PCOK, Goto
  <2>4. PruneInv'
    BY <1>3 DEF Resuming, Caller, PruneInv, TypeOK, PCOK, Goto
  <2> QED
    BY <2>2, <2>3, <2>4
<1>4. CASE ArmFirst
  <2>1. PCOK'
    BY <1>0, <1>4, GotoOK DEF ArmFirst, IntervalPC, OnDemandPC, LockedPC, SectionPC
  <2>2. TypeOK'
    BY <1>4, <2>1 DEF ArmFirst, TypeOK
  <2>3. JobsInv'
    BY <1>4 DEF ArmFirst, Caller, JobsInv, TypeOK, PCOK, Goto
  <2>4. PruneInv'
    BY <1>4 DEF ArmFirst, Caller, PruneInv, TypeOK, PCOK, Goto
  <2> QED
    BY <2>2, <2>3, <2>4
<1>5. CASE TimerFires
  <2>1. PCOK'
    BY <1>0, <1>5, GotoOK DEF TimerFires, IntervalPC, OnDemandPC, LockedPC, SectionPC
  <2>2. TypeOK'
    BY <1>5, <2>1 DEF TimerFires, TypeOK
  <2>3. JobsInv'
    BY <1>5 DEF TimerFires, Caller, JobsInv, TypeOK, PCOK, Goto
  <2>4. PruneInv'
    BY <1>5 DEF TimerFires, Caller, PruneInv, TypeOK, PCOK, Goto
  <2> QED
    BY <2>2, <2>3, <2>4
<1>6. CASE StartReturns
  <2>1. PCOK'
    BY <1>0, <1>6, GotoOK DEF StartReturns, IntervalPC, OnDemandPC, LockedPC, SectionPC
  <2>2. TypeOK'
    BY <1>6, <2>1 DEF StartReturns, TypeOK
  <2>3. JobsInv'
    BY <1>6 DEF StartReturns, Caller, JobsInv, TypeOK, PCOK, Goto
  <2>4. PruneInv'
    BY <1>6 DEF StartReturns, Caller, PruneInv, TypeOK, PCOK, Goto
  <2> QED
    BY <2>2, <2>3, <2>4
<1>7. CASE Reschedule
  <2>5. deadline' \in Nat
    <3>1. NextDelay(job["interval"]) \in Nat
      BY DelayTypes DEF TypeOK
    <3> QED BY <1>7, <3>1 DEF Reschedule, TypeOK
  <2>6. job' \in [Scrapers -> JobType]
    BY <1>7, FreshTypes DEF Reschedule, TypeOK
  <2>7. job'["interval"] = NoJob /\ job'["ondemand"] = job["ondemand"] /\ NoJob.at = 0
    BY <1>7 DEF Reschedule, TypeOK, NoJob
  <2>1. PCOK'
    BY <1>0, <1>7, GotoOK DEF Reschedule, IntervalPC, OnDemandPC, LockedPC, SectionPC
  <2>2. TypeOK'
    BY <1>7, <2>1, <2>5, <2>6 DEF Reschedule, TypeOK
  <2>3. JobsInv'
    BY <1>7, <2>7 DEF Reschedule, JobsInv, TypeOK, PCOK, Goto
  <2>4. PruneInv'
    BY <1>7 DEF Reschedule, Caller, PruneInv, TypeOK, PCOK, Goto
  <2> QED
    BY <2>2, <2>3, <2>4
<1>8. CASE PruneOpen
  <2>5. ScanOK(scan') /\ scan' \in ScanType
    BY <1>8, FreshTypes DEF PruneOpen, ScanOK
  <2>1. PCOK'
    BY <1>0, <1>8, GotoOK DEF PruneOpen, IntervalPC, OnDemandPC, LockedPC, SectionPC
  <2>2. TypeOK'
    BY <1>8, <2>1, <2>5 DEF PruneOpen, TypeOK
  <2>3. JobsInv'
    BY <1>8 DEF PruneOpen, Caller, JobsInv, TypeOK, PCOK, Goto
  <2>4. PruneInv'
    BY <1>8, <2>5 DEF PruneOpen, PruneOff, PruneInv, TypeOK, PCOK, Goto
  <2> QED
    BY <2>2, <2>3, <2>4
<1>9. CASE PruneNext
  <2>5. PICK i \in EndMarkers(log, first) :
            scan' = ScanMarker(scan, i, log[i].epoch, MaxEpochs)
    BY <1>9 DEF PruneNext
  <2>6. i \in Nat /\ log[i].epoch \in Int
    <3>1. i \in 1..Len(log)
      BY <2>5 DEF EndMarkers, TypeOK
    <3>2. log[i] \in Messages(Tokens)
      BY <3>1, ElementOfSeq DEF TypeOK
    <3> QED
      BY <3>1, <3>2 DEF Messages
  <2>7. MaxEpochs \in Nat \ {0}
    BY <1>9 DEF PruneNext, PruneInv
  <2>8. ScanOK(scan') /\ scan' \in ScanType
    BY <2>5, <2>6, <2>7, ScanKeepsShape DEF PruneInv, ScanOK
  <2>1. PCOK'
    BY <1>0, <1>9, GotoOK DEF PruneNext, IntervalPC, OnDemandPC, LockedPC, SectionPC
  <2>2. TypeOK'
    BY <1>9, <2>1, <2>8 DEF PruneNext, TypeOK
  <2>3. JobsInv'
    BY <1>9 DEF PruneNext, Caller, JobsInv, TypeOK, PCOK, Goto
  <2>4. PruneInv'
    BY <1>9, <2>7, <2>8 DEF PruneNext, PruneInv, TypeOK, PCOK, Goto
  <2> QED
    BY <2>2, <2>3, <2>4
<1>10. CASE PrunePurge
  <2>5. scan.ends[1] \in Nat
    BY <1>10, ElementOfSeq DEF PrunePurge, PruneInv, ScanOK, ScanType
  <2>6. first' \in Nat \ {0}
    BY <1>10, <2>5 DEF PrunePurge, PurgePoint, TypeOK
  <2>1. PCOK'
    BY <1>0, <1>10, GotoOK DEF PrunePurge, IntervalPC, OnDemandPC, LockedPC, SectionPC
  <2>2. TypeOK'
    BY <1>10, <2>1, <2>6 DEF PrunePurge, TypeOK
  <2>3. JobsInv'
    BY <1>10 DEF PrunePurge, Caller, JobsInv, TypeOK, PCOK, Goto
  <2>4. PruneInv'
    BY <1>10 DEF PrunePurge, Caller, PruneInv, TypeOK, PCOK, Goto
  <2> QED
    BY <2>2, <2>3, <2>4
<1>11. CASE PruneFails
  <2>1. PCOK'
    BY <1>0, <1>11, GotoOK DEF PruneFails, IntervalPC, OnDemandPC, LockedPC, SectionPC
  <2>2. TypeOK'
    BY <1>11, <2>1 DEF PruneFails, TypeOK
  <2>3. JobsInv'
    BY <1>11 DEF PruneFails, Caller, JobsInv, TypeOK, PCOK, Goto
  <2>4. PruneInv'
    BY <1>11 DEF PruneFails, Caller, PruneInv, TypeOK, PCOK, Goto
  <2> QED
    BY <2>2, <2>3, <2>4
<1>12. ASSUME NEW g \in Scrapers, Lock(g) PROVE TypeInv'
  <2>1. PCOK'
    BY <1>0, <1>12, GotoOK DEF Lock, IntervalPC, OnDemandPC, LockedPC, SectionPC
  <2>2. TypeOK'
    BY <1>12, <2>1 DEF Lock, TypeOK
  <2>3. JobsInv'
    BY <1>12 DEF Lock, Caller, JobsInv, TypeOK, PCOK, Goto
  <2>4. PruneInv'
    BY <1>12 DEF Lock, Caller, PruneInv, TypeOK, PCOK, Goto
  <2> QED
    BY <2>2, <2>3, <2>4
<1>13. ASSUME NEW g \in Scrapers, CheckPaused(g) PROVE TypeInv'
  <2>1. PCOK'
    BY <1>0, <1>13, GotoOK DEF CheckPaused, IntervalPC, OnDemandPC, LockedPC, SectionPC
  <2>2. TypeOK'
    BY <1>13, <2>1 DEF CheckPaused, TypeOK
  <2>3. JobsInv'
    BY <1>13 DEF CheckPaused, Caller, JobsInv, TypeOK, PCOK, Goto
  <2>4. PruneInv'
    BY <1>13 DEF CheckPaused, Caller, PruneInv, TypeOK, PCOK, Goto
  <2> QED
    BY <2>2, <2>3, <2>4
<1>14. ASSUME NEW g \in Scrapers, CheckBusy(g) PROVE TypeInv'
  <2>1. PCOK'
    BY <1>0, <1>14, GotoOK DEF CheckBusy, IntervalPC, OnDemandPC, LockedPC, SectionPC
  <2>2. TypeOK'
    BY <1>14, <2>1 DEF CheckBusy, TypeOK
  <2>3. JobsInv'
    BY <1>14 DEF CheckBusy, Caller, JobsInv, TypeOK, PCOK, Goto
  <2>4. PruneInv'
    BY <1>14 DEF CheckBusy, Caller, PruneInv, TypeOK, PCOK, Goto
  <2> QED
    BY <2>2, <2>3, <2>4
<1>15. ASSUME NEW g \in Scrapers, Begin(g) PROVE TypeInv'
  <2> DEFINE new == [NoJob EXCEPT !.scrape = Len(scrapes) + 1, !.epoch = Unix(clock), !.at = clock]
             entry == [by |-> g, at |-> clock, life |-> life]
  <2>5. Unix(clock) \in Nat /\ Len(scrapes) + 1 \in Nat /\ clock \in Nat
    BY DEF Unix, TypeOK
  <2>6. new \in JobType /\ new.at = clock /\ new.next = 0
    BY <2>5 DEF NoJob, JobType
  <2>7. /\ pc[g] = "begin" /\ job' = [job EXCEPT ![g] = new] /\ Goto(g, "discover")
        /\ epochCount' = epochCount + 1 /\ scrapes' = Append(scrapes, entry)
        /\ UNCHANGED <<mu, paused, scraping, timer, pruning, stream, host, mustSkip>>
    BY <1>15 DEF Begin
  <2>8. scrapes' \in Seq([by : Scrapers, at : Nat, life : Nat])
    <3>1. entry \in [by : Scrapers, at : Nat, life : Nat]
      BY DEF TypeOK
    <3> QED
      BY <2>7, <3>1, AppendProperties DEF TypeOK
  <2> HIDE DEF new, entry
  <2>9. job' \in [Scrapers -> JobType]
    BY <2>6, <2>7 DEF TypeOK
  <2>1. PCOK'
    BY <1>0, <1>15, GotoOK DEF Begin, IntervalPC, OnDemandPC, LockedPC, SectionPC
  <2>2. TypeOK'
    BY <2>1, <2>7, <2>8, <2>9 DEF TypeOK
  <2>3. JobsInv'
    BY <2>6, <2>7 DEF JobsInv, TypeOK, PCOK, Goto
  <2>4. PruneInv'
    BY <1>15 DEF Begin, Caller, PruneInv, TypeOK, PCOK, Goto
  <2> QED
    BY <2>2, <2>3, <2>4
<1>16. ASSUME NEW g \in Scrapers, Discover(g) PROVE TypeInv'
  <2>7. /\ job' \in [Scrapers -> JobType]
        /\ \A h \in Scrapers : job'[h].at = job[h].at /\ job'[h].next = job[h].next
    BY <1>16, DiscoverJob DEF TypeOK
  <2>1. PCOK'
    BY <1>0, <1>16, GotoOK DEF Discover, IntervalPC, OnDemandPC, LockedPC, SectionPC
  <2>2. TypeOK'
    BY <1>16, <2>1, <2>7 DEF Discover, TypeOK
  <2>3. JobsInv'
    BY <1>16, <2>7 DEF Discover, JobsInv, TypeOK, PCOK, Goto
  <2>4. PruneInv'
    BY <1>16 DEF Discover, Caller, PruneInv, TypeOK, PCOK, Goto
  <2> QED
    BY <2>2, <2>3, <2>4
<1>17. ASSUME NEW g \in Scrapers, PublishStart(g) PROVE TypeInv'
  <2>5. "start" \in Tokens
    BY DEF Tokens
  <2>6. log' \in Seq(Messages(Tokens))
    <3> DEFINE message == Message("start", job[g].epoch, job[g].scrape)
    <3>1. message \in Messages(Tokens)
      BY <2>5 DEF Message, Messages, TypeOK, JobType
    <3>2. log' = log \/ log' = Append(log, message)
      BY <1>17 DEF PublishStart, PublishMarker, Publish
    <3> HIDE DEF message
    <3>3. Append(log, message) \in Seq(Messages(Tokens))
      <4> DEFINE S == Messages(Tokens)
      <4>1. log \in Seq(S) /\ message \in S
        BY <3>1 DEF TypeOK
      <4> HIDE DEF S
      <4>2. Append(log, message) \in Seq(S)
        BY <4>1, AppendProperties
      <4> QED
        BY <4>2 DEF S
    <3> QED
      BY <3>2, <3>3 DEF TypeOK
  <2>1. PCOK'
    BY <1>0, <1>17, GotoOK DEF PublishStart, IntervalPC, OnDemandPC, LockedPC, SectionPC
  <2>2. TypeOK'
    BY <1>17, <2>1, <2>6 DEF PublishStart, TypeOK
  <2>3. JobsInv'
    BY <1>17 DEF PublishStart, Caller, JobsInv, TypeOK, PCOK, Goto
  <2>4. PruneInv'
    BY <1>17 DEF PublishStart, Caller, PruneInv, TypeOK, PCOK, Goto
  <2> QED
    BY <2>2, <2>3, <2>4
<1>18. ASSUME NEW g \in Scrapers, Collect(g) PROVE TypeInv'
  BY <1>18, CollectTypes DEF Collect
<1>19. ASSUME NEW g \in Scrapers, PublishEnd(g) PROVE TypeInv'
  <2>1. cancelled' \in BOOLEAN
    BY <1>19 DEF PublishEnd, TypeOK
  <2> QED
    BY <1>19, <2>1, EndTypes DEF PublishEnd, PublishMarker
<1>20. ASSUME NEW g \in Scrapers, Leave(g) PROVE TypeInv'
  <2>1. PCOK'
    BY <1>0, <1>20, GotoOK DEF Leave, IntervalPC, OnDemandPC, LockedPC, SectionPC
  <2>2. TypeOK'
    BY <1>20, <2>1 DEF Leave, TypeOK
  <2>3. JobsInv'
    BY <1>20 DEF Leave, Caller, JobsInv, TypeOK, PCOK, Goto
  <2>4. PruneInv'
    BY <1>20 DEF Leave, Caller, PruneInv, TypeOK, PCOK, Goto
  <2> QED
    BY <2>2, <2>3, <2>4
<1>21. CASE TakeTrigger
  <2>1. PCOK'
    BY <1>0, <1>21, GotoOK DEF TakeTrigger, IntervalPC, OnDemandPC, LockedPC, SectionPC
  <2>2. TypeOK'
    BY <1>21, <2>1 DEF TakeTrigger, TypeOK
  <2>3. JobsInv'
    BY <1>21 DEF TakeTrigger, Caller, JobsInv, TypeOK, PCOK, Goto
  <2>4. PruneInv'
    BY <1>21 DEF TakeTrigger, Caller, PruneInv, TypeOK, PCOK, Goto
  <2> QED
    BY <2>2, <2>3, <2>4
<1>22. CASE Respond
  <2>6. job' \in [Scrapers -> JobType]
    BY <1>22, FreshTypes DEF Respond, TypeOK
  <2>7. job'["ondemand"] = NoJob /\ job'["interval"] = job["interval"] /\ NoJob.at = 0
    BY <1>22 DEF Respond, TypeOK, NoJob
  <2>1. PCOK'
    BY <1>0, <1>22, GotoOK DEF Respond, IntervalPC, OnDemandPC, LockedPC, SectionPC
  <2>2. TypeOK'
    BY <1>22, <2>1, <2>6 DEF Respond, TypeOK
  <2>3. JobsInv'
    BY <1>22, <2>7 DEF Respond, JobsInv, TypeOK, PCOK, Goto
  <2>4. PruneInv'
    BY <1>22 DEF Respond, Caller, PruneInv, TypeOK, PCOK, Goto
  <2> QED
    BY <2>2, <2>3, <2>4
<1>23. CASE SendTrigger
  <2>1. PCOK'
    BY <1>23 DEF SendTrigger, TypeOK, PCOK
  <2>2. TypeOK'
    BY <1>23, <2>1 DEF SendTrigger, TypeOK
  <2>3. JobsInv'
    BY <1>23 DEF SendTrigger, Caller, JobsInv, TypeOK, PCOK, Goto
  <2>4. PruneInv'
    BY <1>23 DEF SendTrigger, Caller, PruneInv, TypeOK, PCOK, Goto
  <2> QED
    BY <2>2, <2>3, <2>4
<1>24. CASE Pause
  <2>1. PCOK'
    BY <1>24 DEF Pause, TypeOK, PCOK
  <2>2. TypeOK'
    BY <1>24, <2>1 DEF Pause, TypeOK
  <2>3. JobsInv'
    BY <1>24 DEF Pause, Caller, JobsInv, TypeOK, PCOK, Goto
  <2>4. PruneInv'
    BY <1>24 DEF Pause, Caller, PruneInv, TypeOK, PCOK, Goto
  <2> QED
    BY <2>2, <2>3, <2>4
<1>25. CASE Resume
  <2>1. PCOK'
    BY <1>25 DEF Resume, TypeOK, PCOK
  <2>2. TypeOK'
    BY <1>25, <2>1, FreshTypes DEF Resume, TypeOK
  <2>3. JobsInv'
    BY <1>25 DEF Resume, JobsInv
  <2>4. PruneInv'
    BY <1>25 DEF Resume, PruneInv
  <2> QED
    BY <2>2, <2>3, <2>4
<1>26. CASE Cancel
  <2>1. PCOK'
    BY <1>26 DEF Cancel, TypeOK, PCOK
  <2>2. TypeOK'
    BY <1>26, <2>1 DEF Cancel, TypeOK
  <2>3. JobsInv'
    BY <1>26 DEF Cancel, Caller, JobsInv, TypeOK, PCOK, Goto
  <2>4. PruneInv'
    BY <1>26 DEF Cancel, Caller, PruneInv, TypeOK, PCOK, Goto
  <2> QED
    BY <2>2, <2>3, <2>4
<1>27. CASE Tick
  <2>1. PCOK'
    BY <1>27 DEF Tick, TypeOK, PCOK
  <2>2. TypeOK'
    BY <1>27, <2>1 DEF Tick, TypeOK
  <2>3. JobsInv'
    <3>1. \A g \in Scrapers : job[g] \in JobType
      BY DEF TypeOK
    <3>2. \A g \in Scrapers : job[g].at \in Nat
      BY <3>1 DEF JobType
    <3>3. UNCHANGED <<job, pc>> /\ clock' = clock + 1 /\ clock \in Nat
      BY <1>27 DEF Tick, TypeOK
    <3> QED
      BY <3>2, <3>3 DEF JobsInv
  <2>4. PruneInv'
    BY <1>27 DEF Tick, PruneInv
  <2> QED
    BY <2>2, <2>3, <2>4
<1>28. CASE Crash
  <2>1. PCOK'
    BY <1>28, FreshTypes DEF Crash, PCOK, IntervalPC, OnDemandPC, LockedPC, SectionPC
  <2>5. life' \in Nat
    BY <1>28 DEF Crash, TypeOK
  <2>2. TypeOK'
    BY <1>28, <2>1, <2>5, FreshTypes DEF Crash, TypeOK, ScanOK
  <2>3. JobsInv'
    <3>1. NoJob.at = 0 /\ NoJob.next = 0
      BY DEF NoJob
    <3> QED
      BY <1>28, <3>1, FreshTypes DEF Crash, JobsInv, TypeOK
  <2>4. PruneInv'
    BY <1>28, FreshTypes DEF Crash, PruneInv
  <2> QED
    BY <2>2, <2>3, <2>4
<1>29. CASE UNCHANGED vars
  BY <1>29 DEF vars, TypeOK, PCOK, JobsInv, PruneInv
<1> QED
  BY <1>1, <1>2, <1>3, <1>4, <1>5, <1>6, <1>7, <1>8, <1>9, <1>10, <1>11, <1>12, <1>13, <1>14, <1>15, <1>16, <1>17, <1>18, <1>19, <1>20, <1>21, <1>22, <1>23, <1>24, <1>25, <1>26, <1>27, <1>28, <1>29 DEF Next, StartLoop, DoScrape, OnDemand, World

\* Every variable has its type in every reachable state (Runner!TypeOK).
THEOREM TypeCorrect == Spec => []TypeOK
<1>1. TypeInv => TypeOK
  BY DEF TypeInv
<1> QED
  BY <1>1, TypeInvInit, TypeInvStep, PTL DEF Spec

LEMMA TypeInvariant == Spec => []TypeInv
  BY TypeInvInit, TypeInvStep, PTL DEF Spec

-----------------------------------------------------------------------------
(* Admission. OneScrapeAtATime is inductive once the types are known: the   *)
(* flag is read and set with scrapingMu held, and cleared with it held.     *)

\* What every step but those of the admission itself leaves alone.
KeepsAdmission ==
    /\ UNCHANGED <<mu, scraping>>
    /\ \A g \in Scrapers : /\ pc'[g] \in LockedPC <=> pc[g] \in LockedPC
                           /\ pc'[g] \in SectionPC <=> pc[g] \in SectionPC

LEMMA OthersKeepAdmission ==
    ASSUME TypeInv,
           StartLoop \/ OnDemand \/ (World /\ ~Crash) \/ UNCHANGED vars
           \/ \E g \in Scrapers : \/ Begin(g) \/ Discover(g) \/ PublishStart(g)
                                  \/ Collect(g) \/ PublishEnd(g)
    PROVE  KeepsAdmission
<1> USE DEF TypeInv, TypeOK, PCOK, KeepsAdmission, IntervalPC, OnDemandPC, LockedPC, SectionPC, Goto
<1>1. CASE StartFails
  BY <1>1 DEF StartFails
<1>2. CASE Boot
  BY <1>2 DEF Boot
<1>3. CASE Resuming
  BY <1>3 DEF Resuming
<1>4. CASE ArmFirst
  BY <1>4 DEF ArmFirst
<1>5. CASE TimerFires
  BY <1>5 DEF TimerFires
<1>6. CASE StartReturns
  BY <1>6 DEF StartReturns
<1>7. CASE Reschedule
  BY <1>7 DEF Reschedule
<1>8. CASE PruneOpen
  BY <1>8 DEF PruneOpen
<1>9. CASE PruneNext
  BY <1>9 DEF PruneNext
<1>10. CASE PrunePurge
  BY <1>10 DEF PrunePurge
<1>11. CASE PruneFails
  BY <1>11 DEF PruneFails
<1>12. ASSUME NEW g \in Scrapers, Begin(g) PROVE KeepsAdmission
  BY <1>12 DEF Begin
<1>13. ASSUME NEW g \in Scrapers, Discover(g) PROVE KeepsAdmission
  BY <1>13 DEF Discover
<1>14. ASSUME NEW g \in Scrapers, PublishStart(g) PROVE KeepsAdmission
  BY <1>14 DEF PublishStart
<1>15. ASSUME NEW g \in Scrapers, Collect(g) PROVE KeepsAdmission
  BY <1>15 DEF Collect, CollectIf
<1>16. ASSUME NEW g \in Scrapers, PublishEnd(g) PROVE KeepsAdmission
  BY <1>16 DEF PublishEnd, EndScrape
<1>17. CASE TakeTrigger
  BY <1>17 DEF TakeTrigger
<1>18. CASE Respond
  BY <1>18 DEF Respond
<1>19. CASE SendTrigger
  BY <1>19 DEF SendTrigger
<1>20. CASE Pause
  BY <1>20 DEF Pause
<1>21. CASE Resume
  BY <1>21 DEF Resume
<1>22. CASE Cancel
  BY <1>22 DEF Cancel
<1>23. CASE Tick
  BY <1>23 DEF Tick
<1>24. CASE UNCHANGED vars
  BY <1>24 DEF vars
<1> QED
  BY <1>1, <1>2, <1>3, <1>4, <1>5, <1>6, <1>7, <1>8, <1>9, <1>10, <1>11, <1>12, <1>13, <1>14, <1>15, <1>16, <1>17, <1>18, <1>19, <1>20, <1>21, <1>22, <1>23, <1>24 DEF StartLoop, OnDemand, World

LEMMA OneScrapeInit == Init => OneScrapeAtATime
  BY FreshTypes DEF Init, OneScrapeAtATime, InSection, LockedPC, SectionPC

LEMMA OneScrapeStep == TypeInv /\ OneScrapeAtATime /\ [Next]_vars => OneScrapeAtATime'
<1> SUFFICES ASSUME TypeInv, OneScrapeAtATime, [Next]_vars PROVE OneScrapeAtATime'
  OBVIOUS
<1>1. CASE KeepsAdmission
  BY <1>1 DEF KeepsAdmission, OneScrapeAtATime, InSection
<1>2. ASSUME NEW g \in Scrapers, Lock(g) PROVE OneScrapeAtATime'
  BY <1>2 DEF Lock, OneScrapeAtATime, InSection, TypeInv, TypeOK, PCOK, LockedPC, SectionPC, Goto
<1>3. ASSUME NEW g \in Scrapers, CheckPaused(g) PROVE OneScrapeAtATime'
  BY <1>3 DEF CheckPaused, Caller, OneScrapeAtATime, InSection, TypeInv, TypeOK, PCOK, LockedPC, SectionPC, Goto
<1>4. ASSUME NEW g \in Scrapers, CheckBusy(g) PROVE OneScrapeAtATime'
  BY <1>4 DEF CheckBusy, Caller, OneScrapeAtATime, InSection, TypeInv, TypeOK, PCOK, LockedPC, SectionPC, Goto
<1>5. ASSUME NEW g \in Scrapers, Leave(g) PROVE OneScrapeAtATime'
  BY <1>5 DEF Leave, Caller, OneScrapeAtATime, InSection, TypeInv, TypeOK, PCOK, LockedPC, SectionPC, Goto
<1>6. CASE Crash
  BY <1>6, FreshTypes DEF Crash, OneScrapeAtATime, InSection, LockedPC, SectionPC
<1> QED
  BY <1>1, <1>2, <1>3, <1>4, <1>5, <1>6, OthersKeepAdmission DEF Next, DoScrape, World

\* At most one goroutine scrapes, for every configuration and whatever fails
\* (Runner!OneScrapeAtATime).
THEOREM MutualExclusion == Spec => []OneScrapeAtATime
  BY TypeInvariant, OneScrapeInit, OneScrapeStep, PTL DEF Spec

-----------------------------------------------------------------------------
(* Pauses. PauseHonoured speaks of the section; its strengthening follows a *)
(* caller from scrapingMu on: it may stand at the pause check while it must *)
(* skip only as long as the runner is still paused, and never further.      *)

PauseInv ==
    \A g \in Scrapers :
        /\ pc[g] = "pauseCheck" /\ mustSkip[g] => paused
        /\ pc[g] = "busyCheck" \/ InSection(g) => ~mustSkip[g]

LEMMA PauseInit == Init => PauseInv
  BY FreshTypes DEF Init, PauseInv, InSection, SectionPC

LEMMA PauseStep == TypeInv /\ PauseInv /\ [Next]_vars => PauseInv'
<1> SUFFICES ASSUME TypeInv, PauseInv, [Next]_vars PROVE PauseInv'
  OBVIOUS
<1> USE DEF TypeInv, TypeOK, PCOK, IntervalPC, OnDemandPC, LockedPC, SectionPC, Goto, InSection, PauseInv
<1>1. CASE StartFails
  BY <1>1 DEF StartFails
<1>2. CASE Boot
  BY <1>2 DEF Boot
<1>3. CASE Resuming
  BY <1>3 DEF Resuming
<1>4. CASE ArmFirst
  BY <1>4 DEF ArmFirst
<1>5. CASE TimerFires
  BY <1>5 DEF TimerFires
<1>6. CASE StartReturns
  BY <1>6 DEF StartReturns
<1>7. CASE Reschedule
  BY <1>7 DEF Reschedule
<1>8. CASE PruneOpen
  BY <1>8 DEF PruneOpen
<1>9. CASE PruneNext
  BY <1>9 DEF PruneNext
<1>10. CASE PrunePurge
  BY <1>10 DEF PrunePurge
<1>11. CASE PruneFails
  BY <1>11 DEF PruneFails
<1>12. ASSUME NEW g \in Scrapers, Lock(g) PROVE PauseInv'
  BY <1>12 DEF Lock, Caller
<1>13. ASSUME NEW g \in Scrapers, CheckPaused(g) PROVE PauseInv'
  BY <1>13 DEF CheckPaused, Caller
<1>14. ASSUME NEW g \in Scrapers, CheckBusy(g) PROVE PauseInv'
  BY <1>14 DEF CheckBusy, Caller
<1>15. ASSUME NEW g \in Scrapers, Begin(g) PROVE PauseInv'
  BY <1>15 DEF Begin, Caller
<1>16. ASSUME NEW g \in Scrapers, Discover(g) PROVE PauseInv'
  BY <1>16 DEF Discover, Caller
<1>17. ASSUME NEW g \in Scrapers, PublishStart(g) PROVE PauseInv'
  BY <1>17 DEF PublishStart, Caller
<1>18. ASSUME NEW g \in Scrapers, Collect(g) PROVE PauseInv'
  BY <1>18 DEF Collect, CollectIf, Caller
<1>19. ASSUME NEW g \in Scrapers, PublishEnd(g) PROVE PauseInv'
  BY <1>19 DEF PublishEnd, EndScrape, Caller
<1>20. ASSUME NEW g \in Scrapers, Leave(g) PROVE PauseInv'
  BY <1>20 DEF Leave, Caller
<1>21. CASE TakeTrigger
  BY <1>21 DEF TakeTrigger, Unpaused
<1>22. CASE Respond
  BY <1>22 DEF Respond, Unpaused
<1>23. CASE SendTrigger
  BY <1>23 DEF SendTrigger, Unpaused
<1>24. CASE Pause
  BY <1>24 DEF Pause, Unpaused
<1>25. CASE Resume
  BY <1>25 DEF Resume, Unpaused
<1>26. CASE Cancel
  BY <1>26 DEF Cancel, Unpaused
<1>27. CASE Tick
  BY <1>27 DEF Tick, Unpaused
<1>28. CASE Crash
  BY <1>28, FreshTypes DEF Crash
<1>29. CASE UNCHANGED vars
  BY <1>29 DEF vars
<1> QED
  BY <1>1, <1>2, <1>3, <1>4, <1>5, <1>6, <1>7, <1>8, <1>9, <1>10, <1>11, <1>12, <1>13, <1>14, <1>15, <1>16, <1>17, <1>18, <1>19, <1>20, <1>21, <1>22, <1>23, <1>24, <1>25, <1>26, <1>27, <1>28, <1>29 DEF Next, StartLoop, DoScrape, OnDemand, World

\* No call of doScrape that met a paused runner at scrapingMu scrapes before a
\* Resume (Runner!PauseHonoured).
THEOREM NoPauseIsOverlooked == Spec => []PauseHonoured
<1>1. PauseInv => PauseHonoured
  BY DEF PauseInv, PauseHonoured
<1> QED
  BY <1>1, TypeInvariant, PauseInit, PauseStep, PTL DEF Spec

-----------------------------------------------------------------------------
(* Scrapes are numbered as they begin. As one runs at a time, the one that  *)
(* publishes is the newest, and its epoch is no older than any other.       *)

\* All messages are of scrapes that have begun.
LogInv ==
    \A i \in 1..Len(log) :
        log[i].scrape <= Len(scrapes) /\ log[i].epoch <= Unix(clock)

\* Of one scrape, the start marker is first and the end marker last.
Ordered ==
    \A i, j \in 1..Len(log) : i < j =>
        /\ log[i].epoch <= log[j].epoch
        /\ log[i].scrape <= log[j].scrape
        /\ log[i].scrape = log[j].scrape => log[i].token # "end" /\ log[j].token # "start"

\* The scrape a goroutine has begun is the newest; it has published nothing
\* before its start marker, and its end marker only when it is over.
OpenInv(g) ==
    InSection(g) /\ pc[g] # "begin" =>
        /\ job[g].scrape = Len(scrapes)
        /\ job[g].epoch <= Unix(clock)
        /\ \A i \in 1..Len(log) :
              /\ log[i].epoch <= job[g].epoch
              /\ log[i].scrape = job[g].scrape =>
                    /\ pc[g] \notin {"discover", "start"}
                    /\ log[i].token = "end" => pc[g] = "leave"

StreamInv == LogInv /\ Ordered /\ \A g \in Scrapers : OpenInv(g)

LEMMA StreamInit == Init => StreamInv
<1> SUFFICES ASSUME Init PROVE StreamInv
  OBVIOUS
<1>1. Len(log) = 0
  BY DEF Init
<1>2. \A g \in Scrapers : ~InSection(g)
  BY FreshTypes DEF Init, InSection, SectionPC
<1> QED
  BY <1>1, <1>2 DEF StreamInv, LogInv, Ordered, OpenInv

\* A later second is no earlier one.
LEMMA UnixMonotone ==
    ASSUME NEW s \in Nat, NEW t \in Nat, s <= t
    PROVE  Unix(s) \in Nat /\ Unix(s) <= Unix(t)
BY DEF Unix

-----------------------------------------------------------------------------

\* What the steps that neither begin a scrape nor publish leave alone.
KeepsStream ==
    /\ UNCHANGED <<log, scrapes>>
    /\ clock' \in Nat /\ clock <= clock'
    /\ \A g \in Scrapers :
          InSection(g)' /\ pc'[g] # "begin" => pc'[g] = pc[g] /\ job'[g] = job[g]

LEMMA OthersKeepStream ==
    ASSUME TypeInv,
           StartLoop \/ OnDemand \/ World \/ UNCHANGED vars
           \/ \E g \in Scrapers : Lock(g) \/ CheckPaused(g) \/ CheckBusy(g) \/ Leave(g)
    PROVE  KeepsStream
<1> USE DEF TypeInv, TypeOK, PCOK, KeepsStream, InSection, IntervalPC, OnDemandPC, LockedPC, SectionPC, Goto
<1>1. CASE StartFails
  BY <1>1 DEF StartFails
<1>2. CASE Boot
  BY <1>2 DEF Boot
<1>3. CASE Resuming
  BY <1>3 DEF Resuming
<1>4. CASE ArmFirst
  BY <1>4 DEF ArmFirst
<1>5. CASE TimerFires
  BY <1>5 DEF TimerFires
<1>6. CASE StartReturns
  BY <1>6 DEF StartReturns
<1>7. CASE Reschedule
  BY <1>7 DEF Reschedule
<1>8. CASE PruneOpen
  BY <1>8 DEF PruneOpen
<1>9. CASE PruneNext
  BY <1>9 DEF PruneNext
<1>10. CASE PrunePurge
  BY <1>10 DEF PrunePurge
<1>11. CASE PruneFails
  BY <1>11 DEF PruneFails
<1>12. ASSUME NEW g \in Scrapers, Lock(g) PROVE KeepsStream
  BY <1>12 DEF Lock
<1>13. ASSUME NEW g \in Scrapers, CheckPaused(g) PROVE KeepsStream
  BY <1>13 DEF CheckPaused, Caller
<1>14. ASSUME NEW g \in Scrapers, CheckBusy(g) PROVE KeepsStream
  BY <1>14 DEF CheckBusy, Caller
<1>15. ASSUME NEW g \in Scrapers, Leave(g) PROVE KeepsStream
  BY <1>15 DEF Leave, Caller
<1>16. CASE TakeTrigger
  BY <1>16 DEF TakeTrigger
<1>17. CASE Respond
  BY <1>17 DEF Respond
<1>18. CASE SendTrigger
  BY <1>18 DEF SendTrigger
<1>19. CASE Pause
  BY <1>19 DEF Pause
<1>20. CASE Resume
  BY <1>20 DEF Resume
<1>21. CASE Cancel
  BY <1>21 DEF Cancel
<1>22. CASE Tick
  BY <1>22 DEF Tick
<1>23. CASE Crash
  BY <1>23, FreshTypes DEF Crash
<1>24. CASE UNCHANGED vars
  BY <1>24 DEF vars
<1> QED
  BY <1>1, <1>2, <1>3, <1>4, <1>5, <1>6, <1>7, <1>8, <1>9, <1>10, <1>11, <1>12, <1>13, <1>14, <1>15, <1>16, <1>17, <1>18, <1>19, <1>20, <1>21, <1>22, <1>23, <1>24 DEF StartLoop, OnDemand, World

\* The types of what the invariant compares.
LEMMA StreamTypes ==
    ASSUME TypeInv
    PROVE  /\ Len(log) \in Nat /\ Len(scrapes) \in Nat
           /\ \A i \in 1..Len(log) : log[i].scrape \in Nat /\ log[i].epoch \in Nat
           /\ \A g \in Scrapers : job[g].scrape \in Nat /\ job[g].epoch \in Nat
           /\ clock \in Nat /\ Unix(clock) \in Nat
<1>1. log \in Seq(Messages(Tokens)) /\ clock \in Nat /\ job \in [Scrapers -> JobType]
      /\ scrapes \in Seq([by : Scrapers, at : Nat, life : Nat])
  BY DEF TypeInv, TypeOK
<1>2. \A i \in 1..Len(log) : log[i] \in Messages(Tokens)
  BY <1>1, ElementOfSeq
<1>3. Len(log) \in Nat /\ Len(scrapes) \in Nat
  BY <1>1, LenProperties
<1>4. Unix(clock) \in Nat
  BY <1>1, UnixMonotone
<1> QED
  BY <1>1, <1>2, <1>3, <1>4 DEF Messages, JobType

LEMMA KeptStream ==
    ASSUME TypeInv, StreamInv, KeepsStream
    PROVE  StreamInv'
<1>1. Unix(clock) <= Unix(clock)' /\ Unix(clock)' \in Nat
  <2>1. clock \in Nat /\ clock' \in Nat /\ clock <= clock'
    BY StreamTypes DEF KeepsStream
  <2>2. Unix(clock) <= Unix(clock') /\ Unix(clock') \in Nat
    BY <2>1, UnixMonotone
  <2>3. Unix(clock)' = Unix(clock')
    BY DEF Unix
  <2> QED
    BY <2>2, <2>3
<1>2. LogInv'
  BY <1>1, StreamTypes DEF StreamInv, LogInv, KeepsStream
<1>3. Ordered'
  BY DEF StreamInv, Ordered, KeepsStream
<1>4. ASSUME NEW g \in Scrapers PROVE OpenInv(g)'
  <2> SUFFICES ASSUME InSection(g)', pc'[g] # "begin" PROVE OpenInv(g)'
    BY DEF OpenInv
  <2>1. pc'[g] = pc[g] /\ job'[g] = job[g]
    BY DEF KeepsStream
  <2>2. InSection(g)
    BY <2>1 DEF InSection
  <2>3. /\ job'[g].scrape = Len(scrapes)' /\ log' = log
        /\ job'[g].epoch <= Unix(clock) /\ job'[g].epoch \in Nat
    BY <2>1, <2>2, StreamTypes DEF OpenInv, StreamInv, KeepsStream
  <2>4. job'[g].epoch <= Unix(clock)'
    <3>1. Unix(clock) \in Nat
      BY StreamTypes
    <3> QED
      BY <1>1, <2>3, <3>1
  <2> QED
    BY <2>1, <2>2, <2>3, <2>4 DEF OpenInv, StreamInv
<1> QED
  BY <1>2, <1>3, <1>4 DEF StreamInv

-----------------------------------------------------------------------------

\* The goroutine that scrapes is alone.
LEMMA OthersOut ==
    ASSUME OneScrapeAtATime, NEW g \in Scrapers, InSection(g),
           NEW h \in Scrapers, h # g, pc'[h] = pc[h]
    PROVE  ~InSection(h)'
BY DEF OneScrapeAtATime, InSection

LEMMA BeginStream ==
    ASSUME TypeInv, OneScrapeAtATime, StreamInv, NEW g \in Scrapers, Begin(g)
    PROVE  StreamInv'
<1>1. /\ pc[g] = "begin" /\ pc'[g] = "discover" /\ \A h \in Scrapers : h # g => pc'[h] = pc[h]
      /\ UNCHANGED <<log, clock>>
  BY DEF Begin, Goto, TypeInv, TypeOK, PCOK
<1>2. Len(scrapes)' = Len(scrapes) + 1
  BY DEF Begin, TypeInv, TypeOK
<1>3. job'[g].scrape = Len(scrapes) + 1 /\ job'[g].epoch = Unix(clock)
  BY DEF Begin, NoJob, TypeInv, TypeOK
<1>8. Unix(clock)' = Unix(clock) /\ Unix(clock) \in Nat
  BY <1>1, StreamTypes DEF Unix
<1>9. \A i \in 1..Len(log) : log[i].scrape < Len(scrapes)' /\ log[i].epoch <= Unix(clock)
  BY <1>2, StreamTypes DEF StreamInv, LogInv
<1>10. \A i \in 1..Len(log) : log[i].scrape <= Len(scrapes)'
  BY <1>2, <1>9, StreamTypes
<1>4. LogInv'
  BY <1>1, <1>8, <1>9, <1>10 DEF LogInv
<1>5. Ordered'
  BY <1>1 DEF StreamInv, Ordered
<1>6. OpenInv(g)'
  BY <1>1, <1>2, <1>3, <1>8, <1>9, StreamTypes DEF OpenInv
<1>7. \A h \in Scrapers : h # g => ~InSection(h)'
  BY <1>1, OthersOut DEF InSection, SectionPC
<1> QED
  BY <1>4, <1>5, <1>6, <1>7 DEF StreamInv, OpenInv

\* The log grows by one message of the open scrape, or by none.
Grows(g, token) ==
    \/ UNCHANGED log
    \/ Publish(g, token)

LEMMA PublishStream ==
    ASSUME TypeInv, OneScrapeAtATime, StreamInv, NEW g \in Scrapers,
           pc[g] \in {"start", "collect", "end"},
           pc'[g] \in {"collect", "end", "leave"},
           \A h \in Scrapers : h # g => pc'[h] = pc[h],
           NEW token, Grows(g, token),
           token = "start" => pc[g] = "start",
           token = "end" => pc'[g] = "leave",
           job'[g].scrape = job[g].scrape, job'[g].epoch = job[g].epoch,
           UNCHANGED <<scrapes, clock>>
    PROVE  StreamInv'
<1> DEFINE m == Message(token, job[g].epoch, job[g].scrape)
<1>0. /\ job[g].scrape = Len(scrapes) /\ job[g].epoch <= Unix(clock)
      /\ \A i \in 1..Len(log) :
            /\ log[i].epoch <= job[g].epoch
            /\ log[i].scrape <= job[g].scrape
            /\ log[i].scrape = job[g].scrape => pc[g] # "start" /\ log[i].token # "end"
      /\ Ordered
  BY DEF StreamInv, LogInv, OpenInv, InSection, SectionPC
<1>1. m.epoch = job[g].epoch /\ m.scrape = job[g].scrape /\ m.token = token
  BY DEF Message
<1>2. \A h \in Scrapers : h # g => ~InSection(h)'
  BY OthersOut DEF InSection, SectionPC
<1>3. InSection(g)' /\ pc'[g] # "begin" /\ pc'[g] \notin {"discover", "start"}
  BY DEF InSection, SectionPC
<1>4. CASE UNCHANGED log
  <2>1. LogInv' /\ Ordered'
    BY <1>4 DEF StreamInv, LogInv, Ordered, Unix
  <2>2. OpenInv(g)'
    BY <1>0, <1>3, <1>4 DEF OpenInv, Unix
  <2> QED
    BY <1>2, <2>1, <2>2 DEF StreamInv, OpenInv
<1>5. CASE log' = Append(log, m)
  <2>0. PICK n \in Nat : n = Len(log)
    BY StreamTypes
  <2>1. /\ Len(log') = n + 1 /\ log'[n + 1] = m
        /\ \A i \in 1..n : log'[i] = log[i]
    BY <1>5, <2>0 DEF TypeInv, TypeOK
  <2>2. 1..(n + 1) = 1..n \cup {n + 1}
    OBVIOUS
  <2>3. LogInv'
    BY <1>0, <1>1, <2>0, <2>1, <2>2 DEF StreamInv, LogInv, Unix
  <2>4. ASSUME NEW i \in 1..(n + 1), NEW j \in 1..(n + 1), i < j
        PROVE  /\ log'[i].epoch <= log'[j].epoch
               /\ log'[i].scrape <= log'[j].scrape
               /\ log'[i].scrape = log'[j].scrape => log'[i].token # "end" /\ log'[j].token # "start"
    <3>1. i \in 1..n
      BY <2>4
    <3>2. CASE j \in 1..n
      BY <1>0, <2>0, <2>1, <2>4, <3>1, <3>2 DEF Ordered
    <3>3. CASE j = n + 1
      BY <1>0, <1>1, <2>0, <2>1, <3>1, <3>3
    <3> QED
      BY <2>2, <3>2, <3>3
  <2>5. Ordered'
    BY <2>1, <2>4 DEF Ordered
  <2>6. OpenInv(g)'
    <3>1. \A i \in 1..(n + 1) :
             /\ log'[i].epoch <= job'[g].epoch
             /\ log'[i].scrape = job'[g].scrape => (log'[i].token = "end" => pc'[g] = "leave")
      <4>1. ASSUME NEW i \in 1..n
            PROVE  /\ log'[i].epoch <= job'[g].epoch
                   /\ log'[i].scrape = job'[g].scrape => log'[i].token # "end"
        BY <1>0, <2>0, <2>1
      <4>2. /\ log'[n + 1].epoch <= job'[g].epoch
            /\ log'[n + 1].token = "end" => pc'[g] = "leave"
        BY <1>1, <2>1, StreamTypes
      <4> QED
        BY <2>2, <4>1, <4>2
    <3> QED
      BY <1>0, <1>3, <2>1, <3>1 DEF OpenInv, Unix
  <2> QED
    BY <1>2, <2>3, <2>5, <2>6 DEF StreamInv, OpenInv
<1> QED
  BY <1>4, <1>5 DEF Grows, Publish

LEMMA StreamStep ==
    TypeInv /\ OneScrapeAtATime /\ StreamInv /\ [Next]_vars => StreamInv'
<1> SUFFICES ASSUME TypeInv, OneScrapeAtATime, StreamInv, [Next]_vars PROVE StreamInv'
  OBVIOUS
<1> USE DEF Goto
<1>0. pc \in [Scrapers -> IntervalPC \cup OnDemandPC \cup {"call"} \cup LockedPC \cup SectionPC]
      /\ job \in [Scrapers -> JobType]
  BY DEF TypeInv, TypeOK, PCOK
<1>1. CASE KeepsStream
  BY <1>1, KeptStream
<1>2. ASSUME NEW g \in Scrapers, Begin(g) PROVE StreamInv'
  BY <1>2, BeginStream
<1>3. ASSUME NEW g \in Scrapers, Discover(g) PROVE StreamInv'
  <2>1. /\ pc[g] = "discover" /\ pc'[g] \in {"start", "leave"}
        /\ \A h \in Scrapers : h # g => pc'[h] = pc[h]
        /\ job'[g].scrape = job[g].scrape /\ job'[g].epoch = job[g].epoch
        /\ UNCHANGED <<log, scrapes, clock>>
    <3>1. /\ pc[g] = "discover" /\ (Goto(g, "start") \/ Goto(g, "leave"))
          /\ UNCHANGED <<log, scrapes, clock>>
      BY <1>3 DEF Discover
    <3>2. job'[g].scrape = job[g].scrape /\ job'[g].epoch = job[g].epoch
      BY <1>0, <1>3, DiscoverJob
    <3> QED
      BY <1>0, <3>1, <3>2 DEF Goto
  <2>2. \A h \in Scrapers : h # g => ~InSection(h)'
    BY <2>1, OthersOut DEF InSection, SectionPC
  <2>3. OpenInv(g)'
    BY <2>1 DEF StreamInv, OpenInv, InSection, SectionPC, Unix
  <2>4. LogInv' /\ Ordered'
    BY <2>1 DEF StreamInv, LogInv, Ordered, Unix
  <2> QED
    BY <2>2, <2>3, <2>4 DEF StreamInv, OpenInv
<1>4. ASSUME NEW g \in Scrapers, PublishStart(g) PROVE StreamInv'
  <2>1. Grows(g, "start") /\ UNCHANGED <<job, scrapes, clock>>
    BY <1>4 DEF PublishStart, PublishMarker, Grows
  <2>2. pc[g] = "start" /\ pc'[g] = "collect" /\ \A h \in Scrapers : h # g => pc'[h] = pc[h]
    BY <1>0, <1>4 DEF PublishStart
  <2> QED
    BY <2>1, <2>2, PublishStream
<1>5. ASSUME NEW g \in Scrapers, Collect(g) PROVE StreamInv'
  <2> DEFINE token == Token(job[g].next)
  <2>1. Grows(g, token) /\ UNCHANGED <<scrapes, clock>>
    BY <1>5 DEF Collect, CollectIf, Grows
  <2>2. pc[g] = "collect" /\ pc'[g] \in {"collect", "end"}
        /\ \A h \in Scrapers : h # g => pc'[h] = pc[h]
    BY <1>0, <1>5 DEF Collect, CollectIf
  <2>3. job'[g].scrape = job[g].scrape /\ job'[g].epoch = job[g].epoch
    BY <1>0, <1>5 DEF Collect, CollectIf, JobType
  <2>4. token \notin {"start", "end"}
    <3>1. job[g].next \in 0..Len(Endpoints)
      BY <1>0, <2>2, LenProperties DEF TypeInv, JobsInv, JobType
    <3> QED
      BY <3>1 DEF Token
  <2> HIDE DEF token
  <2> QED
    BY <2>1, <2>2, <2>3, <2>4, PublishStream
<1>6. ASSUME NEW g \in Scrapers, PublishEnd(g) PROVE StreamInv'
  <2>1. Grows(g, "end") /\ UNCHANGED <<scrapes, clock>>
    BY <1>6 DEF PublishEnd, EndScrape, PublishMarker, Grows
  <2>2. pc[g] = "end" /\ pc'[g] = "leave" /\ \A h \in Scrapers : h # g => pc'[h] = pc[h]
    BY <1>0, <1>6 DEF PublishEnd, EndScrape
  <2>3. job'[g].scrape = job[g].scrape /\ job'[g].epoch = job[g].epoch
    BY <1>0, <1>6 DEF PublishEnd, EndScrape, JobType
  <2> QED
    BY <2>1, <2>2, <2>3, PublishStream
<1> QED
  BY <1>1, <1>2, <1>3, <1>4, <1>5, <1>6, OthersKeepStream DEF Next, DoScrape

-----------------------------------------------------------------------------

LEMMA StreamInvariant == Spec => []StreamInv
  BY TypeInvariant, MutualExclusion, StreamInit, StreamStep, PTL DEF Spec

\* Epochs never decrease along the stream, for every configuration, whatever
\* fails and wherever the process dies (Runner!EpochsNeverDecrease).
THEOREM EpochsAreOrdered == Spec => []EpochsNeverDecrease
<1>1. StreamInv => EpochsNeverDecrease
  BY DEF StreamInv, Ordered, EpochsNeverDecrease
<1> QED
  BY <1>1, StreamInvariant, PTL

\* The messages of a scrape are one stretch of the stream, between its markers
\* (Runner!ScrapesAreContiguous).
THEOREM Contiguity == Spec => []ScrapesAreContiguous
<1>1. ASSUME TypeInv, StreamInv PROVE ScrapesAreContiguous
  <2> SUFFICES ASSUME NEW i \in 1..Len(log), NEW j \in 1..Len(log), i < j
               PROVE  /\ log[i].scrape = log[j].scrape =>
                            /\ \A k \in i..j : log[k].scrape = log[i].scrape
                            /\ log[i].token # "end" /\ log[j].token # "start"
                      /\ log[i].scrape <= log[j].scrape
    BY DEF ScrapesAreContiguous
  <2>1. Ordered
    BY <1>1 DEF StreamInv
  <2>2. ASSUME log[i].scrape = log[j].scrape, NEW k \in i..j
        PROVE  log[k].scrape = log[i].scrape
    <3>1. k \in 1..Len(log) /\ (k = i \/ i < k) /\ (k = j \/ k < j)
      BY <1>1, StreamTypes
    <3>2. log[i].scrape <= log[k].scrape /\ log[k].scrape <= log[j].scrape
      BY <1>1, <2>1, <3>1, StreamTypes DEF Ordered
    <3>3. /\ log[i].scrape \in Nat /\ log[j].scrape \in Nat /\ log[k].scrape \in Nat
          /\ log[i].scrape = log[j].scrape
      BY <1>1, <2>2, <3>1, StreamTypes
    <3> QED
      BY <3>2, <3>3
  <2> QED
    BY <2>1, <2>2 DEF Ordered
<1> QED
  BY <1>1, TypeInvariant, StreamInvariant, PTL

-----------------------------------------------------------------------------
(* The contract. The initial state is the contract's, and every step, seen  *)
(* through the mapping of RunnerContract, is one of the contract's or       *)
(* changes nothing.                                                         *)

Published == [i \in 1..Len(log) |-> log[i].scrape]

\* The contract's variables while g's scrape is admitted, and otherwise.
Unbegun(g) == pc[g] \in {"busyCheck", "begin"}

SeenOf(g) ==
    /\ Owner = g /\ Phase = PhaseAt(g)
    /\ Runs = IF Unbegun(g) THEN Len(scrapes) + 1 ELSE Len(scrapes)

Seen ==
    /\ \A g \in Scrapers : Admitted(g) => SeenOf(g)
    /\ (\A g \in Scrapers : ~Admitted(g)) =>
          Owner = Nobody /\ Phase = "closed" /\ Runs = Len(scrapes)

\* One scrape is admitted at a time: the flag is read with the mutex held.
LEMMA OneAdmitted ==
    ASSUME OneScrapeAtATime, NEW g \in Scrapers, NEW h \in Scrapers, Admitted(g), Admitted(h)
    PROVE  g = h
BY DEF OneScrapeAtATime, Admitted, InSection, LockedPC

LEMMA SeenHolds == OneScrapeAtATime => Seen
<1> SUFFICES ASSUME OneScrapeAtATime PROVE Seen
  OBVIOUS
<1>1. ASSUME NEW g \in Scrapers, Admitted(g) PROVE SeenOf(g)
  <2>1. \A h \in Scrapers : Admitted(h) => h = g
    BY <1>1, OneAdmitted
  <2>2. Owner = g
    BY <1>1, <2>1 DEF Owner
  <2>3. g # Nobody
    OBVIOUS
  <2>4. Phase = PhaseAt(g)
    BY <2>2, <2>3 DEF Phase
  <2>5. Runs = IF Unbegun(g) THEN Len(scrapes) + 1 ELSE Len(scrapes)
    BY <1>1, <2>1 DEF Runs, Unbegun
  <2> QED
    BY <2>2, <2>4, <2>5 DEF SeenOf
<1>2. ASSUME \A g \in Scrapers : ~Admitted(g)
      PROVE  Owner = Nobody /\ Phase = "closed" /\ Runs = Len(scrapes)
  BY <1>2 DEF Owner, Phase, Runs
<1> QED
  BY <1>1, <1>2 DEF Seen

\* The same of the state a step leads to.
LEMMA SeenNext == OneScrapeAtATime' => Seen'
BY SeenHolds, PTL

-----------------------------------------------------------------------------

\* Enough for a step to go unnoticed.
LEMMA Unnoticed ==
    ASSUME Seen, Seen',
           \A g \in Scrapers : Admitted(g)' <=> Admitted(g),
           \A g \in Scrapers : Admitted(g) =>
              PhaseAt(g)' = PhaseAt(g) /\
              (IF Unbegun(g)' THEN Len(scrapes') + 1 ELSE Len(scrapes'))
                 = (IF Unbegun(g) THEN Len(scrapes) + 1 ELSE Len(scrapes)),
           (\A g \in Scrapers : ~Admitted(g)) => Len(scrapes') = Len(scrapes),
           UNCHANGED log
    PROVE  UNCHANGED <<Owner, Runs, Phase, Published>>
<1>1. Published' = Published
  BY DEF Published
<1>2. ASSUME NEW g \in Scrapers, Admitted(g) PROVE UNCHANGED <<Owner, Runs, Phase>>
  BY <1>2 DEF Seen, SeenOf
<1>3. ASSUME \A g \in Scrapers : ~Admitted(g) PROVE UNCHANGED <<Owner, Runs, Phase>>
  BY <1>3 DEF Seen
<1> QED
  BY <1>1, <1>2, <1>3

\* Most steps are those of a goroutine outside the doScrape of an admitted
\* scrape, or of the world.
KeepsScrapes ==
    /\ UNCHANGED <<scraping, log, scrapes>>
    /\ \A g \in Scrapers :
          \/ pc'[g] = pc[g] /\ job'[g] = job[g]
          \/ {pc[g], pc'[g]} \cap (SectionPC \cup {"busyCheck"}) = {}

LEMMA KeptUnnoticed ==
    ASSUME Seen, Seen', KeepsScrapes
    PROVE  UNCHANGED <<Owner, Runs, Phase, Published>>
<1>1. ASSUME NEW g \in Scrapers PROVE Admitted(g)' <=> Admitted(g)
  <2>1. CASE pc'[g] = pc[g]
    BY <2>1 DEF KeepsScrapes, Admitted, InSection
  <2>2. CASE {pc[g], pc'[g]} \cap (SectionPC \cup {"busyCheck"}) = {}
    BY <2>2 DEF Admitted, InSection
  <2> QED
    BY <2>1, <2>2 DEF KeepsScrapes
<1>2. ASSUME NEW g \in Scrapers, Admitted(g)
      PROVE  pc'[g] = pc[g] /\ job'[g] = job[g]
  <2>1. pc[g] \in SectionPC \cup {"busyCheck"}
    BY <1>2 DEF Admitted, InSection
  <2> QED
    BY <2>1 DEF KeepsScrapes
<1>3. ASSUME NEW g \in Scrapers, Admitted(g)
      PROVE  PhaseAt(g)' = PhaseAt(g) /\ (Unbegun(g)' <=> Unbegun(g))
  BY <1>2, <1>3 DEF PhaseAt, Unbegun
<1>4. UNCHANGED <<log, scrapes>>
  BY DEF KeepsScrapes
<1> QED
  BY <1>1, <1>3, <1>4, Unnoticed

LEMMA QuietSteps ==
    ASSUME TypeInv,
           StartLoop \/ OnDemand \/ (World /\ ~Crash) \/ UNCHANGED vars
           \/ \E g \in Scrapers : Lock(g)
    PROVE  KeepsScrapes /\ (paused' = paused \/ Pause \/ Resume) /\ paused' \in BOOLEAN
<1> USE DEF TypeInv, TypeOK, PCOK, KeepsScrapes, IntervalPC, OnDemandPC, SectionPC, Goto
<1>1. CASE StartFails
  BY <1>1 DEF StartFails
<1>2. CASE Boot
  BY <1>2 DEF Boot
<1>3. CASE Resuming
  BY <1>3 DEF Resuming
<1>4. CASE ArmFirst
  BY <1>4 DEF ArmFirst
<1>5. CASE TimerFires
  BY <1>5 DEF TimerFires
<1>6. CASE StartReturns
  BY <1>6 DEF StartReturns
<1>7. CASE Reschedule
  BY <1>7 DEF Reschedule
<1>8. CASE PruneOpen
  BY <1>8 DEF PruneOpen
<1>9. CASE PruneNext
  BY <1>9 DEF PruneNext
<1>10. CASE PrunePurge
  BY <1>10 DEF PrunePurge
<1>11. CASE PruneFails
  BY <1>11 DEF PruneFails
<1>12. ASSUME NEW g \in Scrapers, Lock(g)
       PROVE  KeepsScrapes /\ paused' = paused /\ paused' \in BOOLEAN
  BY <1>12 DEF Lock
<1>13. CASE TakeTrigger
  BY <1>13 DEF TakeTrigger
<1>14. CASE Respond
  BY <1>14 DEF Respond
<1>15. CASE SendTrigger
  BY <1>15 DEF SendTrigger
<1>16. CASE Pause
  BY <1>16 DEF Pause
<1>17. CASE Resume
  BY <1>17 DEF Resume
<1>18. CASE Cancel
  BY <1>18 DEF Cancel
<1>19. CASE Tick
  BY <1>19 DEF Tick
<1>20. CASE UNCHANGED vars
  BY <1>20 DEF vars
<1> QED
  BY <1>1, <1>2, <1>3, <1>4, <1>5, <1>6, <1>7, <1>8, <1>9, <1>10, <1>11, <1>12, <1>13, <1>14, <1>15, <1>16, <1>17, <1>18, <1>19, <1>20 DEF StartLoop, OnDemand, World

-----------------------------------------------------------------------------

\* A message reaches the sink, or none.
LEMMA Sends ==
    ASSUME TypeInv, NEW g \in Scrapers, NEW token, Grows(g, token)
    PROVE  Published' = Published \/ Published' = Append(Published, job[g].scrape)
<1>1. CASE UNCHANGED log
  BY <1>1 DEF Published
<1>2. CASE Publish(g, token)
  <2> DEFINE m == Message(token, job[g].epoch, job[g].scrape)
             n == job[g].scrape
  <2>1. PICK k \in Nat : k = Len(log)
    BY StreamTypes
  <2>2. log' = Append(log, m) /\ m.scrape = n /\ n \in Nat
    BY <1>2, StreamTypes DEF Publish, Message
  <2>3. /\ Len(log') = k + 1 /\ log'[k + 1] = m
        /\ \A i \in 1..k : log'[i] = log[i]
    BY <2>1, <2>2 DEF TypeInv, TypeOK
  <2>4. Published \in Seq(Nat) /\ Len(Published) = k
    BY <2>1, StreamTypes DEF Published
  <2>5. /\ Append(Published, n) \in Seq(Nat) /\ Len(Append(Published, n)) = k + 1
        /\ Append(Published, n)[k + 1] = n
        /\ \A i \in 1..k : Append(Published, n)[i] = Published[i]
    BY <2>2, <2>4, AppendProperties
  <2>6. \A i \in 1..(k + 1) : log'[i].scrape = Append(Published, n)[i]
    <3> TAKE i \in 1..(k + 1)
    <3>1. CASE i = k + 1
      BY <2>2, <2>3, <2>5, <3>1
    <3>2. CASE i \in 1..k
      BY <2>1, <2>3, <2>5, <3>2 DEF Published
    <3>3. 1..(k + 1) = 1..k \cup {k + 1}
      OBVIOUS
    <3> QED
      BY <3>1, <3>2, <3>3
  <2>7. Published' = [i \in 1..(k + 1) |-> log'[i].scrape]
    BY <2>3 DEF Published
  <2>8. Append(Published, n) = [i \in 1..(k + 1) |-> Append(Published, n)[i]]
    BY <2>5
  <2> QED
    BY <2>6, <2>7, <2>8
<1> QED
  BY <1>1, <1>2 DEF Grows

\* A step of the goroutine whose scrape is admitted, and which stays so.
LEMMA SectionStep ==
    ASSUME OneScrapeAtATime, OneScrapeAtATime', Seen, Seen',
           NEW g \in Scrapers, InSection(g), InSection(g)'
    PROVE  SeenOf(g) /\ SeenOf(g)' /\ Owner = g /\ Owner' = g
<1>1. Admitted(g) /\ Admitted(g)'
  BY DEF Admitted
<1>2. SeenOf(g) /\ SeenOf(g)'
  BY <1>1 DEF Seen
<1> QED
  BY <1>2 DEF SeenOf

LEMMA ContractStep ==
    TypeInv /\ OneScrapeAtATime /\ OneScrapeAtATime' /\ StreamInv /\ [Next]_vars
        => [Contract!ContractNext]_(Contract!contractVars)
<1> SUFFICES ASSUME TypeInv, OneScrapeAtATime, OneScrapeAtATime', StreamInv, [Next]_vars
             PROVE  Contract!ContractNext \/ UNCHANGED Contract!contractVars
  BY DEF Contract!contractVars
<1> DEFINE Step == Contract!ContractNext \/ UNCHANGED Contract!contractVars
<1>0. /\ Seen /\ Seen'
      /\ pc \in [Scrapers -> IntervalPC \cup OnDemandPC \cup {"call"} \cup LockedPC \cup SectionPC]
      /\ job \in [Scrapers -> JobType] /\ paused \in BOOLEAN
  BY SeenHolds, SeenNext DEF TypeInv, TypeOK, PCOK
\* Steps nobody sees, but for a pause or a resume.
<1>1. ASSUME UNCHANGED <<Owner, Runs, Phase, Published>>, paused' \in BOOLEAN PROVE Step
  BY <1>1 DEF Contract!ContractNext, Contract!Switch, Published
<1>2. CASE StartLoop \/ OnDemand \/ (World /\ ~Crash) \/ UNCHANGED vars \/ \E g \in Scrapers : Lock(g)
  BY <1>0, <1>1, <1>2, QuietSteps, KeptUnnoticed
<1>3. ASSUME NEW g \in Scrapers, CheckPaused(g) PROVE Step
  <2>1. /\ pc[g] = "pauseCheck" /\ \A h \in Scrapers : h # g => pc'[h] = pc[h]
        /\ UNCHANGED <<paused, scraping, job, log, scrapes>>
    BY <1>0, <1>3 DEF CheckPaused, Goto
  <2>2. CASE pc'[g] = Caller(g)
    <3>1. KeepsScrapes
      BY <2>1, <2>2 DEF KeepsScrapes, Caller, SectionPC
    <3> QED
      BY <1>0, <1>1, <2>1, <3>1, KeptUnnoticed
  <2>3. CASE pc'[g] = "busyCheck" /\ scraping
    <3>1. ~Admitted(g) /\ ~Admitted(g)'
      BY <2>1, <2>3 DEF Admitted, InSection, SectionPC
    <3>2. \A h \in Scrapers : (Admitted(h)' <=> Admitted(h)) /\
             (Admitted(h) => PhaseAt(h)' = PhaseAt(h) /\ (Unbegun(h)' <=> Unbegun(h)))
      BY <2>1, <3>1 DEF Admitted, InSection, PhaseAt, Unbegun
    <3>3. UNCHANGED <<Owner, Runs, Phase, Published>>
      BY <1>0, <2>1, <3>2, Unnoticed
    <3> QED
      BY <1>0, <1>1, <2>1, <3>3
  <2>4. CASE pc'[g] = "busyCheck" /\ ~scraping /\ ~paused
    <3>1. \A h \in Scrapers : ~Admitted(h)
      BY <2>1, <2>4 DEF OneScrapeAtATime, Admitted, InSection, LockedPC, SectionPC
    <3>2. Owner = Nobody /\ Phase = "closed" /\ Runs = Len(scrapes)
      BY <1>0, <3>1 DEF Seen
    <3>3. SeenOf(g)'
      BY <1>0, <2>1, <2>4 DEF Seen, Admitted
    <3>4. Owner' = g /\ Phase' = "opening" /\ Runs' = Len(scrapes) + 1
      BY <2>1, <2>4, <3>3 DEF SeenOf, PhaseAt, Unbegun
    <3>5. Published' = Published
      BY <2>1 DEF Published
    <3>6. Contract!Admit(g)
      BY <2>1, <2>4, <3>2, <3>4, <3>5 DEF Contract!Admit, Published
    <3> QED
      BY <3>6 DEF Contract!ContractNext
  <2> QED
    BY <1>0, <1>3, <2>2, <2>3, <2>4 DEF CheckPaused, Goto
<1>4. ASSUME NEW g \in Scrapers, CheckBusy(g) PROVE Step
  <2>1. /\ pc[g] = "busyCheck" /\ \A h \in Scrapers : h # g => pc'[h] = pc[h]
        /\ UNCHANGED <<paused, job, log, scrapes>>
    BY <1>0, <1>4 DEF CheckBusy, Goto
  <2>2. CASE scraping /\ scraping' = scraping /\ pc'[g] = Caller(g)
    <3>1. ~Admitted(g) /\ ~Admitted(g)'
      BY <2>1, <2>2 DEF Admitted, InSection, SectionPC, Caller
    <3>2. \A h \in Scrapers : (Admitted(h)' <=> Admitted(h)) /\
             (Admitted(h) => PhaseAt(h)' = PhaseAt(h) /\ (Unbegun(h)' <=> Unbegun(h)))
      BY <2>1, <2>2, <3>1 DEF Admitted, InSection, PhaseAt, Unbegun
    <3>3. UNCHANGED <<Owner, Runs, Phase, Published>>
      BY <1>0, <2>1, <3>2, Unnoticed
    <3> QED
      BY <1>0, <1>1, <2>1, <3>3
  <2>3. CASE ~scraping /\ pc'[g] = "begin"
    <3>1. Admitted(g) /\ Admitted(g)'
      BY <2>1, <2>3 DEF Admitted, InSection, SectionPC
    <3>2. \A h \in Scrapers : h # g => ~Admitted(h) /\ ~Admitted(h)'
      BY <3>1, OneAdmitted, <2>1, <2>3 DEF OneScrapeAtATime, Admitted, InSection, LockedPC, SectionPC
    <3>3. PhaseAt(g)' = PhaseAt(g) /\ Unbegun(g)' /\ Unbegun(g)
      BY <2>1, <2>3 DEF PhaseAt, Unbegun
    <3>4. UNCHANGED <<Owner, Runs, Phase, Published>>
      BY <1>0, <2>1, <3>1, <3>2, <3>3, Unnoticed
    <3> QED
      BY <1>0, <1>1, <2>1, <3>4
  <2> QED
    BY <1>0, <1>4, <2>2, <2>3 DEF CheckBusy, Goto
<1>5. ASSUME NEW g \in Scrapers, Begin(g) PROVE Step
  <2>1. /\ pc[g] = "begin" /\ pc'[g] = "discover"
        /\ UNCHANGED <<paused, log>> /\ Len(scrapes') = Len(scrapes) + 1
    BY <1>0, <1>5 DEF Begin, Goto, TypeInv, TypeOK
  <2>2. InSection(g) /\ InSection(g)'
    BY <2>1 DEF InSection, SectionPC
  <2>3. SeenOf(g) /\ SeenOf(g)' /\ Owner = g /\ Owner' = g
    BY <1>0, <2>2, SectionStep
  <2>4. UNCHANGED <<Owner, Runs, Phase, Published>>
    BY <2>1, <2>3 DEF SeenOf, PhaseAt, Unbegun, Published
  <2> QED
    BY <1>0, <1>1, <2>1, <2>4
<1>6. ASSUME NEW g \in Scrapers, Discover(g) PROVE Step
  <2>1. /\ pc[g] = "discover" /\ UNCHANGED <<paused, log, scrapes>>
        /\ (pc'[g] = "start" \/ (pc'[g] = "leave" /\ job'[g].result = "error"))
    <3>1. /\ pc[g] = "discover" /\ UNCHANGED <<paused, log, scrapes>>
          /\ Goto(g, "start") \/ (Goto(g, "leave") /\ job' = [job EXCEPT ![g].result = "error"])
      BY <1>6 DEF Discover
    <3>2. job' = [job EXCEPT ![g].result = "error"] => job'[g].result = "error"
      <4>1. PICK new : new = [job[g] EXCEPT !.result = "error"] /\ new.result = "error"
        BY <1>0, FailedJob
      <4>2. job' = [job EXCEPT ![g].result = "error"] => job' = [job EXCEPT ![g] = new]
        BY <4>1
      <4> QED
        BY <1>0, <4>1, <4>2
    <3> QED
      BY <1>0, <3>1, <3>2 DEF Goto
  <2>2. InSection(g) /\ InSection(g)'
    BY <2>1 DEF InSection, SectionPC
  <2>3. SeenOf(g) /\ SeenOf(g)' /\ Owner = g /\ Owner' = g
    BY <1>0, <2>2, SectionStep
  <2>4. UNCHANGED <<Owner, Runs, Phase, Published>>
    BY <2>1, <2>3 DEF SeenOf, PhaseAt, Unbegun, Published
  <2> QED
    BY <1>0, <1>1, <2>1, <2>4
\* The messages of the open scrape, which is the newest.
<1>7. ASSUME NEW g \in Scrapers, NEW token, Grows(g, token),
             pc[g] \in {"start", "collect", "end"}, InSection(g)',
             UNCHANGED <<paused, scrapes>>, ~Unbegun(g)'
      PROVE  /\ Owner = g /\ Owner' = g /\ g # Nobody
             /\ Runs' = Runs /\ Phase = PhaseAt(g) /\ Phase' = PhaseAt(g)'
             /\ Published' = Published \/ Published' = Append(Published, Runs)
  <2>1. InSection(g) /\ ~Unbegun(g)
    BY <1>7 DEF InSection, SectionPC, Unbegun
  <2>2. SeenOf(g) /\ SeenOf(g)' /\ Owner = g /\ Owner' = g
    BY <1>0, <1>7, <2>1, SectionStep
  <2>3. job[g].scrape = Len(scrapes)
    BY <1>7, <2>1 DEF StreamInv, OpenInv
  <2>4. Runs = Len(scrapes) /\ Runs' = Runs
    BY <1>7, <2>1, <2>2 DEF SeenOf
  <2> QED
    BY <1>7, <2>2, <2>3, <2>4, Sends DEF SeenOf
<1>8. ASSUME NEW g \in Scrapers, PublishStart(g) PROVE Step
  <2>1. /\ Grows(g, "start") /\ UNCHANGED <<paused, scrapes>>
        /\ pc[g] = "start" /\ pc'[g] = "collect"
    BY <1>0, <1>8 DEF PublishStart, PublishMarker, Grows, Goto
  <2>2. Phase = "opening" /\ Phase' = "body" /\ Owner = g /\ Owner' = g /\ g # Nobody
        /\ Runs' = Runs /\ (Published' = Published \/ Published' = Append(Published, Runs))
    BY <1>7, <2>1 DEF PhaseAt, InSection, SectionPC, Unbegun
  <2>3. Contract!SendStart
    BY <2>1, <2>2 DEF Contract!SendStart, Contract!MaySend, Published
  <2> QED
    BY <2>3 DEF Contract!ContractNext
<1>9. ASSUME NEW g \in Scrapers, Collect(g) PROVE Step
  <2>1. /\ Grows(g, Token(job[g].next)) /\ UNCHANGED <<paused, scrapes>>
        /\ pc[g] = "collect" /\ pc'[g] \in {"collect", "end"}
    BY <1>0, <1>9 DEF Collect, CollectIf, Grows, Goto
  <2>2. Phase = "body" /\ Phase' = "body" /\ Owner = g /\ Owner' = g /\ g # Nobody
        /\ Runs' = Runs /\ (Published' = Published \/ Published' = Append(Published, Runs))
    BY <1>7, <2>1 DEF PhaseAt, InSection, SectionPC, Unbegun
  <2>3. Contract!SendData
    BY <2>1, <2>2 DEF Contract!SendData, Contract!MaySend, Published
  <2> QED
    BY <2>3 DEF Contract!ContractNext
<1>10. ASSUME NEW g \in Scrapers, PublishEnd(g) PROVE Step
  <2>1. /\ Grows(g, "end") /\ UNCHANGED <<paused, scrapes>>
        /\ pc[g] = "end" /\ pc'[g] = "leave" /\ job'[g].result = "ok"
    BY <1>0, <1>10 DEF PublishEnd, EndScrape, PublishMarker, Grows, Goto, JobType
  <2>2. Phase = "body" /\ Phase' = "closed" /\ Owner = g /\ Owner' = g /\ g # Nobody
        /\ Runs' = Runs /\ (Published' = Published \/ Published' = Append(Published, Runs))
    BY <1>7, <2>1 DEF PhaseAt, InSection, SectionPC, Unbegun
  <2>3. Contract!SendEnd
    BY <2>1, <2>2 DEF Contract!SendEnd, Contract!MaySend, Published
  <2> QED
    BY <2>3 DEF Contract!ContractNext
<1>11. ASSUME NEW g \in Scrapers, Leave(g) PROVE Step
  <2>1. /\ pc[g] = "leave" /\ pc'[g] = Caller(g) /\ \A h \in Scrapers : h # g => pc'[h] = pc[h]
        /\ mu = Nobody /\ UNCHANGED <<paused, job, log, scrapes>>
    BY <1>0, <1>11 DEF Leave, Goto
  <2>2. InSection(g)
    BY <2>1 DEF InSection, SectionPC
  <2>3. Owner = g /\ Phase \in {"opening", "closed"} /\ Runs = Len(scrapes) /\ g # Nobody
    BY <1>0, <2>1, <2>2 DEF Seen, SeenOf, Admitted, PhaseAt, Unbegun
  <2>4. \A h \in Scrapers : ~Admitted(h)'
    BY <2>1, <2>2 DEF OneScrapeAtATime, Admitted, InSection, SectionPC, LockedPC, Caller
  <2>5. Owner' = Nobody /\ Phase' = "closed" /\ Runs' = Len(scrapes)
    BY <1>0, <2>1, <2>4 DEF Seen
  <2>6. Contract!Finish
    BY <2>1, <2>3, <2>5 DEF Contract!Finish
  <2> QED
    BY <2>6 DEF Contract!ContractNext
<1>12. CASE Crash
  <2>1. \A h \in Scrapers : ~Admitted(h)'
    BY <1>12, FreshTypes DEF Crash, Admitted, InSection, SectionPC
  <2>2. UNCHANGED <<log, scrapes>> /\ paused' = FALSE
    BY <1>12 DEF Crash
  <2>3. Owner' = Nobody /\ Phase' = "closed" /\ Runs' = Len(scrapes)
    BY <1>0, <2>1, <2>2 DEF Seen
  <2>4. Runs = Len(scrapes) \/ (Phase = "opening" /\ Runs - 1 = Len(scrapes))
    <3>1. ASSUME NEW g \in Scrapers, Admitted(g)
          PROVE  Runs = Len(scrapes) \/ (Phase = "opening" /\ Runs - 1 = Len(scrapes))
      <4>1. SeenOf(g)
        BY <1>0, <3>1 DEF Seen
      <4>2. PICK n \in Nat : n = Len(scrapes)
        BY StreamTypes
      <4>3. CASE Unbegun(g)
        <5>1. PhaseAt(g) = "opening"
          BY <4>3 DEF Unbegun, PhaseAt
        <5>2. Runs = n + 1 /\ Phase = "opening"
          BY <4>1, <4>2, <4>3, <5>1 DEF SeenOf
        <5> QED
          BY <4>2, <5>2
      <4>4. CASE ~Unbegun(g)
        BY <4>1, <4>4 DEF SeenOf
      <4> QED
        BY <4>3, <4>4
    <3>2. ASSUME \A g \in Scrapers : ~Admitted(g) PROVE Runs = Len(scrapes)
      BY <1>0, <3>2 DEF Seen
    <3> QED
      BY <3>1, <3>2
  <2>5. Contract!Restart
    BY <2>2, <2>3, <2>4 DEF Contract!Restart
  <2> QED
    BY <2>5 DEF Contract!ContractNext
<1> QED
  BY <1>2, <1>3, <1>4, <1>5, <1>6, <1>8, <1>9, <1>10, <1>11, <1>12 DEF Next, DoScrape, World

LEMMA ContractInits == Init => Contract!ContractInit
<1> SUFFICES ASSUME Init PROVE Contract!ContractInit
  OBVIOUS
<1>1. Seen
  BY OneScrapeInit, SeenHolds
<1>2. \A g \in Scrapers : ~Admitted(g)
  BY FreshTypes DEF Init, Admitted, InSection, SectionPC
<1>3. Owner = Nobody /\ Phase = "closed" /\ Runs = 0
  BY <1>1, <1>2 DEF Seen, Init
<1>4. [i \in 1..Len(log) |-> log[i].scrape] = <<>>
  BY DEF Init
<1> QED
  BY <1>3, <1>4 DEF Contract!ContractInit, Init

\* The runner implements the contract: whatever mutexes, timer, prune, service
\* and crashes do, those who pause it and those who read its sink see scrapes
\* one at a time, none admitted while paused, each between its markers
\* (runner.go:154-290).
THEOREM RunnerImplementsContract == Spec => ImplementsContract
<1>1. OneScrapeAtATime /\ [Next]_vars /\ TypeInv => OneScrapeAtATime'
  BY OneScrapeStep
<1> QED
  BY <1>1, TypeInvariant, MutualExclusion, StreamInvariant, ContractInits, ContractStep, PTL
     DEF Spec, ImplementsContract, Contract!ContractSpec
=============================================================================
