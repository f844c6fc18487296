---------------------------- MODULE PagingProofs ----------------------------
(***************************************************************************)
(* For any servers, page size and number of entries, however the answers   *)
(* to the pages are ordered, repeated, delayed or missing, and however the *)
(* listings change between them: no place of a listing is read by two      *)
(* pages, every further page is nearer to the end of the longest listing   *)
(* there can be, and the server that has the last word is read to its end. *)
(***************************************************************************)
EXTENDS Paging, TLAPS

USE PagingAssumption DEF LoopKinds

\* What a collector asks for is a positive number of entries.
LEMMA LimitType ==
    ASSUME NEW l, NEW given \in OptionLimits, InRange(l, given)
    PROVE  RequestLimit(l, given) \in Nat \ {0}
BY DEF InRange, RequestLimit

LEMMA TypeInit == Init => TypeOK
<1> SUFFICES ASSUME Init PROVE TypeOK
  OBVIOUS
<1>1. limit \in Nat \ {0}
  BY LimitType DEF Init
<1>2. rows \in [Servers -> 0..MaxRows] /\ changes \in 0..MaxChanges
  BY DEF Init
<1>3. loop \in Loops /\ pc = "ask" /\ offset = 0 /\ result = {} /\ last = NoAnswer /\ failed = FALSE
  BY DEF Init
<1> QED
  BY <1>1, <1>2, <1>3 DEF TypeOK

LEMMA StepType == TypeOK => Step \in Nat /\ Step >= limit /\ Step <= limit + 1
BY DEF TypeOK, Step

\* What a server answers.
LEMMA ReplyType ==
    ASSUME TypeOK, Reply
    PROVE  /\ last' \in Answer /\ last'.offset = offset
           /\ \A a \in result' : a \in result \/ a = last'
<1>1. PICK s \in Servers : last' = [from |-> s, offset |-> offset, total |-> rows[s]]
  BY DEF Reply
<1>2. rows[s] \in Nat /\ offset \in Nat
  BY DEF TypeOK
<1> QED
  BY <1>1, <1>2 DEF Reply, Answer

LEMMA TypeStep == TypeOK /\ [Next]_vars => TypeOK'
<1> SUFFICES ASSUME TypeOK, [Next]_vars PROVE TypeOK'
  OBVIOUS
<1> USE DEF input, world
<1>1. CASE Ask
  BY <1>1 DEF Ask, TypeOK
<1>2. CASE Reply
  <2>1. result' \subseteq Answer /\ last' \in Answer
    BY <1>2, ReplyType DEF TypeOK
  <2> QED
    BY <1>2, <2>1 DEF Reply, TypeOK
<1>3. CASE PageEnds
  BY <1>3, StepType DEF PageEnds, TypeOK
<1>4. CASE PageFails
  BY <1>4 DEF PageFails, TypeOK
<1>5. CASE Change
  <2>1. rows' \in [Servers -> 0..MaxRows] /\ changes' \in 0..MaxChanges
    BY <1>5 DEF Change, TypeOK
  <2> QED
    BY <1>5, <2>1 DEF Change, TypeOK
<1>6. CASE Terminated \/ UNCHANGED vars
  BY <1>6 DEF Terminated, vars, TypeOK
<1> QED
  BY <1>1, <1>2, <1>3, <1>4, <1>5, <1>6 DEF Next

\* Type correctness for every instance.
THEOREM TypeCorrect == Spec => []TypeOK
BY TypeInit, TypeStep, PTL DEF Spec

-----------------------------------------------------------------------------
(* Every page begins at a multiple of the step, and the last answer reaches  *)
(* to the end of what it is a page of. This is inductive, which neither of   *)
(* the invariants is: pages yet to come could overlap an old one, or leave   *)
(* something out.                                                            *)

PagesInStep ==
    /\ \E k \in Nat : offset = k * Step
    /\ \A a \in result : \E k \in Nat : a.offset = k * Step
    /\ pc # "ask" /\ ~failed /\ last # NoAnswer => last \in result
    /\ pc = "returned" /\ ~failed => ~More

LEMMA StepInit == Init => PagesInStep
<1> SUFFICES ASSUME Init PROVE PagesInStep
  OBVIOUS
<1>1. Step \in Nat
  BY TypeInit, StepType
<1>2. 0 \in Nat /\ offset = 0 * Step
  BY <1>1 DEF Init
<1> QED
  BY <1>2 DEF Init, PagesInStep

LEMMA StepStep == TypeOK /\ PagesInStep /\ [Next]_vars => PagesInStep'
<1> SUFFICES ASSUME TypeOK, PagesInStep, [Next]_vars PROVE PagesInStep'
  OBVIOUS
<1> USE DEF input, world
<1>0. Step' = Step /\ Step \in Nat
  <2>1. UNCHANGED input
    BY DEF Next, Ask, Reply, PageEnds, PageFails, Change, Terminated, vars
  <2> QED
    BY <2>1, StepType DEF Step
<1>1. CASE Ask
  BY <1>0, <1>1 DEF Ask, PagesInStep
<1>2. CASE Reply
  BY <1>0, <1>2, ReplyType DEF Reply, PagesInStep
<1>3. CASE PageEnds
  <2>1. PICK q \in Nat : offset = q * Step
    BY DEF PagesInStep
  <2>2. \E k \in Nat : offset' = k * Step
    <3>1. CASE offset' = offset
      BY <2>1, <3>1
    <3>2. CASE offset' = offset + Step
      <4>1. q + 1 \in Nat /\ (q + 1) * Step = q * Step + Step
        BY <1>0
      <4> QED
        BY <2>1, <3>2, <4>1
    <3> QED
      BY <1>3, <3>1, <3>2 DEF PageEnds
  <2>3. UNCHANGED <<loop, limit, result, last, failed>> /\ pc = "waiting"
    BY <1>3 DEF PageEnds
  <2>4. pc' = "returned" => ~More'
    BY <1>3, <2>3 DEF PageEnds, More
  <2> QED
    BY <1>0, <2>2, <2>3, <2>4 DEF PagesInStep
<1>4. CASE PageFails
  BY <1>0, <1>4 DEF PageFails, PagesInStep
<1>5. CASE Change
  BY <1>0, <1>5 DEF Change, PagesInStep, More
<1>6. CASE Terminated \/ UNCHANGED vars
  BY <1>0, <1>6 DEF Terminated, vars, PagesInStep, More
<1> QED
  BY <1>1, <1>2, <1>3, <1>4, <1>5, <1>6 DEF Next

\* Arithmetic of the pages: an entry lies in the page its quotient names, at
\* its remainder, and in no other.
LEMMA Quotient ==
    ASSUME NEW r \in Nat, NEW s \in Nat, s > 0
    PROVE  r \div s \in Nat /\ r % s \in 0..(s - 1) /\ r = (r \div s) * s + (r % s)
OBVIOUS

LEMMA QuotientOf ==
    ASSUME NEW s \in Nat, s > 0, NEW q \in Nat
    PROVE  (q * s) \div s = q
OBVIOUS

LEMMA Multiples ==
    ASSUME NEW s \in Nat, NEW p \in Nat, NEW q \in Nat, p < q
    PROVE  p * s \in Nat /\ q * s \in Nat /\ p * s + s <= q * s
OBVIOUS

\* No place of a listing is read by two pages: they begin a step apart, which
\* is no less than they hold (collectors.go:106, 134, 185).
THEOREM NoEntryTwice == Spec => []PagesAreDisjoint
<1>1. TypeOK /\ PagesInStep => PagesAreDisjoint
  <2> SUFFICES ASSUME TypeOK, PagesInStep, NEW a \in result, NEW b \in result,
                      a.offset # b.offset
               PROVE  Entries(a) \cap Entries(b) = {}
    BY DEF PagesAreDisjoint
  <2>1. PICK st \in Nat : st = Step /\ st >= limit
    BY StepType
  <2>2. PICK p \in Nat : a.offset = p * st
    BY <2>1 DEF PagesInStep
  <2>3. PICK q \in Nat : b.offset = q * st
    BY <2>1 DEF PagesInStep
  <2>4. /\ a.offset \in Nat /\ b.offset \in Nat
        /\ a.offset + st <= b.offset \/ b.offset + st <= a.offset
    <3>1. p < q \/ q < p
      BY <2>2, <2>3
    <3> QED
      BY <2>1, <2>2, <2>3, <3>1, Multiples
  <2>5. limit \in Nat /\ a.total \in Nat /\ b.total \in Nat
    BY DEF TypeOK, Answer
  <2> QED
    BY <2>1, <2>4, <2>5 DEF Entries
<1> QED
  BY <1>1, TypeInit, TypeStep, StepInit, StepStep, PTL DEF Spec

-----------------------------------------------------------------------------
(* That paging ends is liveness, which PagingEnds states and TLC checks. The *)
(* reason why it does is an action property.                                 *)

\* Another page is asked for only while the page before does not reach to
\* where the longest listing there can be ends, and it begins further on by as
\* many entries as were asked for: there are no more pages than MaxRows has
\* room for (collectors.go:101-106, 129-134, 180-185).
PagesAdvance ==
    [][pc = "waiting" /\ pc' = "ask" =>
          offset + limit < MaxRows /\ offset' >= offset + limit /\ limit' = limit]_vars

\* No total is larger than a listing can be.
TotalsInReach == last.total \in 0..MaxRows

\* However listings change and answers are lost, paging cannot go on for ever.
THEOREM PagingAdvances == Spec => PagesAdvance
<1> USE DEF input, world
<1>1. Init => TotalsInReach
  BY DEF Init, TotalsInReach, NoAnswer
<1>2. TypeOK /\ TotalsInReach /\ [Next]_vars => TotalsInReach'
  <2> SUFFICES ASSUME TypeOK, TotalsInReach, [Next]_vars PROVE TotalsInReach'
    OBVIOUS
  <2>1. CASE Reply
    <3>1. PICK s \in Servers : last'.total = rows[s]
      BY <2>1 DEF Reply
    <3> QED
      BY <3>1 DEF TypeOK, TotalsInReach
  <2>2. CASE UNCHANGED last \/ last' = NoAnswer
    BY <2>2 DEF TotalsInReach, NoAnswer
  <2> QED
    BY <2>1, <2>2 DEF Next, Ask, PageEnds, PageFails, Change, Terminated, vars
<1>3. TypeOK /\ TotalsInReach /\ [Next]_vars =>
         [pc = "waiting" /\ pc' = "ask" =>
             offset + limit < MaxRows /\ offset' >= offset + limit /\ limit' = limit]_vars
  <2> SUFFICES ASSUME TypeOK, TotalsInReach, [Next]_vars, pc = "waiting", pc' = "ask"
               PROVE  offset + limit < MaxRows /\ offset' >= offset + limit /\ limit' = limit
    OBVIOUS
  <2>1. PageEnds
    BY DEF Next, Ask, Reply, PageFails, Change, Terminated, vars
  <2>2. last.total > offset + limit /\ offset' = offset + Step /\ limit' = limit
    BY <2>1 DEF PageEnds, More
  <2>3. offset \in Nat /\ limit \in Nat /\ last.total \in Nat /\ last.total <= MaxRows
    BY DEF TypeOK, TotalsInReach
  <2> QED
    BY <2>2, <2>3, StepType
<1> QED
  BY <1>1, <1>2, <1>3, TypeInit, TypeStep, PTL DEF Spec, PagesAdvance

-----------------------------------------------------------------------------

\* What the pages of a server from the first to the last, q, hold of it.
LEMMA PagesCover ==
    ASSUME TypeOK, PagesInStep, NEW s \in Servers, AnsweredEveryPage(s), Steady(s),
           loop # "once", rows[s] <= offset + limit
    PROVE  (0..(rows[s] - 1)) \ Gathered(s)
             = {r \in 0..(rows[s] - 1) : loop \in {"connz", "subsz"} /\ r % Step = limit}
<1>1. PICK m \in Nat : offset = m * Step
  BY DEF PagesInStep
<1>2. PICK st \in Nat : st = Step
  BY StepType
<1>3. PICK l \in Nat : l = limit /\ l > 0
  BY DEF TypeOK
<1>4. \/ loop \in {"connz", "subsz"} /\ st = l + 1
      \/ loop \notin {"connz", "subsz"} /\ st = l
  BY <1>2, <1>3 DEF Step
<1>5. PICK n \in Nat : n = rows[s]
  BY DEF TypeOK
<1>6. n <= m * st + l /\ m * st \in Nat /\ st > 0
  BY <1>1, <1>2, <1>3, <1>4, <1>5
<1>7. offset \div Step = m
  BY <1>1, <1>2, <1>6, QuotientOf
<1>8. SUFFICES ASSUME NEW r \in 0..(n - 1)
               PROVE  r \notin Gathered(s) <=> loop \in {"connz", "subsz"} /\ r % st = l
  BY <1>2, <1>3, <1>5
<1>9. PICK q \in Nat, p \in 0..(st - 1) : p = r % st /\ r = q * st + p /\ q * st \in Nat
  <2>1. r \in Nat
    BY <1>8
  <2>2. PICK a \in Nat, b \in 0..(st - 1) : a = r \div st /\ b = r % st
    BY <1>6, <2>1, Quotient
  <2>3. r = a * st + b /\ a * st \in Nat
    BY <1>6, <2>1, <2>2, Quotient
  <2> QED
    BY <2>2, <2>3
<1>10. CASE p < l
  <2>1. q <= m
    <3> SUFFICES ASSUME m < q PROVE FALSE
      OBVIOUS
    <3>1. m * st + st <= q * st
      BY Multiples
    <3> QED
      BY <1>4, <1>6, <1>8, <1>9, <3>1
  <2>2. q \in 0..(offset \div Step)
    BY <1>7, <2>1
  <2>3. PICK a \in PagesOf(s) : a.offset = q * Step
    BY <2>2 DEF AnsweredEveryPage
  <2>4. a.offset = q * st /\ a.total = n
    BY <1>2, <1>5, <2>3 DEF Steady
  <2>5. r \in Entries(a)
    BY <1>3, <1>8, <1>9, <1>10, <2>4 DEF Entries
  <2>6. r \in Gathered(s)
    BY <2>5 DEF Gathered
  <2> QED
    BY <1>9, <1>10, <2>6
<1>11. CASE ~(p < l)
  <2>1. p = l /\ st = l + 1 /\ loop \in {"connz", "subsz"}
    BY <1>4, <1>9, <1>11
  <2>2. ASSUME r \in Gathered(s) PROVE FALSE
    <3>1. PICK a \in PagesOf(s) : r \in Entries(a)
      BY <2>2 DEF Gathered
    <3>2. PICK k \in Nat : a.offset = k * st
      BY <1>2 DEF PagesInStep, PagesOf
    <3>3. k * st <= r /\ r < k * st + l
      BY <1>3, <3>1, <3>2 DEF Entries
    <3>4. CASE k <= q
      <4>1. k * st \in Nat /\ k * st <= q * st
        BY <1>9, <3>4, Multiples
      <4>2. k < q \/ k = q
        BY <3>4
      <4>3. CASE k = q
        BY <1>9, <2>1, <3>3, <4>3
      <4>4. CASE k < q
        BY <1>9, <2>1, <3>3, <4>1, <4>4, Multiples
      <4> QED
        BY <4>2, <4>3, <4>4
    <3>5. CASE q < k
      <4>1. k * st \in Nat /\ q * st + st <= k * st
        BY <3>5, Multiples
      <4> QED
        BY <1>9, <2>1, <3>3, <4>1
    <3> QED
      BY <3>4, <3>5
  <2> QED
    BY <1>9, <2>1, <2>2
<1> QED
  BY <1>10, <1>11

\* For every page size, the server that had the last word is read through, up
\* to the entry between two pages, if its listing stayed as it was
\* (collectors.go:101-106, 180-185).
THEOREM LastWordIsReadThrough == Spec => []DeciderIsReadThrough
<1>1. TypeOK /\ PagesInStep => DeciderIsReadThrough
  <2> DEFINE s == last.from
  <2> SUFFICES ASSUME TypeOK, PagesInStep,
                      pc = "returned", ~failed, loop # "once",
                      last # NoAnswer, AnsweredEveryPage(s), Steady(s)
               PROVE  (0..(rows[s] - 1)) \ Gathered(s)
                         = {r \in 0..(rows[s] - 1) :
                               loop \in {"connz", "subsz"} /\ r % Step = limit}
    BY DEF DeciderIsReadThrough
  <2>1. last \in PagesOf(s) /\ s \in Servers
    BY DEF PagesInStep, PagesOf, TypeOK, Answer
  <2>2. last.total = rows[s] /\ rows[s] \in Nat
    BY <2>1 DEF Steady, TypeOK
  <2>3. rows[s] <= offset + limit
    BY <2>2 DEF PagesInStep, More, TypeOK
  <2> HIDE DEF s
  <2> QED
    BY <2>1, <2>3, PagesCover
<1> QED
  BY <1>1, TypeInit, TypeStep, StepInit, StepStep, PTL DEF Spec
=============================================================================
