-------------------------- MODULE RequestorProofs --------------------------
(***************************************************************************)
(* For any servers, any filter, any list of calls and any coming and going *)
(* of servers: the filter is honoured by all three kinds of calls, and a   *)
(* call that returns early has the answers its caller takes it to have.    *)
(* And the inspector beside it prints the requests of one scrape, if one   *)
(* of the calls at most is a ping.                                         *)
(***************************************************************************)
EXTENDS RequestInspect, FiniteSetTheorems, SequenceTheorems, TLAPS

\* A request that names a server reaches no other, one that was not sent has
\* no replies, and a full one has as many as expected, from as many servers or
\* fewer.
LegOK(w) ==
    /\ w # Everyone => legs[w].asked \subseteq {w}
    /\ legs[w].state = "new" => legs[w].count = 0
    /\ legs[w].state = "full" => legs[w].count = expected /\ expected > 0
    /\ Cardinality(legs[w].got) <= legs[w].count
    /\ legs[w].count > 0 => legs[w].got # {}

\* Whom a call asks, and how many answers it expects from each.
AsksRightly(c, to, n) ==
    \/ c.op = "RequestOne"
    \/ targeted /\ c.subject = "endpoint" /\ to = ids /\ n = 1
    \/ targeted /\ to = {Everyone} /\ n = 0
    \/ ~targeted /\ to = {Everyone} /\ n \in {0, Cardinality(ids)}

\* The requests are those the call at `step' makes.
CallOK ==
    IF step = 0 THEN DOMAIN legs = {Everyone}
    ELSE \/ DOMAIN legs = {}
         \/ AsksRightly(Calls[step], DOMAIN legs, expected)

\* What a call has returned is what its requests gathered, and collection
\* begins with no answers.
ReturnOK ==
    /\ step > 0 => answers = Answers
    /\ step = 0 => answers = {}

\* Where calls are targeted the inventory is of included servers.
InventoryOK ==
    targeted /\ phase # "idle" /\ (step > 0 \/ phase = "returned") => inventory \subseteq ids

RequestorInv ==
    /\ TypeOK
    /\ \A w \in DOMAIN legs : LegOK(w)
    /\ phase = "returned" => ReturnOK
    /\ phase # "idle" => scrape > 0 /\ CallOK
    /\ phase # "idle" /\ (step > 0 \/ phase = "returned") => ids # {}
    /\ FilterHonoured /\ InventoryOK

-----------------------------------------------------------------------------

CallSet == [op : Ops, subject : Subjects]

LEMMA ConstantsOK ==
    /\ IsFiniteSet(Servers) /\ Cardinality(Servers) \in Nat /\ Everyone \notin Servers
    /\ Calls \in Seq(CallSet) /\ Len(Calls) \in Nat
    /\ MaxScrapes \in Nat
BY RequestorAssumption, FS_CardinalityType, LenProperties DEF CallSet

LEMMA Finite ==
    ASSUME NEW S \in SUBSET Servers
    PROVE  /\ IsFiniteSet(S) /\ Cardinality(S) \in Nat
           /\ Cardinality(S) <= Cardinality(Servers)
           /\ Cardinality(Servers) \in Nat
           /\ S # {} => Cardinality(S) > 0
           /\ Cardinality(S) = Cardinality(Servers) => S = Servers
BY ConstantsOK, FS_Subset, FS_CardinalityType, FS_EmptySet

LEMMA CallType ==
    ASSUME NEW n \in 1..Len(Calls)
    PROVE  Calls[n] \in CallSet
BY ConstantsOK, ElementOfSeq

\* The provers do arithmetic on numbers more readily than on lengths.
LEMMA NextCall ==
    ASSUME TypeOK, step < Len(Calls)
    PROVE  step + 1 \in 1..Len(Calls) /\ step + 1 > 0
<1>1. PICK n \in Nat : n = Len(Calls)
  BY ConstantsOK
<1>2. step \in 0..n /\ step < n
  BY <1>1 DEF TypeOK
<1>3. step + 1 \in 1..n
  BY <1>2
<1> QED
  BY <1>1, <1>3

LEMMA LegsType ==
    ASSUME NEW to
    PROVE  /\ DOMAIN Legs(to) = to
           /\ \A w \in to : Legs(to)[w] = NewLeg
BY DEF Legs

LEMMA NewLegType ==
    /\ NewLeg \in LegType /\ NewLeg.got = {} /\ NewLeg.asked = {} /\ NewLeg.state = "new"
    /\ NewLeg.count = 0 /\ Cardinality(NewLeg.got) = 0
BY FS_EmptySet DEF NewLeg, LegType

\* What a call asks, and how many answers it expects.
LEMMA CallsAreOK ==
    ASSUME RequestorInv, phase = "returned", step < Len(Calls),
           NEW to \in Destinations(Calls[step + 1])
    PROVE  /\ to \subseteq Servers \cup {Everyone}
           /\ targeted => to \subseteq ids \cup {Everyone}
           /\ Expected(Calls[step + 1]) \in -1..Cardinality(Servers)
           /\ AsksRightly(Calls[step + 1], to, Expected(Calls[step + 1]))
<1> DEFINE c == Calls[step + 1]
<1>1. c \in [op : Ops, subject : Subjects]
  BY CallType, NextCall DEF RequestorInv, CallSet
<1>2. ids \in SUBSET Servers /\ ids # {} /\ inventory \in SUBSET Servers /\ targeted \in BOOLEAN
      /\ step \in Nat
  BY DEF RequestorInv, TypeOK
<1>3. targeted => inventory \subseteq ids
  BY DEF RequestorInv, InventoryOK
<1>4. Cardinality(ids) \in 0..Cardinality(Servers) /\ Cardinality(Servers) \in Nat
      /\ Cardinality(ids) > 0
  BY <1>2, Finite
<1>5. Expected(c) \in -1..Cardinality(Servers)
  <2>1. Expected(c) \in {0, 1, Cardinality(ids)}
    BY <1>1, <1>2 DEF Expected, Ops
  <2> QED
    BY <1>4, <2>1
<1>6. CASE c.op = "RequestOne"
  <2>1. PICK s \in inventory : to = {s}
    BY <1>6 DEF Destinations
  <2> QED
    BY <1>2, <1>3, <1>5, <1>6, <2>1 DEF AsksRightly
<1>7. CASE c.op # "RequestOne" /\ targeted /\ c.subject = "endpoint"
  <2>1. to = ids
    BY <1>7 DEF Destinations
  <2>2. Expected(c) = 1
    BY <1>1, <1>7 DEF Expected, Ops
  <2> QED
    BY <1>2, <1>5, <1>7, <2>1, <2>2 DEF AsksRightly
<1>8. CASE c.op # "RequestOne" /\ ~(targeted /\ c.subject = "endpoint")
  <2>1. to = {Everyone}
    BY <1>8 DEF Destinations
  <2>2. IF targeted THEN Expected(c) = 0 ELSE Expected(c) \in {0, Cardinality(ids)}
    BY <1>1, <1>2, <1>8 DEF Expected, Ops
  <2> QED
    BY <1>2, <1>5, <1>8, <2>1, <2>2 DEF AsksRightly
<1> QED
  BY <1>6, <1>7, <1>8

\* Answers are of servers, and where calls are targeted of included ones.
LEMMA AnswersOK ==
    ASSUME TypeOK, \A w \in DOMAIN legs : LegOK(w),
           targeted /\ step > 0 => DOMAIN legs \subseteq ids \cup {Everyone}
    PROVE  Answers \subseteq Servers /\ (targeted /\ step > 0 => Answers \subseteq ids)
<1> DEFINE all == UNION {legs[w].got : w \in Kept}
<1>0. Kept \subseteq DOMAIN legs
  BY DEF Kept
<1>1. \A w \in DOMAIN legs : legs[w].got \subseteq legs[w].asked /\ legs[w].asked \subseteq Servers
  BY DEF TypeOK, LegType
<1>2. all \subseteq Servers
  BY <1>0, <1>1
<1>3. CASE targeted /\ Everyone \in DOMAIN legs
  BY <1>2, <1>3 DEF Answers
<1>4. CASE ~targeted
  BY <1>2, <1>4 DEF Answers
<1>5. CASE targeted /\ Everyone \notin DOMAIN legs
  <2>1. Answers = all
    BY <1>5 DEF Answers
  <2>2. \A w \in DOMAIN legs : legs[w].got \subseteq {w}
    BY <1>1, <1>5 DEF LegOK
  <2>3. all \subseteq DOMAIN legs
    BY <1>0, <2>2
  <2> QED
    BY <1>2, <1>5, <2>1, <2>3
<1> QED
  BY <1>3, <1>4, <1>5

-----------------------------------------------------------------------------

LEMMA InvInit == Init => RequestorInv
<1> SUFFICES ASSUME Init PROVE RequestorInv
  OBVIOUS
<1>1. DOMAIN legs = {}
  BY LegsType DEF Init
<1>3. 0 \in 0..Len(Calls) /\ wire \in Seq([scrape : 1..MaxScrapes, ping : BOOLEAN])
  BY ConstantsOK, EmptySeq DEF Init
<1>4. 0 \in 0..MaxScrapes /\ 0 \in -1..Cardinality(Servers)
  BY ConstantsOK
<1>5. TypeOK
  BY <1>1, <1>3, <1>4 DEF Init, TypeOK
<1> QED
  BY <1>1, <1>5 DEF Init, RequestorInv, FilterHonoured, InventoryOK


\* Send, Answer and Stop change one request of a call under way.
LEMMA LegStep ==
    ASSUME RequestorInv, NEW w \in DOMAIN legs, NEW leg \in LegType,
           phase = "calling",
           legs' = [legs EXCEPT ![w] = leg],
           leg.got \subseteq leg.asked,
           w # Everyone => leg.asked \subseteq {w},
           leg.state # "new",
           leg.state = "full" => leg.count = expected /\ expected > 0,
           Cardinality(leg.got) <= leg.count, leg.count > 0 => leg.got # {},
           wire' \in Seq([scrape : 1..MaxScrapes, ping : BOOLEAN]),
           UNCHANGED <<scrape, step, phase, found, expected, answers, inventory>>
    PROVE  RequestorInv'
<1>1. DOMAIN legs' = DOMAIN legs /\ legs'[w] = leg
      /\ \A v \in DOMAIN legs : v # w => legs'[v] = legs[v]
  OBVIOUS
<1>2. TypeOK'
  BY <1>1 DEF RequestorInv, TypeOK, found
<1>3. \A v \in DOMAIN legs' : LegOK(v)'
  BY <1>1 DEF RequestorInv, LegOK
<1>4. CallOK'
  BY <1>1 DEF RequestorInv, CallOK, AsksRightly, found
<1>5. FilterHonoured' /\ InventoryOK'
  BY <1>1 DEF RequestorInv, FilterHonoured, InventoryOK, found
<1> QED
  BY <1>2, <1>3, <1>4, <1>5 DEF RequestorInv, found

LEMMA InvStep == RequestorInv /\ [Next]_vars => RequestorInv'
<1> SUFFICES ASSUME RequestorInv, [Next]_vars PROVE RequestorInv'
  OBVIOUS
<1> USE DEF found, call
<1>0. /\ TypeOK /\ FilterHonoured /\ InventoryOK
      /\ \A w \in DOMAIN legs : LegOK(w)
      /\ scrape \in 0..MaxScrapes /\ step \in 0..Len(Calls) /\ Len(Calls) \in Nat
  BY ConstantsOK DEF RequestorInv, TypeOK
<1>1. CASE Discover
  <2>1. DOMAIN legs' = {Everyone} /\ legs'[Everyone] = NewLeg
    BY <1>1, LegsType DEF Discover
  <2>2. Cardinality(Servers) \in Nat
    BY ConstantsOK
  <2>3. TypeOK'
    <3>1. /\ scrape' \in 0..MaxScrapes /\ scrape' > 0 /\ step' \in 0..Len(Calls)
          /\ phase' = "calling" /\ expected' \in -1..Cardinality(Servers)
      BY <1>0, <1>1, <2>2, ConstantsOK DEF Discover
    <3>2. UNCHANGED <<ids, targeted, answers, inventory, wire>>
      BY <1>1 DEF Discover
    <3> QED
      BY <1>0, <2>1, <3>1, <3>2, NewLegType DEF TypeOK
  <2>4. \A w \in DOMAIN legs' : LegOK(w)'
    BY <2>1, NewLegType DEF LegOK
  <2>5. scrape' > 0 /\ step' = 0 /\ phase' = "calling"
    BY <1>0, <1>1 DEF Discover
  <2> QED
    BY <2>1, <2>3, <2>4, <2>5 DEF RequestorInv, CallOK, FilterHonoured, InventoryOK
<1>2. CASE ReturnDiscovery
  <2>1. phase = "calling" /\ step = 0 /\ DOMAIN legs = {Everyone}
    BY <1>2 DEF ReturnDiscovery, Over, RequestorInv, CallOK
  <2>2. legs[Everyone] \in LegType
    BY <1>0, <2>1 DEF TypeOK
  <2>3. UNCHANGED <<scrape, step, expected, legs, wire>> /\ answers' = {} /\ inventory' = {}
    BY <1>2 DEF ReturnDiscovery
  <2>4. \/ /\ ids' \in SUBSET Servers /\ targeted' \in BOOLEAN /\ ids' # {}
           /\ phase' = "returned"
        \/ UNCHANGED <<ids, targeted>> /\ phase' = "idle"
    BY <1>2, <2>2 DEF ReturnDiscovery, LegType
  <2>5. TypeOK'
    BY <1>0, <2>3, <2>4 DEF TypeOK
  <2>6. \A w \in DOMAIN legs' : LegOK(w)'
    BY <1>0, <2>3 DEF LegOK
  <2>7. CallOK' /\ step' = 0
    BY <2>1, <2>3 DEF CallOK
  <2>8. scrape' > 0
    BY <2>1, <2>3 DEF RequestorInv
  <2> QED
    BY <2>3, <2>4, <2>5, <2>6, <2>7, <2>8 DEF RequestorInv, ReturnOK, FilterHonoured, InventoryOK
<1>3. CASE MakeCall
  <2>1. PICK to \in Destinations(Calls[step + 1]) :
           legs' = Legs(to) /\ expected' = Expected(Calls[step + 1])
    BY <1>3 DEF MakeCall
  <2>2. phase = "returned" /\ step < Len(Calls) /\ step' = step + 1 /\ phase' = "calling"
        /\ UNCHANGED <<scrape, ids, targeted, answers, inventory, wire>>
    BY <1>3 DEF MakeCall
  <2>3. step + 1 \in 1..Len(Calls) /\ step' > 0
    BY <1>0, <2>2, NextCall
  <2>4. DOMAIN legs' = to /\ \A w \in to : legs'[w] = NewLeg
    BY <2>1, LegsType
  <2>5. /\ to \subseteq Servers \cup {Everyone}
        /\ targeted => to \subseteq ids \cup {Everyone}
        /\ expected' \in -1..Cardinality(Servers)
        /\ AsksRightly(Calls[step + 1], to, expected')
    BY <2>1, <2>2, CallsAreOK
  <2>6. TypeOK'
    BY <1>0, <2>2, <2>3, <2>4, <2>5, NewLegType DEF TypeOK
  <2>7. \A w \in DOMAIN legs' : LegOK(w)'
    BY <2>4, NewLegType DEF LegOK
  <2>8. CallOK'
    BY <2>2, <2>3, <2>4, <2>5 DEF CallOK, AsksRightly
  <2>9. scrape' > 0 /\ ids # {}
    BY <2>2 DEF RequestorInv
  <2>10. FilterHonoured'
    <3>1. targeted => answers \subseteq ids
      BY <1>0, <2>2 DEF FilterHonoured, RequestorInv, ReturnOK
    <3> QED
      BY <2>2, <2>4, <2>5, <3>1 DEF FilterHonoured
  <2>11. InventoryOK'
    BY <1>0, <2>2 DEF InventoryOK
  <2> QED
    BY <2>2, <2>6, <2>7, <2>8, <2>9, <2>10, <2>11 DEF RequestorInv
<1>4. CASE SkipCall
  <2>1. DOMAIN legs' = {}
    BY <1>4, LegsType DEF SkipCall
  <2>2. step' \in 1..Len(Calls) /\ step' > 0 /\ phase' = "returned" /\ answers' = {} /\ expected' = 0
        /\ phase = "returned" /\ UNCHANGED <<scrape, ids, targeted, wire>>
    BY <1>0, <1>4 DEF SkipCall
  <2>3. Cardinality(Servers) \in Nat
    BY ConstantsOK
  <2>4. inventory' \in {inventory, {}}
    BY <1>4 DEF SkipCall, InventoryAfter
  <2>5. TypeOK'
    BY <1>0, <2>1, <2>2, <2>3, <2>4 DEF TypeOK
  <2>6. Answers' = {}
    BY <2>1 DEF Answers, Kept
  <2>7. CallOK' /\ ReturnOK' /\ FilterHonoured' /\ InventoryOK'
    BY <1>0, <2>1, <2>2, <2>6, <2>4 DEF CallOK, ReturnOK, FilterHonoured, InventoryOK
  <2> QED
    BY <2>1, <2>2, <2>5, <2>7 DEF RequestorInv
<1>5. CASE ReturnCall
  <2>1. phase = "calling" /\ step > 0 /\ answers' = Answers /\ phase' = "returned"
        /\ UNCHANGED <<scrape, step, ids, targeted, expected, legs, wire>>
    BY <1>5 DEF ReturnCall, Over
  <2>2. Answers \subseteq Servers /\ (targeted => Answers \subseteq ids)
    BY <1>0, <2>1, AnswersOK DEF FilterHonoured
  <2>3. inventory' \in {inventory, {}, Answers}
    BY <1>5 DEF ReturnCall, InventoryAfter
  <2>4. TypeOK'
    BY <1>0, <2>1, <2>2, <2>3 DEF TypeOK
  <2>5. \A w \in DOMAIN legs' : LegOK(w)'
    BY <1>0, <2>1 DEF LegOK
  <2>6. CallOK'
    BY <2>1 DEF RequestorInv, CallOK, AsksRightly
  <2>7. Answers' = Answers
    BY <2>1 DEF Answers, Kept
  <2>8. FilterHonoured' /\ InventoryOK'
    BY <1>0, <2>1, <2>2, <2>3 DEF FilterHonoured, InventoryOK
  <2> QED
    BY <1>0, <2>1, <2>4, <2>5, <2>6, <2>7, <2>8 DEF RequestorInv, ReturnOK
<1>6. CASE EndScrape
  <2>1. phase' = "idle" /\ UNCHANGED <<scrape, step, ids, targeted, expected, legs, answers, inventory, wire>>
    BY <1>6 DEF EndScrape
  <2> QED
    BY <1>0, <2>1 DEF RequestorInv, TypeOK, LegOK, FilterHonoured, InventoryOK
<1>7. ASSUME NEW w \in DOMAIN legs, Send(w) PROVE RequestorInv'
  <2>1. PICK up \in SUBSET (IF w = Everyone THEN Servers ELSE {w}) :
           legs' = [legs EXCEPT ![w].state = "open", ![w].asked = up]
    BY <1>7 DEF Send
  <2> DEFINE leg == [legs[w] EXCEPT !.state = "open", !.asked = up]
  <2>2. legs[w] \in LegType /\ w \in Servers \cup {Everyone} /\ phase = "calling"
        /\ legs[w].state = "new"
    BY <1>0, <1>7 DEF TypeOK, Send
  <2>3. leg \in LegType /\ leg.asked = up /\ leg.state = "open" /\ leg.got = legs[w].got
        /\ leg.count = legs[w].count
    BY <2>2 DEF LegType
  <2>4. legs' = [legs EXCEPT ![w] = leg]
    BY <2>1, <2>2 DEF LegType
  <2>5. wire' \in Seq([scrape : 1..MaxScrapes, ping : BOOLEAN])
    <3> DEFINE sent == [scrape |-> scrape, ping |-> step = 0 \/ Calls[step].subject = "ping"]
    <3>1. scrape \in 1..MaxScrapes
      BY <1>0, <2>2 DEF RequestorInv
    <3>2. sent \in [scrape : 1..MaxScrapes, ping : BOOLEAN]
      BY <3>1
    <3>3. wire' = Append(wire, sent) /\ wire \in Seq([scrape : 1..MaxScrapes, ping : BOOLEAN])
      BY <1>0, <1>7 DEF Send, TypeOK
    <3> HIDE DEF sent
    <3> QED
      BY <3>2, <3>3
  <2>6. leg.got = {} /\ Cardinality(leg.got) <= leg.count /\ leg.count = 0
    <3>1. LegOK(w) /\ legs[w].count = 0
      BY <1>0, <2>2 DEF LegOK
    <3>2. Cardinality(legs[w].got) = 0 /\ legs[w].got = {}
      <4>1. legs[w].got \in SUBSET Servers
        BY <2>2 DEF LegType
      <4>2. Cardinality(legs[w].got) \in Nat /\ IsFiniteSet(legs[w].got)
        BY <4>1, Finite
      <4> QED
        BY <3>1, <4>2, FS_EmptySet DEF LegOK
    <3> QED
      BY <2>3, <3>1, <3>2
  <2>7. UNCHANGED <<scrape, step, phase, found, expected, answers, inventory>>
    BY <1>7 DEF Send
  <2>8. leg.got \subseteq leg.asked /\ (w # Everyone => leg.asked \subseteq {w})
        /\ leg.state # "new" /\ leg.state # "full" /\ ~(leg.count > 0)
    BY <2>1, <2>3, <2>6
  <2> HIDE DEF leg
  <2> QED
    BY <2>2, <2>3, <2>4, <2>5, <2>6, <2>7, <2>8, LegStep
<1>8. ASSUME NEW w \in DOMAIN legs, Answer(w) PROVE RequestorInv'
  <2>1. PICK s \in legs[w].asked : Gather(w, s)
    BY <1>8 DEF Answer
  <2>2. legs[w] \in LegType /\ legs[w].got \subseteq legs[w].asked /\ phase = "calling"
    BY <1>0, <1>8 DEF TypeOK, Answer
  <2> DEFINE leg == [state |-> IF legs[w].count + 1 = expected THEN "full" ELSE "open",
                        asked |-> legs[w].asked, got |-> legs[w].got \cup {s},
                        count |-> legs[w].count + 1]
  <2>3. legs[w].got \in SUBSET Servers /\ s \in Servers /\ legs[w].count \in Nat
    BY <2>2 DEF LegType
  <2>4. Cardinality(legs[w].got \cup {s}) <= legs[w].count + 1
    <3>1. /\ IsFiniteSet(legs[w].got) /\ Cardinality(legs[w].got) \in Nat
          /\ Cardinality(legs[w].got) <= legs[w].count
      BY <1>0, <2>3, Finite DEF LegOK
    <3>2. Cardinality(legs[w].got \cup {s}) \in {Cardinality(legs[w].got), Cardinality(legs[w].got) + 1}
      BY <3>1, FS_AddElement
    <3> QED
      BY <2>3, <3>1, <3>2
  <2>5. /\ leg \in LegType /\ leg.asked = legs[w].asked /\ leg.got = legs[w].got \cup {s}
        /\ leg.count = legs[w].count + 1
        /\ leg.state = IF legs[w].count + 1 = expected THEN "full" ELSE "open"
    BY <2>2, <2>3 DEF LegType
  <2>6. legs' = [legs EXCEPT ![w] = leg]
    BY <2>1 DEF Gather
  <2>7. UNCHANGED <<scrape, step, phase, found, expected, answers, inventory, wire>>
    BY <1>8 DEF Answer
  <2>8. wire' \in Seq([scrape : 1..MaxScrapes, ping : BOOLEAN])
    BY <1>0, <2>7 DEF TypeOK
  <2>9. w # Everyone => leg.asked \subseteq {w}
    BY <1>0, <2>5 DEF LegOK
  <2>10. leg.got \subseteq leg.asked /\ leg.state # "new"
    BY <2>1, <2>2, <2>5
  <2>11. leg.state = "full" => leg.count = expected /\ expected > 0
    BY <2>3, <2>5
  <2>12. Cardinality(leg.got) <= leg.count /\ leg.got # {}
    BY <2>4, <2>5
  <2> HIDE DEF leg
  <2> QED
    BY <2>2, <2>5, <2>6, <2>7, <2>8, <2>9, <2>10, <2>11, <2>12, LegStep
<1>9. ASSUME NEW w \in DOMAIN legs, Stop(w) PROVE RequestorInv'
  <2>1. PICK how \in {"cut", "failed"} : legs' = [legs EXCEPT ![w].state = how]
    BY <1>9 DEF Stop
  <2> DEFINE leg == [legs[w] EXCEPT !.state = how]
  <2>2. legs[w] \in LegType /\ legs[w].got \subseteq legs[w].asked /\ phase = "calling"
    BY <1>0, <1>9 DEF TypeOK, Stop
  <2>3. leg \in LegType /\ leg.asked = legs[w].asked /\ leg.got = legs[w].got /\ leg.state = how
        /\ leg.count = legs[w].count
    BY <2>2 DEF LegType
  <2>4. legs' = [legs EXCEPT ![w] = leg]
    BY <2>1, <2>2 DEF LegType
  <2>5. UNCHANGED <<scrape, step, phase, found, expected, answers, inventory, wire>>
    BY <1>9 DEF Stop
  <2>6. wire' \in Seq([scrape : 1..MaxScrapes, ping : BOOLEAN])
    BY <1>0, <2>5 DEF TypeOK
  <2>7. /\ w # Everyone => leg.asked \subseteq {w}
        /\ Cardinality(leg.got) <= leg.count /\ (leg.count > 0 => leg.got # {})
    BY <1>0, <2>3 DEF LegOK
  <2> HIDE DEF leg
  <2> QED
    BY <2>1, <2>2, <2>3, <2>4, <2>5, <2>6, <2>7, LegStep
<1>10. CASE UNCHANGED vars
  <2>1. UNCHANGED <<scrape, step, phase, ids, targeted, expected, legs, answers, inventory, wire>>
    BY <1>10 DEF vars
  <2>2. TypeOK' /\ FilterHonoured' /\ InventoryOK' /\ (\A w \in DOMAIN legs' : LegOK(w)')
    BY <1>0, <2>1 DEF TypeOK, FilterHonoured, InventoryOK, LegOK
  <2>3. (CallOK' <=> CallOK) /\ (ReturnOK' <=> ReturnOK)
    BY <2>1 DEF CallOK, AsksRightly, ReturnOK, Answers, Kept
  <2> QED
    BY <2>1, <2>2, <2>3 DEF RequestorInv
<1> QED
  BY <1>1, <1>2, <1>3, <1>4, <1>5, <1>6, <1>7, <1>8, <1>9, <1>10 DEF Next

-----------------------------------------------------------------------------

\* What a returned call has is of all included servers, or another reply was
\* counted in place of one of them.
LEMMA EarlyFromInv == RequestorInv => EarlyMeansEveryIncluded
<1> SUFFICES ASSUME RequestorInv,
                    phase = "returned", step > 0, DOMAIN legs # {},
                    Calls[step].op # "RequestOne",
                    \A w \in DOMAIN legs : legs[w].state = "full"
             PROVE  \/ answers = ids
                    \/ /\ ~targeted
                       /\ \/ ~(answers \subseteq ids)
                          \/ legs[Everyone].count > Cardinality(legs[Everyone].got)
  BY DEF EarlyMeansEveryIncluded
<1> DEFINE c == Calls[step]
<1>1. /\ TypeOK /\ answers = Answers
      /\ \A w \in DOMAIN legs : LegOK(w)
      /\ AsksRightly(c, DOMAIN legs, expected)
  BY DEF RequestorInv, CallOK, ReturnOK, TypeOK
<1>2. ids \in SUBSET Servers /\ Everyone \notin ids /\ targeted \in BOOLEAN
  BY <1>1, ConstantsOK DEF TypeOK
<1>3. \A w \in DOMAIN legs : /\ legs[w].got \in SUBSET Servers
                             /\ legs[w].count = expected /\ expected > 0
                             /\ legs[w].got # {}
                             /\ Cardinality(legs[w].got) <= expected
                             /\ w # Everyone => legs[w].got \subseteq {w}
  BY <1>1 DEF TypeOK, LegType, LegOK
<1>4. /\ \A w \in DOMAIN legs : \A x \in legs[w].got :
            x \in Answers \/ (targeted /\ Everyone \in DOMAIN legs)
      /\ \A x \in Answers : \E w \in DOMAIN legs : x \in legs[w].got
  BY DEF Answers, Kept
<1>5. CASE targeted /\ DOMAIN legs = ids /\ expected = 1
  <2>1. DOMAIN legs = ids /\ expected = 1
    BY <1>5
  <2>2. \A w \in ids : legs[w].got = {w}
    BY <1>2, <1>3, <2>1
  <2>3. Answers = ids
    BY <1>2, <1>4, <2>1, <2>2
  <2> QED
    BY <1>1, <2>3
\* An expectation of none is never fulfilled: a request gathers one first.
<1>6. CASE DOMAIN legs = {Everyone} /\ expected = 0
  BY <1>3, <1>6
<1>7. CASE ~targeted /\ DOMAIN legs = {Everyone} /\ expected = Cardinality(ids)
  <2>1. DOMAIN legs = {Everyone} /\ expected = Cardinality(ids)
    BY <1>7
  <2>2. Answers = legs[Everyone].got
    BY <1>4, <1>7, <2>1
  <2>3. CASE answers \subseteq ids /\ ~(legs[Everyone].count > Cardinality(legs[Everyone].got))
    <3>1. /\ legs[Everyone].count = Cardinality(ids) /\ Cardinality(ids) \in Nat
          /\ Cardinality(legs[Everyone].got) <= Cardinality(ids)
          /\ Cardinality(legs[Everyone].got) \in Nat
      BY <1>2, <1>3, <2>1, Finite
    <3>2. Cardinality(legs[Everyone].got) = Cardinality(ids)
      BY <2>3, <3>1
    <3>3. IsFiniteSet(ids)
      BY <1>2, Finite
    <3> QED
      BY <1>1, <2>2, <2>3, <3>2, <3>3, FS_Subset
  <2> QED
    BY <1>7, <2>3
<1> QED
  BY <1>1, <1>5, <1>6, <1>7 DEF AsksRightly

-----------------------------------------------------------------------------

\* The requestor's variables keep their types.
THEOREM TypeCorrect == Spec => []TypeOK
<1>1. RequestorInv => TypeOK
  BY DEF RequestorInv
<1> QED
  BY <1>1, InvInit, InvStep, PTL DEF Spec

\* For any filter and whatever servers come and go: targeted calls return
\* answers of included servers only, and name no other (request.go:28, 58, 98).
THEOREM FilterIsHonoured == Spec => []FilterHonoured
<1>1. RequestorInv => FilterHonoured
  BY DEF RequestorInv
<1> QED
  BY <1>1, InvInit, InvStep, PTL DEF Spec

\* A call that returns early has every included server's answer, or, if it went
\* to everyone and is not filtered, counted a reply of a late joiner or a second
\* one of the same server (request.go:32, 46, 202-206).
THEOREM EarlyIsComplete == Spec => []EarlyMeansEveryIncluded
<1> QED
  BY EarlyFromInv, InvInit, InvStep, PTL DEF Spec

-----------------------------------------------------------------------------
(* The inspector of requests. In the wire, requests of one scrape follow    *)
(* each other, and its first two are its pings: discovery, and the call     *)
(* that collects servers. The inspector has captured a stretch of the wire  *)
(* that begins with two pings and has no other.                             *)

\* Of a scrape's calls, the one that collects servers is the only ping
\* (collectors.go:28; the subjects of the others are in options.go:14-25).
OnePing == \A n \in 2..Len(Calls) : Calls[n].subject # "ping"

First(i) == i = 1 \/ wire[i - 1].scrape # wire[i].scrape

WireInv ==
    /\ \A i \in 1..Len(wire) : wire[i].scrape <= scrape
    /\ \A i, j \in 1..Len(wire) : i < j => wire[i].scrape <= wire[j].scrape
    /\ \A i \in 1..Len(wire) : wire[i].ping <=> First(i) \/ First(i - 1)

\* The scrape's requests that were sent: none, one, or more than one.
Waits == phase = "calling" /\ legs[Everyone].state = "new"
Sent  == CASE step = 0 -> IF Waits THEN 0 ELSE 1
           [] step = 1 -> IF Waits THEN 1 ELSE 2
           [] step > 1 -> 2

SentInv ==
    phase # "idle" =>
        /\ step <= 1 => DOMAIN legs = {Everyone}
        /\ Sent = 0 => \A i \in 1..Len(wire) : wire[i].scrape < scrape
        /\ Sent # 0 => /\ Len(wire) > 0 /\ wire[Len(wire)].scrape = scrape
                       /\ First(Len(wire)) <=> Sent = 1

\* What is captured is the wire from c to m.
Stretch(c, m) ==
    /\ c \in 1..m /\ c + 1 <= m /\ m <= Len(wire)
    /\ Len(captured) = m - c + 1
    /\ \A k \in 1..Len(captured) : captured[k] = c + k - 1
    /\ wire[c].ping /\ wire[c + 1].ping /\ \A k \in (c + 2)..m : ~wire[k].ping
    /\ wire[c].scrape = wire[c + 1].scrape =>
          \A k \in c..m : wire[k].scrape = wire[c].scrape

InspectorInv ==
    /\ inspecting \in {"off", "waiting", "capturing", "done", "timedOut"}
    /\ candidate \in Nat /\ captured \in Seq(Nat)
    /\ inspecting = "off" => candidate = 0
    /\ inspecting = "waiting" /\ candidate > 0 =>
          candidate = Len(wire) /\ wire[candidate].ping
    /\ inspecting = "capturing" => \E c \in Nat : Stretch(c, Len(wire))
    /\ inspecting = "done" =>
          \E c, m \in Nat : Stretch(c, m) /\ m + 1 <= Len(wire) /\ wire[m + 1].ping

LEMMA WireTypes ==
    ASSUME TypeOK
    PROVE  /\ Len(wire) \in Nat /\ scrape \in Nat /\ step \in Nat
           /\ \A i \in 1..Len(wire) : wire[i].scrape \in Nat /\ wire[i].ping \in BOOLEAN
<1>1. wire \in Seq([scrape : 1..MaxScrapes, ping : BOOLEAN])
  BY DEF TypeOK
<1>2. \A i \in 1..Len(wire) : wire[i] \in [scrape : 1..MaxScrapes, ping : BOOLEAN]
  BY <1>1, ElementOfSeq
<1>3. Len(wire) \in Nat
  BY <1>1, LenProperties
<1>4. scrape \in Nat /\ step \in Nat
  BY ConstantsOK DEF TypeOK
<1> QED
  BY <1>2, <1>3, <1>4, ConstantsOK

LEMMA WireInit == Init => WireInv /\ SentInv
<1> SUFFICES ASSUME Init PROVE WireInv /\ SentInv
  OBVIOUS
<1>1. Len(wire) = 0 /\ phase = "idle"
  BY DEF Init
<1> QED
  BY <1>1 DEF WireInv, SentInv

\* A request is appended by Send, and by nothing else.
LEMMA WireGrows ==
    ASSUME RequestorInv, [Next]_vars
    PROVE  \/ UNCHANGED wire /\ ~ \E w \in DOMAIN legs : Send(w)
           \/ \E w \in DOMAIN legs :
                 /\ Send(w)
                 /\ Len(wire') = Len(wire) + 1
                 /\ \A i \in 1..Len(wire) : wire'[i] = wire[i]
                 /\ wire'[Len(wire) + 1].scrape = scrape
                 /\ wire'[Len(wire) + 1].ping = (step = 0 \/ Calls[step].subject = "ping")
<1>2. ASSUME NEW w \in DOMAIN legs, Send(w)
      PROVE  /\ Len(wire') = Len(wire) + 1
             /\ \A i \in 1..Len(wire) : wire'[i] = wire[i]
             /\ wire'[Len(wire) + 1].scrape = scrape
             /\ wire'[Len(wire) + 1].ping = (step = 0 \/ Calls[step].subject = "ping")
  <2> DEFINE Entry == [scrape : 1..MaxScrapes, ping : BOOLEAN]
  <2>1. PICK r : r = [scrape |-> scrape, ping |-> step = 0 \/ Calls[step].subject = "ping"]
    OBVIOUS
  <2>2. r \in Entry /\ wire \in Seq(Entry) /\ wire' = Append(wire, r)
    <3>1. scrape \in 1..MaxScrapes
      BY <1>2 DEF RequestorInv, TypeOK, Send
    <3> QED
      BY <1>2, <2>1, <3>1 DEF RequestorInv, TypeOK, Send
  <2>3. /\ Len(wire') = Len(wire) + 1 /\ wire'[Len(wire) + 1] = r
        /\ \A i \in 1..Len(wire) : wire'[i] = wire[i]
    <3> HIDE DEF Entry
    <3> QED BY <2>2, AppendProperties
  <2>4. r.scrape = scrape /\ r.ping = (step = 0 \/ Calls[step].subject = "ping")
    BY <2>1
  <2> QED
    BY <2>3, <2>4
<1>3. (\E w \in DOMAIN legs : Send(w)) \/ UNCHANGED wire
  BY DEF Next, vars, Discover, ReturnDiscovery, MakeCall, SkipCall, ReturnCall, EndScrape, Answer, Stop
<1> QED
  BY <1>2, <1>3

\* A call's first request is to everyone, if it is a scrape's first call.
LEMMA FirstCall ==
    ASSUME NEW to, to \in Destinations(Calls[1])
    PROVE  to = {Everyone}
BY RequestorAssumption DEF Destinations

LEMMA SentStep ==
    ASSUME RequestorInv, WireInv, SentInv, [Next]_vars, UNCHANGED wire,
           ~ \E w \in DOMAIN legs : Send(w)
    PROVE  WireInv' /\ SentInv'
<1>0. Len(wire) \in Nat /\ scrape \in Nat /\ step \in Nat
      /\ \A i \in 1..Len(wire) : wire[i].scrape \in Nat
  BY WireTypes DEF RequestorInv
<1>1. scrape' \in {scrape, scrape + 1}
  BY DEF Next, vars, Discover, ReturnDiscovery, MakeCall, SkipCall, ReturnCall, EndScrape, Answer, Stop
<1>2. WireInv'
  BY <1>0, <1>1 DEF WireInv, First
<1> SUFFICES SentInv'
  BY <1>2
<1>3. CASE Discover
  <2>1. /\ scrape' = scrape + 1 /\ step' = 0 /\ phase' = "calling" /\ legs' = Legs({Everyone})
    BY <1>3 DEF Discover
  <2>2. DOMAIN legs' = {Everyone} /\ legs'[Everyone].state = "new"
    BY <2>1, LegsType, NewLegType
  <2>3. Sent' = 0
    BY <2>1, <2>2 DEF Sent, Waits
  <2>4. \A i \in 1..Len(wire) : wire[i].scrape < scrape'
    BY <1>0, <2>1 DEF WireInv
  <2> QED
    BY <2>2, <2>3, <2>4 DEF SentInv
<1>4. CASE ReturnDiscovery
  <2>1. step = 0 /\ UNCHANGED <<scrape, step, legs>> /\ phase = "calling" /\ phase' \in {"returned", "idle"}
    BY <1>4 DEF ReturnDiscovery, Over, call
  <2>2. DOMAIN legs = {Everyone} /\ legs[Everyone].state # "new"
    BY <1>4, <2>1 DEF ReturnDiscovery, Over, SentInv
  <2>3. Sent = 1 /\ Sent' = 1
    BY <2>1, <2>2 DEF Sent, Waits
  <2> QED
    BY <2>1, <2>2, <2>3 DEF SentInv, First
<1>5. CASE MakeCall
  <2>1. /\ phase = "returned" /\ step < Len(Calls) /\ step' = step + 1 /\ phase' = "calling"
        /\ UNCHANGED scrape /\ \E to \in Destinations(Calls[step + 1]) : legs' = Legs(to)
    BY <1>5 DEF MakeCall
  <2>2. CASE step = 0
    <3>0. step + 1 = 1
      BY <2>2
    <3>1. legs' = Legs({Everyone})
      BY <2>1, <3>0, FirstCall
    <3>2. DOMAIN legs' = {Everyone} /\ legs'[Everyone].state = "new"
      BY <3>1, LegsType, NewLegType
    <3>3. Sent = 1 /\ Sent' = 1
      BY <2>1, <2>2, <3>2 DEF Sent, Waits
    <3> QED
      BY <2>1, <3>2, <3>3 DEF SentInv, First
  <2>3. CASE step # 0
    <3>1. Sent = 2 /\ Sent' = 2 /\ ~(step' <= 1)
      BY <1>0, <2>1, <2>3 DEF Sent, Waits
    <3> QED
      BY <2>1, <3>1 DEF SentInv, First
  <2> QED
    BY <2>2, <2>3
<1>6. CASE SkipCall
  <2>1. /\ phase = "returned" /\ step > 0 /\ step' = step + 1 /\ UNCHANGED <<scrape, phase>>
    BY <1>6 DEF SkipCall
  <2>2. Sent = 2 /\ Sent' = 2 /\ ~(step' <= 1)
    BY <1>0, <2>1 DEF Sent, Waits
  <2> QED
    BY <2>1, <2>2 DEF SentInv, First
<1>7. CASE ReturnCall
  <2>1. /\ phase = "calling" /\ step > 0 /\ phase' = "returned" /\ UNCHANGED <<scrape, step, legs>>
        /\ \A w \in DOMAIN legs : legs[w].state # "new"
    BY <1>7 DEF ReturnCall, Over, call
  <2>2. step <= 1 => DOMAIN legs = {Everyone} /\ ~Waits
    BY <2>1 DEF SentInv, Waits
  <2>3. Sent = 2 /\ Sent' = 2
    BY <1>0, <2>1, <2>2 DEF Sent, Waits
  <2> QED
    BY <2>1, <2>2, <2>3 DEF SentInv, First
<1>8. CASE EndScrape
  BY <1>8 DEF EndScrape, SentInv
<1>9. ASSUME NEW w \in DOMAIN legs, Answer(w) \/ Stop(w) PROVE SentInv'
  <2>1. /\ phase = "calling" /\ legs[w].state = "open" /\ UNCHANGED <<scrape, step, phase>>
        /\ DOMAIN legs' = DOMAIN legs /\ \A v \in DOMAIN legs : v # w => legs'[v] = legs[v]
    BY <1>9 DEF Answer, Gather, Stop
  <2>2. legs'[w].state # "new"
    <3>1. legs[w] \in LegType
      BY DEF RequestorInv, TypeOK
    <3>2. CASE Answer(w)
      <4>1. PICK s : legs' = [legs EXCEPT ![w] =
                 [state |-> IF legs[w].count + 1 = expected THEN "full" ELSE "open",
                  asked |-> legs[w].asked, got |-> legs[w].got \cup {s},
                  count |-> legs[w].count + 1]]
        BY <3>2 DEF Answer, Gather
      <4> QED
        BY <3>1, <4>1 DEF LegType
    <3>3. CASE Stop(w)
      BY <3>1, <3>3 DEF Stop, LegType
    <3> QED
      BY <1>9, <3>2, <3>3
  <2>3. step <= 1 => Waits' = Waits
    <3>1. step <= 1 => DOMAIN legs = {Everyone}
      BY <2>1 DEF SentInv
    <3> QED
      BY <2>1, <2>2, <3>1 DEF Waits
  <2>4. Sent' = Sent
    BY <1>0, <2>1, <2>3 DEF Sent
  <2> QED
    BY <2>1, <2>4 DEF SentInv, First
<1>10. CASE UNCHANGED vars
  BY <1>10 DEF vars, found, call, SentInv, Sent, Waits, First
<1> QED
  BY <1>3, <1>4, <1>5, <1>6, <1>7, <1>8, <1>9, <1>10 DEF Next

\* The wire stays in order when the scrape appends to it.
LEMMA SendKeeps ==
    ASSUME RequestorInv, WireInv, NEW n \in Nat, n = Len(wire), Len(wire') = n + 1,
           \A i \in 1..n : wire'[i] = wire[i],
           wire'[n + 1].scrape = scrape, UNCHANGED scrape,
           wire'[n + 1].ping <=> First(n + 1)' \/ (n > 0 /\ First(n)')
    PROVE  WireInv'
<1>1. scrape \in Nat /\ \A i \in 1..n : wire[i].scrape \in Nat
  BY WireTypes DEF RequestorInv
<1>2. \A i \in 1..(n + 1) : i \in 1..n \/ i = n + 1
  OBVIOUS
<1>3. \A i \in 1..(n + 1) : wire'[i].scrape <= scrape'
  BY <1>1, <1>2 DEF WireInv
<1>4. ASSUME NEW i \in 1..(n + 1), NEW j \in 1..(n + 1), i < j
      PROVE  wire'[i].scrape <= wire'[j].scrape
  <2>1. i \in 1..n
    BY <1>4
  <2>2. CASE j \in 1..n
    BY <1>4, <2>1, <2>2 DEF WireInv
  <2>3. CASE j = n + 1
    BY <1>1, <1>3, <2>1, <2>3
  <2> QED
    BY <1>2, <2>2, <2>3
<1>5. ASSUME NEW i \in 1..n PROVE First(i)' <=> First(i)
  <2>1. i # 1 => i - 1 \in 1..n
    OBVIOUS
  <2> QED
    BY <2>1 DEF First
<1>6. ASSUME NEW i \in 1..(n + 1)
      PROVE  wire'[i].ping <=> First(i)' \/ First(i - 1)'
  <2>1. CASE i \in 1..n
    <3>1. CASE i = 1
      BY <2>1, <3>1 DEF WireInv, First
    <3>2. CASE i # 1
      <4>1. i - 1 \in 1..n
        BY <2>1, <3>2
      <4> QED
        BY <1>5, <2>1, <4>1 DEF WireInv
    <3> QED
      BY <3>1, <3>2
  <2>2. CASE i = n + 1
    <3>1. CASE n = 0
      BY <2>2, <3>1 DEF First
    <3>2. CASE n # 0
      <4>1. i - 1 = n /\ n > 0
        BY <2>2, <3>2
      <4> QED
        BY <2>2, <4>1
    <3> QED
      BY <3>1, <3>2
  <2> QED
    BY <1>2, <2>1, <2>2
<1> QED
  BY <1>3, <1>4, <1>6 DEF WireInv

LEMMA SendStep ==
    ASSUME RequestorInv, WireInv, SentInv, OnePing, NEW w \in DOMAIN legs, Send(w),
           Len(wire') = Len(wire) + 1,
           \A i \in 1..Len(wire) : wire'[i] = wire[i],
           wire'[Len(wire) + 1].scrape = scrape,
           wire'[Len(wire) + 1].ping = (step = 0 \/ Calls[step].subject = "ping")
    PROVE  WireInv' /\ SentInv'
<1>0. PICK n \in Nat : n = Len(wire)
  BY WireTypes DEF RequestorInv
<1>1. scrape \in Nat /\ step \in 0..Len(Calls) /\ Len(Calls) \in Nat
      /\ \A i \in 1..n : wire[i].scrape \in Nat
  BY <1>0, WireTypes, ConstantsOK DEF RequestorInv, TypeOK
<1>2. /\ phase = "calling" /\ phase' = "calling" /\ UNCHANGED <<scrape, step>>
      /\ legs[w].state = "new" /\ DOMAIN legs' = DOMAIN legs
  BY DEF Send
<1>3. legs'[w].state = "open"
  <2>1. legs[w] \in LegType
    BY DEF RequestorInv, TypeOK
  <2> QED
    BY <2>1 DEF Send, LegType
<1>4. step <= 1 => w = Everyone /\ DOMAIN legs = {Everyone} /\ Waits /\ ~Waits'
  BY <1>2, <1>3 DEF SentInv, Waits
\* The request's place in its scrape.
<1>5. CASE step = 0
  <2>1. Sent = 0 /\ Sent' = 1
    BY <1>2, <1>4, <1>5 DEF Sent
  <2>2. \A i \in 1..n : wire[i].scrape < scrape
    BY <1>0, <1>2, <2>1 DEF SentInv
  <2>3. wire'[n + 1].ping /\ First(n + 1)'
    <3>1. n = 0 \/ n \in 1..n
      BY <1>0
    <3>2. n = 0 => n + 1 = 1
      OBVIOUS
    <3>3. n # 0 => wire'[n] = wire[n] /\ wire[n].scrape # scrape /\ (n + 1) - 1 = n
      BY <1>0, <1>1, <2>2, <3>1
    <3> QED
      BY <1>0, <1>5, <3>2, <3>3 DEF First
  <2> QED
    BY <1>0, <1>2, <1>4, <2>1, <2>3, SendKeeps DEF SentInv
<1>6. CASE step = 1
  <2>1. Sent = 1 /\ Sent' = 2
    BY <1>2, <1>4, <1>6 DEF Sent
  <2>2. n > 0 /\ wire[n].scrape = scrape /\ First(n)
    BY <1>0, <1>2, <2>1 DEF SentInv
  <2>3. Calls[1].subject = "ping"
    BY RequestorAssumption
  <2>4. wire'[n + 1].ping /\ ~First(n + 1)' /\ First(n)'
    <3>1. n \in 1..n /\ (n + 1) - 1 = n /\ n + 1 # 1 /\ wire'[n] = wire[n]
      BY <1>0, <2>2
    <3>2. n # 1 => n - 1 \in 1..n /\ wire'[n - 1] = wire[n - 1]
      BY <1>0, <2>2
    <3> QED
      BY <1>0, <1>6, <2>2, <2>3, <3>1, <3>2 DEF First
  <2> QED
    BY <1>0, <1>2, <1>4, <2>1, <2>2, <2>4, SendKeeps DEF SentInv
<1>7. CASE step > 1
  <2>1. Sent = 2 /\ Sent' = 2 /\ ~(step <= 1)
    BY <1>1, <1>2, <1>7 DEF Sent
  <2>2. n > 0 /\ wire[n].scrape = scrape /\ ~First(n)
    BY <1>0, <1>2, <2>1 DEF SentInv
  <2>3. ~wire'[n + 1].ping
    <3>1. step \in 2..Len(Calls)
      BY <1>1, <1>7
    <3>2. Calls[step].subject # "ping"
      BY <3>1 DEF OnePing
    <3>3. step # 0
      BY <1>7
    <3> QED
      BY <1>0, <3>2, <3>3
  <2>4. ~First(n + 1)' /\ ~First(n)'
    <3>1. n \in 1..n /\ (n + 1) - 1 = n /\ n + 1 # 1 /\ wire'[n] = wire[n]
      BY <1>0, <2>2
    <3>2. n # 1 => n - 1 \in 1..n /\ wire'[n - 1] = wire[n - 1]
      BY <1>0, <2>2
    <3> QED
      BY <1>0, <2>2, <3>1, <3>2 DEF First
  <2> QED
    BY <1>0, <1>2, <2>1, <2>2, <2>3, <2>4, SendKeeps DEF SentInv
<1> QED
  BY <1>1, <1>5, <1>6, <1>7

LEMMA WireStep ==
    ASSUME OnePing, RequestorInv, WireInv, SentInv, [Next]_vars
    PROVE  WireInv' /\ SentInv'
<1>1. CASE UNCHANGED wire /\ ~ \E w \in DOMAIN legs : Send(w)
  BY <1>1, SentStep
<1>2. CASE ~(UNCHANGED wire /\ ~ \E w \in DOMAIN legs : Send(w))
  <2>1. PICK w \in DOMAIN legs :
           /\ Send(w)
           /\ Len(wire') = Len(wire) + 1
           /\ \A i \in 1..Len(wire) : wire'[i] = wire[i]
           /\ wire'[Len(wire) + 1].scrape = scrape
           /\ wire'[Len(wire) + 1].ping = (step = 0 \/ Calls[step].subject = "ping")
    BY <1>2, WireGrows
  <2> QED
    BY <2>1, SendStep
<1> QED
  BY <1>1, <1>2

\* A stretch stays one as the wire grows behind it.
LEMMA StretchStays ==
    ASSUME NEW c \in Nat, NEW m \in Nat, Stretch(c, m), Len(wire) \in Nat, Len(wire') \in Nat,
           Len(wire) <= Len(wire'), \A i \in 1..Len(wire) : wire'[i] = wire[i],
           UNCHANGED captured
    PROVE  Stretch(c, m)'
<1>1. \A k \in c..m : k \in 1..Len(wire)
  BY DEF Stretch
<1>2. c \in c..m /\ c + 1 \in c..m /\ (c + 2)..m \subseteq c..m /\ m <= Len(wire')
  BY DEF Stretch
<1>3. \A k \in c..m : wire'[k] = wire[k]
  BY <1>1
<1> QED
  BY <1>2, <1>3 DEF Stretch

LEMMA ObserveStep ==
    ASSUME RequestorInv, WireInv', InspectorInv,
           NEW n \in Nat, n = Len(wire), Len(wire') = n + 1,
           \A i \in 1..n : wire'[i] = wire[i], wire'[n + 1].ping \in BOOLEAN,
           Observe(n + 1, wire'[n + 1].ping)
    PROVE  InspectorInv'
<1> DEFINE ping == wire'[n + 1].ping
<1>0. candidate \in Nat /\ captured \in Seq(Nat) /\ n + 1 \in Nat
      /\ (n + 1) \in 1..(n + 1)
  BY DEF InspectorInv
<1>1. CASE inspecting = "capturing" /\ ping
  <2>1. inspecting' = "done" /\ UNCHANGED <<candidate, captured>>
    BY <1>1 DEF Observe
  <2>2. PICK c \in Nat : Stretch(c, n)
    BY <1>1 DEF InspectorInv
  <2>3. Stretch(c, n)'
    BY <2>1, <2>2, StretchStays
  <2> QED
    BY <1>0, <1>1, <2>1, <2>3 DEF InspectorInv
<1>2. CASE inspecting = "capturing" /\ ~ping
  <2>1. captured' = Append(captured, n + 1) /\ UNCHANGED <<inspecting, candidate>>
    BY <1>2 DEF Observe
  <2>2. PICK c \in Nat : Stretch(c, n)
    BY <1>2 DEF InspectorInv
  <2>3. PICK l \in Nat : l = Len(captured)
    BY <1>0, LenProperties
  <2>4. /\ captured' \in Seq(Nat) /\ Len(captured') = l + 1 /\ captured'[l + 1] = n + 1
        /\ \A k \in 1..l : captured'[k] = captured[k]
    BY <1>0, <2>1, <2>3, AppendProperties
  <2>5. /\ c \in 1..n /\ c + 1 <= n /\ l = n - c + 1
        /\ wire[c].ping /\ wire[c + 1].ping /\ \A k \in (c + 2)..n : ~wire[k].ping
        /\ wire[c].scrape = wire[c + 1].scrape =>
              \A k \in c..n : wire[k].scrape = wire[c].scrape
    BY <2>2, <2>3 DEF Stretch
  <2>6. \A k \in 1..(l + 1) : captured'[k] = c + k - 1
    <3>1. \A k \in 1..(l + 1) : k \in 1..l \/ k = l + 1
      OBVIOUS
    <3>2. c + (l + 1) - 1 = n + 1
      BY <2>5
    <3>3. \A k \in 1..l : captured[k] = c + k - 1
      BY <2>2, <2>3 DEF Stretch
    <3> QED
      BY <2>4, <3>1, <3>2, <3>3
  <2>7. wire'[n].scrape = wire'[n + 1].scrape
    <3>1. (n + 1) - 1 = n
      OBVIOUS
    <3> QED
      BY <1>0, <1>2, <3>1 DEF WireInv, First
  <2>8. \A k \in c..(n + 1) : k \in c..n \/ k = n + 1
    OBVIOUS
  <2>9. \A k \in c..n : wire'[k] = wire[k]
    BY <2>5
  <2>10. c \in c..n /\ c + 1 \in c..n /\ n \in c..n
    BY <2>5
  <2>11. wire'[c].ping /\ wire'[c + 1].ping /\ \A k \in (c + 2)..(n + 1) : ~wire'[k].ping
    <3>1. \A k \in (c + 2)..(n + 1) : k = n + 1 \/ (k \in (c + 2)..n /\ k \in c..n)
      OBVIOUS
    <3> QED
      BY <1>2, <2>5, <2>9, <2>10, <3>1
  <2>12. wire'[c].scrape = wire'[c + 1].scrape =>
            \A k \in c..(n + 1) : wire'[k].scrape = wire'[c].scrape
    BY <2>5, <2>7, <2>8, <2>9, <2>10
  <2>13. Len(captured') = (n + 1) - c + 1 /\ c \in 1..(n + 1) /\ c + 1 <= n + 1
    BY <2>4, <2>5
  <2>14. Stretch(c, n + 1)'
    <3>1. c \in 1..(n + 1) /\ c + 1 <= n + 1 /\ n + 1 <= Len(wire')
      BY <2>13
    <3>2. Len(captured') = (n + 1) - c + 1 /\ \A k \in 1..Len(captured') : captured'[k] = c + k - 1
      BY <2>4, <2>6, <2>13
    <3> QED
      BY <2>11, <2>12, <3>1, <3>2 DEF Stretch
  <2> QED
    BY <1>0, <1>2, <2>1, <2>4, <2>14 DEF InspectorInv
<1>3. CASE inspecting = "waiting" /\ candidate = 0
  <2>1. candidate' = (IF ping THEN n + 1 ELSE 0) /\ UNCHANGED <<inspecting, captured>>
    BY <1>3 DEF Observe
  <2> QED
    BY <1>0, <1>3, <2>1 DEF InspectorInv
<1>4. CASE inspecting = "waiting" /\ candidate > 0 /\ ~ping
  <2>1. candidate' = 0 /\ UNCHANGED <<inspecting, captured>>
    BY <1>0, <1>4 DEF Observe
  <2> QED
    BY <1>0, <1>4, <2>1 DEF InspectorInv
<1>5. CASE inspecting = "waiting" /\ candidate > 0 /\ ping
  <2>1. captured' = <<candidate, n + 1>> /\ inspecting' = "capturing" /\ UNCHANGED candidate
    BY <1>0, <1>5 DEF Observe
  <2>2. candidate = n /\ wire[n].ping /\ n > 0
    BY <1>5 DEF InspectorInv
  <2>3. /\ captured' \in Seq(Nat) /\ Len(captured') = 2 /\ captured'[1] = n /\ captured'[2] = n + 1
    BY <1>0, <2>1, <2>2
  <2>4. \A k \in 1..2 : captured'[k] = n + k - 1
    <3>1. \A k \in 1..2 : k = 1 \/ k = 2
      OBVIOUS
    <3>2. n + 1 - 1 = n /\ n + 2 - 1 = n + 1
      OBVIOUS
    <3> QED
      BY <2>3, <3>1, <3>2
  <2>5. n \in 1..n /\ n \in 1..(n + 1) /\ (n + 2)..(n + 1) = {} /\ (n + 1) - n + 1 = 2
    BY <2>2
  <2>6. \A k \in n..(n + 1) : k = n \/ k = n + 1
    OBVIOUS
  <2>7. Stretch(n, n + 1)'
    BY <1>5, <2>2, <2>3, <2>4, <2>5, <2>6 DEF Stretch
  <2> QED
    BY <1>0, <2>1, <2>3, <2>7 DEF InspectorInv
<1>6. CASE inspecting \notin {"waiting", "capturing"}
  <2>1. UNCHANGED <<inspecting, candidate, captured>>
    BY <1>6 DEF Observe, inspector
  <2>2. CASE inspecting = "done"
    <3>1. PICK c \in Nat, m \in Nat : Stretch(c, m) /\ m + 1 <= n /\ wire[m + 1].ping
      BY <2>2 DEF InspectorInv
    <3>2. Stretch(c, m)'
      BY <2>1, <3>1, StretchStays
    <3>3. m + 1 \in 1..n /\ m + 1 <= n + 1
      BY <3>1
    <3> QED
      BY <2>1, <2>2, <3>1, <3>2, <3>3 DEF InspectorInv
  <2>3. CASE inspecting # "done"
    BY <1>6, <2>1, <2>3 DEF InspectorInv
  <2> QED
    BY <2>2, <2>3
<1>7. candidate = 0 \/ candidate > 0
  BY <1>0
<1> QED
  BY <1>1, <1>2, <1>3, <1>4, <1>5, <1>6, <1>7

LEMMA InspectorInit == InspectInit => InspectorInv
BY EmptySeq DEF InspectInit, InspectorInv

LEMMA InspectorStep ==
    ASSUME OnePing, RequestorInv, WireInv, SentInv, InspectorInv,
           [InspectNext]_<<vars, inspector>>
    PROVE  InspectorInv'
<1>0. PICK n \in Nat : n = Len(wire)
  BY WireTypes DEF RequestorInv
<1>1. CASE Scraper /\ wire' = wire
  <2>1. UNCHANGED <<wire, inspecting, candidate, captured>>
    BY <1>1 DEF Scraper, inspector
  <2> QED
    BY <2>1 DEF InspectorInv, Stretch
<1>2. CASE Scraper /\ wire' # wire
  <2>1. [Next]_vars /\ Observe(Len(wire'), wire'[Len(wire')].ping)
    BY <1>2 DEF Scraper
  <2>2. PICK w \in DOMAIN legs :
           /\ Len(wire') = Len(wire) + 1
           /\ \A i \in 1..Len(wire) : wire'[i] = wire[i]
    BY <1>2, <2>1, WireGrows
  <2>3. RequestorInv' /\ WireInv'
    BY <2>1, InvStep, WireStep
  <2>4. n + 1 \in 1..Len(wire') /\ Len(wire') = n + 1
    BY <1>0, <2>2
  <2>5. wire'[n + 1].ping \in BOOLEAN
    <3>1. wire' \in Seq([scrape : 1..MaxScrapes, ping : BOOLEAN])
      BY <2>3 DEF RequestorInv, TypeOK
    <3>2. wire'[n + 1] \in [scrape : 1..MaxScrapes, ping : BOOLEAN]
      BY <2>4, <3>1, ElementOfSeq
    <3> QED
      BY <3>2
  <2> QED
    BY <1>0, <2>1, <2>2, <2>3, <2>4, <2>5, ObserveStep
<1>3. CASE Subscribe
  <2>1. inspecting' = "waiting" /\ inspecting = "off" /\ UNCHANGED <<wire, candidate, captured>>
    BY <1>3 DEF Subscribe, vars
  <2>2. candidate' = 0
    BY <2>1 DEF InspectorInv
  <2> QED
    BY <2>1, <2>2 DEF InspectorInv
<1>4. CASE TimeOut
  <2>1. inspecting' = "timedOut" /\ UNCHANGED <<wire, candidate, captured>>
    BY <1>4 DEF TimeOut, vars
  <2> QED
    BY <2>1 DEF InspectorInv
<1>5. CASE UNCHANGED <<vars, inspector>>
  BY <1>5 DEF vars, inspector, InspectorInv, Stretch
<1> QED
  BY <1>1, <1>2, <1>3, <1>4, <1>5 DEF InspectNext

\* A stretch of one scrape that two pings begin and a ping ends is all of it.
LEMMA WholeScrape ==
    ASSUME TypeOK, WireInv, NEW c \in Nat, NEW m \in Nat, Stretch(c, m),
           m + 1 <= Len(wire), wire[m + 1].ping,
           wire[c].scrape = wire[c + 1].scrape
    PROVE  RequestsOf(wire[c].scrape) = c..m
<1>1. PICK n \in Nat : n = Len(wire)
  BY WireTypes
<1>2. PICK s : s = wire[c].scrape
  OBVIOUS
<1>3. /\ c \in 1..m /\ c + 1 <= m /\ m + 1 <= n /\ wire[c].ping /\ wire[c + 1].ping
      /\ \A k \in c..m : wire[k].scrape = s
  BY <1>1, <1>2 DEF Stretch
<1>4. \A i \in 1..n : wire[i].scrape \in Nat
  BY <1>1, WireTypes
<1>5. \A i, j \in 1..n : i < j => wire[i].scrape <= wire[j].scrape
  BY <1>1 DEF WireInv
<1>6. \A i \in 1..n : wire[i].ping => First(i) \/ First(i - 1)
  BY <1>1 DEF WireInv
<1>7. c \in 1..n /\ c + 1 \in 1..n /\ m \in 1..n /\ m + 1 \in 1..n /\ s \in Nat
      /\ c \in c..m /\ m \in c..m /\ m - 1 \in c..m
  BY <1>2, <1>3, <1>4
<1>8. ASSUME NEW i \in 1..n, wire[i].scrape = s, i < c PROVE FALSE
  <2>1. c - 1 \in 1..n /\ c # 1 /\ (i = c - 1 \/ i < c - 1) /\ c - 1 < c
    BY <1>7, <1>8
  <2>2. wire[c - 1].scrape <= s /\ s <= wire[c - 1].scrape
    BY <1>2, <1>4, <1>5, <1>7, <1>8, <2>1
  <2>3. wire[c - 1].scrape = s
    BY <1>4, <1>7, <2>1, <2>2
  <2>4. ~First(c)
    BY <1>2, <2>1, <2>3 DEF First
  <2>5. c + 1 # 1 /\ (c + 1) - 1 = c
    BY <1>7
  <2>6. ~First(c + 1)
    BY <2>5 DEF First
  <2> QED
    BY <1>3, <1>6, <1>7, <2>4, <2>5, <2>6
<1>9. ASSUME NEW i \in 1..n, wire[i].scrape = s, i > m PROVE FALSE
  <2>1. i = m + 1 \/ m + 1 < i
    BY <1>9
  <2>2. wire[m + 1].scrape <= s /\ s <= wire[m + 1].scrape
    <3>1. wire[m].scrape = s /\ m < m + 1
      BY <1>3, <1>7
    <3> QED
      BY <1>4, <1>5, <1>7, <1>9, <2>1, <3>1
  <2>3. wire[m + 1].scrape = s
    BY <1>4, <1>7, <2>2
  <2>4. m + 1 # 1 /\ (m + 1) - 1 = m /\ m # 1
    BY <1>3, <1>7
  <2>5. ~First(m + 1) /\ ~First(m)
    BY <1>3, <1>7, <2>3, <2>4 DEF First
  <2> QED
    BY <1>6, <1>7, <2>4, <2>5
<1>10. \A i \in 1..n : wire[i].scrape = s => i \in c..m
  BY <1>3, <1>8, <1>9
<1>11. \A i \in c..m : i \in 1..n
  BY <1>3
<1> QED
  BY <1>1, <1>2, <1>3, <1>10, <1>11 DEF RequestsOf

LEMMA CaptureFromInv ==
    ASSUME TypeOK, WireInv, InspectorInv
    PROVE  CaptureIsOneScrape
<1> SUFFICES ASSUME inspecting = "done" PROVE CaptureIsOneScrape
  BY DEF CaptureIsOneScrape
<1>1. PICK c \in Nat, m \in Nat :
         Stretch(c, m) /\ m + 1 <= Len(wire) /\ wire[m + 1].ping
  BY DEF InspectorInv
<1>2. PICK n \in Nat, l \in Nat : n = Len(wire) /\ l = Len(captured)
  BY WireTypes, LenProperties DEF InspectorInv
<1>3. /\ c \in 1..m /\ c + 1 <= m /\ m <= n /\ l = m - c + 1
      /\ \A k \in 1..l : captured[k] = c + k - 1
  BY <1>1, <1>2 DEF Stretch
<1>4. captured[1] = c /\ captured[2] = c + 1
  <2>1. 1 \in 1..l /\ 2 \in 1..l /\ c + 1 - 1 = c /\ c + 2 - 1 = c + 1
    BY <1>3
  <2> QED
    BY <1>3, <2>1
<1>5. CASE wire[c].scrape = wire[c + 1].scrape
  <2>1. RequestsOf(wire[c].scrape) = c..m
    BY <1>1, <1>5, WholeScrape
  <2>2. \A k \in 1..l : captured[k] \in c..m
    BY <1>3
  <2>3. \A i \in c..m : i - c + 1 \in 1..l /\ captured[i - c + 1] = i
    <3> TAKE i \in c..m
    <3>1. i - c + 1 \in 1..l /\ c + (i - c + 1) - 1 = i
      BY <1>3
    <3> QED
      BY <1>3, <3>1
  <2>4. {captured[k] : k \in 1..l} = c..m
    BY <2>2, <2>3
  <2> QED
    BY <1>2, <1>4, <2>1, <2>4 DEF CaptureIsOneScrape
<1>6. CASE wire[c].scrape # wire[c + 1].scrape
  <2>1. \A i \in RequestsOf(wire[c].scrape) : i <= c
    <3> SUFFICES ASSUME NEW i \in 1..n, wire[i].scrape = wire[c].scrape, i > c PROVE FALSE
      BY <1>2, <1>3 DEF RequestsOf
    <3>1. c \in 1..n /\ c + 1 \in 1..n /\ c < c + 1 /\ (i = c + 1 \/ c + 1 < i)
      BY <1>3
    <3>2. /\ wire[c].scrape \in Nat /\ wire[c + 1].scrape \in Nat
          /\ wire[c].scrape <= wire[c + 1].scrape
      BY <1>2, <3>1, WireTypes DEF WireInv
    <3>3. i = c + 1 \/ wire[c + 1].scrape <= wire[i].scrape
      BY <1>2, <3>1 DEF WireInv
    <3> QED
      BY <1>6, <3>2, <3>3
  <2> QED
    BY <1>4, <1>6, <2>1 DEF CaptureIsOneScrape
<1> QED
  BY <1>5, <1>6

\* Whatever the scraper collects besides servers, by any other request, and
\* whenever the inspector subscribes: an inspection that ends well has printed
\* the requests of one scrape, all of them and no other, or began with the last
\* request of one that found nothing to collect (request-inspect/main.go:79-120).
THEOREM InspectorGetsOneScrape ==
    ASSUME OnePing
    PROVE  InspectSpec => []CaptureIsOneScrape
<1> DEFINE Inv == RequestorInv /\ WireInv /\ SentInv /\ InspectorInv
<1>1. InspectInit => Inv
  BY InvInit, WireInit, InspectorInit DEF InspectInit
<1>2. Inv /\ [InspectNext]_<<vars, inspector>> => Inv'
  <2> SUFFICES ASSUME Inv, [InspectNext]_<<vars, inspector>> PROVE Inv'
    OBVIOUS
  <2>1. [Next]_vars
    BY DEF InspectNext, Scraper, Subscribe, TimeOut
  <2> QED
    BY <2>1, OnePing, InvStep, WireStep, InspectorStep
<1>3. Inv => CaptureIsOneScrape
  BY CaptureFromInv DEF RequestorInv
<1> QED
  BY <1>1, <1>2, <1>3, PTL DEF InspectSpec
=============================================================================
