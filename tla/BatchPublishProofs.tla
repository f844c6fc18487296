------------------------- MODULE BatchPublishProofs -------------------------
(***************************************************************************)
(* What Prepare of the JetStream sink keeps, for batches of any size,      *)
(* whatever is refused, lost or cancelled.                                 *)
(***************************************************************************)
EXTENDS BatchPublish, FiniteSetTheorems, SequenceTheorems, TLAPS

USE BatchAssumption

-----------------------------------------------------------------------------

\* What is in flight is of the batch not yet waited for; after the wait there
\* is nothing in flight.
FlightOK ==
    /\ pending \subseteq futures
    /\ pc = "settle" => pending = {}

\* A batch that is full is waited for before another message is sent.
BatchOK ==
    BatchSize > 0 =>
        /\ Cardinality(futures) <= BatchSize
        /\ pc = "publish" => Cardinality(futures) < BatchSize

\* A message that is not in flight has arrived, and messages arrive in order.
ArrivalOK ==
    /\ 1..sent \subseteq pending \cup Arrived
    /\ \A m \in Arrived : \A k \in 1..(m - 1) : k \in Arrived
    /\ \A i, j \in DOMAIN stream : i < j => stream[i] < stream[j]

CountOK == pc = "returned" /\ result >= 0 => result = size /\ sent = size /\ pending = {}

PublishInv == TypeOK /\ FlightOK /\ BatchOK /\ ArrivalOK /\ CountOK

-----------------------------------------------------------------------------

\* The messages that wait to be looked at are finitely many.
LEMMA FuturesFinite ==
    ASSUME TypeOK
    PROVE  IsFiniteSet(futures) /\ Cardinality(futures) \in Nat
<1>1. sent \in Int /\ 1 \in Int
  BY DEF TypeOK
<1>2. IsFiniteSet(1..sent)
  BY <1>1, FS_Interval
<1>3. IsFiniteSet(futures)
  BY <1>2, FS_Subset DEF TypeOK
<1> QED
  BY <1>3, FS_CardinalityType

\* A message arrived is one of those sent.
LEMMA ArrivedSent == ASSUME TypeOK PROVE Arrived \subseteq 1..sent
<1>1. stream \in Seq(1..sent)
  BY DEF TypeOK
<1>2. \A i \in DOMAIN stream : stream[i] \in 1..sent
  BY <1>1, ElementOfSeq, LenProperties
<1> QED
  BY <1>2 DEF TypeOK, Arrived

LEMMA PublishInit == Init => PublishInv
<1> SUFFICES ASSUME Init PROVE PublishInv
  OBVIOUS
<1>1. TypeOK
  <2>1. size \in Nat /\ size \in Sizes
    BY DEF Init
  <2>2. stream \in Seq(1..sent)
    BY EmptySeq DEF Init
  <2>3. sent \in 0..size /\ result \in Int
    BY <2>1 DEF Init
  <2> QED
    BY <2>1, <2>2, <2>3 DEF Init, TypeOK
<1>2. Arrived = {} /\ DOMAIN stream = {} /\ 1..sent = {}
  BY DEF Init, Arrived
<1>3. FlightOK /\ ArrivalOK /\ CountOK
  BY <1>2 DEF Init, FlightOK, ArrivalOK, CountOK
<1>4. BatchOK
  BY FS_EmptySet DEF Init, BatchOK
<1> QED
  BY <1>1, <1>3, <1>4 DEF PublishInv

\* One more message of the batch.
LEMMA KeptByPublishing ==
    ASSUME PublishInv, PublishNext
    PROVE  PublishInv'
<1> DEFINE n == sent + 1
<1>1. /\ sent \in Nat /\ size \in Nat /\ n \in 1..size /\ sent' = n
      /\ futures' = futures \cup {n} /\ pending' = pending \cup {n}
      /\ n \notin futures /\ futures \subseteq 1..sent /\ 1..n = 1..sent \cup {n}
      /\ UNCHANGED <<size, stream, refused, result>> /\ pc = "publish"
      /\ pc' \in {"publish", "complete"}
  BY DEF PublishInv, TypeOK, PublishNext
<1>2. TypeOK'
  BY <1>1 DEF PublishInv, TypeOK, PublishNext
<1>3. FlightOK' /\ CountOK'
  BY <1>1 DEF PublishInv, FlightOK, CountOK
<1>4. BatchOK'
  <2>1. Cardinality(futures') = Cardinality(futures) + 1
    BY <1>1, FuturesFinite, FS_AddElement DEF PublishInv
  <2>2. PICK c \in Nat : c = Cardinality(futures)
    BY FuturesFinite DEF PublishInv
  <2>3. BatchSize > 0 => c < BatchSize
    BY <1>1, <2>2 DEF PublishInv, BatchOK
  <2>4. pc' = "publish" => c + 1 # BatchSize
    BY <2>1, <2>2 DEF PublishNext, Full
  <2> QED
    BY <2>1, <2>2, <2>3, <2>4 DEF BatchOK
<1>5. ArrivalOK'
  BY <1>1 DEF PublishInv, ArrivalOK, Arrived
<1> QED
  BY <1>2, <1>3, <1>4, <1>5 DEF PublishInv

\* The end of the batch: everything in it is waited for.
LEMMA KeptByWaiting ==
    ASSUME PublishInv, PublishFails \/ PublishDone \/ Complete \/ Settle
    PROVE  PublishInv'
<1>1. /\ UNCHANGED <<size, sent, pending, lost, stream, refused, cancelled>>
      /\ (futures' = futures /\ pc' # "publish") \/ futures' = {}
  BY DEF PublishFails, PublishDone, Complete, Settle
<1>2. pending \subseteq futures' /\ (pc' = "settle" => pending = {})
  BY DEF PublishInv, FlightOK, PublishFails, PublishDone, Complete, Settle, AfterWait
<1>3. TypeOK'
  <2>1. size \in Nat
    BY DEF PublishInv, TypeOK
  <2>2. pc' \in {"publish", "complete", "settle", "returned"}
    BY DEF PublishFails, PublishDone, Complete, Settle, AfterWait
  <2>3. result' \in Int
    BY <2>1 DEF PublishInv, TypeOK, PublishFails, PublishDone, Complete, Settle
  <2> QED
    BY <1>1, <2>1, <2>2, <2>3 DEF PublishInv, TypeOK
<1>4. FlightOK' /\ ArrivalOK'
  BY <1>1, <1>2 DEF PublishInv, FlightOK, ArrivalOK, Arrived
<1>5. BatchOK'
  <2>1. CASE futures' = futures /\ pc' # "publish"
    BY <2>1 DEF PublishInv, BatchOK
  <2>2. CASE futures' = {}
    BY <2>2, FS_EmptySet DEF BatchOK
  <2> QED
    BY <1>1, <2>1, <2>2
<1>6. CountOK'
  <2>1. size \in Nat /\ sent \in Nat /\ sent <= size
    BY DEF PublishInv, TypeOK
  <2>2. CASE PublishFails \/ Complete
    BY <2>2 DEF PublishFails, Complete, CountOK
  <2>3. CASE PublishDone
    BY <1>1, <2>1, <2>3 DEF PublishDone, CountOK, PublishInv, FlightOK
  <2>4. CASE Settle
    BY <1>1, <2>1, <2>4 DEF Settle, AfterWait, CountOK, PublishInv, FlightOK
  <2> QED
    BY <2>2, <2>3, <2>4
<1> QED
  BY <1>3, <1>4, <1>5, <1>6 DEF PublishInv

\* The next message arrives, behind all that have.
LEMMA KeptByArrival ==
    ASSUME PublishInv, Arrive
    PROVE  PublishInv'
<1>1. PICK m \in 1..sent :
          /\ m \notin Arrived /\ \A k \in 1..(m - 1) : k \in Arrived
          /\ \/ stream' = Append(stream, m) /\ UNCHANGED refused
             \/ refused' = refused \cup {m} /\ UNCHANGED stream
  BY DEF Arrive
<1>2. sent \in Nat /\ m \in Nat /\ UNCHANGED <<size, pc, sent, futures, pending, lost, cancelled, result>>
  BY DEF PublishInv, TypeOK, Arrive
<1>3. TypeOK'
  <2>1. stream \in Seq(1..sent) /\ refused \subseteq 1..sent
    BY DEF PublishInv, TypeOK
  <2>2. Append(stream, m) \in Seq(1..sent)
    BY <2>1, AppendProperties
  <2>3. stream' \in Seq(1..sent) /\ refused' \subseteq 1..sent
    BY <1>1, <2>1, <2>2
  <2> QED
    BY <1>2, <2>3 DEF PublishInv, TypeOK
<1>4. FlightOK' /\ BatchOK' /\ CountOK'
  BY <1>2 DEF PublishInv, FlightOK, BatchOK, CountOK
<1>5. \A a \in Arrived : a < m
  <2> TAKE a \in Arrived
  <2>1. a \in Nat /\ a # m
    BY <1>1, <1>2, ArrivedSent DEF PublishInv
  <2>2. ASSUME m < a PROVE FALSE
    BY <1>1, <1>2, <2>1, <2>2 DEF PublishInv, ArrivalOK
  <2> QED
    BY <1>2, <2>1, <2>2
<1>6. /\ Arrived' = Arrived \cup {m}
      /\ \A i, j \in DOMAIN stream' : i < j => stream'[i] < stream'[j]
  <2>1. CASE stream' = Append(stream, m) /\ UNCHANGED refused
    <3>1. stream \in Seq(1..sent)
      BY DEF PublishInv, TypeOK
    <3>2. PICK l \in Nat : l = Len(stream)
      BY <3>1
    <3>3. /\ DOMAIN stream = 1..l /\ DOMAIN stream' = 1..(l + 1)
          /\ 1..(l + 1) = 1..l \cup {l + 1}
          /\ stream'[l + 1] = m /\ \A i \in 1..l : stream'[i] = stream[i]
      BY <2>1, <3>1, <3>2
    <3>4. Arrived' = Arrived \cup {m}
      BY <2>1, <3>3 DEF Arrived
    <3>5. ASSUME NEW i \in 1..(l + 1), NEW j \in 1..(l + 1), i < j
          PROVE  stream'[i] < stream'[j]
      <4>1. i \in 1..l
        BY <3>2, <3>5
      <4>2. CASE j = l + 1
        BY <1>5, <3>3, <4>1, <4>2 DEF Arrived
      <4>3. CASE j \in 1..l
        BY <3>3, <3>5, <4>1, <4>3 DEF PublishInv, ArrivalOK
      <4> QED
        BY <3>3, <4>2, <4>3
    <3> QED
      BY <3>3, <3>4, <3>5
  <2>2. CASE refused' = refused \cup {m} /\ UNCHANGED stream
    BY <2>2 DEF Arrived, PublishInv, ArrivalOK
  <2> QED
    BY <1>1, <2>1, <2>2
<1>7. ArrivalOK'
  BY <1>1, <1>2, <1>6 DEF PublishInv, ArrivalOK
<1> QED
  BY <1>3, <1>4, <1>7 DEF PublishInv

\* Acknowledgements, their loss, and the context.
LEMMA KeptByTheWorld ==
    ASSUME PublishInv, Acknowledge \/ LoseAck \/ Cancel \/ UNCHANGED vars
    PROVE  PublishInv'
<1>1. CASE Acknowledge
  <2>1. PICK m \in (pending \cap Arrived) \ lost : pending' = pending \ {m}
    BY <1>1 DEF Acknowledge
  <2>2. UNCHANGED <<size, pc, sent, futures, lost, stream, refused, cancelled, result>>
    BY <1>1 DEF Acknowledge
  <2>3. TypeOK' /\ FlightOK' /\ BatchOK' /\ CountOK'
    BY <2>1, <2>2 DEF PublishInv, TypeOK, FlightOK, BatchOK, CountOK
  <2>4. Arrived' = Arrived
    BY <2>2 DEF Arrived
  <2>5. ArrivalOK'
    BY <2>1, <2>2, <2>4 DEF PublishInv, ArrivalOK
  <2> QED
    BY <2>3, <2>5 DEF PublishInv
<1>2. CASE LoseAck
  BY <1>2 DEF LoseAck, PublishInv, TypeOK, FlightOK, BatchOK, ArrivalOK, CountOK, Arrived
<1>3. CASE Cancel
  BY <1>3 DEF Cancel, PublishInv, TypeOK, FlightOK, BatchOK, ArrivalOK, CountOK, Arrived
<1>4. CASE UNCHANGED vars
  BY <1>4 DEF vars, PublishInv, TypeOK, FlightOK, BatchOK, ArrivalOK, CountOK, Arrived
<1> QED
  BY <1>1, <1>2, <1>3, <1>4

LEMMA PublishInvariant == Spec => []PublishInv
<1>1. PublishInv /\ [Next]_vars => PublishInv'
  BY KeptByPublishing, KeptByWaiting, KeptByArrival, KeptByTheWorld DEF Next, Prepare, Terminated
<1> QED
  BY <1>1, PublishInit, PTL DEF Spec

-----------------------------------------------------------------------------

\* Every variable of publishBatch and waitPublish keeps its type
\* (BatchPublish!TypeOK).
THEOREM TypeCorrect == Spec => []TypeOK
<1>1. PublishInv => TypeOK
  BY DEF PublishInv
<1> QED
  BY <1>1, PublishInvariant, PTL

\* No more than a batch of messages is ever in flight, for batches of any
\* positive size (BatchPublish!InFlightIsBounded, jetstream.go:104-107).
THEOREM FlightIsBounded == Spec => []InFlightIsBounded
<1>1. ASSUME PublishInv PROVE InFlightIsBounded
  <2>1. pending \subseteq futures
    BY <1>1 DEF PublishInv, FlightOK
  <2>2. Cardinality(pending) \in Nat /\ Cardinality(pending) <= Cardinality(futures)
    BY <1>1, <2>1, FuturesFinite, FS_Subset, FS_CardinalityType DEF PublishInv
  <2> QED
    BY <1>1, <2>2, FuturesFinite DEF PublishInv, BatchOK, InFlightIsBounded
<1> QED
  BY <1>1, PublishInvariant, PTL

\* A Prepare that returns a count leaves nothing in flight: everything has
\* been stored in order, or refused, also when the context was done meanwhile
\* (BatchPublish!CountMeansSettled, jetstream.go:76, 90-113).
THEOREM CountIsSettled == Spec => []CountMeansSettled
<1>1. ASSUME PublishInv PROVE CountMeansSettled
  BY <1>1, ArrivedSent DEF PublishInv, CountOK, ArrivalOK, CountMeansSettled
<1> QED
  BY <1>1, PublishInvariant, PTL
=============================================================================
