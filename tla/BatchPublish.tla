---------------------------- MODULE BatchPublish ----------------------------
(***************************************************************************)
(* The JetStream sink's Prepare with publishBatch and waitPublish          *)
(* (src/sink/jetstream/jetstream.go): the messages of one batch of a       *)
(* collector are published asynchronously, and every BatchSize of them     *)
(* waited for. The client's publisher and the stream are external: it      *)
(* sends in order, and settles each message's future when its              *)
(* acknowledgement, or a refusal, comes back.                              *)
(***************************************************************************)
EXTENDS Integers, Sequences, FiniteSets

CONSTANTS
    Sizes,       \* how many messages a batch may have
    BatchSize,   \* SinkBatchSize: not positive waits at the end only
    AcksLost,    \* an acknowledgement may be lost
    Cancels      \* the context may be done

ASSUME BatchAssumption ==
    /\ Sizes \subseteq Nat
    /\ BatchSize \in Int
    /\ AcksLost \in BOOLEAN /\ Cancels \in BOOLEAN

VARIABLES
    size,
    pc,
    sent,        \* messages given to the client's publisher
    futures,     \* those whose futures have not been looked at
    pending,     \* the publisher's: sent and not settled
    lost,        \* pending for good
    stream,      \* what the server has stored, in its order
    refused,     \* what it has refused
    cancelled,   \* ctx is done
    result       \* what Prepare returns: the count, or -1 for an error

vars == <<size, pc, sent, futures, pending, lost, stream, refused, cancelled, result>>

Init ==
    /\ size \in Sizes
    /\ pc = "publish" /\ sent = 0 /\ futures = {}
    /\ pending = {} /\ lost = {} /\ stream = <<>> /\ refused = {}
    /\ cancelled = FALSE /\ result = 0

-----------------------------------------------------------------------------
(* publishBatch *)

\* Deviation: a batch is one message longer.
FullLate == Cardinality(futures') > BatchSize

Full == Cardinality(futures') = BatchSize

\* Deviation: the loop runs once too often.
PublishNextTooOften ==
    /\ pc = "publish" /\ sent <= size
    /\ sent' = sent + 1
    /\ futures' = futures \cup {sent'}
    /\ pending' = pending \cup {sent'}
    /\ pc' = IF Full THEN "complete" ELSE "publish"
    /\ UNCHANGED <<size, lost, stream, refused, cancelled, result>>

PublishNext ==
    /\ pc = "publish" /\ sent < size
    /\ sent' = sent + 1
    /\ futures' = futures \cup {sent'}
    /\ pending' = pending \cup {sent'}
    /\ pc' = IF Full THEN "complete" ELSE "publish"
    /\ UNCHANGED <<size, lost, stream, refused, cancelled, result>>

\* The publisher does not take the message. What it holds stays in flight.
PublishFails ==
    /\ pc = "publish" /\ sent < size
    /\ pc' = "returned" /\ result' = -1
    /\ UNCHANGED <<size, sent, futures, pending, lost, stream, refused, cancelled>>

\* All published: what is left of the last batch is waited for.
PublishDone ==
    /\ pc = "publish" /\ sent = size
    /\ \/ futures # {} /\ pc' = "complete" /\ UNCHANGED result
       \/ futures = {} /\ pc' = "returned" /\ result' = size
    /\ UNCHANGED <<size, sent, futures, pending, lost, stream, refused, cancelled>>

-----------------------------------------------------------------------------
(* waitPublish *)

AfterWait == IF sent < size THEN "publish" ELSE "returned"

\* Deviation: only the futures are waited for.
CompleteAtOnce ==
    /\ pc = "complete"
    /\ pc' = "settle"
    /\ UNCHANGED <<size, sent, futures, pending, lost, stream, refused, cancelled, result>>

\* <-js.PublishAsyncComplete(), which knows no context.
Complete ==
    /\ pc = "complete"
    /\ pending = {}
    /\ pc' = "settle"
    /\ UNCHANGED <<size, sent, futures, pending, lost, stream, refused, cancelled, result>>

\* Deviation: the select has no branch for a refusal.
SettleStored ==
    /\ pc = "settle"
    /\ cancelled \/ futures \cap (pending \cup refused) = {}
    /\ futures' = {}
    /\ pc' = AfterWait
    /\ result' = IF sent < size THEN result ELSE size
    /\ UNCHANGED <<size, sent, pending, lost, stream, refused, cancelled>>

\* Each future in turn: it is settled, or the context is done and the rest is
\* left.
Settle ==
    /\ pc = "settle"
    /\ cancelled \/ futures \cap pending = {}
    /\ futures' = {}
    /\ pc' = AfterWait
    /\ result' = IF sent < size THEN result ELSE size
    /\ UNCHANGED <<size, sent, pending, lost, stream, refused, cancelled>>

-----------------------------------------------------------------------------
(* The server and the world *)

Arrived == {stream[i] : i \in DOMAIN stream} \cup refused

\* The server takes the messages in the order they were sent. It stores each
\* or refuses it, and its acknowledgement comes back now, or later, or never.
Arrive ==
    /\ \E m \in 1..sent :
          /\ m \notin Arrived /\ \A k \in 1..(m - 1) : k \in Arrived
          /\ \/ stream' = Append(stream, m) /\ UNCHANGED refused
             \/ refused' = refused \cup {m} /\ UNCHANGED stream
    /\ UNCHANGED <<size, pc, sent, futures, pending, lost, cancelled, result>>

\* An acknowledgement or a refusal settles its future.
Acknowledge ==
    /\ \E m \in (pending \cap Arrived) \ lost : pending' = pending \ {m}
    /\ UNCHANGED <<size, pc, sent, futures, lost, stream, refused, cancelled, result>>

LoseAck ==
    /\ AcksLost
    /\ \E m \in (pending \cap Arrived) \ lost : lost' = lost \cup {m}
    /\ UNCHANGED <<size, pc, sent, futures, pending, stream, refused, cancelled, result>>

Cancel ==
    /\ Cancels /\ ~cancelled
    /\ cancelled' = TRUE
    /\ UNCHANGED <<size, pc, sent, futures, pending, lost, stream, refused, result>>

\* A Prepare that has returned may stay so.
Terminated == pc = "returned" /\ UNCHANGED vars

Prepare == PublishNext \/ PublishDone \/ Complete \/ Settle

Next == Prepare \/ PublishFails \/ Arrive \/ Acknowledge \/ LoseAck \/ Cancel \/ Terminated

Spec == Init /\ [][Next]_vars

\* Prepare goes on when it can, messages arrive, and acknowledgements that
\* are not lost come back.
FairSpec == Spec /\ WF_vars(Prepare) /\ WF_vars(Arrive) /\ WF_vars(Acknowledge)

-----------------------------------------------------------------------------
(* Properties *)

\* Type correctness of every variable.
TypeOK ==
    /\ size \in Sizes
    /\ pc \in {"publish", "complete", "settle", "returned"}
    /\ sent \in 0..size
    /\ futures \subseteq 1..sent /\ pending \subseteq 1..sent /\ lost \subseteq pending
    /\ stream \in Seq(1..sent) /\ refused \subseteq 1..sent
    /\ cancelled \in BOOLEAN
    /\ result \in Int

\* The publisher never holds more than a batch of messages that are not
\* acknowledged (jetstream.go:104-107).
InFlightIsBounded == BatchSize > 0 => Cardinality(pending) <= BatchSize

\* When Prepare returns a count, every message has been stored, in order, or
\* refused, even if the context was done meanwhile: the end marker that
\* follows is behind all of them (jetstream.go:76, 90-113).
CountMeansSettled ==
    pc = "returned" /\ result >= 0 =>
        /\ result = size /\ pending = {}
        /\ Arrived = 1..size
        /\ \A i, j \in DOMAIN stream : i < j => stream[i] < stream[j]

\* Prepare returns, or waits for an acknowledgement that was lost; the
\* context does not help then (jetstream.go:76).
PrepareReturns == <>(pc = "returned" \/ lost # {})
=============================================================================
