--------------------------- MODULE RequestProofs ---------------------------
(***************************************************************************)
(* Proofs about one request, for every number of servers, replies and      *)
(* ticks: its safety properties, whatever the interleaving of the caller,  *)
(* the callback, the watcher and the servers.                              *)
(***************************************************************************)
EXTENDS Request, SequenceTheorems, TLAPS

USE RequestAssumption DEF Running, caller, context, sub, tally, quiet, world, vars

-----------------------------------------------------------------------------
(* The inductive invariant *)

\* What a server or the client can put into the queue, and what is a whole
\* reply.
Arriving == [from : Senders, kind : {"ok", "corrupt", "none"}]
Whole == [from : Senders, kind : {"ok"}]

\* The replies on their way carry a verdict, and where the callback stands
\* agrees with the one it is handling.
Handling ==
    /\ queue \in Seq(Arriving)
    /\ callback # "idle" => current \in Arriving
    /\ callback = "appending" => current.kind = "ok"
    /\ callback = "sending" => current.kind # "ok"
    /\ responses \in Seq(Whole)

\* TypeOK and Handling once more, split along what the steps change.
CallerTypes ==
    /\ pc \in {"call", "select", "done", "closing", "reading", "returned"}
    /\ expected \in Modes \cup {0}
    /\ result \in [err : {"", "send", "corrupt", "none"}, responses : Seq(ReplyType)]

SubTypes ==
    /\ callback \in {"idle", "entering", "appending", "sending"}
    /\ current \in ReplyType /\ queue \in Seq(ReplyType) /\ queue \in Seq(Arriving)
    /\ delivered \in Nat /\ subscribed \in BOOLEAN
    /\ callback # "idle" => current \in Arriving
    /\ callback = "appending" => current.kind = "ok"
    /\ callback = "sending" => current.kind # "ok"

TallyTypes ==
    /\ done \in {Running, "complete", "quiet", "deadline", "outer", "returned"}
    /\ mu \in {"free", "callback"} /\ received \in Nat
    /\ responses \in Seq(ReplyType) /\ responses \in Seq(Whole)
    /\ watcher \in {"none", "waiting", "fired"}

WorldTypes ==
    /\ quietAt \in Nat /\ clock \in Nat
    /\ sent \in [Servers -> Nat]
    /\ history \in [replies : Seq(Nat), fired : Nat, seen : Nat]

\* Until the request is sent nothing else moves.
BeforeSend ==
    pc = "call" => /\ callback = "idle" /\ ~subscribed
                   /\ delivered = 0
                   /\ done = "running" /\ watcher = "none"
                   /\ history.replies = <<>>

\* Replies counted, replies handed to the callback and the limit.
Counting ==
    /\ received = Len(responses)
    /\ received <= delivered
    /\ callback # "idle" => received < delivered
    /\ expected > 0 => delivered <= expected

\* Who can have ended the context.
Ended ==
    /\ done = "complete" => expected > 0 /\ received = expected
    /\ watcher # "none" \/ done = "quiet" => expected = 0
    /\ pc = "done" => done # "running"
    /\ pc \in {"call", "select", "done"} => result.err = "" /\ done # "returned"
    /\ pc \in {"closing", "reading", "returned"} /\ result.err = ""
       => done \notin {"running", "returned"}
    /\ pc \in {"reading", "returned"} /\ result.err # "send" => done # "running"
    /\ pc = "returned" /\ result.err = "" /\ done = "complete" => result.responses = responses

\* The watcher's timer is a whole quiet window after every reply so far, and
\* when it fires that is so of the replies it has seen.
Quietness ==
    /\ \A i \in 1..Len(history.replies) : history.replies[i] <= clock
    /\ watcher = "waiting" =>
          /\ \A i \in 1..Len(history.replies) : history.replies[i] + QuietWindow <= quietAt
          /\ Len(history.replies) > 0 \/ quietAt >= Timeout
    /\ history.seen <= Len(history.replies)
    /\ watcher = "fired" \/ done = "quiet" =>
          /\ history.seen > 0 \/ history.fired >= Timeout
          /\ \A i \in 1..history.seen : history.replies[i] + QuietWindow <= history.fired

RequestInv == TypeOK /\ Handling /\ BeforeSend /\ Counting /\ Ended /\ Quietness

-----------------------------------------------------------------------------
(* The steps keep it *)

LEMMA InitOK == Init => RequestInv
<1> SUFFICES ASSUME Init PROVE RequestInv
  OBVIOUS
<1>1. /\ pc = "call" /\ expected = 0 /\ done = "running" /\ mu = "free" /\ callback = "idle"
      /\ delivered = 0 /\ subscribed = FALSE /\ received = 0 /\ watcher = "none"
      /\ quietAt = 0 /\ clock = 0
  BY DEF Init, Running
<1>2. current = [from |-> "", kind |-> ""] /\ queue = <<>> /\ responses = <<>>
  BY DEF Init, NoReply
<1>3. result = [err |-> "", responses |-> <<>>]
  BY DEF Init
<1>4. sent = [s \in Servers |-> 0]
  BY DEF Init
<1>5. history = [replies |-> <<>>, fired |-> 0, seen |-> 0]
  BY DEF Init
<1>6. history.replies = <<>> /\ history.seen = 0 /\ Len(history.replies) = 0 /\ Len(responses) = 0
  BY <1>2, <1>5, EmptySeq
<1>7. TypeOK
  <2>0. current \in ReplyType
    BY <1>2 DEF ReplyType, Senders
  <2>1. <<>> \in Seq(ReplyType)
    BY EmptySeq
  <2>2. result \in [err : {"", "send", "corrupt", "none"}, responses : Seq(ReplyType)]
    BY <1>3, <2>1
  <2>3. sent \in [Servers -> Nat]
    BY <1>4
  <2>4. history \in [replies : Seq(Nat), fired : Nat, seen : Nat]
    BY <1>5
  <2> QED BY <1>1, <1>2, <2>0, <2>1, <2>2, <2>3, <2>4 DEF TypeOK, Running
<1>8. Handling
  BY <1>1, <1>2, EmptySeq DEF Handling
<1>9. BeforeSend /\ Counting
  BY <1>1, <1>6 DEF BeforeSend, Counting
<1>10. Ended
  BY <1>1, <1>3 DEF Ended
<1>11. Quietness
  BY <1>1, <1>6 DEF Quietness
<1> QED BY <1>7, <1>8, <1>9, <1>10, <1>11 DEF RequestInv

LEMMA ExpectedType == expected \in Modes \cup {0} => expected \in Int /\ (expected > 0 => expected # 0)
BY RequestAssumption

LEMMA TypesSplit == TypeOK /\ Handling <=> CallerTypes /\ SubTypes /\ TallyTypes /\ WorldTypes
BY DEF TypeOK, Handling, CallerTypes, SubTypes, TallyTypes, WorldTypes

\* What a step leaves alone keeps its type.
LEMMA KeepsTypes ==
    /\ CallerTypes /\ UNCHANGED caller => CallerTypes'
    /\ SubTypes /\ UNCHANGED sub => SubTypes'
    /\ TallyTypes /\ UNCHANGED <<context, tally, watcher>> => TallyTypes'
    /\ WorldTypes /\ UNCHANGED <<quietAt, world, history>> => WorldTypes'
BY DEF CallerTypes, SubTypes, TallyTypes, WorldTypes

LEMMA TypeStep ==
    ASSUME CallerTypes, SubTypes, TallyTypes, WorldTypes, [Next]_vars
    PROVE  CallerTypes' /\ SubTypes' /\ TallyTypes' /\ WorldTypes'
<1>1. ASSUME NEW e \in Modes, Send(e) PROVE CallerTypes' /\ SubTypes' /\ TallyTypes' /\ WorldTypes'
  <2>1. CallerTypes'
    BY <1>1 DEF Send, CallerTypes
  <2>2. SubTypes'
    BY <1>1 DEF Send, SubTypes
  <2>3. TallyTypes'
    BY <1>1 DEF Send, TallyTypes
  <2>4. WorldTypes'
    BY <1>1 DEF Send, WorldTypes
  <2> QED BY <2>1, <2>2, <2>3, <2>4
<1>2. CASE TakeError
  <2>0. current.kind \in {"corrupt", "none"} /\ NoReply \in ReplyType
    BY <1>2 DEF TakeError, SubTypes, Arriving, NoReply, ReplyType, Senders
  <2>1. CallerTypes'
    BY <1>2, <2>0 DEF TakeError, CallerTypes
  <2>2. SubTypes'
    BY <1>2, <2>0 DEF TakeError, SubTypes
  <2>3. TallyTypes'
    BY <1>2, <2>0 DEF TakeError, TallyTypes
  <2>4. WorldTypes'
    BY <1>2, KeepsTypes DEF TakeError
  <2> QED BY <2>1, <2>2, <2>3, <2>4
<1>3. CASE SeeDone
  <2>1. CallerTypes'
    BY <1>3 DEF SeeDone, CallerTypes
  <2>2. SubTypes' /\ TallyTypes' /\ WorldTypes'
    BY <1>3, KeepsTypes DEF SeeDone
  <2> QED BY <2>1, <2>2
<1>4. CASE LockToLog
  <2>1. CallerTypes'
    BY <1>4 DEF LockToLog, CallerTypes
  <2>2. SubTypes' /\ TallyTypes' /\ WorldTypes'
    BY <1>4, KeepsTypes DEF LockToLog
  <2> QED BY <2>1, <2>2
<1>5. CASE Close
  <2>1. CallerTypes'
    BY <1>5 DEF Close, End, CallerTypes
  <2>2. SubTypes'
    BY <1>5, EmptySeq DEF Close, End, SubTypes
  <2>3. TallyTypes'
    BY <1>5 DEF Close, End, TallyTypes
  <2>4. WorldTypes'
    BY <1>5, KeepsTypes DEF Close
  <2> QED BY <2>1, <2>2, <2>3, <2>4
<1>6. CASE Read
  <2>0. Append(responses, Torn) \in Seq(ReplyType)
    BY AppendProperties DEF TallyTypes, Torn, ReplyType, Senders
  <2>1. CallerTypes'
    BY <1>6, <2>0 DEF Read, CallerTypes, TallyTypes
  <2>2. SubTypes' /\ TallyTypes' /\ WorldTypes'
    BY <1>6, KeepsTypes DEF Read
  <2> QED BY <2>1, <2>2
<1>7. CASE SendFails
  <2>1. CallerTypes'
    BY <1>7, EmptySeq DEF SendFails, CallerTypes
  <2>2. SubTypes' /\ TallyTypes' /\ WorldTypes'
    BY <1>7, KeepsTypes DEF SendFails
  <2> QED BY <2>1, <2>2
<1>8. CASE Deliver
  <2>0. /\ Head(queue) \in Arriving /\ Tail(queue) \in Seq(Arriving)
        /\ Head(queue) \in ReplyType /\ Tail(queue) \in Seq(ReplyType)
    BY <1>8, HeadTailProperties DEF Deliver, SubTypes
  <2>1. SubTypes'
    BY <1>8, <2>0 DEF Deliver, SubTypes
  <2>2. CallerTypes' /\ TallyTypes' /\ WorldTypes'
    BY <1>8, KeepsTypes DEF Deliver
  <2> QED BY <2>1, <2>2
<1>9. CASE Enter
  <2>0. history' \in [replies : Seq(Nat), fired : Nat, seen : Nat]
    <3>1. Append(history.replies, clock) \in Seq(Nat)
      BY AppendProperties DEF WorldTypes
    <3>2. history' \in {history, [history EXCEPT !.replies = Append(history.replies, clock)]}
      BY <1>9 DEF Enter
    <3> QED BY <3>1, <3>2 DEF WorldTypes
  <2>1. SubTypes'
    BY <1>9, <2>0 DEF Enter, SubTypes
  <2>2. TallyTypes'
    BY <1>9, <2>0 DEF Enter, TallyTypes
  <2>3. WorldTypes'
    <3>1. clock \in Nat /\ quietAt \in Nat /\ clock + QuietWindow \in Nat
      BY DEF WorldTypes
    <3>2. quietAt' \in {clock + QuietWindow, quietAt} /\ UNCHANGED world
      BY <1>9 DEF Enter
    <3> QED
      BY <2>0, <3>1, <3>2 DEF WorldTypes
  <2>4. CallerTypes'
    BY <1>9, KeepsTypes DEF Enter
  <2> QED BY <2>1, <2>2, <2>3, <2>4
<1>10. CASE Count
  <2>0. /\ Append(responses, current) \in Seq(Whole) /\ Append(responses, current) \in Seq(ReplyType)
        /\ NoReply \in ReplyType
    <3>1. current \in Whole /\ current \in ReplyType
      BY <1>10 DEF Count, SubTypes, Arriving, Whole
    <3> QED BY <3>1, AppendProperties DEF TallyTypes, NoReply, ReplyType, Senders
  <2>1. SubTypes'
    BY <1>10, <2>0 DEF Count, End, SubTypes
  <2>2. TallyTypes'
    BY <1>10, <2>0 DEF Count, End, TallyTypes
  <2>3. CallerTypes' /\ WorldTypes'
    BY <1>10, KeepsTypes DEF Count
  <2> QED BY <2>1, <2>2, <2>3
<1>11. CASE Fire
  <2>0. Len(history.replies) \in Nat
    BY LenProperties DEF WorldTypes
  <2>1. TallyTypes'
    BY <1>11, <2>0 DEF Fire, TallyTypes
  <2>2. WorldTypes'
    BY <1>11, <2>0 DEF Fire, WorldTypes
  <2>3. CallerTypes' /\ SubTypes'
    BY <1>11, KeepsTypes DEF Fire
  <2> QED BY <2>1, <2>2, <2>3
<1>12. CASE CancelQuiet
  <2>1. TallyTypes'
    BY <1>12 DEF CancelQuiet, End, TallyTypes
  <2>2. CallerTypes' /\ SubTypes' /\ WorldTypes'
    BY <1>12, KeepsTypes DEF CancelQuiet
  <2> QED BY <2>1, <2>2
<1>13. CASE WatcherLeaves
  <2>1. TallyTypes'
    BY <1>13 DEF WatcherLeaves, TallyTypes
  <2>2. CallerTypes' /\ SubTypes' /\ WorldTypes'
    BY <1>13, KeepsTypes DEF WatcherLeaves
  <2> QED BY <2>1, <2>2
<1>14. ASSUME NEW s \in Servers, Reply(s) PROVE CallerTypes' /\ SubTypes' /\ TallyTypes' /\ WorldTypes'
  <2>0. ASSUME NEW k \in Kinds
        PROVE  /\ Append(queue, [from |-> s, kind |-> k]) \in Seq(Arriving)
               /\ Append(queue, [from |-> s, kind |-> k]) \in Seq(ReplyType)
    BY AppendProperties DEF SubTypes, Arriving, ReplyType, Senders
  <2>1. SubTypes'
    BY <1>14, <2>0 DEF Reply, SubTypes
  <2>2. WorldTypes'
    BY <1>14, <2>0 DEF Reply, WorldTypes
  <2>3. CallerTypes' /\ TallyTypes'
    BY <1>14, KeepsTypes DEF Reply
  <2> QED BY <2>1, <2>2, <2>3
<1>15. CASE ReplyAlone
  <2>0. Append(queue, Alone) \in Seq(Arriving) /\ Append(queue, Alone) \in Seq(ReplyType)
    BY AppendProperties DEF SubTypes, Alone, Arriving, ReplyType, Senders
  <2>1. SubTypes'
    BY <1>15, <2>0 DEF ReplyAlone, SubTypes
  <2>2. WorldTypes'
    BY <1>15, <2>0 DEF ReplyAlone, WorldTypes
  <2>3. CallerTypes' /\ TallyTypes'
    BY <1>15, KeepsTypes DEF ReplyAlone
  <2> QED BY <2>1, <2>2, <2>3
<1>16. CASE OuterCancel
  <2>1. TallyTypes'
    BY <1>16 DEF OuterCancel, End, TallyTypes
  <2>2. CallerTypes' /\ SubTypes' /\ WorldTypes'
    BY <1>16, KeepsTypes DEF OuterCancel
  <2> QED BY <2>1, <2>2
<1>17. CASE Tick
  <2>1. WorldTypes'
    BY <1>17 DEF Tick, WorldTypes
  <2>2. CallerTypes' /\ SubTypes' /\ TallyTypes'
    BY <1>17, KeepsTypes DEF Tick
  <2> QED BY <2>1, <2>2
<1>18. CASE Expire
  <2>1. TallyTypes'
    BY <1>18 DEF Expire, End, TallyTypes
  <2>2. CallerTypes' /\ SubTypes' /\ WorldTypes'
    BY <1>18, KeepsTypes DEF Expire
  <2> QED BY <2>1, <2>2
<1>19. CASE UNCHANGED vars
  BY <1>19, KeepsTypes
<1> QED BY <1>1, <1>2, <1>3, <1>4, <1>5, <1>6, <1>7, <1>8, <1>9,
          <1>10, <1>11, <1>12, <1>13, <1>14, <1>15, <1>16, <1>17, <1>18, <1>19
        DEF Next, Caller, Callback, Watcher, World, Terminated

LEMMA ControlStep ==
    ASSUME CallerTypes, SubTypes, TallyTypes, WorldTypes, BeforeSend, Counting, Ended, [Next]_vars
    PROVE  BeforeSend' /\ Counting' /\ Ended'
<1>0. /\ expected \in Int /\ delivered \in Nat /\ received \in Nat /\ Len(responses) \in Nat
  <2>1. Len(responses) \in Nat
    BY LenProperties DEF TallyTypes
  <2>2. expected \in Int
    <3>1. expected \in Modes \cup {0}
      BY DEF CallerTypes
    <3> QED BY <3>1, ExpectedType
  <2> QED BY <2>1, <2>2 DEF SubTypes, TallyTypes
<1>1. ASSUME NEW e \in Modes, Send(e) PROVE BeforeSend' /\ Counting' /\ Ended'
  <2>0. e \in Int
    OBVIOUS
  <2>1. BeforeSend'
    BY <1>1 DEF Send, BeforeSend
  <2>2. Counting'
    <3>1. (received = Len(responses))'
      BY <1>0, <1>1, <2>0 DEF Send, BeforeSend, Counting
    <3>2. (received <= delivered /\ (callback # "idle" => received < delivered))'
      BY <1>0, <1>1, <2>0 DEF Send, BeforeSend, Counting
    <3>3. (expected > 0 => delivered <= expected)'
      BY <1>0, <1>1, <2>0 DEF Send, BeforeSend, Counting
    <3> QED BY <3>1, <3>2, <3>3 DEF Counting
  <2>3. Ended'
    BY <1>0, <1>1, <2>0 DEF Send, BeforeSend, Counting, Ended
  <2> QED BY <2>1, <2>2, <2>3
<1>2. CASE TakeError
  <2>0. result'.err = current.kind /\ current.kind \in {"corrupt", "none"}
    BY <1>2 DEF TakeError, CallerTypes, SubTypes, Arriving
  <2>1. BeforeSend'
    BY <1>2 DEF TakeError, BeforeSend
  <2>2. Counting'
    BY <1>0, <1>2, <2>0 DEF TakeError, BeforeSend, Counting
  <2>3. Ended'
    BY <1>0, <1>2, <2>0 DEF TakeError, BeforeSend, Counting, Ended
  <2> QED BY <2>1, <2>2, <2>3
<1>3. CASE SeeDone
  <2>1. BeforeSend'
    BY <1>3 DEF SeeDone, BeforeSend
  <2>2. Counting'
    BY <1>0, <1>3 DEF SeeDone, BeforeSend, Counting
  <2>3. Ended'
    BY <1>0, <1>3 DEF SeeDone, BeforeSend, Counting, Ended
  <2> QED BY <2>1, <2>2, <2>3
<1>4. CASE LockToLog
  <2>1. BeforeSend'
    BY <1>4 DEF LockToLog, BeforeSend
  <2>2. Counting'
    BY <1>0, <1>4 DEF LockToLog, BeforeSend, Counting
  <2>3. Ended'
    BY <1>0, <1>4 DEF LockToLog, BeforeSend, Counting, Ended
  <2> QED BY <2>1, <2>2, <2>3
<1>5. CASE Close
  <2>1. BeforeSend'
    BY <1>5 DEF Close, End, BeforeSend
  <2>2. Counting'
    BY <1>0, <1>5 DEF Close, End, BeforeSend, Counting
  <2>3. Ended'
    BY <1>0, <1>5 DEF Close, End, BeforeSend, Counting, Ended
  <2> QED BY <2>1, <2>2, <2>3
<1>6. CASE Read
  <2>0. result'.err = result.err /\ (done = "complete" => result'.responses = responses)
    <3>1. callback # "appending" => result'.responses = responses
      BY <1>6 DEF Read, CallerTypes
    <3>2. done = "complete" => callback # "appending"
      <4>1. callback # "idle" => received < delivered
        BY DEF Counting
      <4>2. done = "complete" => received = expected /\ delivered <= expected
        BY DEF Counting, Ended
      <4> QED BY <1>0, <4>1, <4>2
    <3>3. result'.err = result.err
      BY <1>6 DEF Read, CallerTypes
    <3> QED BY <3>1, <3>2, <3>3
  <2>1. BeforeSend'
    BY <1>6 DEF Read, BeforeSend
  <2>2. Counting'
    BY <1>0, <1>6, <2>0 DEF Read, BeforeSend, Counting
  <2>3. Ended'
    BY <1>0, <1>6, <2>0 DEF Read, BeforeSend, Counting, Ended
  <2> QED BY <2>1, <2>2, <2>3
<1>7. CASE SendFails
  <2>0. result'.err = "send"
    BY <1>7 DEF SendFails
  <2>1. BeforeSend'
    BY <1>7 DEF SendFails, BeforeSend
  <2>2. Counting'
    BY <1>0, <1>7, <2>0 DEF SendFails, BeforeSend, Counting
  <2>3. Ended'
    BY <1>0, <1>7, <2>0 DEF SendFails, BeforeSend, Counting, Ended
  <2> QED BY <2>1, <2>2, <2>3
<1>8. CASE Deliver
  <2>1. BeforeSend'
    BY <1>8 DEF Deliver, BeforeSend
  <2>2. Counting'
    <3>1. (received = Len(responses))'
      BY <1>0, <1>8 DEF Deliver, BeforeSend, Counting
    <3>2. (received <= delivered /\ (callback # "idle" => received < delivered))'
      BY <1>0, <1>8 DEF Deliver, BeforeSend, Counting
    <3>3. (expected > 0 => delivered <= expected)'
      BY <1>0, <1>8 DEF Deliver, BeforeSend, Counting
    <3> QED BY <3>1, <3>2, <3>3 DEF Counting
  <2>3. Ended'
    BY <1>0, <1>8 DEF Deliver, BeforeSend, Counting, Ended
  <2> QED BY <2>1, <2>2, <2>3
<1>9. CASE Enter
  <2>1. BeforeSend'
    BY <1>9 DEF Enter, BeforeSend
  <2>2. Counting'
    BY <1>0, <1>9 DEF Enter, BeforeSend, Counting
  <2>3. Ended'
    BY <1>0, <1>9 DEF Enter, BeforeSend, Counting, Ended
  <2> QED BY <2>1, <2>2, <2>3
<1>10. CASE Count
  <2>0. Len(responses') = Len(responses) + 1
    <3>1. current \in Whole
      BY <1>10 DEF Count, SubTypes, Arriving, Whole
    <3> QED BY <3>1, <1>10, AppendProperties DEF Count, TallyTypes
  <2>1. BeforeSend'
    BY <1>10 DEF Count, End, BeforeSend
  <2>2. Counting'
    <3>1. (received = Len(responses))'
      BY <1>0, <1>10, <2>0 DEF Count, End, BeforeSend, Counting
    <3>2. (received <= delivered /\ (callback # "idle" => received < delivered))'
      BY <1>0, <1>10, <2>0 DEF Count, End, BeforeSend, Counting
    <3>3. (expected > 0 => delivered <= expected)'
      BY <1>0, <1>10, <2>0 DEF Count, End, BeforeSend, Counting
    <3> QED BY <3>1, <3>2, <3>3 DEF Counting
  <2>3. Ended'
    <3>1. done # "complete"
      <4>1. received < delivered /\ (expected > 0 => delivered <= expected)
        BY <1>10 DEF Count, Counting
      <4>2. done = "complete" => expected > 0 /\ received = expected
        BY DEF Ended
      <4> QED BY <1>0, <4>1, <4>2
    <3>2. done' # "quiet" \/ done = "quiet"
      BY <1>10 DEF Count, End
    <3>3. (done = "complete" => expected > 0 /\ received = expected)'
      BY <1>0, <1>10, <3>1 DEF Count, End, Ended
    <3>4. pc \in {"reading", "returned"} /\ result.err # "send" => done' = done
      BY <1>10, <3>1 DEF Count, End, Ended
    <3> QED BY <1>10, <3>1, <3>2, <3>3, <3>4 DEF Count, End, Ended
  <2> QED BY <2>1, <2>2, <2>3
<1>11. CASE Fire
  <2>1. BeforeSend'
    BY <1>11 DEF Fire, BeforeSend
  <2>2. Counting'
    BY <1>0, <1>11 DEF Fire, BeforeSend, Counting
  <2>3. Ended'
    BY <1>0, <1>11 DEF Fire, BeforeSend, Counting, Ended
  <2> QED BY <2>1, <2>2, <2>3
<1>12. CASE CancelQuiet
  <2>1. BeforeSend'
    BY <1>12 DEF CancelQuiet, End, BeforeSend
  <2>2. Counting'
    BY <1>0, <1>12 DEF CancelQuiet, End, BeforeSend, Counting
  <2>3. Ended'
    BY <1>0, <1>12 DEF CancelQuiet, End, BeforeSend, Counting, Ended
  <2> QED BY <2>1, <2>2, <2>3
<1>13. CASE WatcherLeaves
  <2>1. BeforeSend'
    BY <1>13 DEF WatcherLeaves, BeforeSend
  <2>2. Counting'
    BY <1>0, <1>13 DEF WatcherLeaves, BeforeSend, Counting
  <2>3. Ended'
    BY <1>0, <1>13 DEF WatcherLeaves, BeforeSend, Counting, Ended
  <2> QED BY <2>1, <2>2, <2>3
<1>14. ASSUME NEW s \in Servers, Reply(s) PROVE BeforeSend' /\ Counting' /\ Ended'
  <2>1. BeforeSend'
    BY <1>14 DEF Reply, BeforeSend
  <2>2. Counting'
    BY <1>0, <1>14 DEF Reply, BeforeSend, Counting
  <2>3. Ended'
    BY <1>0, <1>14 DEF Reply, BeforeSend, Counting, Ended
  <2> QED BY <2>1, <2>2, <2>3
<1>15. CASE ReplyAlone
  <2>1. BeforeSend'
    BY <1>15 DEF ReplyAlone, BeforeSend
  <2>2. Counting'
    BY <1>0, <1>15 DEF ReplyAlone, BeforeSend, Counting
  <2>3. Ended'
    BY <1>0, <1>15 DEF ReplyAlone, BeforeSend, Counting, Ended
  <2> QED BY <2>1, <2>2, <2>3
<1>16. CASE OuterCancel
  <2>1. BeforeSend'
    BY <1>16 DEF OuterCancel, End, BeforeSend
  <2>2. Counting'
    BY <1>0, <1>16 DEF OuterCancel, End, BeforeSend, Counting
  <2>3. Ended'
    BY <1>0, <1>16 DEF OuterCancel, End, BeforeSend, Counting, Ended
  <2> QED BY <2>1, <2>2, <2>3
<1>17. CASE Tick
  <2>1. BeforeSend'
    BY <1>17 DEF Tick, BeforeSend
  <2>2. Counting'
    BY <1>0, <1>17 DEF Tick, BeforeSend, Counting
  <2>3. Ended'
    BY <1>0, <1>17 DEF Tick, BeforeSend, Counting, Ended
  <2> QED BY <2>1, <2>2, <2>3
<1>18. CASE Expire
  <2>1. BeforeSend'
    BY <1>18 DEF Expire, End, BeforeSend
  <2>2. Counting'
    BY <1>0, <1>18 DEF Expire, End, BeforeSend, Counting
  <2>3. Ended'
    BY <1>0, <1>18 DEF Expire, End, BeforeSend, Counting, Ended
  <2> QED BY <2>1, <2>2, <2>3
<1>19. CASE UNCHANGED vars
  BY <1>19 DEF BeforeSend, Counting, Ended
<1> QED BY <1>1, <1>2, <1>3, <1>4, <1>5, <1>6, <1>7, <1>8, <1>9,
          <1>10, <1>11, <1>12, <1>13, <1>14, <1>15, <1>16, <1>17, <1>18, <1>19
        DEF Next, Caller, Callback, Watcher, World, Terminated

LEMMA QuietStep ==
    ASSUME CallerTypes, SubTypes, TallyTypes, WorldTypes, BeforeSend, Ended, Quietness, [Next]_vars
    PROVE  Quietness'
<1>0. /\ clock \in Nat /\ quietAt \in Nat /\ history.fired \in Nat /\ history.seen \in Nat
      /\ history.replies \in Seq(Nat) /\ Len(history.replies) \in Nat
      /\ \A i \in 1..Len(history.replies) : history.replies[i] \in Nat
  <2>1. history.replies \in Seq(Nat)
    BY DEF WorldTypes
  <2> QED BY <2>1, LenProperties, ElementOfSeq DEF WorldTypes
<1>1. Timeout \in Nat /\ QuietWindow \in Nat
  OBVIOUS
<1>2. ASSUME UNCHANGED history, clock' \in Nat, clock <= clock',
             watcher' = "waiting" => watcher = "waiting" /\ quietAt' = quietAt,
             watcher' = "fired" \/ done' = "quiet" => watcher = "fired" \/ done = "quiet"
      PROVE  Quietness'
  <2>1. (\A i \in 1..Len(history.replies) : history.replies[i] <= clock)'
    BY <1>0, <1>2 DEF Quietness
  <2> QED BY <1>2, <2>1 DEF Quietness
<1>3. ASSUME NEW e \in Modes, Send(e) PROVE Quietness'
  <2>1. history.replies = <<>> /\ Len(history.replies) = 0 /\ UNCHANGED <<history, clock, done>>
    BY <1>3, EmptySeq DEF Send, BeforeSend
  <2>2. watcher' # "fired" /\ quietAt' = clock + Timeout /\ done # "quiet"
    BY <1>3 DEF Send, BeforeSend
  <2> QED BY <1>0, <1>1, <2>1, <2>2 DEF Quietness
<1>4. CASE Enter
  <2>0. UNCHANGED <<expected, done, watcher, clock>>
    BY <1>4 DEF Enter
  <2>1. CASE current.kind = "corrupt"
    BY <1>0, <1>2, <1>4, <2>0, <2>1 DEF Enter
  <2>2. CASE current.kind # "corrupt"
    <3> DEFINE r == history.replies
    <3>1. history' = [history EXCEPT !.replies = Append(r, clock)]
      BY <1>4, <2>2 DEF Enter
    <3>2. /\ history'.replies = Append(r, clock)
          /\ history'.seen = history.seen /\ history'.fired = history.fired
      BY <3>1 DEF WorldTypes
    <3>3. /\ Len(Append(r, clock)) = Len(r) + 1
          /\ \A i \in 1..Len(r) : Append(r, clock)[i] = r[i]
          /\ Append(r, clock)[Len(r) + 1] = clock
      BY <1>0, AppendProperties
    <3>4. \A i \in 1..(Len(r) + 1) : i \in 1..Len(r) \/ i = Len(r) + 1
      BY <1>0
    <3>5. \A i \in 1..(Len(r) + 1) : Append(r, clock)[i] <= clock
      BY <1>0, <3>3, <3>4 DEF Quietness
    <3>6. watcher = "waiting" => quietAt' = clock + QuietWindow
      BY <1>4, <2>2 DEF Enter, Ended
    <3>7. \A i \in 1..(Len(r) + 1) : Append(r, clock)[i] \in Nat
      BY <1>0, <3>3, <3>4
    <3>8. watcher = "waiting" => \A i \in 1..(Len(r) + 1) : Append(r, clock)[i] + QuietWindow <= quietAt'
      BY <1>0, <1>1, <3>5, <3>6, <3>7
    <3>9. \A i \in 1..history.seen : Append(r, clock)[i] = r[i]
      BY <1>0, <3>3 DEF Quietness
    <3>10. history.seen <= Len(r)
      BY DEF Quietness
    <3>11. watcher = "fired" \/ done = "quiet" =>
              /\ history.seen > 0 \/ history.fired >= Timeout
              /\ \A i \in 1..history.seen : Append(r, clock)[i] + QuietWindow <= history.fired
      BY <3>9 DEF Quietness
    <3> HIDE DEF r
    <3> QED BY <1>0, <2>0, <3>2, <3>3, <3>5, <3>8, <3>10, <3>11 DEF Quietness
  <2> QED BY <2>1, <2>2
<1>5. CASE Fire
  <2> DEFINE r == history.replies
  <2>1. history' = [history EXCEPT !.fired = clock, !.seen = Len(r)]
    BY <1>5 DEF Fire
  <2>2. history'.replies = r /\ history'.fired = clock /\ history'.seen = Len(r)
    BY <2>1 DEF WorldTypes
  <2>3. watcher = "waiting" /\ watcher' = "fired" /\ quietAt <= clock /\ clock' = clock
    BY <1>0, <1>5 DEF Fire
  <2>4. /\ \A i \in 1..Len(r) : r[i] + QuietWindow <= clock
        /\ Len(r) > 0 \/ clock >= Timeout
    BY <1>0, <1>1, <2>3 DEF Quietness
  <2>5. \A i \in 1..Len(r) : r[i] <= clock
    BY DEF Quietness
  <2> HIDE DEF r
  <2>6. Len(r) \in Nat
    BY <1>0 DEF r
  <2> QED BY <2>2, <2>3, <2>4, <2>5, <2>6 DEF Quietness
<1>6. CASE CancelQuiet
  BY <1>0, <1>2, <1>6 DEF CancelQuiet, End
<1>7. CASE WatcherLeaves
  BY <1>0, <1>2, <1>7 DEF WatcherLeaves
<1>8. CASE Tick
  BY <1>0, <1>2, <1>8 DEF Tick
<1>9. CASE Close \/ Count \/ OuterCancel \/ Expire
  BY <1>0, <1>2, <1>9 DEF Close, Count, OuterCancel, Expire, End
<1>10. ASSUME UNCHANGED <<context, quiet, history, clock>> PROVE Quietness'
  BY <1>0, <1>2, <1>10
<1>11. ASSUME NEW s \in Servers, Reply(s) PROVE Quietness'
  BY <1>10, <1>11 DEF Reply
<1>12. CASE TakeError \/ SeeDone \/ LockToLog \/ Read \/ SendFails \/ Deliver \/ ReplyAlone
  BY <1>10, <1>12 DEF TakeError, SeeDone, LockToLog, Read, SendFails, Deliver, ReplyAlone
<1>13. CASE UNCHANGED vars
  BY <1>10, <1>13
<1> QED BY <1>3, <1>4, <1>5, <1>6, <1>7, <1>8, <1>9, <1>11, <1>12, <1>13
        DEF Next, Caller, Callback, Watcher, World, Terminated

-----------------------------------------------------------------------------
(* The theorems *)

LEMMA RequestInvariant == Spec => []RequestInv
<1>1. RequestInv /\ [Next]_vars => RequestInv'
  <2> SUFFICES ASSUME RequestInv, [Next]_vars PROVE RequestInv'
    OBVIOUS
  <2>1. /\ CallerTypes /\ SubTypes /\ TallyTypes /\ WorldTypes
        /\ BeforeSend /\ Counting /\ Ended /\ Quietness
    BY TypesSplit DEF RequestInv
  <2>2. CallerTypes' /\ SubTypes' /\ TallyTypes' /\ WorldTypes'
    BY <2>1, TypeStep
  <2>3. BeforeSend' /\ Counting' /\ Ended'
    BY <2>1, ControlStep
  <2>4. Quietness'
    BY <2>1, QuietStep
  <2>5. TypeOK' /\ Handling'
    BY <2>2 DEF TypeOK, Handling, CallerTypes, SubTypes, TallyTypes, WorldTypes
  <2> QED BY <2>3, <2>4, <2>5 DEF RequestInv
<1> QED BY InitOK, <1>1, PTL DEF Spec

\* Every variable stays within its type, whatever arrives and fails
\* (request.go:117-243).
THEOREM RequestTypes == Spec => []TypeOK
<1>1. RequestInv => TypeOK
  BY DEF RequestInv
<1> QED BY <1>1, RequestInvariant, PTL

\* No number of replies makes the callback handle more than were asked for
\* (request.go:213).
THEOREM LimitHolds == Spec => []NeverMoreThanExpected
<1>1. RequestInv => NeverMoreThanExpected
  <2> SUFFICES ASSUME RequestInv, expected > 0 PROVE Len(responses) <= expected
    BY DEF NeverMoreThanExpected
  <2>1. received = Len(responses) /\ received <= delivered /\ delivered <= expected
    BY DEF RequestInv, Counting
  <2>2. received \in Nat /\ delivered \in Nat /\ expected \in Int
    <3>1. expected \in Modes \cup {0}
      BY DEF RequestInv, TypeOK
    <3> QED BY <3>1, ExpectedType DEF RequestInv, TypeOK
  <2> QED BY <2>1, <2>2
<1> QED BY <1>1, RequestInvariant, PTL

\* What is returned early without an error is complete and whole, though it
\* is read without the mutex (request.go:129-134, 203-206, 237).
THEOREM EarlyIsComplete == Spec => []EarlyMeansComplete
<1>1. RequestInv => EarlyMeansComplete
  <2> SUFFICES ASSUME RequestInv, pc = "returned", result.err = "", expected > 0,
                      done \notin {"deadline", "outer"}
               PROVE  /\ Len(result.responses) = expected
                      /\ \A i \in 1..expected : result.responses[i].kind = "ok"
    BY DEF EarlyMeansComplete
  <2>1. done \in {Running, "complete", "quiet", "deadline", "outer", "returned"}
    BY DEF RequestInv, TypeOK
  <2>2. expected \in Modes \cup {0}
    BY DEF RequestInv, TypeOK
  <2>3. done = "complete"
    <3>1. done \notin {Running, "returned"}
      BY DEF RequestInv, Ended
    <3>2. done = "quiet" => expected = 0
      BY DEF RequestInv, Ended
    <3>3. expected # 0
      BY <2>2, ExpectedType, Zenon
    <3> QED BY <2>1, <3>1, <3>2, <3>3, Zenon
  <2>4. result.responses = responses /\ Len(responses) = expected
    BY <2>3 DEF RequestInv, Ended, Counting
  <2>5. responses \in Seq(Whole)
    BY DEF RequestInv, Handling
  <2>6. \A i \in 1..Len(responses) : responses[i] \in Whole
    BY <2>5, ElementOfSeq
  <2> QED BY <2>4, <2>6 DEF Whole
<1> QED BY <1>1, RequestInvariant, PTL

\* The timer that ends an adaptive request had a whole quiet window behind
\* every reply handled before it fired, or the timeout behind it when there
\* was none (request.go:160-173, 194-196).
THEOREM QuietWindowHolds == Spec => []QuietWindowIsWaitedOut
<1>1. RequestInv => QuietWindowIsWaitedOut
  BY DEF RequestInv, Quietness, QuietWindowIsWaitedOut
<1> QED BY <1>1, RequestInvariant, PTL
=============================================================================
