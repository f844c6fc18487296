------------------------------ MODULE Request ------------------------------
(***************************************************************************)
(* One request to the servers and the gathering of its replies: doReq and  *)
(* doReqAsync (src/request.go). Four parties meet in it: the caller, the   *)
(* goroutine in which the NATS client runs the subscription's callback,    *)
(* for an adaptive request the goroutine that watches the quiet-window     *)
(* timer, and the servers.                                                 *)
(*                                                                         *)
(* `expected' selects the mode: a positive number is how many replies      *)
(* complete the request, 0 waits until no reply came for a while, and -1   *)
(* (discovery) waits out the timeout.                                      *)
(***************************************************************************)
EXTENDS Integers, Sequences, FiniteSets

CONSTANTS
    Servers,       \* who may answer
    Modes,         \* the values of `expected' a caller may pass
    Kinds,         \* of replies, a subset of {"ok", "corrupt"}
    MayBeAlone,    \* no server listens: the client is told so by a 503 reply
    Timeout,       \* the deadline of the request, in ticks
    QuietWindow,   \* 300ms
    MaxReplies,    \* bound: replies of one server
    MaxClock       \* bound: the last tick

ASSUME RequestAssumption ==
    /\ Modes \subseteq Int /\ Kinds \subseteq {"ok", "corrupt"} /\ MayBeAlone \in BOOLEAN
    /\ Timeout \in Nat \ {0} /\ QuietWindow \in Nat \ {0}
    /\ MaxReplies \in Nat /\ MaxClock \in Nat

VARIABLES
    pc,          \* the caller
    expected,
    done,        \* requestCtx is done, and (ghost) what ended it first
    mu,          \* the mutex of doReqAsync
    callback,    \* where the subscription's goroutine is
    current,     \* the reply it is handling
    queue,       \* replies the client has for the subscription
    delivered,   \* callbacks started: AutoUnsubscribe counts them
    subscribed,
    received,    \* the replies counted towards `expected'
    responses,   \* what the handler has gathered
    watcher,     \* the goroutine of an adaptive request
    quietAt,     \* when its timer fires
    result,      \* what doReq returns
    clock,
    sent,        \* how many replies each server has sent
    history      \* ghost: when each reply was handled; when the timer fired, after how many

caller == <<pc, expected, result>>
context == <<done>>
sub    == <<callback, current, queue, delivered, subscribed>>
tally  == <<mu, received, responses>>
quiet  == <<watcher, quietAt>>
world  == <<clock, sent>>
vars   == <<caller, context, sub, tally, quiet, world, history>>

Running == "running"
NoReply == [from |-> "", kind |-> ""]
\* A reply read while the callback's goroutine was appending it: doReq looks
\* at `responses' without the mutex that guards it.
Torn == [from |-> "", kind |-> "torn"]
Alone == [from |-> "", kind |-> "none"]

Init ==
    /\ pc = "call" /\ expected = 0 /\ result = [err |-> "", responses |-> <<>>]
    /\ done = Running
    /\ mu = "free"
    /\ callback = "idle" /\ current = NoReply /\ queue = <<>> /\ delivered = 0
    /\ subscribed = FALSE
    /\ received = 0 /\ responses = <<>>
    /\ watcher = "none" /\ quietAt = 0
    /\ clock = 0 /\ sent = [s \in Servers |-> 0]
    /\ history = [replies |-> <<>>, fired |-> 0, seen |-> 0]

End(why) == done' = IF done = Running THEN why ELSE done

-----------------------------------------------------------------------------
(* The caller *)

\* The context and the timer are started, the inbox subscribed, the request
\* sent.
Send(e) ==
    /\ pc = "call"
    /\ expected' = e
    /\ watcher' = IF e = 0 THEN "waiting" ELSE "none"
    /\ quietAt' = clock + Timeout
    /\ subscribed' = TRUE
    /\ pc' = "select"
    /\ UNCHANGED <<result, context, callback, current, queue, delivered, tally, world, history>>

\* The options cannot be marshalled, or the connection refuses to subscribe
\* or to publish.
SendFails ==
    /\ pc = "call"
    /\ pc' = "returned"
    /\ result' = [err |-> "send", responses |-> <<>>]
    /\ UNCHANGED <<expected, context, sub, tally, quiet, world, history>>

\* errCh is not buffered: the callback hands its error over while it holds
\* the mutex, and only while the caller is in its select.
TakeError ==
    /\ pc = "select"
    /\ callback = "sending"
    /\ pc' = "closing"
    /\ result' = [result EXCEPT !.err = current.kind]
    /\ callback' = "idle" /\ current' = NoReply
    /\ mu' = "free"
    /\ UNCHANGED <<expected, context, queue, delivered, subscribed, received, responses,
                   quiet, world, history>>

SeeDone ==
    /\ pc = "select"
    /\ done # Running
    /\ pc' = "done"
    /\ UNCHANGED <<expected, result, context, sub, tally, quiet, world, history>>

\* mu.Lock(), a look at `received' for the log, mu.Unlock().
LockToLog ==
    /\ pc = "done"
    /\ mu = "free"
    /\ pc' = "closing"
    /\ UNCHANGED <<expected, result, context, sub, tally, quiet, world, history>>

\* The deferred calls: Unsubscribe drops what is queued, cancel ends the
\* context.
Close ==
    /\ pc = "closing"
    /\ subscribed' = FALSE
    /\ queue' = <<>>
    /\ End("returned")
    /\ pc' = "reading"
    /\ UNCHANGED <<expected, result, callback, current, delivered, tally, quiet, world, history>>

\* doReq returns `responses' as it finds it.
Read ==
    /\ pc = "reading"
    /\ \E seen \in {responses} \cup (IF callback = "appending" THEN {Append(responses, Torn)} ELSE {}) :
          result' = [result EXCEPT !.responses = seen]
    /\ pc' = "returned"
    /\ UNCHANGED <<expected, context, sub, tally, quiet, world, history>>

-----------------------------------------------------------------------------
(* The subscription's goroutine *)

\* Deviation: the subscription has no limit.
DeliverUnlimited ==
    /\ callback = "idle"
    /\ subscribed /\ queue # <<>>
    /\ callback' = "entering"
    /\ current' = Head(queue)
    /\ queue' = Tail(queue)
    /\ delivered' = delivered + 1
    /\ UNCHANGED <<caller, context, subscribed, tally, quiet, world, history>>

\* A subscription with a limit has no callback beyond it.
Deliver ==
    /\ callback = "idle"
    /\ subscribed /\ queue # <<>>
    /\ expected > 0 => delivered < expected
    /\ callback' = "entering"
    /\ current' = Head(queue)
    /\ queue' = Tail(queue)
    /\ delivered' = delivered + 1
    /\ UNCHANGED <<caller, context, subscribed, tally, quiet, world, history>>

\* Deviations: the time that is left is taken for the time that has passed;
\* replies do not move the timer.
EnterQuietly(newQuietAt) ==
    /\ callback = "entering"
    /\ mu = "free"
    /\ mu' = "callback"
    /\ callback' = IF current.kind = "ok" THEN "appending" ELSE "sending"
    /\ quietAt' = newQuietAt
    /\ history' = IF current.kind # "corrupt"
                  THEN [history EXCEPT !.replies = Append(@, clock)] ELSE history
    /\ UNCHANGED <<caller, context, current, queue, delivered, subscribed, received, responses,
                   watcher, world>>

EnterUntilSwapped == EnterQuietly(IF expected = 0 THEN QuietWindow - clock ELSE quietAt)
EnterWithoutReset == EnterQuietly(quietAt)

\* The reply is decoded first, and only one that can be resets the timer. A
\* reply that is an error waits for the caller with the mutex held.
Enter ==
    /\ callback = "entering"
    /\ mu = "free"
    /\ mu' = "callback"
    /\ callback' = IF current.kind = "ok" THEN "appending" ELSE "sending"
    /\ quietAt' = IF expected = 0 /\ current.kind # "corrupt" THEN clock + QuietWindow ELSE quietAt
    /\ history' = IF current.kind # "corrupt"
                  THEN [history EXCEPT !.replies = Append(@, clock)] ELSE history
    /\ UNCHANGED <<caller, context, current, queue, delivered, subscribed, received, responses,
                   watcher, world>>

\* Deviations: complete one reply early; the mutex is left locked.
CountEarly ==
    /\ callback = "appending"
    /\ responses' = Append(responses, current)
    /\ received' = received + 1
    /\ IF expected > 0 /\ received' + 1 >= expected THEN End("complete") ELSE UNCHANGED done
    /\ callback' = "idle" /\ current' = NoReply
    /\ mu' = "free"
    /\ UNCHANGED <<caller, queue, delivered, subscribed, quiet, world, history>>

CountKeepsMutex ==
    /\ callback = "appending"
    /\ responses' = Append(responses, current)
    /\ received' = received + 1
    /\ IF expected > 0 /\ received' = expected THEN End("complete") ELSE UNCHANGED done
    /\ callback' = "idle" /\ current' = NoReply
    /\ UNCHANGED <<mu, caller, queue, delivered, subscribed, quiet, world, history>>

\* The handler's append, the count, and the cancel that completes a request.
Count ==
    /\ callback = "appending"
    /\ responses' = Append(responses, current)
    /\ received' = received + 1
    /\ IF expected > 0 /\ received' = expected THEN End("complete") ELSE UNCHANGED done
    /\ callback' = "idle" /\ current' = NoReply
    /\ mu' = "free"
    /\ UNCHANGED <<caller, queue, delivered, subscribed, quiet, world, history>>

-----------------------------------------------------------------------------
(* The watcher of an adaptive request *)

Fire ==
    /\ watcher = "waiting"
    /\ clock >= quietAt
    /\ watcher' = "fired"
    /\ history' = [history EXCEPT !.fired = clock, !.seen = Len(history.replies)]
    /\ UNCHANGED <<caller, context, sub, tally, quietAt, world>>

CancelQuiet ==
    /\ watcher = "fired"
    /\ End("quiet")
    /\ watcher' = "none"
    /\ UNCHANGED <<caller, sub, tally, quietAt, world, history>>

WatcherLeaves ==
    /\ watcher = "waiting"
    /\ done # Running
    /\ watcher' = "none"
    /\ UNCHANGED <<caller, context, sub, tally, quietAt, world, history>>

-----------------------------------------------------------------------------
(* Servers and time *)

AloneReply == MayBeAlone /\ \A s \in Servers : sent[s] = 0

Reply(s) ==
    /\ pc \notin {"call", "returned"}
    /\ sent[s] < MaxReplies
    /\ sent' = [sent EXCEPT ![s] = @ + 1]
    /\ \E k \in Kinds :
          queue' = IF subscribed THEN Append(queue, [from |-> s, kind |-> k]) ELSE queue
    /\ UNCHANGED <<caller, context, callback, current, delivered, subscribed, tally, quiet,
                   clock, history>>

\* The only reply there will be: every server's share counts as used.
ReplyAlone ==
    /\ pc \notin {"call", "returned"} /\ subscribed
    /\ AloneReply
    /\ sent' = [s \in Servers |-> MaxReplies]
    /\ queue' = Append(queue, Alone)
    /\ UNCHANGED <<caller, context, callback, current, delivered, subscribed, tally, quiet,
                   clock, history>>

Tick ==
    /\ clock < MaxClock
    /\ clock' = clock + 1
    /\ UNCHANGED <<caller, context, sub, tally, quiet, sent, history>>

Expire ==
    /\ pc # "call"
    /\ clock >= Timeout
    /\ done = Running
    /\ End("deadline")
    /\ UNCHANGED <<caller, sub, tally, quiet, world, history>>

\* The caller's own context is cancelled.
OuterCancel ==
    /\ pc \notin {"call", "returned"}
    /\ done = Running
    /\ End("outer")
    /\ UNCHANGED <<caller, sub, tally, quiet, world, history>>

-----------------------------------------------------------------------------

Caller   == (\E e \in Modes : Send(e)) \/ TakeError \/ SeeDone \/ LockToLog \/ Close \/ Read
Callback == Deliver \/ Enter \/ Count
Watcher  == Fire \/ CancelQuiet \/ WatcherLeaves
World    == (\E s \in Servers : Reply(s)) \/ ReplyAlone \/ OuterCancel

\* A request that has returned may stay so.
Terminated == pc = "returned" /\ UNCHANGED vars

Next == Caller \/ SendFails \/ Callback \/ Watcher \/ World \/ Tick \/ Expire \/ Terminated

Spec == Init /\ [][Next]_vars

\* Goroutines that can run do, time passes and contexts expire. The select of
\* the caller may take either branch when both are ready.
FairSpec == /\ Spec
            /\ WF_vars(Caller) /\ WF_vars(Callback) /\ WF_vars(Watcher)
            /\ WF_vars(Tick) /\ WF_vars(Expire)

-----------------------------------------------------------------------------
(* Properties *)

Senders == Servers \cup {""}
ReplyType == [from : Senders, kind : {"", "ok", "corrupt", "none", "torn"}]

\* Type correctness of every variable.
TypeOK ==
    /\ pc \in {"call", "select", "done", "closing", "reading", "returned"}
    /\ expected \in Modes \cup {0}
    /\ done \in {Running, "complete", "quiet", "deadline", "outer", "returned"}
    /\ mu \in {"free", "callback"}
    /\ callback \in {"idle", "entering", "appending", "sending"}
    /\ current \in ReplyType /\ queue \in Seq(ReplyType)
    /\ delivered \in Nat /\ received \in Nat
    /\ subscribed \in BOOLEAN
    /\ responses \in Seq(ReplyType)
    /\ watcher \in {"none", "waiting", "fired"}
    /\ quietAt \in Nat /\ clock \in Nat
    /\ result \in [err : {"", "send", "corrupt", "none"}, responses : Seq(ReplyType)]
    /\ sent \in [Servers -> Nat]
    /\ history \in [replies : Seq(Nat), fired : Nat, seen : Nat]

\* A request for a number of replies that returned before its deadline, was
\* not cancelled and reports no error returns exactly that number of whole
\* replies, though its caller reads them without the handler's mutex
\* (request.go:129-134, 203-206, 237).
EarlyMeansComplete ==
    /\ pc = "returned" /\ result.err = ""
    /\ expected > 0 /\ done \notin {"deadline", "outer"}
    => /\ Len(result.responses) = expected
       /\ \A i \in 1..expected : result.responses[i].kind = "ok"

\* However many replies arrive, no more than were asked for are handled
\* (AutoUnsubscribe, request.go:213).
NeverMoreThanExpected ==
    expected > 0 => Len(responses) <= expected

\* An adaptive request ended by its timer has heard at least one reply or
\* waited out the timeout, and every reply handled before the timer fired had
\* a whole quiet window behind it (request.go:160-173, 194-196).
QuietWindowIsWaitedOut ==
    /\ pc = "returned" /\ result.err = ""
    /\ expected = 0 /\ done = "quiet"
    => /\ history.seen > 0 \/ history.fired >= Timeout
       /\ \A i \in 1..history.seen : history.replies[i] + QuietWindow <= history.fired

\* A request that was sent returns (request.go:230-243).
RequestReturns == pc = "select" ~> pc = "returned"

\* A request that was sent returns, or else a callback stands with the mutex
\* at the unbuffered errCh while the caller, which has seen the context end,
\* waits for the mutex: there is no other way to get stuck
\* (request.go:189, 198, 237).
StuckOnlyBehindAnError ==
    pc = "select" ~> pc = "returned" \/ (pc = "done" /\ callback = "sending")
=============================================================================
