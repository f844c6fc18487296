---------------------------- MODULE SinkInspect ----------------------------
(***************************************************************************)
(* The reader of the sink in src/cmd/sink-inspect: it parses each message  *)
(* (Parse of src/sink/sink.go), waits for a start marker, and captures the *)
(* messages of that marker's epoch up to an end marker. It reads the live  *)
(* subject or the stored stream; either way it sees the runner's messages  *)
(* in the order of the log, from wherever it comes in.                     *)
(*                                                                         *)
(* Not covered is a stored reader that a purge overtakes: messages it has  *)
(* not read yet are gone.                                                  *)
(***************************************************************************)
EXTENDS Runner

\* The last tokens Parse knows a type for.
ParsedTokens ==
    {"servers", "varz", "connz", "jsz", "routez", "subsz", "gatewayz", "leafz",
     "accountz", "accstatz", "healthz", "raftz", "ipqueuesz"}

Parses(message) == message.token \in {"start", "end"} \cup ParsedTokens

\* The observer's capturedEpoch and what it has printed, by place in the log.
NewObserver == [epoch |-> 0, captured |-> <<>>, state |-> "reading"]

\* Deviation: capturing begins with any message.
ObserveFromAny(o, i) ==
    LET message == log[i]
        epoch   == IF o.epoch = 0 THEN message.epoch ELSE o.epoch
    IN  CASE o.state # "reading"                             -> o
          [] o.state = "reading" /\ ~Parses(message)         -> [o EXCEPT !.state = "failed"]
          [] o.state = "reading" /\ Parses(message)          ->
                IF message.epoch # epoch THEN o
                ELSE [epoch |-> epoch, captured |-> Append(o.captured, i),
                      state |-> IF message.token = "end" THEN "done" ELSE "reading"]

\* observe: the message at place i.
Observe(o, i) ==
    LET message == log[i]
        epoch   == IF o.epoch = 0 /\ message.token = "start" THEN message.epoch ELSE o.epoch
    IN  CASE o.state # "reading"                             -> o
          [] o.state = "reading" /\ ~Parses(message)         -> [o EXCEPT !.state = "failed"]
          [] o.state = "reading" /\ Parses(message)          ->
                IF message.epoch # epoch THEN o
                ELSE [epoch |-> epoch, captured |-> Append(o.captured, i),
                      state |-> IF message.token = "end" THEN "done" ELSE "reading"]

\* The observer of inspectLive or inspectStored that has read the log from
\* place `from' to its end.
Inspection(from) ==
    LET reading[i \in (from - 1)..Len(log)] ==
            IF i < from THEN NewObserver ELSE Observe(reading[i - 1], i)
    IN  reading[Len(log)]

\* From wherever an inspector comes in, the first start marker it meets, if
\* that scrape's end marker was published, makes it print this scrape's
\* messages, all of them and no other's: not those of the other goroutine's
\* scrape in the same second, whose epoch is the same, nor those a process
\* that died has left behind. And it can parse whatever the runner publishes
\* (sink-inspect/main.go:190-256).
InspectionIsOneScrape ==
    \A from \in 1..Len(log) :
        LET o == Inspection(from)
            s == log[o.captured[1]].scrape
        IN  /\ o.state # "failed"
            /\ o.captured # <<>> /\ Ended(s) =>
                  /\ o.state = "done"
                  /\ {o.captured[k] : k \in 1..Len(o.captured)} = {i \in 1..Len(log) : log[i].scrape = s}
=============================================================================
