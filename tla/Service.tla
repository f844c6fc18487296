------------------------------ MODULE Service ------------------------------
(***************************************************************************)
(* The subjects of the on-demand service (setupOnDemandService in          *)
(* src/runner/runner.go) and the stream of the JetStream sink, which       *)
(* stores every message sent below its prefix. A request for a scrape, a   *)
(* pause, a resume or the status that the stream stores too is answered by *)
(* the stream's acknowledgement, and stays in it among the scrapes.        *)
(*                                                                         *)
(* A subject is the sequence of its tokens.                                *)
(***************************************************************************)
EXTENDS Integers, Sequences

\* The subjects <prefix>.> covers, and those that begin with the string
\* <prefix> and a dot.
Below(prefix, subject) ==
    /\ Len(subject) > Len(prefix)
    /\ \A i \in 1..Len(prefix) : subject[i] = prefix[i]

\* The trigger subject is compared, and no other.
Accepted(prefix, trigger) == ~Below(prefix, trigger)

\* `base': the trigger subject up to its last dot, or all of it.
Base(trigger) ==
    IF Len(trigger) > 1 THEN SubSeq(trigger, 1, Len(trigger) - 1) ELSE trigger

\* The subject of pause, resume or status.
Control(trigger, name) == Append(Base(trigger), name)
=============================================================================
