---------------------------- MODULE EpochStream ----------------------------
(***************************************************************************)
(* What the runner leaves in the sink's stream, and the two readers of it  *)
(* (src/sink/jetstream/jetstream.go): LastEpoch, which a restarted runner  *)
(* resumes from, and the scan of end markers by which Prune finds its      *)
(* purge point.                                                            *)
(*                                                                         *)
(* The stream is an immutable log and the index of its first retained      *)
(* message: a message's position in the log is its stream sequence number, *)
(* and a purge only moves `first'.                                         *)
(***************************************************************************)
EXTENDS Integers, Sequences, FiniteSets

\* A message: the last token of its subject <prefix>.<epoch>.<token>, the
\* epoch of its header, and (ghost) the number of the scrape that sent it.
Message(token, epoch, scrape) ==
    [token |-> token, epoch |-> epoch, scrape |-> scrape]

Messages(Tokens) == [token : Tokens, epoch : Nat, scrape : Nat]

\* The sequence numbers of the messages the filter <prefix>.*.end selects.
EndMarkers(log, first) == {i \in first..Len(log) : log[i].token = "end"}

IsLeast(i, S) == i \in S /\ \A j \in S : i <= j
IsLast(i, S)  == i \in S /\ \A j \in S : j <= i

\* Deviation: the oldest end marker is read.
LastEpochOldest(log, first) ==
    LET ends == EndMarkers(log, first)
    IN  IF ends = {} THEN 0
        ELSE log[CHOOSE i \in ends : IsLeast(i, ends)].epoch

\* LastEpoch: the epoch of the newest end marker, 0 when there is none.
LastEpoch(log, first) ==
    LET ends == EndMarkers(log, first)
    IN  IF ends = {} THEN 0
        ELSE log[CHOOSE i \in ends : IsLast(i, ends)].epoch

-----------------------------------------------------------------------------
(* Prune's loop over the end markers. `ends' is endSequences, `previous' is *)
(* previousEpoch, `pruned' the count, and `at' the last marker read.        *)

NoEpoch == -1    \* previousEpoch before the first message: ""

ScanType == [ends : Seq(Nat), previous : Int, pruned : Nat, at : Nat]

EmptyScan == [ends |-> <<>>, previous |-> NoEpoch, pruned |-> 0, at |-> 0]

\* Deviation: two markers of one epoch count as two epochs.
ScanMarkerWithoutPrevious(scan, i, epoch, maxEpochs) ==
    LET full == Len(scan.ends) = maxEpochs
        kept == IF full THEN Tail(scan.ends) ELSE scan.ends
    IN  [ends |-> Append(kept, i), previous |-> epoch,
         pruned |-> scan.pruned + (IF full THEN 1 ELSE 0), at |-> i]

\* Deviation: one epoch too many is remembered.
ScanMarkerOneTooMany(scan, i, epoch, maxEpochs) ==
    LET full == Len(scan.ends) > maxEpochs
        kept == IF full THEN Tail(scan.ends) ELSE scan.ends
    IN  IF epoch = scan.previous THEN [scan EXCEPT !.at = i]
        ELSE [ends |-> Append(kept, i), previous |-> epoch,
              pruned |-> scan.pruned + (IF full THEN 1 ELSE 0), at |-> i]

\* One iteration: a marker whose epoch differs from the previous marker's
\* pushes out the oldest of maxEpochs remembered ones.
ScanMarker(scan, i, epoch, maxEpochs) ==
    LET full == Len(scan.ends) = maxEpochs
        kept == IF full THEN Tail(scan.ends) ELSE scan.ends
    IN  IF epoch = scan.previous
        THEN [scan EXCEPT !.at = i]
        ELSE [ends     |-> Append(kept, i),
              previous |-> epoch,
              pruned   |-> scan.pruned + (IF full THEN 1 ELSE 0),
              at       |-> i]

\* The first sequence number Prune keeps: `first' when it purges nothing.
PurgePoint(scan, first) ==
    IF scan.pruned > 0 /\ scan.ends[1] > first THEN scan.ends[1] ELSE first
=============================================================================
