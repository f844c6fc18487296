--------------------------- MODULE RequestInspect ---------------------------
(***************************************************************************)
(* The command src/cmd/request-inspect beside a scraper: it subscribes to  *)
(* the scraper's requests and is to print those of one scrape. It knows a  *)
(* scrape by two requests of the ping subject in a row, discovery and the  *)
(* collection of servers, and its end by the next such request.            *)
(*                                                                         *)
(* The requests are those of module Requestor, in the order they are sent. *)
(* Requests of other clients are left out.                                 *)
(***************************************************************************)
EXTENDS Requestor

VARIABLES
    inspecting,   \* "off", "waiting", "capturing", and how it ended
    candidate,    \* the place of candidateDiscovery in wire, 0 for nil
    captured      \* the places of the requests printed

inspector == <<inspecting, candidate, captured>>

InspectInit ==
    /\ Init
    /\ inspecting = "off" /\ candidate = 0 /\ captured = <<>>

Subscribe ==
    /\ inspecting = "off"
    /\ inspecting' = "waiting"
    /\ UNCHANGED <<vars, candidate, captured>>

\* Deviation: the first ping of a scrape stays a candidate whatever follows.
ObserveKeepingCandidate(i, ping) ==
    \/ /\ inspecting = "capturing" /\ ping
       /\ inspecting' = "done" /\ UNCHANGED <<candidate, captured>>
    \/ /\ inspecting = "capturing" /\ ~ping
       /\ captured' = Append(captured, i) /\ UNCHANGED <<inspecting, candidate>>
    \/ /\ inspecting = "waiting" /\ candidate = 0
       /\ candidate' = (IF ping THEN i ELSE 0) /\ UNCHANGED <<inspecting, captured>>
    \/ /\ inspecting = "waiting" /\ candidate > 0 /\ ~ping
       /\ UNCHANGED inspector
    \/ /\ inspecting = "waiting" /\ candidate > 0 /\ ping
       /\ captured' = <<candidate, i>> /\ inspecting' = "capturing" /\ UNCHANGED candidate
    \/ /\ inspecting \notin {"waiting", "capturing"}
       /\ UNCHANGED inspector

\* The loop's body, for a request at place i.
Observe(i, ping) ==
    \/ /\ inspecting = "capturing" /\ ping
       /\ inspecting' = "done" /\ UNCHANGED <<candidate, captured>>
    \/ /\ inspecting = "capturing" /\ ~ping
       /\ captured' = Append(captured, i) /\ UNCHANGED <<inspecting, candidate>>
    \/ /\ inspecting = "waiting" /\ candidate = 0
       /\ candidate' = (IF ping THEN i ELSE 0) /\ UNCHANGED <<inspecting, captured>>
    \/ /\ inspecting = "waiting" /\ candidate > 0 /\ ~ping
       /\ candidate' = 0 /\ UNCHANGED <<inspecting, captured>>
    \/ /\ inspecting = "waiting" /\ candidate > 0 /\ ping
       /\ captured' = <<candidate, i>> /\ inspecting' = "capturing" /\ UNCHANGED candidate
    \/ /\ inspecting \notin {"waiting", "capturing"}
       /\ UNCHANGED inspector

TimeOut ==
    /\ inspecting \in {"waiting", "capturing"}
    /\ inspecting' = "timedOut"
    /\ UNCHANGED <<vars, candidate, captured>>

\* A request is observed when it is sent; the scraper's other steps are not.
Scraper ==
    /\ Next
    /\ \/ wire' = wire /\ UNCHANGED inspector
       \/ wire' # wire /\ Observe(Len(wire'), wire'[Len(wire')].ping)

InspectNext == Scraper \/ Subscribe \/ TimeOut

InspectSpec == InspectInit /\ [][InspectNext]_<<vars, inspector>>

-----------------------------------------------------------------------------
(* Properties *)

\* The requests of a scrape, by their places in the wire.
RequestsOf(s) == {i \in 1..Len(wire) : wire[i].scrape = s}

\* An inspection that ends well has printed all requests of one scrape and no
\* other, from wherever in a scrape it was begun, unless the two pings it
\* started from are of two scrapes. That happens only when the first is its
\* scrape's last request: a discovery that found no server to scrape, or a
\* scrape with nothing to collect but servers (request-inspect/main.go:79-120).
CaptureIsOneScrape ==
    inspecting = "done" =>
        LET begun == wire[captured[1]].scrape
        IN  \/ {captured[k] : k \in 1..Len(captured)} = RequestsOf(begun)
            \/ /\ wire[captured[2]].scrape # begun
               /\ \A i \in RequestsOf(begun) : i <= captured[1]
=============================================================================
