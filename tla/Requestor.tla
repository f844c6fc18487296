----------------------------- MODULE Requestor -----------------------------
(***************************************************************************)
(* Whom a scrape asks: discovery and the server filter of doScrape         *)
(* (src/runner/runner.go), and the three ways in which the requestor       *)
(* (src/request.go) turns a collector's call into requests.                *)
(*                                                                         *)
(* Discovery asks everyone. If the filter excludes none of those that      *)
(* answered, calls go to everyone too. If it excludes one, calls become    *)
(* targeted: one request to each included server, or, for subjects that    *)
(* have no form for one server, a request to everyone whose answers are    *)
(* filtered. Servers come and go meanwhile: a request reaches those that   *)
(* are up when it is sent.                                                 *)
(*                                                                         *)
(* What one request does with its replies is module Request; here it is    *)
(* reduced to which servers it asked and how it ended. The calls of one    *)
(* scrape are taken one after the other; FanOut has the workers that make  *)
(* calls side by side.                                                     *)
(***************************************************************************)
EXTENDS Integers, Sequences, FiniteSets

CONSTANTS
    Servers,     \* that may be up
    Excluded,    \* those the filter rejects, by their names
    Everyone,    \* the recipient of a request that names no server
    Calls,       \* what a scrape's collectors call, in order
    MaxScrapes,  \* bound
    MaxReplies   \* bound: replies to one request

Ops      == {"Request", "RequestAdaptive", "RequestOne"}
\* $SYS.REQ.SERVER.PING, that with an endpoint, and $SYS.REQ.ACCOUNT.PING.STATZ.
Subjects == {"ping", "endpoint", "account"}

ASSUME RequestorAssumption ==
    /\ Excluded \subseteq Servers /\ IsFiniteSet(Servers) /\ Everyone \notin Servers
    /\ Calls \in Seq([op : Ops, subject : Subjects])
    /\ Len(Calls) > 0 /\ Calls[1] = [op |-> "Request", subject |-> "ping"]
    /\ MaxScrapes \in Nat /\ MaxReplies \in Nat

VARIABLES
    scrape,     \* the number of the scrape
    step,       \* its call that is made or has returned, 0 for the discovery
    phase,      \* "idle" between scrapes, "calling", "returned"
    ids,        \* the included servers
    targeted,
    expected,   \* how many replies end each request of the call: see Request
    legs,       \* the requests of the call, by recipient
    answers,    \* the servers whose answers the call has returned
    inventory,  \* those of the last Request, if it succeeded
    wire        \* ghost: every request sent, by scrape and subject

found == <<ids, targeted>>
call  == <<expected, legs>>
vars  == <<scrape, step, phase, found, call, answers, inventory, wire>>

\* got are the servers whose replies there are, count is the number of replies.
NewLeg == [state |-> "new", asked |-> {}, got |-> {}, count |-> 0]
Legs(recipients) == [w \in recipients |-> NewLeg]

Init ==
    /\ scrape = 0 /\ step = 0 /\ phase = "idle"
    /\ ids = {} /\ targeted = FALSE
    /\ expected = 0 /\ legs = Legs({}) /\ answers = {}
    /\ inventory = {} /\ wire = <<>>

-----------------------------------------------------------------------------
(* doScrape, and the requestor's methods *)

Discover ==
    /\ phase = "idle" /\ scrape < MaxScrapes
    /\ scrape' = scrape + 1 /\ step' = 0 /\ phase' = "calling"
    /\ expected' = -1 /\ legs' = Legs({Everyone})
    /\ UNCHANGED <<found, answers, inventory, wire>>

\* Deviation: one included server is thought to be dispensable.
ExpectedButOne(c) ==
    CASE c.op = "RequestOne"                           -> 1
      [] c.op # "RequestOne" /\ targeted               -> IF c.subject = "endpoint" THEN 1 ELSE 0
      [] c.op = "Request" /\ ~targeted                 -> Cardinality(ids) - 1
      [] c.op = "RequestAdaptive" /\ ~targeted         -> 0

Expected(c) ==
    CASE c.op = "RequestOne"                           -> 1
      [] c.op # "RequestOne" /\ targeted               -> IF c.subject = "endpoint" THEN 1 ELSE 0
      [] c.op = "Request" /\ ~targeted                 -> Cardinality(ids)
      [] c.op = "RequestAdaptive" /\ ~targeted         -> 0

\* The sets of recipients a call may choose: RequestOne goes to a server the
\* collector has just found in its inventory.
Destinations(c) ==
    CASE c.op = "RequestOne"                                              -> {{s} : s \in inventory}
      [] c.op # "RequestOne" /\ targeted /\ c.subject = "endpoint"        -> {ids}
      [] c.op # "RequestOne" /\ ~(targeted /\ c.subject = "endpoint")     -> {{Everyone}}

\* Accountz and Raftz ask for their inventory, then, if there is one, about each
\* account in it.
MakeCall ==
    /\ phase = "returned" /\ step < Len(Calls)
    /\ Calls[step + 1].op = "Request" \/ inventory # {}
    /\ \E to \in Destinations(Calls[step + 1]) :
          legs' = Legs(to) /\ expected' = Expected(Calls[step + 1])
    /\ step' = step + 1 /\ phase' = "calling"
    /\ UNCHANGED <<scrape, found, answers, inventory, wire>>

\* A Request that succeeds may be for an inventory.
InventoryAfter(c, said) == IF c.op = "Request" THEN said ELSE inventory

\* A collector that is not due calls nothing, nor does one that has found no
\* account to ask about.
SkipCall ==
    /\ phase = "returned" /\ step < Len(Calls)
    /\ step > 0
    /\ step' = step + 1
    /\ legs' = Legs({}) /\ expected' = 0 /\ answers' = {}
    /\ inventory' = InventoryAfter(Calls[step + 1], {})
    /\ UNCHANGED <<scrape, phase, found, wire>>

EndScrape ==
    /\ phase = "returned" /\ step = Len(Calls)
    /\ phase' = "idle"
    /\ UNCHANGED <<scrape, step, found, call, answers, inventory, wire>>

\* A request to one server that fails adds nothing to the answers, and neither
\* does one that is to be filtered; one to everyone that is not adds what it had
\* gathered, beside the error.
Kept == {w \in DOMAIN legs : legs[w].state # "failed" \/ (w = Everyone /\ ~targeted)}

\* Deviation: the answers to a request that everyone has read are not filtered.
AnswersUnfiltered == UNION {legs[w].got : w \in Kept}

\* What everyone was asked by a targeted call is filtered.
Answers ==
    LET all == UNION {legs[w].got : w \in Kept}
    IN  IF targeted /\ Everyone \in DOMAIN legs THEN all \cap ids ELSE all

\* Only a request to everyone hands its failure on.
CallFailed == Everyone \in DOMAIN legs /\ legs[Everyone].state = "failed"

Over == phase = "calling" /\ \A w \in DOMAIN legs : legs[w].state \notin {"new", "open"}

ReturnCall ==
    /\ Over /\ step > 0
    /\ answers' = Answers
    /\ inventory' = InventoryAfter(Calls[step], IF CallFailed THEN {} ELSE Answers)
    /\ phase' = "returned"
    /\ UNCHANGED <<scrape, step, found, call, wire>>

\* The filter divides the servers found. None left, or a failed request, is
\* the end of the scrape.
ReturnDiscovery ==
    /\ Over /\ step = 0
    /\ LET leg == legs[Everyone]
       IN \/ /\ leg.state # "failed" /\ leg.got \ Excluded # {}
             /\ ids' = leg.got \ Excluded
             /\ targeted' = (leg.got \cap Excluded # {})
             /\ phase' = "returned"
          \/ /\ leg.state = "failed" \/ leg.got \subseteq Excluded
             /\ phase' = "idle"
             /\ UNCHANGED found
    /\ answers' = {} /\ inventory' = {}
    /\ UNCHANGED <<scrape, step, call, wire>>

-----------------------------------------------------------------------------
(* One request, of those a call makes side by side *)

\* It reaches the servers that are up.
Send(w) ==
    /\ phase = "calling" /\ legs[w].state = "new"
    /\ \E up \in SUBSET (IF w = Everyone THEN Servers ELSE {w}) :
          legs' = [legs EXCEPT ![w].state = "open", ![w].asked = up]
    /\ wire' = Append(wire, [scrape |-> scrape,
                             ping |-> step = 0 \/ Calls[step].subject = "ping"])
    /\ UNCHANGED <<scrape, step, phase, found, expected, answers, inventory>>

\* A reply of server s: the last one expected ends the request.
Gather(w, s) ==
    LET leg == legs[w]
    IN  legs' = [legs EXCEPT ![w] =
                    [state |-> IF leg.count + 1 = expected THEN "full" ELSE "open",
                     asked |-> leg.asked, got |-> leg.got \cup {s}, count |-> leg.count + 1]]

\* Deviation: requests share an inbox, and a reply to an earlier one is taken
\* for a reply to this one.
AnswerFromAnyone(w) ==
    /\ phase = "calling" /\ legs[w].state = "open" /\ legs[w].count < MaxReplies
    /\ \E s \in Servers : Gather(w, s)
    /\ UNCHANGED <<scrape, step, phase, found, expected, answers, inventory, wire>>

\* A server that was asked answers, be it once more: replies are counted,
\* whoever sent them. (Discovery drops one that it has already.)
Answer(w) ==
    /\ phase = "calling" /\ legs[w].state = "open" /\ legs[w].count < MaxReplies
    /\ \E s \in legs[w].asked : Gather(w, s)
    /\ UNCHANGED <<scrape, step, phase, found, expected, answers, inventory, wire>>

\* The time is up, or, of an adaptive request, no further answer came for a
\* while; or a reply was an error.
Stop(w) ==
    /\ phase = "calling" /\ legs[w].state = "open"
    /\ \E how \in {"cut", "failed"} : legs' = [legs EXCEPT ![w].state = how]
    /\ UNCHANGED <<scrape, step, phase, found, expected, answers, inventory, wire>>

Next ==
    \/ Discover \/ ReturnDiscovery
    \/ MakeCall \/ SkipCall \/ ReturnCall \/ EndScrape
    \/ \E w \in DOMAIN legs : Send(w) \/ Answer(w) \/ Stop(w)

Spec == Init /\ [][Next]_vars

-----------------------------------------------------------------------------
(* Properties *)

LegType == [state : {"new", "open", "full", "cut", "failed"},
            asked : SUBSET Servers, got : SUBSET Servers, count : Nat]

\* Type correctness of every variable.
TypeOK ==
    /\ scrape \in 0..MaxScrapes /\ step \in 0..Len(Calls)
    /\ phase \in {"idle", "calling", "returned"}
    /\ ids \subseteq Servers /\ targeted \in BOOLEAN
    /\ expected \in -1..Cardinality(Servers)
    /\ DOMAIN legs \subseteq Servers \cup {Everyone}
    /\ \A w \in DOMAIN legs : legs[w] \in LegType /\ legs[w].got \subseteq legs[w].asked
    /\ answers \subseteq Servers /\ inventory \subseteq Servers
    /\ wire \in Seq([scrape : 1..MaxScrapes, ping : BOOLEAN])

\* Once discovery has met a server the filter excludes, no call returns an
\* answer of a server that was not included, be it excluded or a late joiner,
\* whichever way it asked; and requests that name a server name included ones
\* only, also those sent on the strength of an earlier call's answers
\* (request.go:28, 58, 98; collectors.go:344).
FilterHonoured ==
    targeted /\ phase # "idle" /\ step > 0 =>
        answers \subseteq ids /\ DOMAIN legs \subseteq ids \cup {Everyone}

\* A call that returns because the replies it expected are there has those of
\* all included servers. Only where calls are not targeted may a reply stand in
\* for that of one of them: of a server that joined after discovery, or a
\* second one of the same server (request.go:32, 46, 202-206).
EarlyMeansEveryIncluded ==
    /\ phase = "returned" /\ step > 0 /\ DOMAIN legs # {}
    /\ Calls[step].op # "RequestOne"
    /\ \A w \in DOMAIN legs : legs[w].state = "full"
    => \/ answers = ids
       \/ /\ ~targeted
          /\ ~(answers \subseteq ids) \/ legs[Everyone].count > Cardinality(legs[Everyone].got)
=============================================================================
