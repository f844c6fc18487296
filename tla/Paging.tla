------------------------------- MODULE Paging -------------------------------
(***************************************************************************)
(* The collectors that send one request to every server                    *)
(* (src/collectors.go). Connz, Subsz and Jsz ask page by page, with the    *)
(* same offset for all servers, until there is no more; the others ask     *)
(* once. Answers that are errors are dropped, and the last of the rest     *)
(* decides alone whether another page is asked for.                        *)
(*                                                                         *)
(* A page is a piece of a server's listing as the server has it at that    *)
(* time, and every answer says anew how long the listing is. What lies at  *)
(* a place of it may be another entry by then: entries are named by their  *)
(* places here.                                                            *)
(***************************************************************************)
EXTENDS Integers, FiniteSets

CONSTANTS
    Servers,
    Loops,          \* the collectors, by their loop: a subset of LoopKinds
    OptionLimits,   \* the Limit of a collector's options: what a user may configure
    DefaultLimit,   \* the one a collector takes instead of 0
    NoServer,       \* nobody answered
    MaxRows,        \* no listing is ever longer
    MaxChanges      \* bound: how often listings change while they are read

LoopKinds == {"once",    \* Varz, Routez, Gatewayz, Leafz, Accstatz, Healthz, Ipqueuesz
              "connz", "subsz", "jsz"}

\* The code has no MaxRows: that paging ends rests on it.
ASSUME PagingAssumption ==
    /\ IsFiniteSet(Servers) /\ NoServer \notin Servers
    /\ Loops \subseteq LoopKinds
    /\ OptionLimits \subseteq Int /\ DefaultLimit \in Nat \ {0}
    /\ MaxRows \in Nat /\ MaxChanges \in Nat

VARIABLES
    loop,      \* the collector that runs
    limit,     \* requestOptions.Limit
    rows,      \* how many entries each server's listing has
    changes,   \* how often one has changed
    pc,
    offset,    \* requestOptions.Offset
    result,    \* the answers gathered; one that came twice is there once
    last,      \* the page's last answer, of those that are no errors
    failed     \* the collector returned an error

input == <<loop, limit>>
world == <<rows, changes>>
vars  == <<input, world, pc, offset, result, last, failed>>

NoAnswer == [from |-> NoServer, offset |-> 0, total |-> 0]

\* Deviation: a limit that is not positive is passed on to the servers.
RequestLimitAsGiven(l, given) == given

\* toServerOptions: a limit of 0 is the default, for Subsz a negative one too.
RequestLimit(l, given) ==
    IF given = 0 \/ (given < 0 /\ l = "subsz") THEN DefaultLimit ELSE given

\* A negative limit, which Connz and Jsz pass on, is left out: what a server
\* makes of it, and of the offsets that would follow, is its own affair.
InRange(l, given) == given < 0 => l = "subsz"

Init ==
    /\ loop \in Loops
    /\ \E given \in OptionLimits :
          InRange(loop, given) /\ limit = RequestLimit(loop, given)
    /\ rows \in [Servers -> 0..MaxRows] /\ changes = 0
    /\ pc = "ask" /\ offset = 0 /\ result = {} /\ last = NoAnswer /\ failed = FALSE

\* Deviation: the pages overlap by one entry.
StepShort == limit - 1

\* What is added to the offset for the next page.
Step == IF loop \in {"connz", "subsz"} THEN limit + 1 ELSE limit

\* Deviation: a full page is taken for the last.
MoreNever == loop # "once" /\ last.total > offset + limit + 1

\* total > offset + limit, in the last answer.
More == loop # "once" /\ last.total > offset + limit

\* The page's request is sent.
Ask ==
    /\ pc = "ask" /\ pc' = "waiting" /\ last' = NoAnswer
    /\ UNCHANGED <<input, world, offset, result, failed>>

\* A server answers with its entries from the offset on, and their total. Some
\* never do, or too late, or with an error; one may answer twice.
Reply ==
    /\ pc = "waiting"
    /\ \E s \in Servers : last' = [from |-> s, offset |-> offset, total |-> rows[s]]
    /\ result' = result \cup {last'}
    /\ UNCHANGED <<input, world, pc, offset, failed>>

\* Deviation: the offset of the first page is asked for over and over.
PageEndsInPlace ==
    /\ pc = "waiting"
    /\ \/ More /\ pc' = "ask"
       \/ ~More /\ pc' = "returned"
    /\ UNCHANGED <<input, world, offset, result, last, failed>>

\* The request returns with the answers.
PageEnds ==
    /\ pc = "waiting"
    /\ \/ More /\ offset' = offset + Step /\ pc' = "ask"
       \/ ~More /\ UNCHANGED offset /\ pc' = "returned"
    /\ UNCHANGED <<input, world, result, last, failed>>

\* The request fails, and what was gathered is dropped.
PageFails ==
    /\ pc = "waiting"
    /\ pc' = "returned" /\ failed' = TRUE /\ result' = {}
    /\ UNCHANGED <<input, world, offset, last>>

\* Connections, subscriptions or accounts come and go on a server.
Change ==
    /\ pc # "returned" /\ changes < MaxChanges
    /\ \E s \in Servers, n \in 0..MaxRows : rows' = [rows EXCEPT ![s] = n]
    /\ changes' = changes + 1
    /\ UNCHANGED <<input, pc, offset, result, last, failed>>

\* A collector that has returned may stay so.
Terminated == pc = "returned" /\ UNCHANGED vars

Next == Ask \/ Reply \/ PageEnds \/ PageFails \/ Change \/ Terminated

Spec == Init /\ [][Next]_vars

\* The collector's goroutine runs, and its requests return: see Request.
FairSpec == Spec /\ WF_vars(Ask) /\ WF_vars(PageEnds \/ PageFails)

-----------------------------------------------------------------------------
(* Properties *)

Answer == [from : Servers, offset : Nat, total : Nat]

\* Type correctness of every variable.
TypeOK ==
    /\ loop \in Loops /\ limit \in Nat \ {0}
    /\ rows \in [Servers -> 0..MaxRows] /\ changes \in 0..MaxChanges
    /\ pc \in {"ask", "waiting", "returned"}
    /\ offset \in Nat
    /\ result \subseteq Answer /\ last \in Answer \cup {NoAnswer}
    /\ failed \in BOOLEAN

\* The places, counted from 0, of the entries that are in an answer.
Entries(answer) == {r \in 0..(answer.total - 1) :
                       answer.offset <= r /\ r < answer.offset + limit}

\* No place of a server's listing is read by two pages, though every server is
\* asked for the same pages, any of them may miss some, and listings change
\* between them (collectors.go:106, 134, 185).
PagesAreDisjoint ==
    \A a, b \in result :
        a.from = b.from /\ a.offset # b.offset => Entries(a) \cap Entries(b) = {}

PagesOf(s) == {a \in result : a.from = s}

AnsweredEveryPage(s) ==
    \A k \in 0..(offset \div Step) : \E a \in PagesOf(s) : a.offset = k * Step

\* The listing of s was as long at each of its pages as it is at the end.
Steady(s) == \A a \in PagesOf(s) : a.total = rows[s]

Gathered(s) == UNION {Entries(a) : a \in PagesOf(s)}

\* The server that answered the last page last, if it answered all pages
\* before and its listing did not change meanwhile, is read to its end:
\* nothing of it is missing but, of connections and subscriptions, the one
\* entry between two pages that the step of limit + 1 jumps over. Of the other
\* servers, whatever lies beyond that page is missed (collectors.go:101-106,
\* 180-185).
DeciderIsReadThrough ==
    LET s == last.from IN
    /\ pc = "returned" /\ ~failed /\ loop # "once"
    /\ last # NoAnswer /\ AnsweredEveryPage(s) /\ Steady(s)
    => (0..(rows[s] - 1)) \ Gathered(s)
         = {r \in 0..(rows[s] - 1) : loop \in {"connz", "subsz"} /\ r % Step = limit}

\* Paging ends, whoever answers each page and however listings grow and shrink
\* up to MaxRows meanwhile: the loop has no bound of its own, only totals that
\* the offset has to reach (collectors.go:88-107, 118-135, 169-186).
PagingEnds == pc = "ask" ~> pc = "returned"
=============================================================================
