------------------------------- MODULE FanOut -------------------------------
(***************************************************************************)
(* Accountz and Raftz (src/collectors.go): an inventory of the accounts is *)
(* taken first, then a pool of workers, one for each monitored server,     *)
(* asks for every account. The accounts reach the workers over an          *)
(* unbuffered channel. Accountz asks one server that knows the account,    *)
(* and avoids those that have failed before; Raftz asks all servers.       *)
(***************************************************************************)
EXTENDS Integers, FiniteSets

CONSTANTS
    Collectors,   \* a subset of {"accountz", "raftz"}
    Workers,      \* as many as NewRequestor was given servers
    Servers,      \* numbers, in the order of the inventory's answers
    Accounts,
    Nothing       \* no account, no server

ASSUME FanOutAssumption ==
    /\ Collectors \subseteq {"accountz", "raftz"}
    /\ Servers \subseteq Nat
    /\ Nothing \notin Servers \cup Accounts
    \* doScrape ends before the collectors when no server is left to ask.
    /\ Workers # {} /\ IsFiniteSet(Workers)

VARIABLES
    collector,
    pc,          \* the collector's goroutine
    accounts,    \* for each account the servers that named it
    todo,        \* accounts not handed out yet
    worker,      \* what each worker does
    failed,      \* failedServers
    responses,   \* how often the answer of a server for an account was appended
    history      \* ghost: the workers' requests and their outcomes

vars == <<collector, pc, accounts, todo, worker, failed, responses, history>>

\* A worker's place in its loop, the account and the server it asks (forced:
\* because all had failed), and the answers it has yet to append.
Idle == [at |-> "idle", account |-> Nothing, server |-> Nothing, forced |-> FALSE, left |-> {}]

Zero == [a \in Accounts |-> [s \in Servers |-> 0]]

\* asked: requests for each account; answered: usable answers received;
\* wasted: failed requests to a server that was not the last resort.
NoHistory == [asked |-> [a \in Accounts |-> 0], answered |-> Zero,
              wasted |-> [s \in Servers |-> 0]]

Init ==
    /\ collector \in Collectors
    /\ pc = "inventory"
    /\ accounts = [a \in Accounts |-> {}] /\ todo = {}
    /\ worker = [w \in Workers |-> Idle]
    /\ failed = {} /\ responses = Zero /\ history = NoHistory

-----------------------------------------------------------------------------
(* The collector *)

\* The inventory names each account with the servers that know it, or fails.
Inventory ==
    /\ pc = "inventory"
    /\ accounts' \in [Accounts -> SUBSET Servers]
    /\ todo' = {a \in Accounts : accounts'[a] # {}}
    /\ pc' = "feed"
    /\ UNCHANGED <<collector, worker, failed, responses, history>>

InventoryFails ==
    /\ pc = "inventory"
    /\ pc' = "returned"
    /\ UNCHANGED <<collector, accounts, todo, worker, failed, responses, history>>

\* jobs <- account, for some order of the map: a worker must be receiving.
Feed(w) ==
    /\ pc = "feed"
    /\ worker[w].at = "idle"
    /\ \E a \in todo :
          /\ todo' = todo \ {a}
          /\ worker' = [worker EXCEPT ![w] =
                [Idle EXCEPT !.at = IF collector = "accountz" THEN "choose" ELSE "ask",
                             !.account = a]]
          /\ history' = [history EXCEPT !.asked[a] = @ + 1]
    /\ UNCHANGED <<collector, pc, accounts, failed, responses>>

\* Deviation: a failure ends the collection early.
CloseOnFailure ==
    /\ pc = "feed" /\ (todo = {} \/ failed # {})
    /\ pc' = "wait"
    /\ UNCHANGED <<collector, accounts, todo, worker, failed, responses, history>>

\* close(jobs): the workers' loops end.
Close ==
    /\ pc = "feed" /\ todo = {}
    /\ pc' = "wait"
    /\ UNCHANGED <<collector, accounts, todo, worker, failed, responses, history>>

Leave(w) ==
    /\ pc = "wait" /\ worker[w].at = "idle"
    /\ worker' = [worker EXCEPT ![w].at = "gone"]
    /\ UNCHANGED <<collector, pc, accounts, todo, failed, responses, history>>

\* Deviation: the collector does not wait for its workers.
ReturnAtOnce ==
    /\ pc = "wait"
    /\ pc' = "returned"
    /\ UNCHANGED <<collector, accounts, todo, worker, failed, responses, history>>

\* wg.Wait() is over.
Return ==
    /\ pc = "wait" /\ \A w \in Workers : worker[w].at = "gone"
    /\ pc' = "returned"
    /\ UNCHANGED <<collector, accounts, todo, worker, failed, responses, history>>

-----------------------------------------------------------------------------
(* A worker *)

\* Deviation: what has failed is not looked at.
CandidatesBlind(a) == {s \in accounts[a] : \A t \in accounts[a] : s <= t}

\* The first server of the account that has not failed, any if all have.
\* Failures are never forgotten, so the walk over the candidates amounts to
\* one look at failedServers when it ends.
Candidates(a) ==
    LET fresh == accounts[a] \ failed
    IN  IF fresh = {} THEN accounts[a] ELSE {s \in fresh : \A t \in fresh : s <= t}

Choose(w) ==
    /\ worker[w].at = "choose"
    /\ \E s \in Candidates(worker[w].account) :
          worker' = [worker EXCEPT ![w].at = "ask", ![w].server = s,
                           ![w].forced = accounts[worker[w].account] \subseteq failed]
    /\ UNCHANGED <<collector, pc, accounts, todo, failed, responses, history>>

\* Deviation: `continue' after a failure is `return', the worker is gone.
AskFailsForGood(w) ==
    /\ worker[w].at = "ask"
    /\ failed' = failed \cup {worker[w].server}
    /\ worker' = [worker EXCEPT ![w] = [Idle EXCEPT !.at = "gone"]]
    /\ UNCHANGED <<collector, pc, accounts, todo, responses, history>>

\* No answer in time; Accountz remembers the server.
AskFails(w) ==
    LET s == worker[w].server
    IN  /\ worker[w].at = "ask"
        /\ \/ /\ collector = "accountz"
              /\ failed' = failed \cup {s}
              /\ history' = IF worker[w].forced THEN history ELSE [history EXCEPT !.wasted[s] = @ + 1]
           \/ /\ collector = "raftz"
              /\ UNCHANGED <<failed, history>>
        /\ worker' = [worker EXCEPT ![w] = Idle]
        /\ UNCHANGED <<collector, pc, accounts, todo, responses>>

\* The usable answers of those asked, none when they are errors.
AskAnswered(w) ==
    /\ worker[w].at = "ask"
    /\ \E usable \in SUBSET (IF collector = "accountz" THEN {worker[w].server} ELSE Servers) :
          /\ worker' = [worker EXCEPT ![w] =
                IF usable = {} THEN Idle ELSE [@ EXCEPT !.at = "append", !.left = usable]]
          /\ history' = [history EXCEPT !.answered[worker[w].account] =
                [s \in Servers |-> @[s] + IF s \in usable THEN 1 ELSE 0]]
    /\ UNCHANGED <<collector, pc, accounts, todo, failed, responses>>

\* The append to the shared slice, under its mutex.
AppendOne(w) ==
    /\ worker[w].at = "append"
    /\ \E s \in worker[w].left :
          /\ responses' = [responses EXCEPT ![worker[w].account][s] = @ + 1]
          /\ worker' = [worker EXCEPT ![w] =
                IF worker[w].left = {s} THEN Idle
                ELSE [worker[w] EXCEPT !.left = worker[w].left \ {s}]]
    /\ UNCHANGED <<collector, pc, accounts, todo, failed, history>>

-----------------------------------------------------------------------------

Work(w) == Feed(w) \/ Choose(w) \/ AskFails(w) \/ AskAnswered(w) \/ AppendOne(w) \/ Leave(w)

Collect == Inventory \/ InventoryFails \/ Close \/ Return

\* A collector that has returned may stay so.
Terminated == pc = "returned" /\ UNCHANGED vars

Next == Collect \/ (\E w \in Workers : Work(w)) \/ Terminated

Spec == Init /\ [][Next]_vars

\* Goroutines that can run do, and a request ends: it has a deadline.
FairSpec == Spec /\ WF_vars(Collect) /\ \A w \in Workers : WF_vars(Work(w))

-----------------------------------------------------------------------------
(* Properties *)

Counts == [Accounts -> [Servers -> Nat]]

\* Type correctness of every variable.
TypeOK ==
    /\ collector \in Collectors
    /\ pc \in {"inventory", "feed", "wait", "returned"}
    /\ accounts \in [Accounts -> SUBSET Servers]
    /\ todo \subseteq Accounts
    /\ worker \in [Workers -> [at : {"idle", "choose", "ask", "append", "gone"},
                               account : Accounts \cup {Nothing}, server : Servers \cup {Nothing},
                               forced : BOOLEAN, left : SUBSET Servers]]
    /\ failed \subseteq Servers
    /\ responses \in Counts
    /\ history \in [asked : [Accounts -> Nat], answered : Counts, wasted : [Servers -> Nat]]

\* What Accountz and Raftz return holds every usable answer exactly once: no
\* worker is still about to append, and none appended twice or over another
\* (collectors.go:357-371, 427-444).
NoAnswerIsLost == pc = "returned" => responses = history.answered

\* Every account of the inventory has been asked for, once, however workers
\* and failures divide them up (collectors.go:332-369, 404-442).
EveryAccountIsAsked ==
    \A a \in Accounts :
        /\ history.asked[a] <= 1
        /\ pc = "returned" /\ accounts[a] # {} => history.asked[a] = 1

\* A server that does not answer costs Accountz at most one timeout for each
\* worker, however many accounts it is the first to know; beyond that it is
\* asked only for accounts whose servers have all failed
\* (collectors.go:325-356).
FailuresAreRemembered == \A s \in Servers : history.wasted[s] <= Cardinality(Workers)

\* The collector returns: feeder and workers are never left waiting for each
\* other on the unbuffered channel (collectors.go:367-371, 438-442).
FanOutReturns == <>(pc = "returned")
=============================================================================
