--------------------------- MODULE RunnerContract ---------------------------
(***************************************************************************)
(* The runner implements ScrapeContract. A scrape counts as admitted from  *)
(* the moment its goroutine finds the runner not paused, if no scrape is   *)
(* running: it holds scrapingMu then, so the flag it is about to read      *)
(* cannot change any more.                                                 *)
(***************************************************************************)
EXTENDS Runner

Admitted(g) == InSection(g) \/ (pc[g] = "busyCheck" /\ ~scraping)

\* The scraper whose scrape is admitted, Nobody when there is none.
Owner == IF \E g \in Scrapers : Admitted(g)
         THEN CHOOSE g \in Scrapers : Admitted(g)
         ELSE Nobody

\* Admitted scrapes, of which the newest may not have got its epoch yet.
Runs == IF \E g \in Scrapers : Admitted(g) /\ pc[g] \in {"busyCheck", "begin"}
        THEN Len(scrapes) + 1
        ELSE Len(scrapes)

PhaseAt(g) ==
    CASE pc[g] \in {"busyCheck", "begin", "discover", "start"} -> "opening"
      [] pc[g] \in {"collect", "end"} -> "body"
      [] pc[g] = "leave" -> IF job[g].result = "ok" THEN "closed" ELSE "opening"

Phase == IF Owner = Nobody THEN "closed" ELSE PhaseAt(Owner)

Contract == INSTANCE ScrapeContract WITH
    owner     <- Owner,
    runs      <- Runs,
    phase     <- Phase,
    published <- [i \in 1..Len(log) |-> log[i].scrape]

\* Whatever the mutexes, the timer, the prune, the service and the crashes do,
\* those who pause the runner and those who read its sink see the contract.
ImplementsContract == Contract!ContractSpec
=============================================================================
