--------------------------- MODULE ScrapeContract ---------------------------
(***************************************************************************)
(* What the runner promises to those who drive it and to those who read    *)
(* its sink, with no mutex, timer, prune or service in sight: scrapes run  *)
(* one at a time, a paused runner admits none, and the messages of a       *)
(* scrape are published between its admission and its end, framed by its   *)
(* start and end markers.                                                  *)
(***************************************************************************)
EXTENDS Naturals, Sequences

CONSTANTS Scrapers,  \* who may ask for a scrape
          Nobody     \* the owner when no scrape runs

VARIABLES owner,     \* the scraper whose scrape is running
          paused,    \* no scrape is admitted while TRUE
          runs,      \* the number of scrapes admitted so far
          phase,     \* how far the running scrape's messages have got
          published  \* the scrape number of every message, in sink order

contractVars == <<owner, paused, runs, phase, published>>

\* No message yet; the start marker is behind; the end marker is behind.
Phases == {"opening", "body", "closed"}

ContractInit ==
    /\ owner = Nobody
    /\ paused = FALSE
    /\ runs = 0
    /\ phase = "closed"
    /\ published = <<>>

Admit(s) ==
    /\ owner = Nobody
    /\ ~paused
    /\ owner' = s
    /\ runs' = runs + 1
    /\ phase' = "opening"
    /\ UNCHANGED <<paused, published>>

\* A marker or a batch reaches the sink, or is lost on the way.
MaySend == published' = published \/ published' = Append(published, runs)

SendStart ==
    /\ owner # Nobody /\ phase = "opening"
    /\ phase' = "body"
    /\ MaySend
    /\ UNCHANGED <<owner, paused, runs>>

SendData ==
    /\ owner # Nobody /\ phase = "body"
    /\ MaySend
    /\ UNCHANGED <<owner, paused, runs, phase>>

SendEnd ==
    /\ owner # Nobody /\ phase = "body"
    /\ phase' = "closed"
    /\ MaySend
    /\ UNCHANGED <<owner, paused, runs>>

\* A scrape whose discovery fails finishes without a message, any other one
\* after its end marker.
Finish ==
    /\ owner # Nobody
    /\ phase \in {"opening", "closed"}
    /\ owner' = Nobody
    /\ phase' = "closed"
    /\ UNCHANGED <<paused, runs, published>>

Switch ==
    /\ paused' \in BOOLEAN
    /\ UNCHANGED <<owner, runs, phase, published>>

\* The process dies, in a scrape or out of one, and is started again. A
\* scrape admitted but not yet begun leaves no trace.
Restart ==
    /\ owner' = Nobody
    /\ paused' = FALSE
    /\ phase' = "closed"
    /\ runs' \in {runs} \cup (IF phase = "opening" THEN {runs - 1} ELSE {})
    /\ UNCHANGED published

ContractNext ==
    \/ \E s \in Scrapers : Admit(s)
    \/ SendStart \/ SendData \/ SendEnd
    \/ Finish \/ Switch \/ Restart

ContractSpec == ContractInit /\ [][ContractNext]_contractVars
=============================================================================
