---------------------------- MODULE FanOutProofs ----------------------------
(***************************************************************************)
(* Proofs about the workers of Accountz and Raftz, for every inventory and *)
(* every finite number of workers: each account is asked for once, no      *)
(* answer is lost, and a server that does not answer is remembered.        *)
(***************************************************************************)
EXTENDS FanOut, FiniteSetTheorems, TLAPS

USE FanOutAssumption

-----------------------------------------------------------------------------
(* The inductive invariant *)

\* A worker has an account in hand.
Busy(w) == worker[w].at \in {"choose", "ask", "append"}

\* The worker asks server s because it has not failed yet.
Asking(s) == {w \in Workers : worker[w].at = "ask" /\ worker[w].server = s /\ ~worker[w].forced}

\* Where a worker stands, what it has in hand, and where the collector is.
Hands ==
    /\ \A w \in Workers :
          /\ Busy(w) => /\ worker[w].account \in Accounts \ todo
                        /\ accounts[worker[w].account] # {}
          /\ worker[w].at = "ask" /\ collector = "accountz" => worker[w].server \in Servers
          /\ worker[w].at # "append" => worker[w].left = {}
          /\ pc \in {"inventory", "returned"} => ~Busy(w)
    /\ pc \notin {"inventory", "feed"} => todo = {}
    /\ pc = "inventory" => \A a \in Accounts : accounts[a] = {}

\* Two workers have different accounts in hand.
Apart ==
    \A v, w \in Workers :
        Busy(v) /\ Busy(w) /\ worker[v].account = worker[w].account => v = w

\* An account counts as asked from the moment it leaves the feeder.
Asked ==
    /\ \A a \in todo : accounts[a] # {}
    /\ \A a \in Accounts : history.asked[a] = IF accounts[a] = {} \/ a \in todo THEN 0 ELSE 1

\* An answer is in the responses or in the hands of the worker that got it.
InHand(a, s) == \E w \in Workers : worker[w].account = a /\ s \in worker[w].left

Answers ==
    \A a \in Accounts, s \in Servers :
        history.answered[a][s] = responses[a][s] + IF InHand(a, s) THEN 1 ELSE 0

\* A request is wasted on a server at first hand only while it has not failed,
\* so by workers that had all chosen it by then.
Wasted ==
    \A s \in Servers :
        /\ s \notin failed => history.wasted[s] = 0
        /\ history.wasted[s] + Cardinality(Asking(s)) <= Cardinality(Workers)

FanOutInv == TypeOK /\ Hands /\ Apart /\ Asked /\ Answers /\ Wasted

WorkerType == [at : {"idle", "choose", "ask", "append", "gone"},
               account : Accounts \cup {Nothing}, server : Servers \cup {Nothing},
               forced : BOOLEAN, left : SUBSET Servers]

-----------------------------------------------------------------------------
(* The steps keep it *)

LEMMA Types ==
    ASSUME TypeOK
    PROVE  /\ worker \in [Workers -> WorkerType]
           /\ \A w \in Workers : worker[w] \in WorkerType
           /\ accounts \in [Accounts -> SUBSET Servers]
           /\ history \in [asked : [Accounts -> Nat], answered : Counts, wasted : [Servers -> Nat]]
           /\ history.asked \in [Accounts -> Nat] /\ history.answered \in Counts
           /\ history.wasted \in [Servers -> Nat]
BY DEF TypeOK, WorkerType

LEMMA IdleType ==
    /\ Idle \in WorkerType
    /\ Idle.at = "idle" /\ Idle.account = Nothing /\ Idle.server = Nothing
    /\ Idle.forced = FALSE /\ Idle.left = {}
BY DEF Idle, WorkerType

\* The sets of workers are finite.
LEMMA AskingIsFinite ==
    ASSUME NEW s
    PROVE  /\ IsFiniteSet(Asking(s)) /\ Cardinality(Asking(s)) \in Nat
           /\ Cardinality(Workers) \in Nat /\ Cardinality(Asking(s)) <= Cardinality(Workers)
<1>1. Asking(s) \subseteq Workers
  BY DEF Asking
<1> QED BY <1>1, FS_Subset, FS_CardinalityType

LEMMA InitOK == Init => FanOutInv
<1> SUFFICES ASSUME Init PROVE FanOutInv
  OBVIOUS
<1>1. /\ pc = "inventory" /\ todo = {} /\ failed = {} /\ collector \in Collectors
      /\ responses = Zero
  BY DEF Init
<1>2. accounts = [a \in Accounts |-> {}]
  BY DEF Init
<1>3. worker = [w \in Workers |-> Idle]
  BY DEF Init
<1>4. history = NoHistory
  BY DEF Init
<1>5. \A w \in Workers : worker[w] = Idle /\ ~Busy(w)
  BY <1>3, IdleType DEF Busy
<1>6. /\ Zero \in Counts
      /\ \A a \in Accounts, s \in Servers : Zero[a][s] = 0
  BY DEF Zero, Counts
<1>7. /\ history.asked = [a \in Accounts |-> 0] /\ history.answered = Zero
      /\ history.wasted = [s \in Servers |-> 0]
      /\ history \in [asked : [Accounts -> Nat], answered : Counts, wasted : [Servers -> Nat]]
  BY <1>4, <1>6 DEF NoHistory
<1>8. TypeOK
  <2>1. worker \in [Workers -> WorkerType]
    BY <1>3, IdleType
  <2>2. accounts \in [Accounts -> SUBSET Servers]
    BY <1>2
  <2> QED BY <1>1, <1>6, <1>7, <2>1, <2>2 DEF TypeOK, WorkerType
<1>9. Hands /\ Apart
  BY <1>1, <1>2, <1>5, IdleType DEF Hands, Apart
<1>10. Asked
  BY <1>1, <1>2, <1>7 DEF Asked
<1>11. Answers
  BY <1>1, <1>5, <1>6, <1>7, IdleType DEF Answers, InHand
<1>12. Wasted
  <2> SUFFICES ASSUME NEW s \in Servers
               PROVE  /\ history.wasted[s] = 0
                      /\ history.wasted[s] + Cardinality(Asking(s)) <= Cardinality(Workers)
    BY DEF Wasted
  <2>1. history.wasted[s] = 0
    BY <1>7
  <2> QED BY <2>1, AskingIsFinite
<1> QED BY <1>8, <1>9, <1>10, <1>11, <1>12 DEF FanOutInv

\* The collector's own steps leave the workers, the answers and the failures
\* alone.
LEMMA CollectorKeeps ==
    ASSUME UNCHANGED <<worker, failed, responses, history>>
    PROVE  /\ Apart => Apart'
           /\ Answers => Answers'
           /\ Wasted => Wasted'
BY DEF Apart, Busy, Answers, InHand, Wasted, Asking

LEMMA CollectOK ==
    ASSUME FanOutInv, Collect
    PROVE  FanOutInv'
<1>1. UNCHANGED <<worker, failed, responses, history, collector>>
  BY DEF Collect, Inventory, InventoryFails, Close, Return
<1>2. Apart' /\ Answers' /\ Wasted'
  BY <1>1, CollectorKeeps DEF FanOutInv
<1>3. \A w \in Workers : Busy(w)' = Busy(w)
  BY <1>1 DEF Busy
<1>4. CASE Inventory
  <2>1. /\ pc = "inventory" /\ pc' = "feed"
        /\ accounts' \in [Accounts -> SUBSET Servers]
        /\ todo' = {a \in Accounts : accounts'[a] # {}}
    BY <1>4 DEF Inventory
  <2>2. TypeOK'
    BY <1>1, <2>1 DEF FanOutInv, TypeOK
  <2>3. Hands'
    BY <1>1, <1>3, <2>1 DEF FanOutInv, Hands
  <2>4. \A a \in Accounts : history.asked[a] = 0
    BY <2>1 DEF FanOutInv, Hands, Asked
  <2>5. Asked'
    BY <1>1, <2>1, <2>4 DEF Asked
  <2> QED BY <1>2, <2>2, <2>3, <2>5 DEF FanOutInv
<1>5. CASE InventoryFails \/ Close \/ Return
  <2>1. UNCHANGED <<accounts, todo>> /\ pc' \in {"wait", "returned"}
    BY <1>5 DEF InventoryFails, Close, Return
  <2>2. TypeOK'
    BY <1>1, <2>1 DEF FanOutInv, TypeOK
  <2>3. Asked'
    BY <1>1, <2>1 DEF FanOutInv, Asked
  <2>4. todo = {}
    <3>1. CASE InventoryFails
      BY <3>1 DEF InventoryFails, FanOutInv, Hands, Asked, TypeOK
    <3>2. CASE Close
      BY <3>2 DEF Close
    <3>3. CASE Return
      BY <3>3 DEF Return, FanOutInv, Hands
    <3> QED BY <1>5, <3>1, <3>2, <3>3
  <2>5. pc' = "returned" => \A w \in Workers : ~Busy(w)
    <3>1. CASE InventoryFails
      BY <3>1 DEF InventoryFails, FanOutInv, Hands
    <3>2. CASE Close
      BY <3>2 DEF Close
    <3>3. CASE Return
      BY <3>3 DEF Return, Busy
    <3> QED BY <1>5, <3>1, <3>2, <3>3
  <2>6. Hands'
    BY <1>1, <1>3, <2>1, <2>4, <2>5 DEF FanOutInv, Hands
  <2> QED BY <1>2, <2>2, <2>3, <2>6 DEF FanOutInv
<1> QED BY <1>4, <1>5 DEF Collect

\* A worker's step leaves the collector and the other workers alone.
LEMMA OthersStay ==
    ASSUME TypeOK, NEW w \in Workers, Work(w)
    PROVE  /\ UNCHANGED <<collector, pc, accounts>>
           /\ \A v \in Workers : v # w => worker'[v] = worker[v]
<1>1. worker \in [Workers -> WorkerType]
  BY Types
<1> QED BY <1>1 DEF Work, Feed, Choose, AskFails, AskAnswered, AppendOne, Leave

\* With no more requests at first hand than before, nothing more is wasted.
LEMMA FewerAsking ==
    ASSUME TypeOK, Wasted, failed' = failed, history'.wasted = history.wasted,
           \A s \in Servers : Asking(s)' \subseteq Asking(s)
    PROVE  Wasted'
<1> SUFFICES ASSUME NEW s \in Servers
             PROVE  (history.wasted[s] + Cardinality(Asking(s)) <= Cardinality(Workers))'
  BY DEF Wasted
<1>1. Cardinality(Asking(s)') <= Cardinality(Asking(s)) /\ Cardinality(Asking(s)') \in Nat
  BY AskingIsFinite, FS_Subset, FS_CardinalityType
<1>2. history.wasted[s] \in Nat
  BY Types
<1>3. history.wasted[s] + Cardinality(Asking(s)) <= Cardinality(Workers)
  BY DEF Wasted
<1>4. Cardinality(Asking(s)) \in Nat /\ Cardinality(Workers) \in Nat
  BY AskingIsFinite
<1> QED BY <1>1, <1>2, <1>3, <1>4

\* A worker that does not come to ask adds nobody to Asking.
LEMMA NotAsking ==
    ASSUME NEW w \in Workers, \A v \in Workers : v # w => worker'[v] = worker[v],
           NEW s, worker'[w].at = "ask" => worker'[w].server # s
    PROVE  Asking(s)' \subseteq Asking(s)
BY DEF Asking

\* Answers stay in the same hands when one worker's are the same.
LEMMA SameHands ==
    ASSUME TypeOK, Answers, NEW w \in Workers,
           \A v \in Workers : v # w => worker'[v] = worker[v],
           worker[w].left = {}, worker'[w].left = {},
           responses' = responses, history'.answered = history.answered
    PROVE  Answers'
<1>1. \A a \in Accounts, s \in Servers : InHand(a, s)' <=> InHand(a, s)
  BY DEF InHand
<1> QED BY <1>1 DEF Answers

LEMMA FeedOK ==
    ASSUME FanOutInv, NEW w \in Workers, Feed(w)
    PROVE  FanOutInv'
<1> DEFINE at == IF collector = "accountz" THEN "choose" ELSE "ask"
<1>1. PICK a \in todo :
        /\ todo' = todo \ {a}
        /\ worker' = [worker EXCEPT ![w] = [Idle EXCEPT !.at = at, !.account = a]]
        /\ history' = [history EXCEPT !.asked[a] = @ + 1]
  BY DEF Feed
<1>2. /\ pc = "feed" /\ worker[w].at = "idle"
      /\ UNCHANGED <<collector, pc, accounts, failed, responses>>
  BY DEF Feed
<1>3. TypeOK /\ Hands /\ Apart /\ Asked /\ Answers /\ Wasted
  BY DEF FanOutInv
<1>4. a \in Accounts /\ accounts[a] # {}
  BY <1>3 DEF TypeOK, Asked
<1>5. worker'[w] = [Idle EXCEPT !.at = at, !.account = a]
  BY <1>1, <1>3, Types
<1>6. /\ worker'[w] \in WorkerType
      /\ worker'[w].at = at /\ worker'[w].account = a
      /\ worker'[w].server = Nothing /\ worker'[w].left = {}
  BY <1>4, <1>5 DEF Idle, WorkerType
<1>7. \A v \in Workers : v # w => worker'[v] = worker[v]
  BY <1>3, OthersStay DEF Work
<1>8. /\ history'.asked = [history.asked EXCEPT ![a] = @ + 1]
      /\ history'.answered = history.answered /\ history'.wasted = history.wasted
      /\ history' \in [asked : [Accounts -> Nat], answered : Counts, wasted : [Servers -> Nat]]
  BY <1>1, <1>3, <1>4, Types
<1>9. TypeOK'
  <2>1. worker' \in [Workers -> WorkerType]
    BY <1>1, <1>3, <1>5, <1>6, Types
  <2> QED BY <1>1, <1>2, <1>3, <1>8, <2>1 DEF TypeOK, WorkerType
<1>10. Hands'
  BY <1>1, <1>2, <1>3, <1>4, <1>6, <1>7 DEF Hands, Busy
<1>11. Apart'
  <2>1. \A v \in Workers : Busy(v) => worker[v].account # a
    BY <1>1, <1>3 DEF Hands
  <2> QED BY <1>3, <1>6, <1>7, <2>1 DEF Apart, Busy
<1>12. Asked'
  <2>1. history.asked[a] = 0
    BY <1>1, <1>3, <1>4 DEF Asked
  <2> QED BY <1>1, <1>2, <1>3, <1>4, <1>8, <2>1, Types DEF Asked
<1>13. Answers'
  <2>1. worker[w].left = {}
    BY <1>2, <1>3 DEF Hands
  <2> QED BY <1>2, <1>3, <1>6, <1>7, <1>8, <2>1, SameHands
<1>14. Wasted'
  <2>1. \A s \in Servers : Asking(s)' \subseteq Asking(s)
    BY <1>6, <1>7, NotAsking
  <2> QED BY <1>2, <1>3, <1>8, <2>1, FewerAsking
<1> QED BY <1>9, <1>10, <1>11, <1>12, <1>13, <1>14 DEF FanOutInv

LEMMA ChooseOK ==
    ASSUME FanOutInv, NEW w \in Workers, Choose(w)
    PROVE  FanOutInv'
<1> DEFINE all == accounts[worker[w].account]
<1>0. TypeOK /\ Hands /\ Apart /\ Asked /\ Answers /\ Wasted
  BY DEF FanOutInv
<1>1. PICK s \in Candidates(worker[w].account) :
        worker' = [worker EXCEPT ![w].at = "ask", ![w].server = s,
                                 ![w].forced = all \subseteq failed]
  BY DEF Choose
<1>2. /\ worker[w].at = "choose"
      /\ UNCHANGED <<collector, pc, accounts, todo, failed, responses, history>>
  BY DEF Choose
<1>3. worker[w].account \in Accounts /\ all \subseteq Servers /\ Busy(w)
  BY <1>0, <1>2, Types DEF Hands, Busy
<1>4. s \in all /\ (s \in failed => all \subseteq failed)
  BY <1>1 DEF Candidates
<1>5. s \in Servers
  BY <1>3, <1>4
<1>6. /\ worker'[w] \in WorkerType
      /\ worker'[w].at = "ask" /\ worker'[w].server = s
      /\ worker'[w].account = worker[w].account /\ worker'[w].left = worker[w].left
      /\ worker'[w].forced = (all \subseteq failed)
  <2>1. worker'[w] = [worker[w] EXCEPT !.at = "ask", !.server = s, !.forced = all \subseteq failed]
    BY <1>0, <1>1, Types
  <2>2. PICK forced \in BOOLEAN : forced = (all \subseteq failed)
    OBVIOUS
  <2>3. worker[w] \in WorkerType
    BY <1>0, Types
  <2>4. worker'[w] = [worker[w] EXCEPT !.at = "ask", !.server = s, !.forced = forced]
    BY <2>1, <2>2
  <2> HIDE DEF all
  <2> QED BY <1>5, <2>2, <2>3, <2>4 DEF WorkerType
<1>7. \A v \in Workers : v # w => worker'[v] = worker[v]
  BY <1>0, OthersStay DEF Work
<1>8. TypeOK'
  <2>1. worker' \in [Workers -> WorkerType]
    BY <1>0, <1>1, <1>6, Types
  <2> QED BY <1>0, <1>2, <2>1 DEF TypeOK, WorkerType
<1>9. Hands'
  BY <1>0, <1>2, <1>3, <1>5, <1>6, <1>7 DEF Hands, Busy
<1>10. Apart'
  BY <1>0, <1>3, <1>6, <1>7 DEF Apart, Busy
<1>11. Asked'
  BY <1>0, <1>2 DEF Asked
<1>12. Answers'
  <2>1. worker[w].left = {}
    BY <1>0, <1>2 DEF Hands
  <2> QED BY <1>0, <1>2, <1>6, <1>7, <2>1, SameHands
<1>13. Wasted'
  <2> SUFFICES ASSUME NEW t \in Servers
               PROVE  (history.wasted[t] + Cardinality(Asking(t)) <= Cardinality(Workers))'
    BY <1>0, <1>2 DEF Wasted
  <2>1. CASE t \in failed
    <3>1. worker'[w].server = t => worker'[w].forced
      BY <1>4, <1>6, <2>1
    <3>2. Asking(t)' \subseteq Asking(t)
      BY <1>7, <3>1 DEF Asking
    <3>3. Cardinality(Asking(t)') <= Cardinality(Asking(t)) /\ Cardinality(Asking(t)') \in Nat
      BY <3>2, AskingIsFinite, FS_Subset, FS_CardinalityType
    <3>4. history.wasted[t] \in Nat /\ Cardinality(Asking(t)) \in Nat /\ Cardinality(Workers) \in Nat
      BY <1>0, AskingIsFinite, Types
    <3>5. history.wasted[t] + Cardinality(Asking(t)) <= Cardinality(Workers)
      BY <1>0 DEF Wasted
    <3> QED BY <1>2, <3>3, <3>4, <3>5
  <2>2. CASE t \notin failed
    <3>1. history.wasted[t] = 0
      BY <1>0, <2>2 DEF Wasted
    <3>2. Asking(t)' \subseteq Workers
      BY DEF Asking
    <3>3. Cardinality(Asking(t)') <= Cardinality(Workers) /\ Cardinality(Asking(t)') \in Nat
      BY <3>2, FS_Subset, FS_CardinalityType
    <3> QED BY <1>2, <3>1, <3>3
  <2> QED BY <2>1, <2>2
<1> QED BY <1>8, <1>9, <1>10, <1>11, <1>12, <1>13 DEF FanOutInv

LEMMA AskFailsOK ==
    ASSUME FanOutInv, NEW w \in Workers, AskFails(w)
    PROVE  FanOutInv'
<1> DEFINE s == worker[w].server
<1>0. TypeOK /\ Hands /\ Apart /\ Asked /\ Answers /\ Wasted
  BY DEF FanOutInv
<1>1. /\ worker[w].at = "ask"
      /\ UNCHANGED <<collector, pc, accounts, todo, responses>>
      /\ worker' = [worker EXCEPT ![w] = Idle]
  BY DEF AskFails
<1>2. worker'[w] = Idle
  BY <1>0, <1>1, Types
<1>3. \A v \in Workers : v # w => worker'[v] = worker[v]
  BY <1>0, OthersStay DEF Work
<1>4. collector = "accountz" => s \in Servers
  BY <1>0, <1>1 DEF Hands
<1>5. /\ history'.asked = history.asked /\ history'.answered = history.answered
      /\ history' \in [asked : [Accounts -> Nat], answered : Counts, wasted : [Servers -> Nat]]
      /\ failed' \subseteq Servers /\ failed \subseteq failed'
      /\ \A t \in Servers :
            history'.wasted[t] =
              IF collector = "accountz" /\ t = s /\ ~worker[w].forced
              THEN history.wasted[t] + 1 ELSE history.wasted[t]
      /\ collector = "accountz" => s \in failed'
  <2>0. failed \subseteq Servers
    BY <1>0 DEF TypeOK
  <2>1. CASE collector = "accountz" /\ ~worker[w].forced
    <3>1. failed' = failed \cup {s} /\ history' = [history EXCEPT !.wasted[s] = @ + 1]
      BY <2>1 DEF AskFails
    <3>2. s \in Servers
      BY <1>4, <2>1
    <3> HIDE DEF s
    <3>3. history'.wasted = [history.wasted EXCEPT ![s] = @ + 1]
      BY <1>0, <3>1, Types
    <3>4. history'.asked = history.asked /\ history'.answered = history.answered
      BY <1>0, <3>1, Types
    <3>5. history' \in [asked : [Accounts -> Nat], answered : Counts, wasted : [Servers -> Nat]]
      BY <1>0, <3>1, <3>2, Types
    <3> QED BY <1>0, <2>0, <2>1, <3>1, <3>2, <3>3, <3>4, <3>5, Types
  <2>2. CASE collector = "accountz" /\ worker[w].forced
    <3>1. failed' = failed \cup {s} /\ history' = history
      BY <2>2 DEF AskFails
    <3> QED BY <1>0, <1>4, <2>0, <2>2, <3>1, Types
  <2>3. CASE collector # "accountz"
    <3>1. failed' = failed /\ history' = history
      BY <2>3 DEF AskFails
    <3> QED BY <1>0, <2>0, <2>3, <3>1, Types
  <2> QED BY <2>1, <2>2, <2>3
<1>6. TypeOK'
  <2>1. worker' \in [Workers -> WorkerType]
    BY <1>0, <1>1, IdleType, Types
  <2> QED BY <1>0, <1>1, <1>5, <2>1 DEF TypeOK, WorkerType
<1>7. Hands'
  BY <1>0, <1>1, <1>2, <1>3, IdleType DEF Hands, Busy
<1>8. Apart'
  BY <1>0, <1>2, <1>3, IdleType DEF Apart, Busy
<1>9. Asked'
  BY <1>0, <1>1, <1>5 DEF Asked
<1>10. Answers'
  <2>1. worker[w].left = {}
    BY <1>0, <1>1 DEF Hands
  <2> QED BY <1>0, <1>1, <1>2, <1>3, <1>5, <2>1, IdleType, SameHands
<1>11. Wasted'
  <2> SUFFICES ASSUME NEW t \in Servers
               PROVE  /\ t \notin failed' => history'.wasted[t] = 0
                      /\ history'.wasted[t] + Cardinality(Asking(t)') <= Cardinality(Workers)
    BY DEF Wasted
  <2>1. t \notin failed' => history'.wasted[t] = 0
    BY <1>0, <1>5 DEF Wasted
  <2>2. /\ history.wasted[t] \in Nat /\ Cardinality(Asking(t)) \in Nat /\ Cardinality(Workers) \in Nat
        /\ history.wasted[t] + Cardinality(Asking(t)) <= Cardinality(Workers)
    BY <1>0, AskingIsFinite, Types DEF Wasted
  <2>3. Asking(t)' \subseteq Asking(t) \ {w}
    BY <1>2, <1>3, IdleType DEF Asking
  <2>4. CASE collector = "accountz" /\ t = s /\ ~worker[w].forced
    <3>1. w \in Asking(t)
      BY <1>1, <2>4 DEF Asking
    <3>2. /\ IsFiniteSet(Asking(t) \ {w})
          /\ Cardinality(Asking(t) \ {w}) = Cardinality(Asking(t)) - 1
      BY <3>1, AskingIsFinite, FS_RemoveElement
    <3>3. Cardinality(Asking(t)') <= Cardinality(Asking(t)) - 1 /\ Cardinality(Asking(t)') \in Nat
      BY <2>3, <3>2, FS_Subset, FS_CardinalityType
    <3>4. history'.wasted[t] = history.wasted[t] + 1
      BY <1>5, <2>4
    <3> QED BY <2>1, <2>2, <3>3, <3>4
  <2>5. CASE ~(collector = "accountz" /\ t = s /\ ~worker[w].forced)
    <3>1. Cardinality(Asking(t)') <= Cardinality(Asking(t)) /\ Cardinality(Asking(t)') \in Nat
      BY <2>3, AskingIsFinite, FS_Subset, FS_CardinalityType
    <3>2. history'.wasted[t] = history.wasted[t]
      BY <1>5, <2>5
    <3> QED BY <2>1, <2>2, <3>1, <3>2
  <2> QED BY <2>4, <2>5
<1> QED BY <1>6, <1>7, <1>8, <1>9, <1>10, <1>11 DEF FanOutInv

LEMMA AskAnsweredOK ==
    ASSUME FanOutInv, NEW w \in Workers, AskAnswered(w)
    PROVE  FanOutInv'
<1>0. TypeOK /\ Hands /\ Apart /\ Asked /\ Answers /\ Wasted
  BY DEF FanOutInv
<1>a. PICK a \in Accounts : a = worker[w].account
  BY <1>0 DEF Hands, Busy, AskAnswered, AppendOne
<1>1. PICK usable \in SUBSET (IF collector = "accountz" THEN {worker[w].server} ELSE Servers) :
        /\ worker' = [worker EXCEPT ![w] =
              IF usable = {} THEN Idle ELSE [@ EXCEPT !.at = "append", !.left = usable]]
        /\ history' = [history EXCEPT !.answered[worker[w].account] =
              [s \in Servers |-> @[s] + IF s \in usable THEN 1 ELSE 0]]
  BY DEF AskAnswered
<1>2. /\ worker[w].at = "ask"
      /\ UNCHANGED <<collector, pc, accounts, todo, failed, responses>>
  BY DEF AskAnswered
<1>3. Busy(w) /\ worker[w].left = {}
  BY <1>0, <1>2 DEF Hands, Busy
<1>4. usable \subseteq Servers
  BY <1>0, <1>1, <1>2 DEF Hands
<1>5. worker'[w] = IF usable = {} THEN Idle ELSE [worker[w] EXCEPT !.at = "append", !.left = usable]
  BY <1>0, <1>1, Types
<1>6. /\ worker'[w] \in WorkerType /\ worker'[w].left = usable
      /\ usable = {} => worker'[w] = Idle
      /\ usable # {} => worker'[w].at = "append" /\ worker'[w].account = a
  <2>1. CASE usable = {}
    BY <1>5, <2>1, IdleType
  <2>2. CASE usable # {}
    <3>1. worker'[w] = [worker[w] EXCEPT !.at = "append", !.left = usable]
      BY <1>5, <2>2
    <3>2. worker[w] \in WorkerType /\ usable \in SUBSET Servers
      BY <1>0, <1>4, Types
    <3> QED BY <1>a, <2>2, <3>1, <3>2 DEF WorkerType
  <2> QED BY <2>1, <2>2
<1>7. \A v \in Workers : v # w => worker'[v] = worker[v]
  BY <1>0, OthersStay DEF Work
<1>8. /\ history'.asked = history.asked /\ history'.wasted = history.wasted
      /\ history'.answered = [history.answered EXCEPT ![a] =
            [s \in Servers |-> history.answered[a][s] + IF s \in usable THEN 1 ELSE 0]]
  <2> QED BY <1>0, <1>a, <1>1, <1>3, Types DEF Counts
<1>9. /\ \A s \in Servers :
            history'.answered[a][s] = history.answered[a][s] + IF s \in usable THEN 1 ELSE 0
      /\ \A b \in Accounts : b # a => history'.answered[b] = history.answered[b]
      /\ history'.answered \in Counts
  <2>1. history.answered \in [Accounts -> [Servers -> Nat]]
    BY <1>0, Types DEF Counts
  <2>2. [s \in Servers |-> history.answered[a][s] + IF s \in usable THEN 1 ELSE 0] \in [Servers -> Nat]
    BY <1>3, <2>1
  <2> QED BY <1>3, <1>8, <2>1, <2>2 DEF Counts
<1>10. TypeOK'
  <2>1. worker' \in [Workers -> WorkerType]
    BY <1>0, <1>1, <1>5, <1>6, Types
  <2>2. history' \in [asked : [Accounts -> Nat], answered : Counts, wasted : [Servers -> Nat]]
    <3>1. history' = [history EXCEPT !.answered = history'.answered]
      BY <1>0, <1>a, <1>1, <1>8, Types
    <3> QED BY <1>0, <1>9, <3>1, Types
  <2> QED BY <1>0, <1>2, <2>1, <2>2 DEF TypeOK, WorkerType
<1>11. Hands'
  BY <1>0, <1>a, <1>2, <1>3, <1>6, <1>7, IdleType DEF Hands, Busy
<1>12. Apart'
  BY <1>0, <1>a, <1>3, <1>6, <1>7, IdleType DEF Apart, Busy
<1>13. Asked'
  BY <1>0, <1>2, <1>8 DEF Asked
<1>14. Answers'
  <2>1. \A v \in Workers : v # w /\ worker[v].account = a => worker[v].left = {}
    BY <1>0, <1>a, <1>3 DEF Hands, Apart, Busy
  <2>2. \A b \in Accounts, s \in Servers : b # a => (InHand(b, s)' <=> InHand(b, s))
    BY <1>3, <1>6, <1>7, <1>a, IdleType DEF InHand
  <2>3. \A s \in Servers : ~InHand(a, s)
    BY <1>a, <1>3, <2>1 DEF InHand
  <2>4. \A s \in Servers : InHand(a, s)' <=> s \in usable
    BY <1>a, <1>6, <1>7, <2>1, IdleType DEF InHand
  <2>5. \A b \in Accounts, s \in Servers : history.answered[b][s] \in Nat /\ responses[b][s] \in Nat
    BY <1>0, Types DEF TypeOK, Counts
  <2>6. ASSUME NEW b \in Accounts, NEW s \in Servers
        PROVE  history'.answered[b][s] = responses'[b][s] + IF InHand(b, s)' THEN 1 ELSE 0
    <3>0. /\ history.answered[b][s] = responses[b][s] + IF InHand(b, s) THEN 1 ELSE 0
          /\ responses'[b][s] = responses[b][s]
      BY <1>0, <1>2 DEF Answers
    <3>1. CASE b = a
      BY <1>9, <2>3, <2>4, <2>5, <3>0, <3>1
    <3>2. CASE b # a
      BY <1>9, <2>2, <3>0, <3>2
    <3> QED BY <3>1, <3>2
  <2> QED BY <2>6 DEF Answers
<1>15. Wasted'
  <2>1. \A s \in Servers : Asking(s)' \subseteq Asking(s)
    BY <1>6, <1>7, IdleType, NotAsking
  <2> QED BY <1>0, <1>2, <1>8, <2>1, FewerAsking
<1> QED BY <1>10, <1>11, <1>12, <1>13, <1>14, <1>15 DEF FanOutInv

LEMMA AppendOneOK ==
    ASSUME FanOutInv, NEW w \in Workers, AppendOne(w)
    PROVE  FanOutInv'
<1>0. TypeOK /\ Hands /\ Apart /\ Asked /\ Answers /\ Wasted
  BY DEF FanOutInv
<1>a. PICK a \in Accounts : a = worker[w].account
  BY <1>0 DEF Hands, Busy, AskAnswered, AppendOne
<1>1. PICK s \in worker[w].left :
        /\ responses' = [responses EXCEPT ![a][s] = @ + 1]
        /\ worker' = [worker EXCEPT ![w] =
              IF worker[w].left = {s} THEN Idle ELSE [worker[w] EXCEPT !.left = worker[w].left \ {s}]]
  BY <1>a DEF AppendOne
<1>2. /\ worker[w].at = "append"
      /\ UNCHANGED <<collector, pc, accounts, todo, failed, history>>
  BY DEF AppendOne
<1>3. Busy(w) /\ s \in Servers
  BY <1>0, <1>1, <1>2, Types DEF Hands, Busy, WorkerType
<1>4. worker'[w] = IF worker[w].left = {s} THEN Idle ELSE [worker[w] EXCEPT !.left = worker[w].left \ {s}]
  BY <1>0, <1>1, Types
<1>5. /\ worker'[w] \in WorkerType /\ worker'[w].left = worker[w].left \ {s}
      /\ \/ worker'[w] = Idle
         \/ worker'[w].at = "append" /\ worker'[w].account = a
  <2>1. CASE worker[w].left = {s}
    BY <1>4, <2>1, IdleType
  <2>2. CASE worker[w].left # {s}
    <3>1. worker'[w] = [worker[w] EXCEPT !.left = worker[w].left \ {s}]
      BY <1>4, <2>2
    <3> QED BY <1>0, <1>a, <1>2, <3>1, Types DEF WorkerType
  <2> QED BY <2>1, <2>2
<1>6. \A v \in Workers : v # w => worker'[v] = worker[v]
  BY <1>0, OthersStay DEF Work
<1>7. /\ responses' \in Counts
      /\ responses'[a][s] = responses[a][s] + 1
      /\ \A b \in Accounts, t \in Servers : b # a \/ t # s => responses'[b][t] = responses[b][t]
  <2>1. responses \in [Accounts -> [Servers -> Nat]]
    BY <1>0 DEF TypeOK, Counts
  <2> QED BY <1>1, <1>3, <2>1 DEF Counts
<1>8. TypeOK'
  <2>1. worker' \in [Workers -> WorkerType]
    BY <1>0, <1>1, <1>4, <1>5, Types
  <2> QED BY <1>0, <1>2, <1>7, <2>1 DEF TypeOK, WorkerType
<1>9. Hands'
  BY <1>0, <1>a, <1>2, <1>3, <1>5, <1>6, IdleType DEF Hands, Busy
<1>10. Apart'
  BY <1>0, <1>a, <1>3, <1>5, <1>6, IdleType DEF Apart, Busy
<1>11. Asked'
  BY <1>0, <1>2 DEF Asked
<1>12. Answers'
  <2>1. \A v \in Workers : v # w /\ worker[v].account = a => worker[v].left = {}
    BY <1>0, <1>a, <1>3 DEF Hands, Apart, Busy
  <2>2. \A b \in Accounts, t \in Servers : b # a => (InHand(b, t)' <=> InHand(b, t))
    BY <1>3, <1>5, <1>6, <1>a, IdleType DEF InHand
  <2>3. \A t \in Servers : InHand(a, t) <=> t \in worker[w].left
    BY <1>a, <2>1 DEF InHand
  <2>4. \A t \in Servers : InHand(a, t)' <=> t \in worker[w].left \ {s}
    BY <1>5, <1>6, <2>1, <1>a, IdleType DEF InHand
  <2>5. \A b \in Accounts, t \in Servers : history.answered[b][t] \in Nat /\ responses[b][t] \in Nat
    BY <1>0, Types DEF TypeOK, Counts
  <2>6. ASSUME NEW b \in Accounts, NEW t \in Servers
        PROVE  history'.answered[b][t] = responses'[b][t] + IF InHand(b, t)' THEN 1 ELSE 0
    <3>0. /\ history.answered[b][t] = responses[b][t] + IF InHand(b, t) THEN 1 ELSE 0
          /\ history'.answered[b][t] = history.answered[b][t]
      BY <1>0, <1>2 DEF Answers
    <3>1. CASE b = a /\ t = s
      BY <1>1, <1>7, <2>3, <2>4, <2>5, <3>0, <3>1
    <3>2. CASE b = a /\ t # s
      BY <1>7, <2>3, <2>4, <3>0, <3>2
    <3>3. CASE b # a
      BY <1>7, <2>2, <3>0, <3>3
    <3> QED BY <3>1, <3>2, <3>3
  <2> QED BY <2>6 DEF Answers
<1>13. Wasted'
  <2>1. \A t \in Servers : Asking(t)' \subseteq Asking(t)
    BY <1>5, <1>6, IdleType, NotAsking
  <2> QED BY <1>0, <1>2, <2>1, FewerAsking
<1> QED BY <1>8, <1>9, <1>10, <1>11, <1>12, <1>13 DEF FanOutInv

LEMMA LeaveOK ==
    ASSUME FanOutInv, NEW w \in Workers, Leave(w)
    PROVE  FanOutInv'
<1>0. TypeOK /\ Hands /\ Apart /\ Asked /\ Answers /\ Wasted
  BY DEF FanOutInv
<1>1. /\ worker[w].at = "idle" /\ worker' = [worker EXCEPT ![w].at = "gone"]
      /\ UNCHANGED <<collector, pc, accounts, todo, failed, responses, history>>
  BY DEF Leave
<1>2. worker'[w] \in WorkerType /\ worker'[w].at = "gone" /\ worker'[w].left = worker[w].left
  BY <1>0, <1>1, Types DEF WorkerType
<1>3. \A v \in Workers : v # w => worker'[v] = worker[v]
  BY <1>0, OthersStay DEF Work
<1>4. TypeOK'
  <2>1. worker' \in [Workers -> WorkerType]
    BY <1>0, <1>1, <1>2, Types
  <2> QED BY <1>0, <1>1, <2>1 DEF TypeOK, WorkerType
<1>5. Hands' /\ Apart'
  BY <1>0, <1>1, <1>2, <1>3 DEF Hands, Apart, Busy
<1>6. Asked'
  BY <1>0, <1>1 DEF Asked
<1>7. Answers'
  <2>1. worker[w].left = {}
    BY <1>0, <1>1 DEF Hands
  <2> QED BY <1>0, <1>1, <1>2, <1>3, <2>1, SameHands
<1>8. Wasted'
  <2>1. \A s \in Servers : Asking(s)' \subseteq Asking(s)
    BY <1>2, <1>3, NotAsking
  <2> QED BY <1>0, <1>1, <2>1, FewerAsking
<1> QED BY <1>4, <1>5, <1>6, <1>7, <1>8 DEF FanOutInv

-----------------------------------------------------------------------------
(* The theorems *)

LEMMA FanOutInvariant == Spec => []FanOutInv
<1>1. FanOutInv /\ [Next]_vars => FanOutInv'
  <2> SUFFICES ASSUME FanOutInv, [Next]_vars PROVE FanOutInv'
    OBVIOUS
  <2>1. CASE Collect
    BY <2>1, CollectOK
  <2>2. ASSUME NEW w \in Workers, Work(w) PROVE FanOutInv'
    BY <2>2, FeedOK, ChooseOK, AskFailsOK, AskAnsweredOK, AppendOneOK, LeaveOK DEF Work
  <2>3. CASE UNCHANGED vars
    BY <2>3 DEF vars, FanOutInv, TypeOK, Hands, Apart, Busy, Asked, Answers, InHand, Wasted, Asking
  <2> QED BY <2>1, <2>2, <2>3 DEF Next, Terminated
<1> QED BY InitOK, <1>1, PTL DEF Spec

\* Every variable stays within its type, whatever the inventory and the
\* outcomes of the requests (collectors.go:262-452).
THEOREM FanOutTypes == Spec => []TypeOK
<1>1. FanOutInv => TypeOK
  BY DEF FanOutInv
<1> QED BY <1>1, FanOutInvariant, PTL

\* When Accountz or Raftz returns, each usable answer is in its result, once
\* (collectors.go:357-371, 427-444).
THEOREM AnswersKept == Spec => []NoAnswerIsLost
<1>1. FanOutInv => NoAnswerIsLost
  <2> SUFFICES ASSUME FanOutInv, pc = "returned" PROVE responses = history.answered
    BY DEF NoAnswerIsLost
  <2>1. \A w \in Workers : worker[w].left = {}
    BY DEF FanOutInv, Hands, Busy
  <2>2. \A a \in Accounts, s \in Servers : ~InHand(a, s)
    BY <2>1 DEF InHand
  <2>3. responses \in [Accounts -> [Servers -> Nat]] /\ history.answered \in [Accounts -> [Servers -> Nat]]
    BY Types DEF FanOutInv, TypeOK, Counts
  <2>4. ASSUME NEW a \in Accounts PROVE responses[a] = history.answered[a]
    <3>1. \A s \in Servers : history.answered[a][s] = responses[a][s]
      BY <2>2, <2>3 DEF FanOutInv, Answers
    <3>2. responses[a] \in [Servers -> Nat] /\ history.answered[a] \in [Servers -> Nat]
      BY <2>3
    <3> QED BY <3>1, <3>2
  <2> QED BY <2>3, <2>4
<1> QED BY <1>1, FanOutInvariant, PTL

\* Workers and failures never make the collector skip an account or ask for
\* it twice (collectors.go:332-369, 404-442).
THEOREM AccountsAsked == Spec => []EveryAccountIsAsked
<1>1. FanOutInv => EveryAccountIsAsked
  <2> SUFFICES ASSUME FanOutInv, NEW a \in Accounts
               PROVE  /\ history.asked[a] <= 1
                      /\ pc = "returned" /\ accounts[a] # {} => history.asked[a] = 1
    BY DEF EveryAccountIsAsked
  <2>1. history.asked[a] = IF accounts[a] = {} \/ a \in todo THEN 0 ELSE 1
    BY DEF FanOutInv, Asked
  <2>2. pc = "returned" => todo = {}
    BY DEF FanOutInv, Hands
  <2> QED BY <2>1, <2>2
<1> QED BY <1>1, FanOutInvariant, PTL

\* A server that does not answer costs at most one timeout for each worker,
\* however many accounts it knows (collectors.go:325-356).
THEOREM FailuresKnown == Spec => []FailuresAreRemembered
<1>1. FanOutInv => FailuresAreRemembered
  <2> SUFFICES ASSUME FanOutInv, NEW s \in Servers
               PROVE  history.wasted[s] <= Cardinality(Workers)
    BY DEF FailuresAreRemembered
  <2>1. history.wasted[s] \in Nat
    BY Types DEF FanOutInv
  <2>2. history.wasted[s] + Cardinality(Asking(s)) <= Cardinality(Workers)
    BY DEF FanOutInv, Wasted
  <2> QED BY <2>1, <2>2, AskingIsFinite
<1> QED BY <1>1, FanOutInvariant, PTL
=============================================================================
