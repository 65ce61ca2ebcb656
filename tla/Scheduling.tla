----------------------------- MODULE Scheduling -----------------------------
(***************************************************************************)
(* One scheduling cycle of the meliodas scheduler plugin for one pod       *)
(* (src/pkg/scheduling/scheduling.go, parallel.go): Filter per node,       *)
(* PreScore's ParallelCollection (a closed channel of nodes drained by a   *)
(* pool of goroutines joined by a WaitGroup), Score per node from the      *)
(* CycleState, and NormalizeScore.                                         *)
(*                                                                         *)
(* The cloud counts of each node (attached interfaces, networks) may change *)
(* at any time, since pods on other hosts come and go; they stay within    *)
(* what the instance can hold: at most MAX_ENIS interfaces (the ENI store's *)
(* guard) and no more networks than interfaces.  Any cloud read may fail.  *)
(***************************************************************************)
EXTENDS Naturals, Integers, FiniteSets, FiniteSetsExt

CONSTANTS
    Nodes,            \* the nodes of the cycle
    Workers,          \* the workers argument (PreScore passes 16)
    MAX_IPS, MAX_ENIS,                \* backend constants used by the score
    MaxInstanceEnis, MaxInstanceIps,  \* Args, used by Filter
    MaxNodeScore,     \* framework.MaxNodeScore
    MaxChanges,       \* bound on cloud changes during the cycle
    NoData

ASSUME MAX_IPS > MAX_ENIS /\ Workers \in Nat \ {0}

Counts == {<<e, i>> \in (1..MAX_ENIS) \X (1..MAX_ENIS) : i <= e}

VARIABLES
    cloud,      \* node -> <<attached interfaces, networks>> in Nova
    changes,    \* cloud changes so far
    phase,      \* "filter", "prescore", "wait", "score", "normalize", "done", "failed"
    filtered,   \* nodes Filter has run on
    feasible,   \* nodes Filter let through
    toProcess,  \* nodes left in the closed channel
    wpc,        \* worker -> "idle", "run", "done" (wg.Done called)
    wg,         \* the WaitGroup counter
    state,      \* CycleState: node -> collected record, or NoData
    msg,        \* nodes whose collection failed (msg is non-empty)
    scores      \* node -> score

vars == <<cloud, changes, phase, filtered, feasible, toProcess, wpc, wg, state,
          msg, scores>>

TypeOK ==
    /\ cloud \in [Nodes -> Counts]
    /\ changes \in 0..MaxChanges
    /\ phase \in {"filter", "prescore", "wait", "score", "normalize", "done", "failed"}
    /\ filtered \subseteq Nodes /\ feasible \subseteq filtered
    /\ toProcess \subseteq feasible
    /\ wpc \in [1..Workers -> {"idle", "run", "done"}]
    /\ wg \in 0..Workers
    /\ state \in [Nodes -> [ints : Int, ips : Int] \cup {NoData}]
    /\ msg \subseteq Nodes
    /\ scores \in [Nodes -> Int]

Init ==
    /\ cloud \in [Nodes -> Counts]
    /\ changes = 0
    /\ phase = "filter"
    /\ filtered = {} /\ feasible = {} /\ toProcess = {}
    /\ wpc = [w \in 1..Workers |-> "idle"]
    /\ wg = 0
    /\ state = [n \in Nodes |-> NoData]
    /\ msg = {}
    /\ scores = [n \in Nodes |-> 0]

-----------------------------------------------------------------------------
\* Another host's pod is added or removed: a node's counts change.
CloudChange ==
    /\ changes < MaxChanges /\ phase \notin {"done", "failed"}
    /\ \E n \in Nodes, c \in Counts :
          cloud' = [cloud EXCEPT ![n] = c] /\ changes' = changes + 1
    /\ UNCHANGED <<phase, filtered, feasible, toProcess, wpc, wg, state, msg, scores>>

\* Filter: CountServerIntsAndEnis; an error or a count at the Args maxima
\* makes the node unschedulable.
Filter(n) ==
    /\ phase = "filter" /\ n \notin filtered
    /\ filtered' = filtered \cup {n}
    /\ \/ UNCHANGED feasible                                   \* cloud error
       \/ /\ cloud[n][1] < MaxInstanceEnis /\ cloud[n][2] < MaxInstanceIps
          /\ feasible' = feasible \cup {n}
       \/ /\ ~(cloud[n][1] < MaxInstanceEnis /\ cloud[n][2] < MaxInstanceIps)
          /\ UNCHANGED feasible
    /\ UNCHANGED <<cloud, changes, phase, toProcess, wpc, wg, state, msg,
                   scores>>

\* The framework runs PreScore once every node is filtered, if any passed.
FilterDone ==
    /\ phase = "filter" /\ filtered = Nodes
    /\ phase' = IF feasible = {} THEN "failed" ELSE "prescore"
    /\ UNCHANGED <<cloud, changes, filtered, feasible, toProcess, wpc, wg, state,
                   msg, scores>>

\* Variant: wg.Add(pieces) with only min(workers, pieces) goroutines.
StartPreScoreAddPieces ==
    /\ phase = "prescore"
    /\ LET k == IF Cardinality(feasible) < Workers THEN Cardinality(feasible)
                ELSE Workers
       IN /\ wpc' = [w \in 1..Workers |-> IF w <= k THEN "run" ELSE "idle"]
          /\ wg' = Cardinality(feasible)
    /\ toProcess' = feasible
    /\ phase' = "wait"
    /\ UNCHANGED <<cloud, changes, filtered, feasible, state, msg, scores>>

\* PreScore -> ParallelCollection(nil, 16, ...): fill and close the channel,
\* workers = min(workers, pieces), wg.Add(workers), start the goroutines.
StartPreScore ==
    /\ phase = "prescore"
    /\ LET k == IF Cardinality(feasible) < Workers THEN Cardinality(feasible)
                ELSE Workers
       IN /\ wpc' = [w \in 1..Workers |-> IF w <= k THEN "run" ELSE "idle"]
          /\ wg' = k
    /\ toProcess' = feasible
    /\ phase' = "wait"
    /\ UNCHANGED <<cloud, changes, filtered, feasible, state, msg, scores>>

\* Variant: a single receive instead of the range loop: the worker calls
\* wg.Done after its first node.
WorkerRecvOnce(w) ==
    /\ wpc[w] = "run" /\ toProcess # {}
    /\ \E n \in toProcess :
          /\ toProcess' = toProcess \ {n}
          /\ state' = [state EXCEPT ![n] =
                 [ints |-> MAX_IPS - cloud[n][1], ips |-> MAX_ENIS - cloud[n][2]]]
    /\ wpc' = [wpc EXCEPT ![w] = "done"]
    /\ wg' = wg - 1
    /\ UNCHANGED <<cloud, changes, phase, filtered, feasible, msg, scores>>

\* One iteration of a worker's range loop: receive a node and, stop being
\* the nil channel PreScore's nil context leaves (the select never takes
\* that case), CollectNodeIntsAndIps, which writes the node's data under
\* state.Lock or appends its error to msg.
WorkerRecv(w) ==
    /\ wpc[w] = "run" /\ toProcess # {}
    /\ \E n \in toProcess :
          /\ toProcess' = toProcess \ {n}
          /\ \/ /\ msg' = msg \cup {n}                          \* cloud error
                /\ UNCHANGED <<wpc, state>>
             \/ /\ state' = [state EXCEPT ![n] =
                       [ints |-> MAX_IPS - cloud[n][1], ips |-> MAX_ENIS - cloud[n][2]]]
                /\ UNCHANGED <<wpc, msg>>
    /\ UNCHANGED <<cloud, changes, phase, filtered, feasible, wg, scores>>

\* The channel is drained and closed: the range loop ends, wg.Done().
WorkerDone(w) ==
    /\ wpc[w] = "run" /\ toProcess = {}
    /\ wpc' = [wpc EXCEPT ![w] = "done"]
    /\ wg' = wg - 1
    /\ UNCHANGED <<cloud, changes, phase, filtered, feasible, toProcess, state,
                   msg, scores>>

\* wg.Wait() returns; a non-empty msg fails PreScore.
WaitReturns ==
    /\ phase = "wait" /\ wg = 0
    /\ phase' = IF msg = {} THEN "score" ELSE "failed"
    /\ UNCHANGED <<cloud, changes, filtered, feasible, toProcess, wpc, wg, state,
                   msg, scores>>

\* Score(n) -> score: state.Read of the node's key; a miss is an error.
ScoreNode ==
    /\ phase = "score"
    /\ phase' = IF \A n \in feasible : state[n] # NoData THEN "normalize"
                ELSE "failed"
    /\ scores' = [n \in Nodes |-> IF n \in feasible /\ state[n] # NoData
                                  THEN state[n].ips + state[n].ints ELSE 0]
    /\ UNCHANGED <<cloud, changes, filtered, feasible, toProcess, wpc, wg, state,
                   msg>>

\* Go's integer division truncates toward zero.
Quo(a, b) == IF a >= 0 THEN a \div b ELSE -((-a) \div b)

\* Variant: the first score is taken as the highest.
HighestFirst(ns) == scores[CHOOSE n \in ns : TRUE]

\* The loop highest = max(highest, score) from 0.
Highest(ns) == Max({0} \cup {scores[n] : n \in ns})

\* NormalizeScore: score * MaxNodeScore / highest; highest = 0 panics.
NormalizeScore ==
    /\ phase = "normalize"
    /\ LET h == Highest(feasible) IN
         \/ h = 0 /\ phase' = "failed" /\ UNCHANGED scores
         \/ /\ h # 0 /\ phase' = "done"
            /\ scores' = [n \in Nodes |-> IF n \in feasible
                                          THEN Quo(scores[n] * MaxNodeScore, h)
                                          ELSE 0]
    /\ UNCHANGED <<cloud, changes, filtered, feasible, toProcess, wpc, wg, state,
                   msg>>

Worker(w) == WorkerRecv(w) \/ WorkerDone(w)

Next ==
    \/ CloudChange
    \/ \E n \in Nodes : Filter(n)
    \/ FilterDone \/ StartPreScore
    \/ \E w \in 1..Workers : Worker(w)
    \/ WaitReturns \/ ScoreNode \/ NormalizeScore

\* Goroutines are scheduled by the Go runtime and the framework's steps run
\* in turn; the environment (cloud changes) is not fair.
Fairness ==
    /\ \A w \in 1..Workers : WF_vars(Worker(w))
    /\ \A n \in Nodes : WF_vars(Filter(n))
    /\ WF_vars(FilterDone) /\ WF_vars(StartPreScore) /\ WF_vars(WaitReturns)
    /\ WF_vars(ScoreNode) /\ WF_vars(NormalizeScore)

Spec == Init /\ [][Next]_vars /\ Fairness

-----------------------------------------------------------------------------
(* Properties *)

\* When ParallelCollection reports success, every node that passed Filter
\* has its data in the CycleState, so Score finds it: the workers together
\* drain the whole channel, however the nodes are split among them.
PreScoreComplete ==
    phase \in {"score", "normalize", "done"} =>
        \A n \in feasible : state[n] # NoData

\* Whatever the cloud did between Filter and PreScore, NormalizeScore never
\* divides by zero and leaves every feasible node a score in
\* 0..MaxNodeScore.
NormalizedInRange ==
    /\ phase = "normalize" => Highest(feasible) > 0
    /\ phase = "done" => \A n \in feasible : scores[n] \in 0..MaxNodeScore

\* PreScore returns: wg.Wait() in ParallelCollection does not block forever.
PreScoreReturns == phase = "wait" ~> phase # "wait"

=============================================================================
