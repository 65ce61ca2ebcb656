\* Three nodes and two workers, so one worker takes two nodes; MAX_ENIS = 2
\* and MAX_IPS = 3 keep the backend's MAX_IPS > MAX_ENIS, and the Args keep
\* New()'s defaults; one cloud change may fall between Filter and PreScore.
\* The queue's pods are every combination of the fields Less reads.
CONSTANTS
    n1 = n1
    n2 = n2
    n3 = n3
    Nodes <- MCNodes
    Workers = 2
    MAX_IPS = 3
    MAX_ENIS = 2
    MaxInstanceEnis = 2
    MaxInstanceIps = 3
    MaxNodeScore = 100
    MaxChanges = 1
    NoData = NoData
    Priorities = {0, 1}
    Times = {1, 2}
    Namespaces <- MCNamespaces
    Names <- MCNames

SPECIFICATION Spec

INVARIANT TypeOK
INVARIANT PreScoreComplete
INVARIANT NormalizedInRange
PROPERTY PreScoreReturns
INVARIANT LessIsStrictWeakOrder

\* A cycle ends ("done" or "failed"); nothing follows it.
CHECK_DEADLOCK FALSE
