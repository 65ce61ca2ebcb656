\* Three concurrent containers, MAX_ENIS = 3: the host interface plus two
\* containers fill the instance, so the third ADD meets the guard.
CONSTANTS
    c1 = c1
    c2 = c2
    c3 = c3
    Containers <- MCContainers
    HostNIC = HostNIC
    MAX_ENIS = 3
    MaxDels = 2
    NoProc = NoProc

SPECIFICATION Spec

INVARIANT EniCapacity
INVARIANT EniLiveAttached
INVARIANT EniReleasedClean
PROPERTY InvocationsReturn
PROPERTY StoreRefined

\* The harness bounds the invocations: once every container has used its
\* ADD and DELs the host really stops.
CHECK_DEADLOCK FALSE
