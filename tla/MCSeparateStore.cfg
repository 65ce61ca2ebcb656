\* Three concurrent containers, each with one ADD and up to two DELs, with
\* failed calls, lost replies and crashes.
CONSTANTS
    c1 = c1
    c2 = c2
    c3 = c3
    Containers <- MCContainers
    MaxDels = 2
    CloudFaults = TRUE

SPECIFICATION Spec

INVARIANT SepLiveHasPort
INVARIANT SepReleasedClean

\* The harness bounds the invocations: the host stops once they are used.
CHECK_DEADLOCK FALSE
