\* Fault-free cloud: every call succeeds, no process dies.  The three
\* containers of the passing run; one suffices, as DEL may come without
\* ADD or be repeated.
CONSTANTS
    c1 = c1
    c2 = c2
    c3 = c3
    Containers <- MCContainers
    MaxDels = 2
    CloudFaults = FALSE

SPECIFICATION Spec

INVARIANT SepReleaseIdempotent

CHECK_DEADLOCK FALSE
