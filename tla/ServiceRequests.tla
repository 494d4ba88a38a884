--------------------------- MODULE ServiceRequests --------------------------
(* What the services have in common in the modules that are composed with   *)
(* one another: the requests they serve, and how many at a time.            *)
EXTENDS NullValue

CONSTANTS
    Requests,
    MaxInFlight             \* bound
=============================================================================
