--------------------------- MODULE StoreRequests ---------------------------
(* What the services over several stores have in common: requests, a clock *)
(* and what is there at the start.                                         *)
EXTENDS ServiceRequests

CONSTANTS
    Original,               \* what is in the stores at the start
    MaxTime                 \* bound
=============================================================================
