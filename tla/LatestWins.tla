----------------------------- MODULE LatestWins -----------------------------
(***************************************************************************)
(* What the search service promises its client: requests are numbered in   *)
(* the order they are posted; what is shown never goes back to an older    *)
(* request, and once the client stops posting the last one gets shown.     *)
(***************************************************************************)
EXTENDS Naturals

VARIABLES
    posted,   \* number of the latest request
    shown,    \* number of the request whose result is shown
    closed    \* the client has shut the service down

vars == <<posted, shown, closed>>

Init == posted = 0 /\ shown = 0 /\ closed = FALSE

Post == posted' = posted + 1 /\ UNCHANGED <<shown, closed>>

Show ==
    /\ shown' > shown
    /\ shown' <= posted
    /\ UNCHANGED <<posted, closed>>

Close == closed' = TRUE /\ UNCHANGED <<posted, shown>>

Next == Post \/ Show \/ Close

Spec == Init /\ [][Next]_vars
=============================================================================
