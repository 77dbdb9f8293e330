------------------------------ MODULE ItemLog ------------------------------
(***************************************************************************)
(* What the item store promises its readers: the input is a log that only  *)
(* grows until it is closed, and a read that overlaps the writer returns a *)
(* prefix of the log no shorter than the log was when the read began.      *)
(***************************************************************************)
EXTENDS Integers, Sequences

CONSTANTS Consumers, Specs

VARIABLES
    log,      \* the published records
    closed,   \* no record follows
    low,      \* length of the log when the reader's current read began
    view      \* what the reader's last read returned

vars == <<log, closed, low, view>>

Init ==
    /\ log = <<>>
    /\ closed = FALSE
    /\ low = [c \in Consumers |-> 0]
    /\ view = [c \in Consumers |-> <<>>]

Publish == ~closed /\ \E s \in Specs : log' = Append(log, s) /\ UNCHANGED <<closed, low, view>>

Close == closed' = TRUE /\ UNCHANGED <<log, low, view>>

BeginRead(c) ==
    /\ low' = [low EXCEPT ![c] = Len(log)]
    /\ UNCHANGED <<log, closed, view>>

EndRead(c) ==
    /\ \E n \in low[c] .. Len(log) : view' = [view EXCEPT ![c] = SubSeq(log, 1, n)]
    /\ UNCHANGED <<log, closed, low>>

Next == Publish \/ Close \/ \E c \in Consumers : BeginRead(c) \/ EndRead(c)

Spec == Init /\ [][Next]_vars
=============================================================================
