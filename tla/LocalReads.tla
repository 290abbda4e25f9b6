----------------------------- MODULE LocalReads -----------------------------
(***************************************************************************)
(* What reading the selection of a local application promises to the code  *)
(* that calls get_contents (the tokens of the proxy, the requests of the   *)
(* peer): X11Reads implements it.                                          *)
(***************************************************************************)
EXTENDS Integers

CONSTANTS
    Readers,   \* calls to get_contents
    MaxCopies  \* bound: copies made by applications

VARIABLES
    made,      \* copies made so far: they are numbered
    known,     \* the last one that the proxy has been told of
    outcome,   \* of each read: "idle", "pending", "empty", "data"
    oldest,    \* the oldest copy that its data comes from
    closed     \* the proxy is no more

vars == <<made, known, outcome, oldest, closed>>

Init ==
    /\ made = 0 /\ known = 0
    /\ outcome = [r \in Readers |-> "idle"]
    /\ oldest = [r \in Readers |-> 0]
    /\ closed = FALSE

Copy ==
    /\ made < MaxCopies
    /\ made' = made + 1
    /\ UNCHANGED <<known, outcome, oldest, closed>>

\* the reads that are pending end without data when the proxy hears of another copy, or
\* of another owner
Notice ==
    /\ ~closed
    /\ known' \in known..made
    /\ outcome' = [r \in Readers |-> IF outcome[r] = "pending" THEN "empty" ELSE outcome[r]]
    /\ UNCHANGED <<made, oldest, closed>>

Ask(r) ==
    /\ outcome[r] = "idle"
    /\ outcome' = [outcome EXCEPT ![r] = "pending"]
    /\ UNCHANGED <<made, known, oldest, closed>>

\* reads end, once, with data that is no older than the copy that the proxy knows
Finish(S) ==
    /\ ~closed
    /\ S # {} /\ \A r \in S : outcome[r] \in {"idle", "pending"}
    /\ \E k \in known..made, result \in {"empty", "data"} :
          /\ outcome' = [r \in Readers |-> IF r \in S THEN result ELSE outcome[r]]
          /\ oldest' = [r \in Readers |-> IF r \in S /\ result = "data" THEN k ELSE oldest[r]]
    /\ UNCHANGED <<made, known, closed>>

Close ==
    /\ closed' = TRUE
    /\ UNCHANGED <<made, known, outcome, oldest>>

Next ==
    \/ Copy
    \/ Notice
    \/ \E r \in Readers : Ask(r)
    \/ \E S \in SUBSET Readers : Finish(S)
    \/ Close

\* every read that is pending ends, until the proxy is closed
Spec ==
    /\ Init /\ [][Next]_vars
    /\ \A r \in Readers : WF_vars(outcome[r] = "pending" /\ (Notice \/ \E S \in SUBSET Readers : r \in S /\ Finish(S)))
=============================================================================
