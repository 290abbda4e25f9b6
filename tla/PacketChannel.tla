--------------------------- MODULE PacketChannel ----------------------------
(***************************************************************************)
(* What a connection promises to the code that handles packets: those that *)
(* were sent arrive whole, once, in the order in which they were sent,     *)
(* until the connection is closed.  The one that was taken before that is  *)
(* still handled, and is the last.  SocketInput implements it.             *)
(***************************************************************************)
EXTENDS Integers, Sequences

VARIABLES
    packets, \* those that the other end sends, in order
    sent,    \* how many of them have been sent
    taken,   \* those that have been taken from the connection,
    handled, \* and how many of these have been handled
    open

vars == <<packets, sent, taken, handled, open>>

Init == sent = 0 /\ taken = <<>> /\ handled = 0 /\ open = TRUE

Send ==
    /\ sent < Len(packets)
    /\ sent' = sent + 1
    /\ UNCHANGED <<packets, taken, handled, open>>

\* one at a time
Take ==
    /\ open /\ handled = Len(taken) /\ Len(taken) < sent
    /\ taken' = Append(taken, packets[Len(taken) + 1])
    /\ UNCHANGED <<packets, sent, handled, open>>

Handle ==
    /\ handled < Len(taken)
    /\ handled' = handled + 1
    /\ UNCHANGED <<packets, sent, taken, open>>

Close ==
    /\ open
    /\ open' = FALSE
    /\ UNCHANGED <<packets, sent, taken, handled>>

Next == Send \/ Take \/ Handle \/ Close

\* what was sent is taken, unless the connection is closed, and what was taken is handled
Spec == Init /\ [][Next]_vars /\ WF_vars(Take) /\ WF_vars(Handle)
=============================================================================
