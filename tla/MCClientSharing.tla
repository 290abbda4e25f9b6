--------------------------- MODULE MCClientSharing --------------------------
(* Small sets of hellos, one for each question.                             *)
EXTENDS ClientSharing, TLC

MCUuids == {"", "alice", "bob"}
MCProjections == {"", "p1", "p2", "p3"}
MCNoUuid == ""

Plain == [kind |-> "ui", uuid |-> "alice", projection |-> "", share |-> FALSE,
          lock |-> FALSE, steal |-> TRUE]
Tool == [Plain EXCEPT !.kind = "tool", !.uuid = "bob"]

\* two launches that share and one that does not
MCLaunches ==
    {[Plain EXCEPT !.projection = "p1", !.share = TRUE],
     [Plain EXCEPT !.projection = "p2", !.share = TRUE, !.uuid = "bob"],
     [Plain EXCEPT !.projection = "p3"]}

\* two users, who share or not, a tool and a detach request
MCUsers ==
    {[Plain EXCEPT !.uuid = u, !.share = s] : u \in {"alice", "bob"}, s \in BOOLEAN}
    \cup {Tool, [Tool EXCEPT !.kind = "detach"]}

\* clients that lock the session, ask before they take it or detach the others
MCLockers ==
    {[Plain EXCEPT !.lock = l] : l \in BOOLEAN}
    \cup {[Plain EXCEPT !.uuid = "bob"], [Plain EXCEPT !.steal = FALSE],
          [Tool EXCEPT !.kind = "detach"], Tool}

\* a client and a tool
MCOne == {Plain, Tool}

\* a bit of everything
MCMixed ==
    {[Plain EXCEPT !.projection = "p1", !.share = TRUE],
     [Plain EXCEPT !.projection = "p2", !.share = TRUE, !.uuid = "bob"],
     [Plain EXCEPT !.projection = "p3", !.lock = TRUE],
     [Tool EXCEPT !.kind = "detach"]}

\* the clients decide, or only one of them is let in
MCShared == {[sharing |-> "auto", lock |-> "auto", exit |-> e] : e \in BOOLEAN}
MCOptions == MCShared \cup {[sharing |-> "no", lock |-> l, exit |-> FALSE] : l \in {"yes", "no"}}
MCFree == {[sharing |-> "auto", lock |-> "no", exit |-> FALSE]}
MCExit == {[sharing |-> "no", lock |-> "no", exit |-> TRUE]}

Symmetric == Permutations(Conns)
=============================================================================
