--------------------------- MODULE ClientSharing ----------------------------
(***************************************************************************)
(* Which clients are connected to a session: hello_oked and handle_sharing *)
(* in xpra/server/base.py, and the fence that keeps a superseded Catlink   *)
(* projection from coming back (xpra/server/catlink_ownership.py).         *)
(*                                                                         *)
(* A connection is authenticated in a thread of its own, which leaves the  *)
(* rest to the main loop with idle_add.  A connection that closes is       *)
(* reported the same way: the main loop's queue is all that orders the     *)
(* two.  The packets that turn sharing or locking on and off, and the      *)
(* client's own request to disconnect, are handled in the network threads  *)
(* while the main loop may be in the middle of accepting somebody else.    *)
(***************************************************************************)
EXTENDS Integers, Sequences, FiniteSets

CONSTANTS
    Conns,           \* connections (protocols); each one sends one hello
    NoConn,          \* no connection
    Uuids,           \* the uuids of users
    Projections,     \* the catlink-client-uuids, one for each launch
    NoUuid,          \* the empty string, in both
    Caps,            \* the capabilities that a hello may have
    Options,         \* the options that the server may be started with
    Limit,           \* retired_uuids_limit
    MaxToggles       \* bound: sharing and lock toggles

\* kind: a client with windows, a tool without, or a request to detach the others
AllCaps ==
    [kind : {"ui", "tool", "detach"}, uuid : Uuids, projection : Projections,
     share : BOOLEAN, lock : BOOLEAN, steal : BOOLEAN]

AllOptions == [sharing : {"yes", "no", "auto"}, lock : {"yes", "no", "auto"}, exit : BOOLEAN]

ASSUME SharingAssumption ==
    /\ NoConn \notin Conns
    /\ NoUuid \in Uuids \cap Projections
    /\ Caps # {} /\ Caps \subseteq AllCaps
    /\ Options \subseteq AllOptions
    /\ Limit \in Nat /\ MaxToggles \in Nat

VARIABLES
    options,     \* the server's sharing, lock and exit-with-client options
    stage,       \* of each connection: "auth" (the hello is authenticated), "done"
    open,        \* connections whose protocol is not closed
    caps,        \* the capabilities from the hello; toggles change share and lock
    sources,     \* _server_sources: the connections that are clients
    pending,     \* the connection that hello_oked has accepted but not yet added
    idle,        \* calls queued with idle_add: pairs <<call, connection>>
    closing,     \* _closing
    owner,       \* owner_uuid
    retired,     \* retired_uuids
    retiredSet,  \* _retired_uuid_set
    toggles,     \* how many toggles so far
    owners,      \* history: every owner so far
    superseded,  \* history: projections whose client lost the session to another one
    refused      \* history: somebody was told that the last client has exited

fence == <<owner, retired, retiredSet, owners>>
history == <<superseded, refused>>
vars == <<options, stage, open, caps, sources, pending, idle, closing, fence, toggles, history>>

Sharing == options.sharing
Lock == options.lock
ExitWithClient == options.exit

----------------------------------------------------------------------------
\* the connections have been made and their hellos received
Init ==
    /\ options \in Options
    /\ stage = [c \in Conns |-> "auth"]
    /\ open = Conns
    /\ caps = [c \in Conns |-> CHOOSE k \in Caps : TRUE]
    /\ sources = {}
    /\ pending = NoConn
    /\ idle = <<>>
    /\ closing = FALSE
    /\ owner = NoUuid
    /\ retired = <<>>
    /\ retiredSet = {}
    /\ toggles = 0
    /\ owners = <<>>
    /\ superseded = {}
    /\ refused = FALSE

(* The network threads and the authentication thread.                       *)

\* auth_verified passes the hello on, with some capabilities; whether the
\* connection is still open does not matter to it
AuthVerified(c) ==
    /\ stage[c] = "auth"
    /\ stage' = [stage EXCEPT ![c] = "done"]
    /\ \E k \in Caps : caps' = [caps EXCEPT ![c] = k]
    /\ idle' = Append(idle, <<"hello", c>>)
    /\ UNCHANGED <<options, open, sources, pending, closing, fence, toggles, history>>

\* is c a client, or may it become one?  Losing another connection changes nothing.
Concerned(c) ==
    c \in sources \/ c = pending \/ stage[c] = "auth" \/ \E i \in 1..Len(idle) : idle[i] = <<"hello", c>>

\* Protocol.close(): the peer went away, or the last packet has been flushed
Close(c) ==
    /\ c \in open /\ Concerned(c)
    /\ open' = open \ {c}
    /\ idle' = Append(idle, <<"lost", c>>)
    /\ UNCHANGED <<options, stage, caps, sources, pending, closing, fence, toggles, history>>

----------------------------------------------------------------------------
(* Losing clients.                                                          *)

\* cleanup_protocol for each of D; `queue` is what is queued already
Cleanup(D, queue) ==
    LET gone == D \cap sources
    IN  /\ sources' = sources \ gone
        /\ idle' = IF gone # {} /\ sources = gone
                   THEN Append(queue, <<"last", NoConn>>) ELSE queue

\* disconnect_client, which does nothing to a closed connection
disconnect_client(D, queue) == Cleanup(D \cap open, queue)

\* the main loop takes its next call
Call(name, c) == pending = NoConn /\ idle # <<>> /\ Head(idle) = <<name, c>>

ConnectionLost(c) ==
    /\ Call("lost", c)
    /\ Cleanup({c}, Tail(idle))
    /\ UNCHANGED <<options, stage, open, caps, pending, closing, fence, toggles, history>>

\* last_client_exited, and clean_quit, which disconnects whoever is there
LastClientExited ==
    /\ Call("last", NoConn)
    /\ closing' = (closing \/ ExitWithClient)
    /\ Cleanup(IF closing' /\ ~closing THEN sources ELSE {}, Tail(idle))
    /\ UNCHANGED <<options, stage, open, caps, pending, fence, toggles, history>>

\* _process_disconnect
ClientDisconnect(c) ==
    /\ c \in open /\ c \in sources
    /\ Cleanup({c}, idle)
    /\ UNCHANGED <<options, stage, open, caps, pending, closing, fence, toggles, history>>

----------------------------------------------------------------------------
(* handle_sharing.                                                          *)

Ui(c) == caps[c].kind = "ui"

SameUuid(c, d) == caps[c].uuid # NoUuid /\ caps[d].uuid = caps[c].uuid

will_share_with(c, d) ==
    /\ ~SameUuid(c, d)
    /\ Sharing = "yes" \/ (Sharing = "auto" /\ caps[c].share /\ caps[d].share)

\* the clients that a new one shares the session with, and those that it replaces
SharedWith(c) == {d \in sources : Ui(c) /\ Ui(d) /\ will_share_with(c, d)}

Replaced(c) == {d \in sources : Ui(c) /\ Ui(d) /\ ~will_share_with(c, d)}

\* mutant: only when there is no client
FencingAlone(c) == Ui(c) /\ sources = {}

\* catlink_fencing
Fencing(c) == Ui(c) /\ SharedWith(c) = {}

is_retired(c) == caps[c].projection # NoUuid /\ caps[c].projection \in retiredSet

\* is the session locked against c?
SessionBusy(c) ==
    /\ sources # {}
    /\ ~\E d \in sources : SameUuid(c, d)
    /\ ~(Sharing = "yes" \/ (Sharing = "auto" /\ caps[c].share /\ \A d \in sources : caps[d].share))
    /\ Lock = "yes" \/ (Lock = "auto" /\ \E d \in sources : caps[d].lock)

\* the last Limit elements of a sequence
Newest(list) ==
    IF Len(list) > Limit THEN SubSeq(list, Len(list) - Limit + 1, Len(list)) ELSE list

Oldest(list) == {list[i] : i \in 1..(Len(list) - Limit)}

\* mutant: forgets to discard the oldest one from the set
acceptNoDiscard(uuid) ==
    \/ (uuid = NoUuid \/ uuid = owner) /\ UNCHANGED fence
    \/ /\ uuid # NoUuid /\ uuid # owner
       /\ IF owner = NoUuid \/ Limit = 0 THEN UNCHANGED <<retired, retiredSet>>
          ELSE retired' = Newest(Append(retired, owner)) /\ retiredSet' = retiredSet \cup {owner}
       /\ owner' = uuid /\ owners' = Append(owners, uuid)

\* CatlinkProjectionOwnership.accept
accept(uuid) ==
    \/ /\ uuid = NoUuid \/ uuid = owner
       /\ UNCHANGED fence
    \/ /\ uuid # NoUuid /\ uuid # owner
       /\ IF owner = NoUuid \/ Limit = 0 THEN UNCHANGED <<retired, retiredSet>>
          ELSE LET list == Append(retired, owner)
               IN  /\ retired' = Newest(list)
                   /\ retiredSet' = (retiredSet \cup {owner}) \ Oldest(list)
       /\ owner' = uuid
       /\ owners' = Append(owners, uuid)

----------------------------------------------------------------------------
(* hello_oked, by its outcomes.  A locked session tells a detach request    *)
(* that it is busy, but goes on to treat it like any other hello.           *)

Hello(c) == Call("hello", c)
Detaching(c) == caps[c].kind = "detach" /\ Lock # "yes"

\* mutant: does not look for a superseded projection
RejectedUnfenced(c) == (~caps[c].steal /\ sources # {}) \/ SessionBusy(c)

\* is the hello turned away without anybody being disconnected?
Rejected(c) ==
    \/ ~caps[c].steal /\ sources # {}
    \/ Fencing(c) /\ is_retired(c)
    \/ SessionBusy(c)

\* the hello takes the session from the last client of a server that exits with it
Exiting(c) == Replaced(c) # {} /\ SharedWith(c) = {} /\ ExitWithClient

HelloRejected(c) ==
    /\ Hello(c)
    /\ closing \/ (~Detaching(c) /\ Rejected(c))
    /\ idle' = Tail(idle)
    /\ UNCHANGED <<options, stage, open, caps, sources, pending, closing, fence, toggles, history>>

HelloDetach(c) ==
    /\ Hello(c) /\ ~closing /\ Detaching(c)
    /\ disconnect_client({d \in sources : ~caps[d].lock}, Tail(idle))
    /\ UNCHANGED <<options, stage, open, caps, pending, closing, fence, toggles, history>>

HelloRefused(c) ==
    /\ Hello(c) /\ ~closing /\ ~Detaching(c) /\ ~Rejected(c) /\ Exiting(c)
    /\ disconnect_client(Replaced(c), Tail(idle))
    /\ refused' = TRUE
    /\ UNCHANGED <<options, stage, open, caps, pending, closing, fence, toggles, superseded>>

\* the projections that lose the session to that of c
Losers(c) ==
    IF Fencing(c) /\ caps[c].projection # NoUuid
    THEN {caps[d].projection : d \in Replaced(c) \cap open} \ {NoUuid, caps[c].projection}
    ELSE {}

HelloAccepted(c) ==
    /\ Hello(c) /\ ~closing /\ ~Detaching(c) /\ ~Rejected(c) /\ ~Exiting(c)
    /\ disconnect_client(Replaced(c), Tail(idle))
    /\ IF Fencing(c) THEN accept(caps[c].projection) ELSE UNCHANGED fence
    /\ superseded' = superseded \cup Losers(c)
    /\ pending' = c
    /\ UNCHANGED <<options, stage, open, caps, closing, toggles, refused>>

\* the rest of hello_oked: the client is added, whatever happened meanwhile
Register(c) ==
    /\ pending = c
    /\ sources' = sources \cup {c}
    /\ idle' = Append(idle, <<"hello_ui", c>>)
    /\ pending' = NoConn
    /\ UNCHANGED <<options, stage, open, caps, closing, fence, toggles, history>>

\* process_hello_ui; on an error, or when the server is closing, out it goes
HelloUI(c) ==
    /\ Call("hello_ui", c)
    /\ \E failed \in BOOLEAN :
          disconnect_client(IF closing \/ failed THEN {c} ELSE {}, Tail(idle))
    /\ UNCHANGED <<options, stage, open, caps, pending, closing, fence, toggles, history>>

----------------------------------------------------------------------------
(* The toggles, in the network thread of the client's connection.           *)

SharingToggle(c) ==
    /\ Sharing = "auto" /\ c \in open /\ c \in sources /\ toggles < MaxToggles
    /\ \E v \in BOOLEAN :
          /\ caps' = [caps EXCEPT ![c].share = v]
          /\ disconnect_client(IF v THEN {} ELSE sources \ {c}, idle)
    /\ toggles' = toggles + 1
    /\ UNCHANGED <<options, stage, open, pending, closing, fence, history>>

LockToggle(c) ==
    /\ Lock = "auto" /\ c \in open /\ c \in sources /\ toggles < MaxToggles
    /\ \E v \in BOOLEAN : caps' = [caps EXCEPT ![c].lock = v]
    /\ toggles' = toggles + 1
    /\ UNCHANGED <<options, stage, open, sources, pending, idle, closing, fence, history>>

\* the connections are all used up and nothing is queued
Done ==
    idle = <<>> /\ pending = NoConn /\ \A c \in Conns : stage[c] = "done" /\ (Concerned(c) => c \notin open)

Next ==
    \/ \E c \in Conns :
          \/ AuthVerified(c) \/ Close(c)
          \/ ConnectionLost(c) \/ ClientDisconnect(c)
          \/ HelloRejected(c) \/ HelloDetach(c) \/ HelloRefused(c) \/ HelloAccepted(c)
          \/ Register(c) \/ HelloUI(c)
          \/ SharingToggle(c) \/ LockToggle(c)
    \/ LastClientExited

Spec == Init /\ [][Next]_vars

----------------------------------------------------------------------------
(* Properties.                                                              *)

\* Every variable keeps the shape that the code gives it.
TypeOK ==
    /\ options \in AllOptions
    /\ stage \in [Conns -> {"auth", "done"}]
    /\ caps \in [Conns -> AllCaps]
    /\ open \subseteq Conns /\ sources \subseteq Conns /\ pending \in Conns \cup {NoConn}
    /\ idle \in Seq(({"hello", "hello_ui", "lost"} \X Conns) \cup {<<"last", NoConn>>})
    /\ {closing, refused} \subseteq BOOLEAN
    /\ owner \in Projections /\ retired \in Seq(Projections) /\ retiredSet \subseteq Projections
    /\ toggles \in 0..MaxToggles
    /\ owners \in Seq(Projections) /\ superseded \subseteq Projections

\* The list of retired projections and the set that is_retired looks into hold
\* the same ones, each once, no more than the limit, and never the owner.  The
\* class does not see to this: accept() of a retired projection breaks it, and
\* only handle_sharing keeps those away.
FenceSound ==
    /\ Len(retired) <= Limit
    /\ retiredSet = {retired[i] : i \in 1..Len(retired)}
    /\ \A i, j \in 1..Len(retired) : retired[i] = retired[j] => i = j
    /\ owner \notin retiredSet
    /\ NoUuid \notin retiredSet

\* A projection that owned the session never owns it again, until the session has
\* had more owners since than the limit (catlink_ownership.py, handle_sharing).
NeverReclaimed ==
    \A i \in 1..(Len(owners) - 1) :
        i >= Len(owners) - Limit - 1 => owners[i] # owners[Len(owners)]

\* A projection that lost the session to a newer one stays out, until the fence
\* has had to forget somebody.
SupersededStaysOut == Len(owners) <= Limit + 2 => owner \notin superseded

\* Two clients with windows are connected at the same time only if they have
\* different uuids, and the server shares, or lets them decide and both agree.
PairwiseShared ==
    \A c, d \in sources \cap open :
        c # d /\ Ui(c) /\ Ui(d) => will_share_with(c, d)

\* In a session that is not shared, the projection that is connected is the
\* owner's: nobody else's launch is ever on the screen.
OwnerIsSession ==
    Sharing = "no" =>
        \A c \in sources \cap open :
            Ui(c) /\ caps[c].projection # NoUuid => caps[c].projection = owner

\* A client that has the session locked is not disconnected for a new client,
\* unless that one is the same user's.
LockHolds ==
    [][pending' # pending /\ pending' # NoConn =>
          \A d \in sources \ sources' :
              Lock = "yes" \/ (Lock = "auto" /\ caps[d].lock) => SameUuid(pending', d)]_vars

\* The server does not accept a connection when it is going to exit with the
\* last client: when it exits, there is none.
ExitOnlyWhenEmpty == [][~closing /\ closing' => sources = {}]_vars

\* The server terminates when the last client disconnects: once every connection
\* is closed and the main loop has nothing left to do, it is.
ServerExits == ExitWithClient /\ Done /\ sources # {} => closing

\* Whoever is told "last client has exited" is told the truth: once the main loop
\* has nothing left to do, the server is closing.
RefusedMeansExit ==
    refused /\ idle = <<>> /\ pending = NoConn /\ sources \subseteq open => closing
=============================================================================
